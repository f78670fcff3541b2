----------------------------- MODULE MCStaging -----------------------------
(***************************************************************************)
(* The staged files of two phases, a file that is named and the selector   *)
(* that names it, over three boots: the prepared one, the one that is      *)
(* cleaned up in, and the one whose mount shows the restored fstab.        *)
(* Beside it two jobs that read the card, in two boots.  They are checked  *)
(* side by side: part says which of them moves.                            *)
(***************************************************************************)
EXTENDS Staging

CONSTANTS Jobs, first, second, MaxBoots, MaxWrites  \* the jobs that read the card, and the two checked
VARIABLES part,
  card, now, recovery, holder, writes, kind, of, caller, reader, read, receipt, copy, snap, told

B == INSTANCE Backup WITH
       boot <- now, host <- caller, worker <- reader, file <- copy,
       accepted <- told

ASSUME StorageAssumption == B!JobsAssumption

storage == <<card, now, recovery, holder, writes, kind, of, caller, reader, read, receipt, copy, snap, told>>

\* The jobs are alike but for their kind, so one order of each pair is enough, and
\* they meet in what they claim only, where the digests and the card are alike.
Pairs == {<<"storage-hash", "whole-card-bytes">>, <<"storage-hash", "root-partition-bytes">>,
          <<"whole-card-bytes", "root-partition-bytes">>,
          <<"root-partition-bytes", "root-partition-bytes">>}

MCInit ==
  /\ part \in {"staging", "storage"} /\ Init /\ B!Init
  /\ <<kind[first], kind[second]>> \in Pairs
  /\ part = "staging" => kind[second] = "whole-card-bytes"
MCNext ==
  \/ part = "staging" /\ Next /\ UNCHANGED <<part, storage>>
  \/ part = "storage" /\ B!Next /\ UNCHANGED <<part, vars>>
MCSpec == MCInit /\ [][MCNext]_<<part, vars, storage>>

SnapshotIsWhole == B!SnapshotIsWhole
=============================================================================
