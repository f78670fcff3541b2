-------------------------- MODULE MCRestoreTransfer --------------------------
(***************************************************************************)
(* The restoration with two plans of different sources, one of whose       *)
(* chunks the card already holds; what the host derives from a backup; and *)
(* a modified image.  They are checked side by side: part says which of    *)
(* them moves.                                                             *)
(***************************************************************************)
EXTENDS RestoreTransfer

CONSTANT MaxMeddles
VARIABLES part,
  content, stamp, name, records, meddles, exchanged, owner, reviewed, pass, opened, seen,
  ranges, manifest, image, copied, checks, done, passed,
  bytes, stamps, changes, flow, agreed, reading, openStamps, looked, base, sealed, prepared,
  checkedOn, health, compiled, given, delivered

S == INSTANCE BackupSource WITH sent <- passed
D == INSTANCE Derivative WITH
       stamp <- stamps, reviewed <- agreed, pass <- reading, opened <- openStamps, seen <- looked,
       manifest <- sealed, plan <- compiled, sent <- given, MaxChanges <- MaxMeddles

source == <<content, stamp, name, records, meddles, exchanged, owner, reviewed, pass, opened, seen,
            ranges, manifest, image, copied, checks, done, passed>>
derivative == <<bytes, stamps, changes, flow, agreed, reading, openStamps, looked, base, sealed,
                prepared, checkedOn, health, compiled, given, delivered>>

MCInit ==
  /\ part \in {"restore", "source", "derivative"}
  /\ Init /\ S!Init /\ D!Init
  /\ part # "derivative" => bytes["image"] = D!Original
MCNext ==
  \/ part = "restore" /\ Next /\ UNCHANGED <<part, source, derivative>>
  \/ part = "source" /\ S!Next /\ UNCHANGED <<part, vars, derivative>>
  \/ part = "derivative" /\ D!Next /\ UNCHANGED <<part, vars, source>>
MCSpec == MCInit /\ [][MCNext]_<<part, vars, source, derivative>>

DerivedIsTheBackup == S!DerivedIsTheBackup
DeployedIsQualified == D!DeployedIsQualified

TwoPlans == {"p", "q"}
Blank == <<"zero", "old">>
Archives == [p |-> <<"zero", "a">>, q |-> <<"b", "old">>]
=============================================================================
