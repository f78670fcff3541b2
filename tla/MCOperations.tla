---------------------------- MODULE MCOperations ----------------------------
(***************************************************************************)
(* Two to three attempts and one more call than attempts at least: an      *)
(* apply that times out with its worker still travelling, a fence, a       *)
(* restore, and a power loss or a crash anywhere in between.  Beside it a  *)
(* plan that creates one file, replaces one and removes one; and in the    *)
(* guest of an emulator two operations in a row (job, upload or clean      *)
(* stop) with a script of up to three processes.  They are checked side by *)
(* side: part says which of them moves.                                    *)
(***************************************************************************)
EXTENDS ImageOperation

CONSTANTS
  Count, Before, After, Absent, Other, Edited, MaxDispatches,  \* the plan of files
  Leader, Child, MaxOps, None                                   \* the guest's script
VARIABLES part, last, events, waiting, asked, answer, worker, pos, stage, dest, durable, marks,
          op, doing, running, parts, verdict, cancel, requested, latch, ops, vm, shell, line,
          dir, cancelFile, result, supervisor, reason, seen, members, born

\* A file that is created, one that is replaced and one that is removed.
MCBefore == <<Absent, "old", "old">>
MCAfter == <<"new", "new", Absent>>
F == INSTANCE FileTransition WITH
       LateStart <- FALSE, MaxCalls <- MaxDispatches, journal <- events, reply <- answer,
       owner <- worker, onDisk <- durable, scratch <- marks
ASSUME FilesAssumption == F!PlanAssumption

G == INSTANCE GuestJob WITH
       at <- doing, waiting <- running, reply <- line, worker <- supervisor
ASSUME GuestAssumption == G!GuestJobAssumption

transition == <<last, events, waiting, asked, answer, worker, pos, stage, dest, durable, marks>>
guestJob == <<op, doing, running, parts, verdict, cancel, requested, latch, ops, vm, shell, line,
              dir, cancelFile, result, supervisor, reason, seen, members, born>>

MCInit == part \in {"image", "files", "guest"} /\ Init /\ F!Init /\ G!Init
MCNext ==
  \/ part = "image" /\ Next /\ UNCHANGED <<part, transition, guestJob>>
  \/ part = "files" /\ F!Next /\ UNCHANGED <<part, vars, guestJob>>
  \/ part = "guest" /\ G!Next /\ UNCHANGED <<part, vars, transition>>
MCSpec == MCInit /\ [][MCNext]_<<part, vars, transition, guestJob>> /\ G!Fairness

FilesAsAcknowledged == F!FilesAsAcknowledged
OneLineAtATime == G!OneLineAtATime
EveryOperationEnds == G!EveryOperationEnds
=============================================================================
