------------------------------ MODULE Workspace ------------------------------
(***************************************************************************)
(* One emulator workspace on the host (forge_workspace.py, forge_boot.py,   *)
(* the launch and release of forge_runtime.py): the files a guest boots     *)
(* from, its checkpoints, the journaled restore and the lock that every     *)
(* forge process takes and every QEMU inherits.                             *)
(*                                                                          *)
(* A file's content is the version of the disk it belongs to: the guest     *)
(* writes new versions of disk.qcow2, and a boot artifact carries the       *)
(* version it was extracted from.  Directory operations are volatile until  *)
(* their directory is synchronized: wsLog and cpLog are the states of the   *)
(* workspace directory and of checkpoints/ that a power loss may leave.     *)
(* Operations on one directory reach the disk in their order.               *)
(***************************************************************************)
EXTENDS Naturals, Sequences, FiniteSets

CONSTANTS
  Proc,        \* forge processes: CLI calls, Workbench, controllers
  Names,       \* checkpoint names users give
  Safety,      \* before-restore-<uuid>: a name is fresh when it is taken
  Disk,        \* disk.qcow2
  Artifacts,   \* the sequence of the other names of FILES
  MaxVersion,  \* bound on the versions of the disk
  None

ASSUME WorkspaceAssumption ==
  /\ MaxVersion \in Nat
  /\ Artifacts \in Seq(STRING)
  /\ Disk \notin {Artifacts[i] : i \in DOMAIN Artifacts}
  /\ Names \cap Safety = {}

VARIABLES
  ws,      \* the workspace directory: its files, the staged ones, the journal
  cp,      \* checkpoints/: the complete ones, by name
  wsLog,   \* what a power loss may leave of ws
  cpLog,   \* what a power loss may leave of cp
  lock,    \* open descriptors of the locked .forge.lock
  vm,      \* processes whose QEMU child runs
  pc,      \* where each process is in its operation
  job,     \* what each process was asked
  scratch, \* what each process holds: a staged checkpoint, a boot refresh
  newest,  \* the newest version of the disk
  told     \* checkpoints reported as made, with their files

vars == <<ws, cp, wsLog, cpLog, lock, vm, pc, job, scratch, newest, told>>

-----------------------------------------------------------------------------
Files == <<Disk>> \o Artifacts
File == {Files[i] : i \in DOMAIN Files}
Version == 0 .. MaxVersion
Contents == [File -> Version]

Jobs == [op : {"checkpoint"}, name : Names]
          \cup [op : {"restore"}, name : Names \cup Safety]
          \cup [op : {"recover", "refresh", "run"}, name : {None}]

Journals == [checkpoint : Names \cup Safety, files : Contents]

Init ==
  /\ ws = [files |-> [f \in File |-> 0], stage |-> <<>>, journal |-> None]
  /\ cp = <<>>
  /\ wsLog = {ws}
  /\ cpLog = {cp}
  /\ lock = {}
  /\ vm = {}
  /\ pc = [p \in Proc |-> "idle"]
  /\ job = [p \in Proc |-> None]
  /\ scratch = [p \in Proc |-> None]
  /\ newest = 0
  /\ told = <<>>

Go(p, where) == pc' = [pc EXCEPT ![p] = where]

\* Mutation: a release that unlocks.
LeaveUnlocking(p) ==
  /\ pc' = [pc EXCEPT ![p] = "idle"]
  /\ job' = [job EXCEPT ![p] = None]
  /\ scratch' = [scratch EXCEPT ![p] = None]
  /\ lock' = {}

\* close() gives up the descriptor, never the lock: a QEMU may have inherited it.
Leave(p) ==
  /\ pc' = [pc EXCEPT ![p] = "idle"]
  /\ job' = [job EXCEPT ![p] = None]
  /\ scratch' = [scratch EXCEPT ![p] = None]
  /\ lock' = lock \ {<<p, "launcher">>}

ChangeWorkspace(new) == ws' = new /\ wsLog' = wsLog \cup {new}
SyncWorkspace == wsLog' = {ws}
\* Mutation: no synchronization of checkpoints/.
SyncCheckpointsLater == UNCHANGED cpLog

SyncCheckpoints == cpLog' = {cp}

SameFiles == UNCHANGED <<ws, cp, wsLog, cpLog>>
SameCheckpoints == UNCHANGED <<cp, cpLog>>
SameWorkspace == UNCHANGED <<ws, wsLog>>
SameGuest == UNCHANGED <<vm, newest>>
SameLock == UNCHANGED <<lock, job>>

-----------------------------------------------------------------------------
\* Mutation: no barrier.
AdmittedAlways(j) == TRUE

\* The restore barrier is checked under the lock; only recover passes it.
Admitted(j) == j.op = "recover" \/ ws.journal = None

Enter(p, j) ==
  /\ pc[p] = "idle"
  /\ lock = {}
  /\ Admitted(j)
  /\ Go(p, "start")
  /\ job' = [job EXCEPT ![p] = j]
  /\ lock' = {<<p, "launcher">>}
  /\ UNCHANGED <<scratch, told>> /\ SameFiles /\ SameGuest

-----------------------------------------------------------------------------
(* Checkpoint, also the safety checkpoint of a restore.                    *)

\* The set of checkpoints c with one more, of the name n.
With(c, n, files) == [m \in DOMAIN c \cup {n} |-> IF m = n THEN files ELSE c[m]]

\* The name must be free and qemu-img must get the image lock; a restore
\* has verified the checkpoint it was asked for.
StageCheckpoint(p) ==
  /\ pc[p] = "start"
  /\ vm = {}
  /\ \E n \in IF job[p].op = "checkpoint" THEN {job[p].name} ELSE Safety :
       /\ n \notin DOMAIN cp
       /\ scratch' = [scratch EXCEPT ![p] = [name |-> n, files |-> ws.files]]
  /\ \/ job[p].op = "checkpoint"
     \/ job[p].op = "restore" /\ job[p].name \in DOMAIN cp
  /\ Go(p, "staged")
  /\ UNCHANGED told /\ SameLock /\ SameFiles /\ SameGuest

PublishCheckpoint(p) ==
  /\ pc[p] = "staged"
  /\ cp' = With(cp, scratch[p].name, scratch[p].files)
  /\ cpLog' = cpLog \cup {cp'}
  /\ Go(p, "published")
  /\ UNCHANGED <<scratch, told>> /\ SameLock /\ SameWorkspace /\ SameGuest

SyncCheckpoint(p) ==
  /\ pc[p] = "published"
  /\ SyncCheckpoints
  /\ IF job[p].op = "checkpoint"
     THEN /\ told' = With(told, scratch[p].name, scratch[p].files)
          /\ Leave(p)
     ELSE Go(p, "saved") /\ UNCHANGED <<told, scratch>> /\ SameLock
  /\ UNCHANGED cp /\ SameWorkspace /\ SameGuest

-----------------------------------------------------------------------------
(* Restore and recover.                                                    *)

StageRestore(p) ==
  /\ pc[p] = "saved"
  /\ ChangeWorkspace([ws EXCEPT !.stage = cp[job[p].name]])
  /\ Go(p, "copied")
  /\ UNCHANGED <<scratch, told>> /\ SameLock /\ SameCheckpoints /\ SameGuest

WriteJournal(p) ==
  /\ pc[p] = "copied"
  /\ ChangeWorkspace([ws EXCEPT !.journal = [checkpoint |-> job[p].name,
                                             files |-> cp[job[p].name]]])
  /\ Go(p, "journaled")
  /\ UNCHANGED <<scratch, told>> /\ SameLock /\ SameCheckpoints /\ SameGuest

SyncJournal(p) ==
  /\ pc[p] = "journaled"
  /\ SyncWorkspace
  /\ Go(p, "finish")
  /\ UNCHANGED <<scratch, told, ws>> /\ SameLock /\ SameCheckpoints /\ SameGuest

BeginRecover(p) ==
  /\ pc[p] = "start"
  /\ job[p].op = "recover"
  /\ IF ws.journal = None THEN Leave(p)
     ELSE Go(p, "finish") /\ UNCHANGED scratch /\ SameLock
  /\ UNCHANGED told /\ SameFiles /\ SameGuest

\* Every file is already replaced or still staged, as the journal has it.
Matches(w) ==
  \A f \in File :
     (IF f \in DOMAIN w.stage THEN w.stage[f] ELSE w.files[f]) = w.journal.files[f]

VerifyRestore(p) ==
  /\ pc[p] = "finish"
  /\ IF Matches(ws) THEN Go(p, "replace") /\ UNCHANGED scratch /\ SameLock
     ELSE Leave(p)
  /\ UNCHANGED told /\ SameFiles /\ SameGuest

Staged == {i \in DOMAIN Files : Files[i] \in DOMAIN ws.stage}

ReplaceNext(p) ==
  /\ pc[p] = "replace"
  /\ \E i \in Staged :
       /\ \A j \in Staged : i <= j
       /\ ChangeWorkspace([ws EXCEPT
            !.files[Files[i]] = ws.stage[Files[i]],
            !.stage = [f \in DOMAIN ws.stage \ {Files[i]} |-> ws.stage[f]]])
  /\ UNCHANGED <<pc, scratch, told>> /\ SameLock /\ SameCheckpoints /\ SameGuest

SyncReplaced(p) ==
  /\ pc[p] = "replace"
  /\ Staged = {}
  /\ SyncWorkspace
  /\ Go(p, "unlink")
  /\ UNCHANGED <<scratch, told, ws>> /\ SameLock /\ SameCheckpoints /\ SameGuest

RemoveJournal(p) ==
  /\ pc[p] = "unlink"
  /\ ChangeWorkspace([ws EXCEPT !.journal = None])
  /\ Go(p, "unlinked")
  /\ UNCHANGED <<scratch, told>> /\ SameLock /\ SameCheckpoints /\ SameGuest

EndRestore(p) ==
  /\ pc[p] = "unlinked"
  /\ SyncWorkspace
  /\ Leave(p)
  /\ UNCHANGED <<told, ws>> /\ SameCheckpoints /\ SameGuest

-----------------------------------------------------------------------------
(* Boot refresh and launch.                                                *)

\* Everything is extracted and validated before the first file is replaced.
ExtractBoot(p) ==
  /\ pc[p] = "start"
  /\ job[p].op \in {"refresh", "run"}
  /\ vm = {}
  /\ scratch' = [scratch EXCEPT ![p] = [from |-> ws.files[Disk], next |-> 1]]
  /\ Go(p, "publish")
  /\ UNCHANGED told /\ SameLock /\ SameFiles /\ SameGuest

PublishBoot(p) ==
  /\ pc[p] = "publish"
  /\ scratch[p].next <= Len(Artifacts)
  /\ ChangeWorkspace([ws EXCEPT
       !.files[Artifacts[scratch[p].next]] = scratch[p].from])
  /\ scratch' = [scratch EXCEPT ![p].next = @ + 1]
  /\ UNCHANGED <<pc, told>> /\ SameLock /\ SameCheckpoints /\ SameGuest

SyncBoot(p) ==
  /\ pc[p] = "publish"
  /\ scratch[p].next > Len(Artifacts)
  /\ SyncWorkspace
  /\ IF job[p].op = "refresh" THEN Leave(p)
     ELSE Go(p, "launch") /\ UNCHANGED scratch /\ SameLock
  /\ UNCHANGED <<told, ws>> /\ SameCheckpoints /\ SameGuest

Launch(p) ==
  /\ pc[p] = "launch"
  /\ vm' = vm \cup {p}
  /\ lock' = lock \cup {<<p, "qemu">>}
  /\ Go(p, "running")
  /\ UNCHANGED <<scratch, told, job, newest>> /\ SameFiles

\* The runtime gives up the workspace only when its child is dead.
Release(p) ==
  /\ pc[p] = "running"
  /\ p \notin vm
  /\ Leave(p)
  /\ UNCHANGED told /\ SameFiles /\ SameGuest

-----------------------------------------------------------------------------
(* The guest, the death of processes and of the host.                      *)

\* Writing changes the content of the file, whatever directory state survives.
GuestWrites(p) ==
  /\ p \in vm
  /\ newest < MaxVersion
  /\ newest' = newest + 1
  /\ ws' = [ws EXCEPT !.files[Disk] = newest']
  /\ wsLog' = {[w EXCEPT !.files[Disk] = newest'] : w \in wsLog}
  /\ UNCHANGED <<lock, vm, pc, job, scratch, told>> /\ SameCheckpoints

GuestEnds(p) ==
  /\ p \in vm
  /\ vm' = vm \ {p}
  /\ lock' = lock \ {<<p, "qemu">>}
  /\ UNCHANGED <<pc, job, scratch, newest, told>> /\ SameFiles

\* An exception, a cancelled image job or a killed process, at any step.
Stops(p) ==
  /\ pc[p] # "idle"
  /\ Leave(p)
  /\ UNCHANGED told /\ SameFiles /\ SameGuest

PowerLoss ==
  /\ ws' \in wsLog /\ wsLog' = {ws'}
  /\ cp' \in cpLog /\ cpLog' = {cp'}
  /\ lock' = {}
  /\ vm' = {}
  /\ pc' = [p \in Proc |-> "idle"]
  /\ job' = [p \in Proc |-> None]
  /\ scratch' = [p \in Proc |-> None]
  /\ UNCHANGED <<newest, told>>

Checkpoint(p) == StageCheckpoint(p) \/ PublishCheckpoint(p) \/ SyncCheckpoint(p)

Restore(p) ==
  \/ StageRestore(p) \/ WriteJournal(p) \/ SyncJournal(p)
  \/ BeginRecover(p) \/ VerifyRestore(p) \/ ReplaceNext(p)
  \/ SyncReplaced(p) \/ RemoveJournal(p) \/ EndRestore(p)

Boot(p) ==
  \/ ExtractBoot(p) \/ PublishBoot(p) \/ SyncBoot(p) \/ Launch(p) \/ Release(p)

Next ==
  \/ \E p \in Proc :
       \/ \E j \in Jobs : Enter(p, j)
       \/ Checkpoint(p) \/ Restore(p) \/ Boot(p)
       \/ GuestWrites(p) \/ GuestEnds(p) \/ Stops(p)
  \/ PowerLoss

Spec == Init /\ [][Next]_vars

-----------------------------------------------------------------------------
TypeOK ==
  LET Stage == UNION {[S -> Version] : S \in SUBSET File}
      WorkspaceStates == [files : Contents, stage : Stage, journal : Journals \cup {None}]
      CheckpointSet(c) == DOMAIN c \subseteq Names \cup Safety
                            /\ \A n \in DOMAIN c : c[n] \in Contents
  IN /\ wsLog \subseteq WorkspaceStates /\ ws \in wsLog
     /\ cp \in cpLog /\ \A c \in cpLog : CheckpointSet(c)
     /\ CheckpointSet(told)
     /\ lock \subseteq Proc \X {"launcher", "qemu"}
     /\ vm \subseteq Proc
     /\ job \in [Proc -> Jobs \cup {None}]
     /\ newest \in Version
     /\ \A p \in Proc : pc[p] = "idle" <=> job[p] = None

\* A pending restore can be finished: recover never meets a file that is
\* neither staged nor replaced as the journal says, whoever was interrupted,
\* recover itself included, and however often.
PendingIsFinishable ==
  \A w \in wsLog : w.journal # None => Matches(w)

\* A disk content goes away only while a checkpoint that a power loss cannot
\* take holds it: the safety checkpoint is durable before the first
\* replacement (restore).
NothingLost ==
  [][ws'.files[Disk] # ws.files[Disk] /\ newest' = newest =>
       \A c \in cpLog' : \E n \in DOMAIN c : c[n][Disk] = ws.files[Disk]]_vars

\* A running guest is alone with its workspace, also when its launcher was
\* killed and QEMU lives on with the inherited lock (WorkspaceLock.close).
GuestAlone ==
  \A p \in vm :
     /\ vm = {p}
     /\ \A q \in Proc : pc[q] # "idle" => q = p /\ pc[q] = "running"

=============================================================================
