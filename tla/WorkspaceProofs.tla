--------------------------- MODULE WorkspaceProofs ---------------------------
(***************************************************************************)
(* For any processes, checkpoint names, artifacts and versions: a running  *)
(* guest is alone, a pending restore can be finished, and no disk content  *)
(* is lost; and for any service transaction, nothing is started or stopped *)
(* twice, and what is acknowledged is the state of the unit.  None of the  *)
(* five is inductive.                                                      *)
(*                                                                         *)
(* A power loss may bring back any state of wsLog with any state of cpLog, *)
(* so what holds of the workspace must hold of every such pair (LogSafe):  *)
(* where two states of the workspace differ in the disk, every surviving   *)
(* state of checkpoints/ holds both contents (Differing), and where a      *)
(* restore is pending, both the old and the staged one (Recoverable).      *)
(* Phases says how far each step has prepared the next, and Locks that a   *)
(* single process, or the QEMU it left behind, is at work.                 *)
(*                                                                         *)
(* For the transaction, an effect that may not be repeated was invoked at  *)
(* most once and only under a durable intent (ServiceActed), and between   *)
(* the intent and the effect not yet (ServiceIntended).  A transaction is  *)
(* always at some place n of the direction it is in (TransactionInv):      *)
(* every earlier phase is done, and, as long as nothing else touched the   *)
(* machine (Steady), unit, link, job and processes are what the plan says  *)
(* of that place (CourseTrue).  That two phases fit each other is what the *)
(* compiler promises of a plan (ServiceTransaction's Coherent).            *)
(***************************************************************************)
EXTENDS MCWorkspace, Integers, WellFoundedInduction, TLAPS

Works(p) == pc[p] # "idle" \/ p \in vm

(* The lock is held as long as a process or its QEMU has a descriptor.     *)
Locks ==
  /\ DOMAIN pc = Proc /\ DOMAIN job = Proc /\ DOMAIN scratch = Proc
  /\ vm \subseteq Proc
  /\ \A p \in Proc : pc[p] # "idle" => <<p, "launcher">> \in lock
  /\ \A p \in Proc : p \in vm => <<p, "qemu">> \in lock
  /\ \A p, q \in Proc : Works(p) /\ Works(q) => p = q
  /\ \A p \in vm : pc[p] \in {"idle", "running"}

(* What a workspace directory looks like.                                  *)
Shape(w) == DOMAIN w = {"files", "stage", "journal"} /\ DOMAIN w.files = File

Saved(c, content) == \E n \in DOMAIN c : c[n][Disk] = content

(* Whatever the replacement of the disk destroys can be had again.         *)
Recoverable(w) ==
  Disk \in DOMAIN w.stage =>
    \A c \in cpLog : Saved(c, w.files[Disk]) /\ Saved(c, w.stage[Disk])

Pending == \A w \in wsLog : w.journal # None => Matches(w) /\ Recoverable(w)

Differing ==
  \A v, w \in wsLog : v.files[Disk] # w.files[Disk] =>
    \A c \in cpLog : Saved(c, v.files[Disk])

Directories ==
  /\ ws \in wsLog /\ cp \in cpLog
  /\ \A w \in wsLog : Shape(w)
  /\ \A c \in cpLog : \A n \in DOMAIN c : DOMAIN c[n] = File

LogSafe == Directories /\ Pending /\ Differing

(* What a process that got so far may rely on.                             *)
Phase(p) ==
  /\ pc[p] = "start" /\ job[p].op # "recover" => ws.journal = None
  /\ pc[p] \in {"staged", "published", "saved", "copied", "publish"} => ws.journal = None
  /\ pc[p] \in {"staged", "published"} =>
       /\ scratch[p].files = ws.files
       /\ job[p].op = "checkpoint" \/ job[p].name \in DOMAIN cp
  /\ pc[p] = "staged" => scratch[p].name \notin DOMAIN cp
  /\ pc[p] = "published" => scratch[p].name \in DOMAIN cp /\ cp[scratch[p].name] = ws.files
  /\ pc[p] \in {"saved", "copied"} =>
       /\ cpLog = {cp}
       /\ job[p].name \in DOMAIN cp
       /\ Saved(cp, ws.files[Disk])
  /\ pc[p] = "copied" => ws.stage = cp[job[p].name]
  /\ pc[p] \in {"journaled", "finish", "replace"} => Recoverable(ws)
  /\ pc[p] = "publish" => DOMAIN scratch[p] = {"from", "next"} /\ scratch[p].next \in Nat \ {0}
  /\ pc[p] \in {"launch", "running"} => \A w \in wsLog : w.journal = None

Phases == \A p \in Proc : Phase(p)

(* A guest that writes finds no restore pending, in no surviving state.    *)
GuestsFree == vm # {} => \A w \in wsLog : w.journal = None

IInv == newest \in Nat /\ Locks /\ LogSafe /\ Phases /\ GuestsFree

-----------------------------------------------------------------------------
(* The files are the disk and the artifacts, which are other files.        *)
LEMMA DiskIsFile == Disk \in File
<1>1. Files \in Seq({Disk} \cup STRING) /\ Len(Files) >= 1 /\ Files[1] = Disk
  BY WorkspaceAssumption DEF Files
<1> QED BY <1>1 DEF File

LEMMA InitIInv == Init => IInv
<1> SUFFICES ASSUME Init PROVE IInv
  OBVIOUS
<1>1. newest \in Nat /\ Locks
  BY DEF Init, Locks, Works
<1>2. LogSafe
  BY DEF Init, LogSafe, Directories, Pending, Differing, Shape
<1>3. Phases /\ GuestsFree
  BY DEF Init, Phases, Phase, GuestsFree
<1> QED BY <1>1, <1>2, <1>3 DEF IInv

-----------------------------------------------------------------------------
(* The lock.  A process that works keeps it, whatever the step is.         *)
LEMMA OneWorks ==
  ASSUME Locks, NEW p \in Proc, Works(p), NEW q \in Proc, q # p
  PROVE  pc[q] = "idle" /\ q \notin vm
  BY DEF Locks, Works

LEMMA LeaveKeepsLocks ==
  ASSUME Locks, NEW p \in Proc, Leave(p), UNCHANGED vm
  PROVE  Locks'
  BY DEF Locks, Works, Leave

LEMMA GoKeepsLocks ==
  ASSUME Locks, NEW p \in Proc, NEW where, pc[p] # "idle", p \notin vm, Go(p, where),
         UNCHANGED <<vm, lock>>, DOMAIN job' = Proc, DOMAIN scratch' = Proc
  PROVE  Locks'
  BY DEF Locks, Works, Go

(* Who is anywhere but idle or running has no guest.                       *)
LEMMA NoGuestYet ==
  ASSUME Locks, NEW p \in Proc, pc[p] \notin {"idle", "running"}
  PROVE  vm = {}
  BY DEF Locks, Works

LEMMA LocksKept == IInv /\ Next => Locks'
<1> SUFFICES ASSUME IInv, Next PROVE Locks'
  OBVIOUS
<1>0. Locks
  BY DEF IInv
<1> USE DEF SameGuest, SameLock, SameFiles
<1>1. ASSUME NEW p \in Proc, NEW j \in Jobs, Enter(p, j) PROVE Locks'
  BY <1>0, <1>1 DEF Enter, Go, Locks, Works
<1>2. ASSUME NEW p \in Proc, Checkpoint(p) PROVE Locks'
  <2>1. CASE StageCheckpoint(p)
    <3>1. DOMAIN scratch' = Proc
      BY <2>1, <1>0 DEF StageCheckpoint, Locks
    <3> QED BY <2>1, <3>1, <1>0, GoKeepsLocks DEF StageCheckpoint, Locks
  <2>2. CASE PublishCheckpoint(p)
    BY <2>2, <1>0, GoKeepsLocks, NoGuestYet DEF PublishCheckpoint, Locks
  <2>3. CASE SyncCheckpoint(p)
    BY <2>3, <1>0, GoKeepsLocks, LeaveKeepsLocks, NoGuestYet DEF SyncCheckpoint, Locks
  <2> QED BY <1>2, <2>1, <2>2, <2>3 DEF Checkpoint
<1>3. ASSUME NEW p \in Proc, Restore(p) PROVE Locks'
  <2>1. CASE StageRestore(p) \/ WriteJournal(p) \/ SyncJournal(p) \/ SyncReplaced(p) \/ RemoveJournal(p)
    BY <2>1, <1>0, GoKeepsLocks, NoGuestYet
       DEF StageRestore, WriteJournal, SyncJournal, SyncReplaced, RemoveJournal, Locks
  <2>2. CASE BeginRecover(p) \/ VerifyRestore(p) \/ EndRestore(p)
    BY <2>2, <1>0, GoKeepsLocks, LeaveKeepsLocks, NoGuestYet DEF BeginRecover, VerifyRestore, EndRestore, Locks
  <2>3. CASE ReplaceNext(p)
    BY <2>3, <1>0 DEF ReplaceNext, Locks, Works
  <2> QED BY <1>3, <2>1, <2>2, <2>3 DEF Restore
<1>4. ASSUME NEW p \in Proc, Boot(p) PROVE Locks'
  <2>1. CASE ExtractBoot(p)
    <3>1. DOMAIN scratch' = Proc
      BY <2>1, <1>0 DEF ExtractBoot, Locks
    <3> QED BY <2>1, <3>1, <1>0, GoKeepsLocks DEF ExtractBoot, Locks
  <2>2. CASE PublishBoot(p)
    <3>1. DOMAIN scratch' = Proc
      BY <2>2, <1>0 DEF PublishBoot, Locks
    <3> QED BY <2>2, <3>1, <1>0 DEF PublishBoot, Locks, Works
  <2>3. CASE SyncBoot(p)
    BY <2>3, <1>0, GoKeepsLocks, LeaveKeepsLocks, NoGuestYet DEF SyncBoot, Locks
  <2>4. CASE Launch(p)
    BY <2>4, <1>0 DEF Launch, Go, Locks, Works
  <2>5. CASE Release(p)
    BY <2>5, <1>0, LeaveKeepsLocks DEF Release
  <2> QED BY <1>4, <2>1, <2>2, <2>3, <2>4, <2>5 DEF Boot
<1>5. ASSUME NEW p \in Proc, GuestWrites(p) PROVE Locks'
  BY <1>5, <1>0 DEF GuestWrites, Locks, Works
<1>6. ASSUME NEW p \in Proc, GuestEnds(p) PROVE Locks'
  BY <1>6, <1>0 DEF GuestEnds, Locks, Works
<1>7. ASSUME NEW p \in Proc, Stops(p) PROVE Locks'
  BY <1>7, <1>0, LeaveKeepsLocks DEF Stops
<1>8. CASE PowerLoss
  BY <1>8 DEF PowerLoss, Locks, Works
<1> QED BY <1>1, <1>2, <1>3, <1>4, <1>5, <1>6, <1>7, <1>8 DEF Next

-----------------------------------------------------------------------------
(* The directories.  LogSafe concerns ws, cp and what may survive of them; *)
(* it is kept by a synchronization, by a new state of the workspace with   *)
(* the same disk, or one whose old and new disk are saved, and by a        *)
(* checkpoint more.                                                        *)
LEMMA SameDirectories ==
  ASSUME LogSafe, SameFiles
  PROVE  LogSafe'
  BY DEF LogSafe, Directories, Pending, Differing, Recoverable, Shape, Matches, SameFiles

LEMMA SyncKeepsLog ==
  ASSUME LogSafe, SyncWorkspace, UNCHANGED <<ws, cp, cpLog>>
  PROVE  LogSafe'
  BY DEF LogSafe, Directories, Pending, Differing, Recoverable, Shape, Matches, SyncWorkspace

LEMMA ChangeKeepsLog ==
  ASSUME LogSafe, NEW new, ChangeWorkspace(new), SameCheckpoints, Shape(new),
         new.journal # None => Matches(new) /\ Recoverable(new),
         \/ new.files[Disk] = ws.files[Disk]
         \/ \A c \in cpLog : Saved(c, ws.files[Disk]) /\ Saved(c, new.files[Disk])
  PROVE  LogSafe'
<1>1. ws' = new /\ wsLog' = wsLog \cup {new} /\ cp' = cp /\ cpLog' = cpLog
  BY DEF ChangeWorkspace, SameCheckpoints
<1>2. Directories'
  BY <1>1 DEF LogSafe, Directories, Shape
<1>3. Pending'
  <2> SUFFICES ASSUME NEW w \in wsLog', w.journal # None PROVE Matches(w) /\ Recoverable(w)'
    BY DEF Pending, Matches
  <2>1. Recoverable(w)' <=> Recoverable(w)
    BY <1>1 DEF Recoverable
  <2>2. Matches(w) /\ Recoverable(w)
    BY <1>1 DEF LogSafe, Pending
  <2> QED BY <2>1, <2>2
<1>4. Differing'
  <2> SUFFICES ASSUME NEW v \in wsLog', NEW w \in wsLog', v.files[Disk] # w.files[Disk], NEW c \in cpLog
               PROVE  Saved(c, v.files[Disk])
    BY <1>1 DEF Differing
  <2>0. ws \in wsLog
    BY DEF LogSafe, Directories
  <2>1. ASSUME NEW x \in wsLog, NEW y \in wsLog, x.files[Disk] # y.files[Disk]
        PROVE  Saved(c, x.files[Disk])
    BY <2>1 DEF LogSafe, Differing
  <2>2. CASE v \in wsLog /\ w \in wsLog
    BY <2>1, <2>2
  <2>3. CASE v = new /\ w \in wsLog
    BY <2>0, <2>1, <2>3
  <2>4. CASE v \in wsLog /\ w = new
    BY <2>0, <2>1, <2>4
  <2> QED BY <1>1, <2>2, <2>3, <2>4
<1> QED BY <1>2, <1>3, <1>4 DEF LogSafe

(* Checkpoints that a power loss may leave get no smaller.                 *)
LEMMA MoreSaved ==
  ASSUME NEW c, NEW d, DOMAIN c \subseteq DOMAIN d, \A n \in DOMAIN c : d[n] = c[n],
         NEW content, Saved(c, content)
  PROVE  Saved(d, content)
  BY DEF Saved

LEMMA CheckpointsKeepLog ==
  ASSUME LogSafe, SameWorkspace, cp' \in cpLog',
         \A d \in cpLog' : \A n \in DOMAIN d : DOMAIN d[n] = File,
         \A d \in cpLog' : \E c \in cpLog : DOMAIN c \subseteq DOMAIN d /\ \A n \in DOMAIN c : d[n] = c[n]
  PROVE  LogSafe'
<1>1. ASSUME NEW content, \A c \in cpLog : Saved(c, content)
      PROVE  \A d \in cpLog' : Saved(d, content)
  BY <1>1, MoreSaved
<1>2. wsLog' = wsLog /\ ws' = ws
  BY DEF SameWorkspace
<1>3. Directories'
  BY <1>2 DEF LogSafe, Directories, Shape
<1>4. Pending'
  <2> SUFFICES ASSUME NEW w \in wsLog, w.journal # None PROVE Matches(w) /\ Recoverable(w)'
    BY <1>2 DEF Pending, Matches
  <2>1. Matches(w) /\ Recoverable(w)
    BY DEF LogSafe, Pending
  <2> QED BY <2>1, <1>1 DEF Recoverable
<1>5. Differing'
  <2> SUFFICES ASSUME NEW v \in wsLog, NEW w \in wsLog, v.files[Disk] # w.files[Disk]
               PROVE  \A d \in cpLog' : Saved(d, v.files[Disk])
    BY <1>2 DEF Differing
  <2>1. \A c \in cpLog : Saved(c, v.files[Disk])
    BY DEF LogSafe, Differing
  <2> QED BY <2>1, <1>1
<1> QED BY <1>3, <1>4, <1>5 DEF LogSafe

(* A step of the workspace that its phase has prepared.                    *)
LEMMA CheckpointKeepsLog == ASSUME IInv, NEW p \in Proc, Checkpoint(p) PROVE LogSafe'
<1>0. LogSafe /\ Phase(p)
  BY DEF IInv, Phases
<1>1. CASE StageCheckpoint(p)
  BY <1>1, <1>0, SameDirectories DEF StageCheckpoint
<1>2. CASE PublishCheckpoint(p)
  <2> DEFINE new == With(cp, scratch[p].name, scratch[p].files)
  <2>1. cp' = new /\ cpLog' = cpLog \cup {new} /\ SameWorkspace
    BY <1>2 DEF PublishCheckpoint
  <2>2. scratch[p].files = ws.files /\ scratch[p].name \notin DOMAIN cp
    BY <1>2, <1>0 DEF PublishCheckpoint, Phase
  <2>3. DOMAIN new = {scratch[p].name} \cup DOMAIN cp
    BY DEF With
  <2>4. \A n \in DOMAIN cp : new[n] = cp[n]
    BY <2>2 DEF With
  <2>5. new[scratch[p].name] = ws.files
    BY <2>2 DEF With
  <2> HIDE DEF new
  <2>6. \A n \in DOMAIN new : DOMAIN new[n] = File
    BY <2>3, <2>4, <2>5, <1>0 DEF LogSafe, Directories, Shape
  <2>7. \A d \in cpLog' : \A n \in DOMAIN d : DOMAIN d[n] = File
    BY <2>1, <2>6, <1>0 DEF LogSafe, Directories
  <2>8. cp \in cpLog
    BY <1>0 DEF LogSafe, Directories
  <2>9. \A d \in cpLog' : \E c \in cpLog : DOMAIN c \subseteq DOMAIN d /\ \A n \in DOMAIN c : d[n] = c[n]
    BY <2>1, <2>3, <2>4, <2>8
  <2> QED BY <2>1, <2>7, <2>9, <1>0, CheckpointsKeepLog
<1>3. CASE SyncCheckpoint(p)
  <2>1. cp' = cp /\ cpLog' = {cp} /\ SameWorkspace
    BY <1>3 DEF SyncCheckpoint, SyncCheckpoints
  <2>2. cp \in cpLog /\ \A n \in DOMAIN cp : DOMAIN cp[n] = File
    BY <1>0 DEF LogSafe, Directories
  <2> QED BY <2>1, <2>2, <1>0, CheckpointsKeepLog
<1> QED BY <1>1, <1>2, <1>3 DEF Checkpoint

LEMMA RestoreKeepsLog == ASSUME IInv, NEW p \in Proc, Restore(p) PROVE LogSafe'
<1>0. /\ LogSafe /\ Phase(p) /\ ws \in wsLog /\ cp \in cpLog /\ Shape(ws)
      /\ \A n \in DOMAIN cp : DOMAIN cp[n] = File
  BY DEF IInv, Phases, LogSafe, Directories
<1>1. CASE StageRestore(p)
  <2> DEFINE new == [ws EXCEPT !.stage = cp[job[p].name]]
  <2>1. new.journal = None /\ new.files = ws.files /\ Shape(new)
    BY <1>0, <1>1 DEF StageRestore, Phase, Shape
  <2>2. ChangeWorkspace(new) /\ SameCheckpoints
    BY <1>1 DEF StageRestore
  <2> HIDE DEF new
  <2> QED BY <2>1, <2>2, <1>0, ChangeKeepsLog
<1>2. CASE WriteJournal(p)
  <2> DEFINE new == [ws EXCEPT !.journal = [checkpoint |-> job[p].name, files |-> cp[job[p].name]]]
  <2>1. ChangeWorkspace(new) /\ SameCheckpoints
    BY <1>2 DEF WriteJournal
  <2>2. /\ ws.stage = cp[job[p].name] /\ job[p].name \in DOMAIN cp
        /\ cpLog = {cp} /\ Saved(cp, ws.files[Disk])
    BY <1>0, <1>2 DEF WriteJournal, Phase
  <2>3. Shape(new) /\ new.files = ws.files /\ new.stage = ws.stage /\ new.journal.files = ws.stage
    BY <1>0, <2>2 DEF Shape
  <2>4. DOMAIN ws.stage = File
    BY <2>2, <1>0
  <2> HIDE DEF new
  <2>5. Matches(new)
    BY <2>3, <2>4 DEF Matches
  <2>6. Saved(cp, ws.stage[Disk])
    BY <2>2 DEF Saved
  <2>7. Recoverable(new)
    BY <2>2, <2>3, <2>6 DEF Recoverable
  <2> QED BY <2>1, <2>3, <2>5, <2>7, <1>0, ChangeKeepsLog
<1>3. CASE SyncJournal(p) \/ SyncReplaced(p) \/ EndRestore(p)
  BY <1>3, <1>0, SyncKeepsLog DEF SyncJournal, SyncReplaced, EndRestore, SameCheckpoints
<1>4. CASE BeginRecover(p) \/ VerifyRestore(p)
  BY <1>4, <1>0, SameDirectories DEF BeginRecover, VerifyRestore
<1>5. CASE ReplaceNext(p)
  <2>1. PICK i \in Staged : ChangeWorkspace([ws EXCEPT
            !.files[Files[i]] = ws.stage[Files[i]],
            !.stage = [f \in DOMAIN ws.stage \ {Files[i]} |-> ws.stage[f]]])
    BY <1>5 DEF ReplaceNext
  <2> DEFINE F == Files[i]
             new == [ws EXCEPT !.files[F] = ws.stage[F],
                               !.stage = [f \in DOMAIN ws.stage \ {F} |-> ws.stage[f]]]
  <2>2. ChangeWorkspace(new) /\ SameCheckpoints
    BY <2>1, <1>5 DEF ReplaceNext
  <2>3. F \in File /\ F \in DOMAIN ws.stage
    BY DEF Staged, File
  <2> HIDE DEF F
  <2>4. /\ DOMAIN new = {"files", "stage", "journal"}
        /\ new.files = [ws.files EXCEPT ![F] = ws.stage[F]]
        /\ new.stage = [f \in DOMAIN ws.stage \ {F} |-> ws.stage[f]]
        /\ new.journal = ws.journal
    BY <1>0 DEF Shape
  <2> HIDE DEF new
  <2>5. Shape(new)
    BY <2>4, <1>0 DEF Shape
  <2>6. Recoverable(ws)
    BY <1>0, <1>5 DEF ReplaceNext, Phase
  <2>7. /\ \A f \in File : f # F => new.files[f] = ws.files[f]
        /\ new.files[F] = ws.stage[F]
    BY <2>3, <2>4, <1>0 DEF Shape
  <2>8. Recoverable(new)
    BY <2>4, <2>6, <2>7, DiskIsFile DEF Recoverable
  <2>9. ASSUME new.journal # None PROVE Matches(new)
    <3>1. Matches(ws)
      BY <2>4, <2>9, <1>0 DEF LogSafe, Pending
    <3> QED BY <3>1, <2>3, <2>4, <2>7 DEF Matches
  <2>10. \/ new.files[Disk] = ws.files[Disk]
         \/ \A c \in cpLog : Saved(c, ws.files[Disk]) /\ Saved(c, new.files[Disk])
    BY <2>3, <2>6, <2>7, DiskIsFile DEF Recoverable
  <2> QED BY <2>2, <2>5, <2>8, <2>9, <2>10, <1>0, ChangeKeepsLog
<1>6. CASE RemoveJournal(p)
  <2> DEFINE new == [ws EXCEPT !.journal = None]
  <2>1. new.journal = None /\ new.files = ws.files /\ Shape(new)
    BY <1>0 DEF Shape
  <2>2. ChangeWorkspace(new) /\ SameCheckpoints
    BY <1>6 DEF RemoveJournal
  <2> HIDE DEF new
  <2> QED BY <2>1, <2>2, <1>0, ChangeKeepsLog
<1> QED BY <1>1, <1>2, <1>3, <1>4, <1>5, <1>6 DEF Restore

(* Boot artifacts are other files than the disk.                           *)
LEMMA BootKeepsLog == ASSUME IInv, NEW p \in Proc, Boot(p) PROVE LogSafe'
<1>0. LogSafe /\ Phase(p) /\ ws \in wsLog /\ Shape(ws)
  BY DEF IInv, Phases, LogSafe, Directories
<1>1. CASE ExtractBoot(p) \/ Launch(p) \/ Release(p)
  BY <1>1, <1>0, SameDirectories DEF ExtractBoot, Launch, Release
<1>2. CASE PublishBoot(p)
  <2> DEFINE F == Artifacts[scratch[p].next]
             new == [ws EXCEPT !.files[F] = scratch[p].from]
  <2>1. ChangeWorkspace(new) /\ SameCheckpoints
    BY <1>2 DEF PublishBoot
  <2>2. scratch[p].next \in Nat \ {0} /\ scratch[p].next <= Len(Artifacts) /\ ws.journal = None
    BY <1>0, <1>2 DEF PublishBoot, Phase
  <2>3. scratch[p].next \in DOMAIN Artifacts
    BY <2>2, WorkspaceAssumption
  <2>4. F # Disk
    BY <2>3, WorkspaceAssumption
  <2> HIDE DEF F
  <2>5. /\ DOMAIN new = {"files", "stage", "journal"}
        /\ new.files = [ws.files EXCEPT ![F] = scratch[p].from]
        /\ new.journal = None
    BY <1>0, <2>2 DEF Shape
  <2> HIDE DEF new
  <2>6. Shape(new) /\ new.files[Disk] = ws.files[Disk]
    BY <2>4, <2>5, <1>0, DiskIsFile DEF Shape
  <2> QED BY <2>1, <2>5, <2>6, <1>0, ChangeKeepsLog
<1>3. CASE SyncBoot(p)
  BY <1>3, <1>0, SyncKeepsLog DEF SyncBoot, SameCheckpoints
<1> QED BY <1>1, <1>2, <1>3 DEF Boot

(* A guest writes its own disk into every state that may survive.          *)
LEMMA GuestKeepsLog == ASSUME IInv, NEW p \in Proc, GuestWrites(p) PROVE LogSafe'
<1>0. LogSafe /\ ws \in wsLog /\ cp \in cpLog /\ (\A w \in wsLog : w.journal = None /\ Shape(w))
  BY DEF IInv, LogSafe, Directories, GuestsFree, GuestWrites
<1> DEFINE After(w) == [w EXCEPT !.files[Disk] = newest']
<1>1. ws' = After(ws) /\ wsLog' = {After(w) : w \in wsLog} /\ cp' = cp /\ cpLog' = cpLog
  BY DEF GuestWrites, SameCheckpoints
<1>2. ASSUME NEW w \in wsLog
      PROVE  Shape(After(w)) /\ After(w).journal = None /\ After(w).files[Disk] = newest'
  BY <1>0, <1>2, DiskIsFile DEF Shape
<1> HIDE DEF After
<1>3. \A v \in wsLog' : Shape(v) /\ v.journal = None /\ v.files[Disk] = newest'
  BY <1>1, <1>2
<1>4. Directories'
  BY <1>0, <1>1, <1>3 DEF Directories, Shape, LogSafe
<1>5. Pending' /\ Differing'
  BY <1>3 DEF Pending, Differing
<1> QED BY <1>4, <1>5 DEF LogSafe

LEMMA PowerLossKeepsLog == ASSUME LogSafe, PowerLoss PROVE LogSafe'
<1>1. ws' \in wsLog /\ wsLog' = {ws'} /\ cp' \in cpLog /\ cpLog' = {cp'}
  BY DEF PowerLoss
<1>2. Directories'
  BY <1>1 DEF LogSafe, Directories, Shape
<1>3. Pending'
  BY <1>1 DEF LogSafe, Pending, Recoverable, Matches
<1>4. Differing'
  BY <1>1 DEF Differing
<1> QED BY <1>2, <1>3, <1>4 DEF LogSafe

LEMMA LogKept == IInv /\ Next => LogSafe'
<1> SUFFICES ASSUME IInv, Next PROVE LogSafe'
  OBVIOUS
<1>0. LogSafe
  BY DEF IInv
<1>1. ASSUME NEW p \in Proc, NEW j \in Jobs, Enter(p, j) PROVE LogSafe'
  BY <1>0, <1>1, SameDirectories DEF Enter
<1>2. ASSUME NEW p \in Proc, GuestEnds(p) \/ Stops(p) PROVE LogSafe'
  BY <1>0, <1>2, SameDirectories DEF GuestEnds, Stops
<1> QED
  BY <1>0, <1>1, <1>2, CheckpointKeepsLog, RestoreKeepsLog, BootKeepsLog, GuestKeepsLog, PowerLossKeepsLog
     DEF Next

-----------------------------------------------------------------------------
(* The phases.  Who is idle relies on nothing; a step prepares the next one *)
(* of the same process, and no other process is in the midst of anything.  *)
LEMMA IdlePhase == ASSUME NEW p \in Proc, pc'[p] = "idle" PROVE Phase(p)'
  BY DEF Phase

LEMMA LeaveKeepsPhases ==
  ASSUME Locks, NEW p \in Proc, pc[p] # "idle", Leave(p)
  PROVE  Phases'
<1>1. ASSUME NEW q \in Proc PROVE pc'[q] = "idle"
  BY <1>1, OneWorks DEF Leave, Locks, Works
<1> QED BY <1>1, IdlePhase DEF Phases

LEMMA OwnPhase ==
  ASSUME Locks, NEW p \in Proc, pc[p] # "idle", Phase(p)',
         \/ UNCHANGED pc
         \/ \E where : Go(p, where)
  PROVE  Phases'
<1>1. ASSUME NEW q \in Proc, q # p PROVE pc'[q] = "idle"
  BY <1>1, OneWorks DEF Go, Locks, Works
<1> QED BY <1>1, IdlePhase DEF Phases

LEMMA CheckpointKeepsPhases == ASSUME IInv, NEW p \in Proc, Checkpoint(p) PROVE Phases'
<1>0. Locks /\ Phase(p) /\ LogSafe /\ DOMAIN pc = Proc /\ DOMAIN scratch = Proc
  BY DEF IInv, Phases, Locks
<1> USE DEF SameFiles, SameLock, SameWorkspace
<1>1. CASE StageCheckpoint(p)
  <2>1. PICK n : /\ n \notin DOMAIN cp
                 /\ scratch' = [scratch EXCEPT ![p] = [name |-> n, files |-> ws.files]]
    BY <1>1 DEF StageCheckpoint
  <2>2. pc' = [pc EXCEPT ![p] = "staged"] /\ pc[p] = "start" /\ UNCHANGED <<ws, cp, cpLog, wsLog, job>>
    BY <1>1 DEF StageCheckpoint, Go
  <2>3. job[p].op = "checkpoint" \/ (job[p].op = "restore" /\ job[p].name \in DOMAIN cp)
    BY <1>1 DEF StageCheckpoint
  <2>4. ws.journal = None
    BY <1>0, <2>2, <2>3 DEF Phase
  <2>5. scratch'[p].name = n /\ scratch'[p].files = ws.files
    BY <2>1, <1>0
  <2>6. pc'[p] = "staged"
    BY <2>2, <1>0
  <2>7. Phase(p)'
    BY <2>1, <2>2, <2>3, <2>4, <2>5, <2>6 DEF Phase
  <2> QED BY <1>0, <2>2, <2>7, OwnPhase DEF Go
<1>2. CASE PublishCheckpoint(p)
  <2>1. /\ pc' = [pc EXCEPT ![p] = "published"] /\ pc[p] = "staged"
        /\ cp' = With(cp, scratch[p].name, scratch[p].files)
        /\ UNCHANGED <<ws, wsLog, job, scratch>>
    BY <1>2 DEF PublishCheckpoint, Go
  <2>2. DOMAIN cp' = DOMAIN cp \cup {scratch[p].name} /\ cp'[scratch[p].name] = scratch[p].files
    BY <2>1 DEF With
  <2>3. pc'[p] = "published"
    BY <2>1, <1>0
  <2>4. Phase(p)'
    BY <1>0, <2>1, <2>2, <2>3 DEF Phase
  <2> QED BY <1>0, <2>1, <2>4, OwnPhase DEF Go
<1>3. CASE SyncCheckpoint(p)
  <2>1. CASE job[p].op = "checkpoint"
    BY <1>0, <1>3, <2>1, LeaveKeepsPhases DEF SyncCheckpoint
  <2>2. CASE job[p].op # "checkpoint"
    <3>1. /\ pc' = [pc EXCEPT ![p] = "saved"] /\ pc[p] = "published" /\ cpLog' = {cp}
          /\ UNCHANGED <<ws, cp, wsLog, job, scratch>>
      BY <1>3, <2>2 DEF SyncCheckpoint, SyncCheckpoints, Go
    <3>2. pc'[p] = "saved"
      BY <3>1, <1>0
    <3>3. Saved(cp, ws.files[Disk])
      BY <3>1, <1>0 DEF Phase, Saved
    <3>4. Phase(p)'
      BY <1>0, <2>2, <3>1, <3>2, <3>3 DEF Phase
    <3> QED BY <1>0, <3>1, <3>4, OwnPhase DEF Go
  <2> QED BY <2>1, <2>2
<1> QED BY <1>1, <1>2, <1>3 DEF Checkpoint

LEMMA RestoreKeepsPhases == ASSUME IInv, NEW p \in Proc, Restore(p) PROVE Phases'
<1>0. Locks /\ Phase(p) /\ LogSafe /\ DOMAIN pc = Proc /\ Shape(ws) /\ ws \in wsLog
  BY DEF IInv, Phases, Locks, LogSafe, Directories
<1> USE DEF SameFiles, SameLock, SameCheckpoints
<1>1. CASE StageRestore(p)
  <2>1. /\ pc' = [pc EXCEPT ![p] = "copied"] /\ pc[p] = "saved"
        /\ ws' = [ws EXCEPT !.stage = cp[job[p].name]]
        /\ UNCHANGED <<cp, cpLog, job>>
    BY <1>1 DEF StageRestore, Go, ChangeWorkspace
  <2>2. ws'.journal = ws.journal /\ ws'.files = ws.files /\ ws'.stage = cp[job[p].name]
    BY <2>1, <1>0 DEF Shape
  <2>3. pc'[p] = "copied"
    BY <2>1, <1>0
  <2>4. Phase(p)'
    BY <1>0, <2>1, <2>2, <2>3 DEF Phase
  <2> QED BY <1>0, <2>1, <2>4, OwnPhase DEF Go
<1>2. CASE WriteJournal(p)
  <2>1. /\ pc' = [pc EXCEPT ![p] = "journaled"] /\ pc[p] = "copied"
        /\ ws' = [ws EXCEPT !.journal = [checkpoint |-> job[p].name, files |-> cp[job[p].name]]]
        /\ cpLog' = cpLog
    BY <1>2 DEF WriteJournal, Go, ChangeWorkspace
  <2>2. ws'.files = ws.files /\ ws'.stage = cp[job[p].name]
    BY <2>1, <1>0 DEF Shape, Phase
  <2>3. /\ job[p].name \in DOMAIN cp /\ cpLog = {cp} /\ Saved(cp, ws.files[Disk])
    BY <1>0, <2>1 DEF Phase
  <2>4. Saved(cp, cp[job[p].name][Disk])
    BY <2>3 DEF Saved
  <2>5. Recoverable(ws)'
    BY <2>1, <2>2, <2>3, <2>4 DEF Recoverable
  <2>6. pc'[p] = "journaled"
    BY <2>1, <1>0
  <2>7. Phase(p)'
    BY <2>5, <2>6 DEF Phase
  <2> QED BY <1>0, <2>1, <2>7, OwnPhase DEF Go
<1>3. CASE SyncJournal(p)
  <2>1. pc' = [pc EXCEPT ![p] = "finish"] /\ pc[p] = "journaled" /\ ws' = ws /\ cpLog' = cpLog
    BY <1>3 DEF SyncJournal, Go
  <2>2. Recoverable(ws)' /\ pc'[p] = "finish"
    BY <1>0, <2>1 DEF Phase, Recoverable
  <2>3. Phase(p)'
    BY <2>2 DEF Phase
  <2> QED BY <1>0, <2>1, <2>3, OwnPhase DEF Go
<1>4. CASE BeginRecover(p)
  <2>1. CASE ws.journal = None
    BY <1>0, <1>4, <2>1, LeaveKeepsPhases DEF BeginRecover
  <2>2. CASE ws.journal # None
    <3>1. pc' = [pc EXCEPT ![p] = "finish"] /\ pc[p] = "start" /\ ws' = ws /\ cpLog' = cpLog
      BY <1>4, <2>2 DEF BeginRecover, Go
    <3>2. Recoverable(ws)
      BY <1>0, <2>2 DEF LogSafe, Pending
    <3>3. Recoverable(ws)' /\ pc'[p] = "finish"
      BY <1>0, <3>1, <3>2 DEF Recoverable
    <3>4. Phase(p)'
      BY <3>3 DEF Phase
    <3> QED BY <1>0, <3>1, <3>4, OwnPhase DEF Go
  <2> QED BY <2>1, <2>2
<1>5. CASE VerifyRestore(p)
  <2>1. CASE Matches(ws)
    <3>1. pc' = [pc EXCEPT ![p] = "replace"] /\ pc[p] = "finish" /\ ws' = ws /\ cpLog' = cpLog
      BY <1>5, <2>1 DEF VerifyRestore, Go
    <3>2. Recoverable(ws)' /\ pc'[p] = "replace"
      BY <1>0, <3>1 DEF Phase, Recoverable
    <3>3. Phase(p)'
      BY <3>2 DEF Phase
    <3> QED BY <1>0, <3>1, <3>3, OwnPhase DEF Go
  <2>2. CASE ~ Matches(ws)
    BY <1>0, <1>5, <2>2, LeaveKeepsPhases DEF VerifyRestore
  <2> QED BY <2>1, <2>2
<1>6. CASE ReplaceNext(p)
  <2>1. PICK i \in Staged : ws' = [ws EXCEPT
            !.files[Files[i]] = ws.stage[Files[i]],
            !.stage = [f \in DOMAIN ws.stage \ {Files[i]} |-> ws.stage[f]]]
    BY <1>6 DEF ReplaceNext, ChangeWorkspace
  <2>2. pc' = pc /\ pc[p] = "replace" /\ cpLog' = cpLog
    BY <1>6 DEF ReplaceNext
  <2> DEFINE F == Files[i]
  <2> HIDE DEF F
  <2>3. /\ ws'.files = [ws.files EXCEPT ![F] = ws.stage[F]]
        /\ ws'.stage = [f \in DOMAIN ws.stage \ {F} |-> ws.stage[f]]
    BY <2>1, <1>0 DEF Shape, F
  <2>4. Disk # F => ws'.files[Disk] = ws.files[Disk]
    BY <2>3, <1>0, DiskIsFile DEF Shape
  <2>5. Recoverable(ws)'
    BY <2>2, <2>3, <2>4, <1>0 DEF Recoverable, Phase
  <2>6. Phase(p)'
    BY <2>2, <2>5 DEF Phase
  <2> QED BY <1>0, <2>2, <2>6, OwnPhase
<1>7. CASE SyncReplaced(p) \/ RemoveJournal(p)
  <2>1. pc[p] # "idle" /\ ((Go(p, "unlink") /\ pc'[p] = "unlink") \/ (Go(p, "unlinked") /\ pc'[p] = "unlinked"))
    BY <1>0, <1>7 DEF SyncReplaced, RemoveJournal, Go
  <2>2. Phase(p)'
    BY <2>1 DEF Phase
  <2> QED BY <1>0, <2>1, <2>2, OwnPhase
<1>8. CASE EndRestore(p)
  BY <1>0, <1>8, LeaveKeepsPhases DEF EndRestore
<1> QED BY <1>1, <1>2, <1>3, <1>4, <1>5, <1>6, <1>7, <1>8 DEF Restore

LEMMA BootKeepsPhases == ASSUME IInv, NEW p \in Proc, Boot(p) PROVE Phases'
<1>0. /\ Locks /\ Phase(p) /\ LogSafe /\ DOMAIN pc = Proc /\ DOMAIN scratch = Proc
      /\ Shape(ws) /\ ws \in wsLog
  BY DEF IInv, Phases, Locks, LogSafe, Directories
<1> USE DEF SameFiles, SameLock, SameCheckpoints
<1>1. CASE ExtractBoot(p)
  <2>1. /\ pc' = [pc EXCEPT ![p] = "publish"] /\ pc[p] = "start" /\ ws' = ws
        /\ scratch' = [scratch EXCEPT ![p] = [from |-> ws.files[Disk], next |-> 1]]
        /\ job[p].op # "recover"
    BY <1>1 DEF ExtractBoot, Go
  <2>2. scratch'[p] = [from |-> ws.files[Disk], next |-> 1] /\ pc'[p] = "publish"
    BY <2>1, <1>0
  <2>3. DOMAIN scratch'[p] = {"from", "next"} /\ scratch'[p].next \in Nat \ {0}
    BY <2>2
  <2>4. Phase(p)'
    BY <1>0, <2>1, <2>2, <2>3 DEF Phase
  <2> QED BY <1>0, <2>1, <2>4, OwnPhase DEF Go
<1>2. CASE PublishBoot(p)
  <2>1. /\ pc' = pc /\ pc[p] = "publish"
        /\ ws' = [ws EXCEPT !.files[Artifacts[scratch[p].next]] = scratch[p].from]
        /\ scratch' = [scratch EXCEPT ![p].next = @ + 1]
    BY <1>2 DEF PublishBoot, ChangeWorkspace
  <2>2. ws'.journal = ws.journal
    BY <2>1, <1>0 DEF Shape
  <2>3. scratch'[p] = [scratch[p] EXCEPT !.next = @ + 1]
    BY <2>1, <1>0
  <2>4. DOMAIN scratch'[p] = {"from", "next"} /\ scratch'[p].next \in Nat \ {0}
    BY <2>1, <2>3, <1>0 DEF Phase
  <2>5. Phase(p)'
    BY <1>0, <2>1, <2>2, <2>4 DEF Phase
  <2> QED BY <1>0, <2>1, <2>5, OwnPhase
<1>3. CASE SyncBoot(p)
  <2>1. CASE job[p].op = "refresh"
    BY <1>0, <1>3, <2>1, LeaveKeepsPhases DEF SyncBoot
  <2>2. CASE job[p].op # "refresh"
    <3>1. pc' = [pc EXCEPT ![p] = "launch"] /\ pc[p] = "publish" /\ wsLog' = {ws} /\ ws' = ws
      BY <1>3, <2>2 DEF SyncBoot, SyncWorkspace, Go
    <3>2. pc'[p] = "launch" /\ \A w \in wsLog' : w.journal = None
      BY <3>1, <1>0 DEF Phase
    <3>3. Phase(p)'
      BY <3>2 DEF Phase
    <3> QED BY <1>0, <3>1, <3>3, OwnPhase DEF Go
  <2> QED BY <2>1, <2>2
<1>4. CASE Launch(p)
  <2>1. pc' = [pc EXCEPT ![p] = "running"] /\ pc[p] = "launch" /\ wsLog' = wsLog
    BY <1>4 DEF Launch, Go
  <2>2. pc'[p] = "running" /\ \A w \in wsLog' : w.journal = None
    BY <2>1, <1>0 DEF Phase
  <2>3. Phase(p)'
    BY <2>2 DEF Phase
  <2> QED BY <1>0, <2>1, <2>3, OwnPhase DEF Go
<1>5. CASE Release(p)
  BY <1>0, <1>5, LeaveKeepsPhases DEF Release
<1> QED BY <1>1, <1>2, <1>3, <1>4, <1>5 DEF Boot

LEMMA PhasesKept == IInv /\ Next => Phases'
<1> SUFFICES ASSUME IInv, Next PROVE Phases'
  OBVIOUS
<1>0. Locks /\ Phases /\ LogSafe /\ GuestsFree /\ DOMAIN pc = Proc /\ DOMAIN job = Proc
  BY DEF IInv, Locks
<1>1. ASSUME NEW p \in Proc, NEW j \in Jobs, Enter(p, j) PROVE Phases'
  <2>1. /\ pc' = [pc EXCEPT ![p] = "start"] /\ job' = [job EXCEPT ![p] = j] /\ ws' = ws
        /\ pc[p] = "idle" /\ lock = {} /\ (j.op = "recover" \/ ws.journal = None)
    BY <1>1 DEF Enter, Go, Admitted, SameFiles
  <2>2. ASSUME NEW q \in Proc, q # p PROVE pc'[q] = "idle"
    BY <1>0, <2>1, <2>2 DEF Locks
  <2>3. Phase(p)'
    BY <1>0, <2>1 DEF Phase
  <2> QED BY <2>2, <2>3, IdlePhase DEF Phases
<1>2. ASSUME NEW p \in Proc, GuestWrites(p) PROVE Phases'
  <2>1. p \in vm /\ pc' = pc /\ pc[p] \in {"idle", "running"}
    BY <1>0, <1>2 DEF GuestWrites, Locks
  <2>2. \A w \in wsLog' : w.journal = None
    <3>1. ASSUME NEW w \in wsLog PROVE [w EXCEPT !.files[Disk] = newest'].journal = None
      BY <1>0, <2>1 DEF GuestsFree, LogSafe, Directories, Shape
    <3> QED BY <1>2, <3>1 DEF GuestWrites
  <2>3. Phase(p)'
    BY <2>1, <2>2 DEF Phase
  <2>4. ASSUME NEW q \in Proc, q # p PROVE pc'[q] = "idle"
    BY <1>0, <2>1, <2>4, OneWorks DEF Works
  <2> QED BY <2>3, <2>4, IdlePhase DEF Phases
<1>3. ASSUME NEW p \in Proc, GuestEnds(p) PROVE Phases'
  BY <1>0, <1>3 DEF GuestEnds, SameFiles, Phases, Phase, Recoverable
<1>4. ASSUME NEW p \in Proc, Stops(p) PROVE Phases'
  BY <1>0, <1>4, LeaveKeepsPhases DEF Stops
<1>5. CASE PowerLoss
  BY <1>5, IdlePhase DEF PowerLoss, Phases
<1> QED
  BY <1>1, <1>2, <1>3, <1>4, <1>5, CheckpointKeepsPhases, RestoreKeepsPhases, BootKeepsPhases DEF Next

-----------------------------------------------------------------------------
(* Nothing but a launch starts a guest, and nothing but the guest's own    *)
(* process changes the workspace beside it.                                *)
LEMMA GuestsStayFree == IInv /\ Next => GuestsFree'
<1> SUFFICES ASSUME IInv, Next, vm' # {} PROVE \A w \in wsLog' : w.journal = None
  BY DEF GuestsFree
<1>0. Locks /\ Phases /\ LogSafe /\ GuestsFree
  BY DEF IInv
<1>1. ASSUME vm # {}, UNCHANGED wsLog PROVE \A w \in wsLog' : w.journal = None
  BY <1>0, <1>1 DEF GuestsFree
<1> USE DEF SameFiles, SameGuest, SameWorkspace
<1>2. ASSUME NEW p \in Proc, NEW j \in Jobs, Enter(p, j) PROVE \A w \in wsLog' : w.journal = None
  BY <1>1, <1>2 DEF Enter
<1>3. ASSUME NEW p \in Proc, Checkpoint(p) PROVE \A w \in wsLog' : w.journal = None
  BY <1>1, <1>3 DEF Checkpoint, StageCheckpoint, PublishCheckpoint, SyncCheckpoint
<1>4. ASSUME NEW p \in Proc, Restore(p) PROVE FALSE
  <2>1. pc[p] \notin {"idle", "running"} /\ vm' = vm
    BY <1>4 DEF Restore, StageRestore, WriteJournal, SyncJournal, BeginRecover, VerifyRestore,
                ReplaceNext, SyncReplaced, RemoveJournal, EndRestore
  <2> QED BY <1>0, <2>1, NoGuestYet
<1>5. ASSUME NEW p \in Proc, Boot(p) PROVE \A w \in wsLog' : w.journal = None
  <2>1. CASE ExtractBoot(p) \/ Release(p)
    BY <1>1, <2>1 DEF ExtractBoot, Release
  <2>2. CASE PublishBoot(p) \/ SyncBoot(p)
    <3>1. pc[p] = "publish" /\ vm' = vm
      BY <2>2 DEF PublishBoot, SyncBoot
    <3> QED BY <1>0, <3>1, NoGuestYet
  <2>3. CASE Launch(p)
    BY <1>0, <2>3 DEF Launch, Phases, Phase
  <2> QED BY <1>5, <2>1, <2>2, <2>3 DEF Boot
<1>6. ASSUME NEW p \in Proc, GuestWrites(p) PROVE \A w \in wsLog' : w.journal = None
  <2>1. ASSUME NEW w \in wsLog PROVE [w EXCEPT !.files[Disk] = newest'].journal = None
    BY <1>0, <1>6 DEF GuestWrites, GuestsFree, LogSafe, Directories, Shape
  <2> QED BY <1>6, <2>1 DEF GuestWrites
<1>7. ASSUME NEW p \in Proc, GuestEnds(p) \/ Stops(p) PROVE \A w \in wsLog' : w.journal = None
  BY <1>1, <1>7 DEF GuestEnds, Stops
<1>8. CASE PowerLoss
  BY <1>8 DEF PowerLoss
<1> QED BY <1>2, <1>3, <1>4, <1>5, <1>6, <1>7, <1>8 DEF Next

LEMMA StepIInv == IInv /\ [Next]_vars => IInv'
<1>1. IInv /\ Next => newest' \in Nat
  <2> SUFFICES ASSUME IInv, Next PROVE newest' = newest \/ newest' = newest + 1
    BY DEF IInv
  <2> QED
    BY DEF Next, Enter, Checkpoint, StageCheckpoint, PublishCheckpoint, SyncCheckpoint, Restore,
       StageRestore, WriteJournal, SyncJournal, BeginRecover, VerifyRestore, ReplaceNext,
       SyncReplaced, RemoveJournal, EndRestore, Boot, ExtractBoot, PublishBoot, SyncBoot, Launch,
       Release, GuestWrites, GuestEnds, Stops, PowerLoss, SameGuest
<1>2. IInv /\ Next => IInv'
  BY <1>1, LocksKept, LogKept, PhasesKept, GuestsStayFree DEF IInv
<1>3. IInv /\ UNCHANGED vars => IInv'
  BY DEF IInv, vars, Locks, Works, LogSafe, Directories, Pending, Differing, Recoverable, Shape,
         Matches, Phases, Phase, GuestsFree
<1> QED BY <1>2, <1>3

-----------------------------------------------------------------------------
(* For any processes and workspaces: a running guest is alone, whoever     *)
(* launched it and died (WorkspaceLock.close never unlocks).               *)
THEOREM GuestsAreAlone == Spec => []GuestAlone
<1>1. IInv => GuestAlone
  BY DEF IInv, Locks, Works, GuestAlone
<1> QED BY InitIInv, StepIInv, <1>1, PTL DEF Spec

(* For any interruptions and power losses: whatever survives of a pending  *)
(* restore can be finished (_finish_restore).                              *)
THEOREM PendingAreFinishable == Spec => []PendingIsFinishable
<1>1. IInv => PendingIsFinishable
  BY DEF IInv, LogSafe, Pending, PendingIsFinishable
<1> QED BY InitIInv, StepIInv, <1>1, PTL DEF Spec

(* A content of the disk that no guest replaced goes away only when every  *)
(* state of checkpoints/ that may survive holds it (restore).              *)
THEOREM NothingIsLost == Spec => NothingLost
<1> DEFINE Kept == ws'.files[Disk] # ws.files[Disk] /\ newest' = newest =>
                     \A c \in cpLog' : \E n \in DOMAIN c : c[n][Disk] = ws.files[Disk]
<1>1. IInv /\ [Next]_vars => [Kept]_vars
  <2> SUFFICES ASSUME IInv, Next, ws'.files[Disk] # ws.files[Disk], newest' = newest
               PROVE  \A c \in cpLog' : Saved(c, ws.files[Disk])
    BY DEF Saved
  <2>0. LogSafe /\ Phases /\ Shape(ws) /\ ws \in wsLog /\ newest \in Nat
    BY DEF IInv, LogSafe, Directories
  <2> USE DEF SameFiles, SameWorkspace
  <2>1. ASSUME NEW p \in Proc, NEW j \in Jobs, Enter(p, j) PROVE FALSE
    BY <2>1 DEF Enter
  <2>2. ASSUME NEW p \in Proc, Checkpoint(p) PROVE FALSE
    BY <2>2 DEF Checkpoint, StageCheckpoint, PublishCheckpoint, SyncCheckpoint
  <2>3. ASSUME NEW p \in Proc, Restore(p), ~ ReplaceNext(p) PROVE FALSE
    BY <2>0, <2>3 DEF Restore, StageRestore, WriteJournal, SyncJournal, BeginRecover, VerifyRestore,
                      SyncReplaced, RemoveJournal, EndRestore, ChangeWorkspace, Shape
  <2>4. ASSUME NEW p \in Proc, ReplaceNext(p) PROVE \A c \in cpLog' : Saved(c, ws.files[Disk])
    <3>1. PICK i \in Staged : ws' = [ws EXCEPT
              !.files[Files[i]] = ws.stage[Files[i]],
              !.stage = [f \in DOMAIN ws.stage \ {Files[i]} |-> ws.stage[f]]]
      BY <2>4 DEF ReplaceNext, ChangeWorkspace
    <3> DEFINE F == Files[i]
    <3> HIDE DEF F
    <3>2. ws'.files = [ws.files EXCEPT ![F] = ws.stage[F]] /\ F \in DOMAIN ws.stage
      BY <3>1, <2>0 DEF Shape, F, Staged
    <3>3. Disk = F
      BY <3>2, <2>0, DiskIsFile DEF Shape
    <3>4. Recoverable(ws) /\ cpLog' = cpLog
      BY <2>0, <2>4 DEF ReplaceNext, Phases, Phase, SameCheckpoints
    <3> QED BY <3>2, <3>3, <3>4 DEF Recoverable
  <2>5. ASSUME NEW p \in Proc, Boot(p) PROVE FALSE
    <3>1. CASE PublishBoot(p)
      <4> DEFINE F == Artifacts[scratch[p].next]
      <4>1. ws' = [ws EXCEPT !.files[F] = scratch[p].from]
        BY <3>1 DEF PublishBoot, ChangeWorkspace
      <4>2. F # Disk
        <5>1. scratch[p].next \in Nat \ {0} /\ scratch[p].next <= Len(Artifacts)
          BY <2>0, <3>1 DEF PublishBoot, Phases, Phase
        <5>2. scratch[p].next \in DOMAIN Artifacts
          BY <5>1, WorkspaceAssumption
        <5> QED BY <5>2, WorkspaceAssumption
      <4> HIDE DEF F
      <4>3. ws'.files[Disk] = ws.files[Disk]
        BY <4>1, <4>2, <2>0, DiskIsFile DEF Shape
      <4> QED BY <4>3
    <3>2. CASE ~ PublishBoot(p)
      BY <2>5, <3>2 DEF Boot, ExtractBoot, SyncBoot, Launch, Release
    <3> QED BY <3>1, <3>2
  <2>6. ASSUME NEW p \in Proc, GuestWrites(p) PROVE FALSE
    BY <2>0, <2>6 DEF GuestWrites
  <2>7. ASSUME NEW p \in Proc, GuestEnds(p) \/ Stops(p) PROVE FALSE
    BY <2>7 DEF GuestEnds, Stops
  <2>8. ASSUME PowerLoss PROVE \A c \in cpLog' : Saved(c, ws.files[Disk])
    BY <2>0, <2>8 DEF PowerLoss, LogSafe, Differing
  <2> QED BY <2>1, <2>2, <2>3, <2>4, <2>5, <2>6, <2>7, <2>8 DEF Next
<1> QED BY InitIInv, StepIInv, <1>1, PTL DEF Spec, NothingLost
-----------------------------------------------------------------------------
(* The transaction of a service (ServiceTransaction).                      *)

ServiceShape ==
  /\ DOMAIN asked = T!Call /\ DOMAIN ledger = T!Direction /\ DOMAIN acts = T!Direction
  /\ \A d \in T!Direction :
       /\ DOMAIN ledger[d] = T!Steps(d) /\ DOMAIN acts[d] = T!Steps(d)
       /\ \A i \in T!Steps(d) : acts[d][i] \in Nat
  /\ \A c \in T!Call : asked[c] \in T!Direction \cup {"none"}
  /\ owner \in {0} \cup T!Call /\ (owner # 0 => asked[owner] \in T!Direction)

(* The effect of a start or stop was invoked once, under its intent.       *)
ServiceActed ==
  \A d \in T!Direction : \A i \in T!Steps(d) : ~ T!Repeatable(plan[d][i]) =>
    acts[d][i] <= 1 /\ (ledger[d][i] = "none" => acts[d][i] = 0)

(* ... and not yet where the worker has just made its intent durable.      *)
ServiceIntended ==
  owner # 0 /\ stage = "intended" /\ T!pos \in T!Steps(T!dir) /\ ~ T!Repeatable(T!phase) =>
    acts[T!dir][T!pos] = 0 /\ ledger[T!dir][T!pos] # "none"

ServiceInv == ServiceShape /\ ServiceActed /\ ServiceIntended

(* Every nonempty set of natural numbers has a least element.              *)
LEMMA Least ==
  ASSUME NEW S, S \subseteq Nat, S # {}
  PROVE  \E i \in S : \A j \in S : i <= j
<1> DEFINE R == OpToRel(<, Nat)
<1>1. IsWellFoundedOn(R, Nat)
  BY NatLessThanWellFounded
<1>2. \A x, y \in Nat : <<x, y>> \in R <=> x < y
  BY DEF OpToRel
<1> HIDE DEF R
<1>3. PICK i \in S : \A j \in S : ~ (<<j, i>> \in R)
  BY <1>1, WFMin
<1>4. ASSUME NEW j \in S PROVE i <= j
  <2>1. i \in Nat /\ j \in Nat
    OBVIOUS
  <2>2. ~ (j < i)
    BY <1>2, <1>3, <2>1
  <2> QED BY <2>1, <2>2
<1> QED BY <1>4

LEMMA FirstIsOpen ==
  ASSUME T!Open(T!dir) # {}
  PROVE  T!pos \in T!Open(T!dir) /\ \A j \in T!Open(T!dir) : T!pos <= j
<1>1. T!Open(T!dir) \subseteq Nat
  BY DEF T!Open, T!Steps
<1> HIDE DEF T!Open
<1> QED BY <1>1, Least DEF T!pos

(* The first open phase is the same as long as no phase is done.           *)
LEMMA SamePhase ==
  ASSUME UNCHANGED plan, T!dir' = T!dir, T!Open(T!dir)' = T!Open(T!dir)
  PROVE  T!pos' = T!pos /\ T!phase' = T!phase
  BY DEF T!pos, T!phase

LEMMA SameLedger ==
  ASSUME UNCHANGED <<plan, ledger>>, T!dir' = T!dir
  PROVE  T!pos' = T!pos /\ T!phase' = T!phase
<1>1. T!Open(T!dir)' = T!Open(T!dir)
  BY DEF T!Open, T!Steps
<1> QED BY <1>1, SamePhase

LEMMA ActingOnce ==
  ASSUME ServiceInv, UNCHANGED <<plan, ledger>>,
         UNCHANGED acts \/ (owner # 0 /\ stage = "intended" /\ T!Acts)
  PROVE  /\ ServiceActed'
         /\ DOMAIN acts' = T!Direction
         /\ \A d \in T!Direction : DOMAIN acts'[d] = T!Steps(d) /\ \A i \in T!Steps(d) : acts'[d][i] \in Nat
<1>1. CASE UNCHANGED acts
  BY <1>1 DEF ServiceInv, ServiceShape, ServiceActed, T!Steps
<1>2. CASE owner # 0 /\ stage = "intended" /\ T!Acts
  <2>1. T!dir \in T!Direction
    BY <1>2 DEF ServiceInv, ServiceShape, T!dir
  <2>2. /\ DOMAIN acts' = T!Direction
        /\ \A d \in T!Direction : DOMAIN acts'[d] = T!Steps(d) /\ \A i \in T!Steps(d) : acts'[d][i] \in Nat
    BY <1>2, <2>1 DEF ServiceInv, ServiceShape, T!Acts
  <2>3. \A d \in T!Direction : \A i \in T!Steps(d) :
          acts'[d][i] = IF d = T!dir /\ i = T!pos THEN acts[d][i] + 1 ELSE acts[d][i]
    BY <1>2, <2>1 DEF ServiceInv, ServiceShape, T!Acts
  <2>0. T!pos \in T!Steps(T!dir) /\ ~ T!Repeatable(plan[T!dir][T!pos]) =>
          acts[T!dir][T!pos] = 0 /\ ledger[T!dir][T!pos] # "none"
    BY <1>2 DEF ServiceInv, ServiceIntended, T!phase
  <2>4. ServiceActed'
    BY <1>2, <2>0, <2>1, <2>3 DEF ServiceInv, ServiceShape, ServiceActed, T!Steps
  <2> QED BY <2>2, <2>4
<1> QED BY <1>1, <1>2

LEMMA ServiceShapeKept == ServiceInv /\ T!Next => ServiceShape'
<1> SUFFICES ASSUME ServiceInv, T!Next PROVE ServiceShape'
  OBVIOUS
<1>0. UNCHANGED plan
  BY DEF T!Next
<1> USE <1>0 DEF ServiceInv, ServiceShape, T!host, T!calls, T!disk, T!systemd, T!target, T!records,
      T!Others
<1>1. ASSUME NEW d \in T!Direction, T!Dispatch(d) PROVE ServiceShape'
  BY <1>1 DEF T!Dispatch, T!Call, T!MayDispatch, T!Sent, T!NoEvent, T!Direction, T!Steps
<1>2. ASSUME NEW c \in T!Call, T!Begin(c) PROVE ServiceShape'
  BY <1>2 DEF T!Begin, T!Sent, T!Call, T!Direction, T!Steps
<1>3. CASE T!AlreadyThere
  BY <1>3 DEF T!AlreadyThere, T!Busy, T!Write, T!dir, T!Steps, T!Nothing, T!Forgotten, service,
      T!Call, T!Direction
<1>4. CASE T!Intend
  BY <1>4 DEF T!Intend, T!Busy, T!MayIntend, T!Write, T!dir, T!Steps, T!Nothing, T!Forgotten,
      service, T!Call, T!Direction
<1>5. CASE T!ActFile
  <2>1. UNCHANGED <<ledger, asked>> /\ (UNCHANGED acts \/ (owner # 0 /\ stage = "intended" /\ T!Acts))
    BY <1>5 DEF T!ActFile, T!Busy
  <2>2. owner' \in {0, owner}
    BY <1>5 DEF T!ActFile, T!Answer
  <2> QED BY <2>1, <2>2, ActingOnce DEF T!Steps
<1>6. CASE T!ActSystemctl
  <2>1. UNCHANGED <<ledger, asked>> /\ (UNCHANGED acts \/ (owner # 0 /\ stage = "intended" /\ T!Acts))
    BY <1>6 DEF T!ActSystemctl, T!Busy
  <2>2. owner' \in {0, owner}
    BY <1>6 DEF T!ActSystemctl, T!Answer
  <2> QED BY <2>1, <2>2, ActingOnce DEF T!Steps
<1>7. CASE T!Settle
  BY <1>7 DEF T!Settle, T!Busy, T!Write, T!dir, T!Steps, T!Call, T!Direction
<1>8. CASE T!Finish
  BY <1>8 DEF T!Finish, T!Answer, T!dir, T!LastOf, T!Steps, T!Nothing, T!Forgotten, service,
      T!Call, T!Direction
<1>9. CASE T!Raised
  <2>1. UNCHANGED <<ledger, asked>> /\ (UNCHANGED acts \/ (owner # 0 /\ stage = "intended" /\ T!Acts))
    BY <1>9 DEF T!Raised, T!Busy
  <2>2. owner' \in {0, owner}
    BY <1>9 DEF T!Raised, T!Answer
  <2> QED BY <2>1, <2>2, ActingOnce DEF T!Steps
<1>10. CASE T!Killed
  <2>1. UNCHANGED <<ledger, asked>> /\ (UNCHANGED acts \/ (owner # 0 /\ stage = "intended" /\ T!Acts))
    BY <1>10 DEF T!Killed, T!Busy
  <2>2. owner' \in {0, owner}
    BY <1>10 DEF T!Killed, T!Answer
  <2> QED BY <2>1, <2>2, ActingOnce DEF T!Steps
<1>11. CASE T!Reboot
  BY <1>11 DEF T!Reboot, T!Call, T!Forgotten, T!Nothing, T!Direction, T!Steps
<1>12. CASE UNCHANGED <<acts, asked, ledger, owner, plan>>
  BY <1>12 DEF T!Call, T!Direction, T!Steps
<1> HIDE DEF ServiceInv, ServiceShape
<1> QED BY <1>1, <1>2, <1>3, <1>4, <1>5, <1>6, <1>7, <1>8, <1>9, <1>10, <1>11, <1>12
      DEF T!Next, T!Worker, T!Systemd, T!Acknowledged, T!GaveUp, T!Refused, T!Returned,
          T!VerifyEffect, T!Forget, T!Remember, T!Reload, T!StartJob, T!StopJob, T!RequestLost,
          T!ServiceFails, T!calls, T!records, T!target, T!host, T!Others, T!systemd

LEMMA ServiceActedKept == ServiceInv /\ T!Next => ServiceActed'
<1> SUFFICES ASSUME ServiceInv, T!Next PROVE ServiceActed'
  OBVIOUS
<1>0. UNCHANGED plan
  BY DEF T!Next
<1> USE <1>0 DEF ServiceInv, ServiceActed, ServiceIntended, ServiceShape, T!host, T!calls, T!disk,
      T!systemd, T!target, T!records, T!Others
<1>1. ASSUME NEW d \in T!Direction, T!Dispatch(d) PROVE ServiceActed'
  BY <1>1 DEF T!Dispatch, T!Call, T!MayDispatch, T!Sent, T!NoEvent, T!Direction, T!Steps, T!dir
<1>2. ASSUME NEW c \in T!Call, T!Begin(c) PROVE ServiceActed'
  BY <1>2 DEF T!Begin, T!Sent, T!Direction, T!Steps, T!dir, T!Call
<1>3. CASE T!AlreadyThere
  BY <1>3 DEF T!AlreadyThere, T!Busy, T!Write, T!dir, T!Steps, T!Nothing, T!Forgotten, service,
      T!Direction, T!Call
<1>4. CASE T!Intend
  BY <1>4 DEF T!Intend, T!Busy, T!MayIntend, T!Write, T!dir, T!Steps, T!Nothing, T!Forgotten,
      service, T!Direction, T!Call
<1>5. CASE T!ActFile
  <2>1. UNCHANGED ledger /\ (UNCHANGED acts \/ (owner # 0 /\ stage = "intended" /\ T!Acts))
    BY <1>5 DEF T!ActFile, T!Busy
  <2> QED BY <2>1, ActingOnce
<1>6. CASE T!ActSystemctl
  <2>1. UNCHANGED ledger /\ (UNCHANGED acts \/ (owner # 0 /\ stage = "intended" /\ T!Acts))
    BY <1>6 DEF T!ActSystemctl, T!Busy
  <2> QED BY <2>1, ActingOnce
<1>7. CASE T!Settle
  BY <1>7 DEF T!Settle, T!Busy, T!Write, T!dir, T!Steps, T!Direction, T!Call
<1>8. CASE T!Finish
  BY <1>8 DEF T!Finish, T!Answer, T!dir, T!LastOf, T!Steps, T!Nothing, T!Forgotten, service,
      T!Direction, T!Call
<1>9. CASE T!Raised
  <2>1. UNCHANGED ledger /\ (UNCHANGED acts \/ (owner # 0 /\ stage = "intended" /\ T!Acts))
    BY <1>9 DEF T!Raised, T!Busy
  <2> QED BY <2>1, ActingOnce
<1>10. CASE T!Killed
  <2>1. UNCHANGED ledger /\ (UNCHANGED acts \/ (owner # 0 /\ stage = "intended" /\ T!Acts))
    BY <1>10 DEF T!Killed, T!Busy
  <2> QED BY <2>1, ActingOnce
<1>11. CASE T!Reboot
  BY <1>11 DEF T!Reboot, T!Call, T!Forgotten, T!Nothing, T!Direction, T!Steps, T!dir
<1>12. CASE UNCHANGED <<acts, asked, ledger, owner, plan>>
  BY <1>12 DEF T!Direction, T!Steps, T!dir
<1> HIDE DEF ServiceInv, ServiceActed, ServiceIntended, ServiceShape
<1> QED BY <1>1, <1>2, <1>3, <1>4, <1>5, <1>6, <1>7, <1>8, <1>9, <1>10, <1>11, <1>12
      DEF T!Next, T!Worker, T!Systemd, T!Acknowledged, T!GaveUp, T!Refused, T!Returned,
          T!VerifyEffect, T!Forget, T!Remember, T!Reload, T!StartJob, T!StopJob, T!RequestLost,
          T!ServiceFails, T!calls, T!records, T!target, T!host, T!Others, T!systemd

LEMMA ServiceIntendedKept == ServiceInv /\ T!Next => ServiceIntended'
<1> SUFFICES ASSUME ServiceInv, T!Next PROVE ServiceIntended'
  OBVIOUS
<1>0. UNCHANGED plan
  BY DEF T!Next
<1> USE <1>0 DEF ServiceInv, ServiceActed, ServiceIntended, ServiceShape, T!host, T!calls, T!disk,
      T!systemd, T!target, T!records, T!Others
<1>1. ASSUME NEW d \in T!Direction, T!Dispatch(d) PROVE ServiceIntended'
  <2>1. UNCHANGED <<owner, acts, ledger, stage>>
    BY <1>1 DEF T!Dispatch
  <2>2. owner # 0 => T!dir' = T!dir
    BY <1>1, <2>1 DEF T!Dispatch, T!dir, T!Sent, T!Call, T!Direction
  <2>3. CASE owner # 0
    BY <2>1, <2>2, <2>3, SameLedger DEF T!Steps
  <2> QED BY <2>1, <2>3
<1>2. ASSUME NEW c \in T!Call, T!Begin(c) PROVE ServiceIntended'
  BY <1>2 DEF T!Begin, T!Sent, T!Steps, T!dir, T!Call, T!Direction
<1>3. CASE T!AlreadyThere
  BY <1>3 DEF T!AlreadyThere, T!Busy, T!Write, T!dir, T!Steps, T!Nothing, T!Forgotten, service,
      T!Call, T!Direction
<1>4. CASE T!Intend
  <2>1. T!dir' = T!dir /\ owner # 0 /\ UNCHANGED <<owner, asked, acts>> /\ T!MayIntend /\ T!Write("intent")
    BY <1>4 DEF T!Intend, T!Busy, T!dir
  <2>2. T!dir \in T!Direction
    BY <2>1 DEF T!dir
  <2>3. T!Open(T!dir)' = T!Open(T!dir)
    <3>1. T!pos \in T!Open(T!dir)
      BY <1>4, FirstIsOpen DEF T!Intend, T!Busy
    <3>2. \A i \in T!Steps(T!dir) : ledger'[T!dir][i] = "done" <=> ledger[T!dir][i] = "done"
      BY <2>1, <2>2, <3>1 DEF T!Open, T!Write
    <3> QED BY <2>1, <3>2 DEF T!Open, T!Steps
  <2>4. T!pos' = T!pos /\ T!phase' = T!phase
    BY <2>1, <2>3, SamePhase
  <2>5. T!pos \in T!Steps(T!dir) => ledger'[T!dir][T!pos] = "intent"
    BY <2>1, <2>2 DEF T!Write
  <2>6. T!pos \in T!Steps(T!dir) /\ ~ T!Repeatable(T!phase) => acts[T!dir][T!pos] = 0
    BY <2>1, <2>2 DEF T!MayIntend, T!phase
  <2> QED BY <2>1, <2>4, <2>5, <2>6 DEF T!Steps
<1>5. CASE T!ActFile
  BY <1>5 DEF T!ActFile, T!Acts, T!Busy, T!Publish, T!PublishLink, T!dir, T!Steps, T!Call,
      T!Direction
<1>6. CASE T!ActSystemctl
  BY <1>6 DEF T!ActSystemctl, T!Acts, T!Busy, T!dir, T!Steps, T!Call, T!Direction
<1>7. CASE T!Returned
  BY <1>7 DEF T!Returned, T!Busy, T!dir, T!Steps, T!Call, T!Direction
<1>8. CASE T!VerifyEffect
  BY <1>8 DEF T!VerifyEffect, T!Busy, T!dir, T!Steps, T!Nothing, T!Forgotten, service, T!Call,
      T!Direction
<1>9. CASE T!Settle
  BY <1>9 DEF T!Settle, T!Busy, T!Write, T!dir, T!Steps, T!Call, T!Direction
<1>10. CASE T!Finish
  BY <1>10 DEF T!Finish, T!Answer, T!dir, T!LastOf, T!Steps, T!Nothing, T!Forgotten, service,
      T!Call, T!Direction
<1>11. CASE T!Raised
  BY <1>11 DEF T!Raised, T!Acts, T!Answer, T!Busy, T!Publish, T!PublishLink, T!dir, T!Steps,
      T!Call, T!Direction
<1>12. CASE T!Killed
  BY <1>12 DEF T!Killed, T!Acts, T!Answer, T!Busy, T!Nothing, T!Publish, T!PublishLink, T!dir,
      T!Steps, T!Call, T!Direction
<1>13. CASE T!Reboot
  BY <1>13 DEF T!Reboot, T!Call, T!Forgotten, T!Nothing, T!Steps, T!dir, T!Direction
<1>14. CASE UNCHANGED <<acts, asked, ledger, owner, plan, stage>>
  BY <1>14, SameLedger DEF T!Steps, T!dir
<1> HIDE DEF ServiceInv, ServiceActed, ServiceIntended, ServiceShape
<1> QED BY <1>1, <1>2, <1>3, <1>4, <1>5, <1>6, <1>7, <1>8, <1>9, <1>10, <1>11, <1>12, <1>13,
      <1>14
      DEF T!Next, T!Worker, T!Systemd, T!Acknowledged, T!GaveUp, T!Refused, T!Forget,
          T!Remember, T!Reload, T!StartJob, T!StopJob, T!RequestLost, T!ServiceFails, T!calls,
          T!records, T!target, T!host, T!Others, T!systemd


LEMMA ServiceInvBegins == T!Init => ServiceInv
  BY DEF T!Init, ServiceInv, ServiceShape, ServiceActed, ServiceIntended, T!Direction, T!Steps, T!Call

LEMMA ServiceInvKept == ServiceInv /\ [T!Next]_(T!vars) => ServiceInv'
<1> SUFFICES ASSUME ServiceInv, [T!Next]_(T!vars) PROVE ServiceInv'
  OBVIOUS
<1>1. CASE T!Next
  <2>1. ServiceInv /\ T!Next
    BY <1>1
  <2> QED BY <2>1, ServiceShapeKept, ServiceActedKept, ServiceIntendedKept DEF ServiceInv
<1>2. CASE UNCHANGED T!vars
  <2>1. UNCHANGED <<plan, ledger, acts, asked, owner, stage>>
    BY <1>2 DEF T!vars, T!calls, T!records
  <2> QED BY <2>1, SameLedger DEF ServiceInv, ServiceShape, ServiceActed, ServiceIntended,
       T!Steps, T!dir
<1> QED BY <1>1, <1>2

(* "Non-repeatable effects are never automatically retried after an        *)
(* unacknowledged intent": for every transaction, however many workers are *)
(* killed, refused or late, a direction starts or stops the service once.  *)
THEOREM ActsOnce == T!Spec => []ActedOnce
<1>1. ServiceInv => ActedOnce
  BY DEF ServiceInv, ServiceActed, ActedOnce, T!ActedOnce
<1> QED BY <1>1, ServiceInvBegins, ServiceInvKept, PTL DEF T!Spec

-----------------------------------------------------------------------------
(* What an acknowledged direction leaves behind.                           *)

Along == IF last.direction = "restore" THEN "restore" ELSE "apply"
Course == plan[Along]
AllDone(d) == \A i \in T!Steps(d) : ledger[d][i] = "done"

CallsTrue ==
  /\ plan \in Transactions /\ DOMAIN reply = T!Call
  /\ last \in {T!NoEvent} \cup
       [direction : T!Direction, state : {"dispatch", "acknowledged", "uncertain"}]
  /\ last = T!NoEvent => ~ waiting
  /\ Along = "restore" => AllDone("apply")
  /\ Along = "apply" => \A i \in T!Steps("restore") : ledger["restore"][i] = "none"
  /\ \A c \in T!Call :
       /\ asked[c] = "restore" => Along = "restore"
       /\ reply[c] = "done" => asked[c] \in T!Direction /\ AllDone(asked[c])
       /\ T!Current(c) /\ waiting => asked[c] = last.direction
       /\ T!Sent(c) => \A k \in T!Call : k < c => T!Sent(k)
  /\ last # T!NoEvent /\ last.state = "acknowledged" => AllDone(last.direction)

OpAt(n) == IF n \in T!Steps(Along) THEN Course[n].op ELSE "none"
EntryAt(n) == IF n \in T!Steps(Along) THEN ledger[Along][n] ELSE "none"
Acting(n, s) == owner # 0 /\ asked[owner] = Along /\ n \in T!Steps(Along) /\ stage = s

(* What the plan says of the unit before its phase n.                      *)
FileAt(n) == T!FilesAt(Course, n, "file")
LinkAt(n) == T!FilesAt(Course, n, "link")
StateAt(n) == T!ActiveAt(Course, n)
Unloaded(n) ==
  \E i \in 1..(n - 1) : Course[i].op = "link" /\
    ~ \E j \in (i + 1)..(n - 1) : Course[j].op = "daemon-reload"
After(n) == Course[n].after

(* n is the first phase that is not done.                                  *)
Reached(n) ==
  /\ \A i \in T!Steps(Along) : ledger[Along][i] = "done" <=> i < n
  /\ \A i \in T!Steps(Along) : i > n => ledger[Along][i] = "none"

FilesTrue(n) ==
  /\ OpAt(n) # "file" => file = FileAt(n)
  /\ OpAt(n) = "file" => file \in {FileAt(n), After(n)["file"]}
  /\ OpAt(n) # "link" => link = LinkAt(n)
  /\ OpAt(n) = "link" => link \in {LinkAt(n), After(n)["link"]}
  /\ temporary # "none" => OpAt(n) \in {"file", "link"} /\ EntryAt(n) = "intent"

Systemctl == {"start", "stop", "daemon-reload"}
JobTrue(n) ==
  /\ request # "none" => request = OpAt(n) /\ OpAt(n) \in Systemctl /\ EntryAt(n) = "intent"
  /\ request = "start" => active \in {"inactive", "activating"}
  /\ request = "stop" => active \in {"active", "deactivating"}
  /\ active = "activating" => request = "start" /\ cache.file = file
  /\ active = "deactivating" => request = "stop"
  /\ active \in {"active", "inactive", "activating", "deactivating"}

StateTrue(n) ==
  /\ ~ (OpAt(n) \in {"start", "stop"} /\ EntryAt(n) = "intent") => active = StateAt(n)
  /\ OpAt(n) = "start" /\ EntryAt(n) = "intent" => T!Known.file = file
  /\ active = "active" => running = file
  /\ active \in {"inactive", "activating"} => running = T!Nothing

GraphTrue(n) == OpAt(n) # "link" /\ ~ Unloaded(n) => graph = link

(* The effect of phase n is there.                                         *)
Effective(n) ==
  /\ temporary = "none" /\ request = "none"
  /\ OpAt(n) = "file" => file = After(n)["file"]
  /\ OpAt(n) = "link" => link = After(n)["link"]
  /\ OpAt(n) \in {"start", "stop"} => active = After(n)["service"].active
  /\ OpAt(n) = "daemon-reload" => graph = link

WorkerTrue(n) ==
  /\ Acting(n, "intended") =>
       /\ EntryAt(n) = "intent"
       /\ OpAt(n) \in {"start", "stop"} => request = "none" /\ active = StateAt(n)
  /\ Acting(n, "waiting") =>
       /\ EntryAt(n) = "intent" /\ temporary = "none" /\ OpAt(n) \in Systemctl
       /\ request = "none" => Effective(n)
  /\ Acting(n, "acted") \/ Acting(n, "settled") => EntryAt(n) = "intent" /\ Effective(n)

CourseTrue(n) == FilesTrue(n) /\ JobTrue(n) /\ StateTrue(n) /\ GraphTrue(n) /\ WorkerTrue(n)
Steady == ~ rebooted /\ active # "failed"
Place(n) == Reached(n) /\ (Steady => CourseTrue(n))
TransactionInv == CallsTrue /\ \E n \in 1..(Len(Course) + 1) : Place(n)

-----------------------------------------------------------------------------
(* The plan.                                                               *)
LEMMA CoherentCourse ==
  ASSUME plan \in Transactions
  PROVE  T!Coherent(Course) /\ T!Coherent(plan["apply"]) /\ T!Coherent(plan["restore"])
         /\ T!LastOf(plan["restore"]).after = plan["apply"][1].before
         /\ T!LastOf(plan["apply"]).after = plan["restore"][1].before
  BY TransactionsAssumption DEF T!TransactionAssumption, Course, Along, T!Direction

LEMMA CourseBegins ==
  ASSUME plan \in Transactions
  PROVE  /\ Len(Course) \in Nat /\ Len(Course) > 1 /\ T!Steps(Along) = 1..Len(Course)
         /\ OpAt(1) = "verify" /\ ~ Unloaded(1)
         /\ FileAt(1) = Course[1].before["file"] /\ LinkAt(1) = Course[1].before["link"]
         /\ StateAt(1) = Course[1].before["service"].active
         /\ StateAt(1) \in {"active", "inactive"}
<1>1. T!Coherent(Course)
  BY CoherentCourse
<1>2. Len(Course) \in Nat /\ Len(Course) > 1 /\ T!Steps(Along) = 1..Len(Course)
      /\ Course[1].op = "verify" /\ T!ActiveAt(Course, 1) \in {"active", "inactive"}
  BY <1>1 DEF T!Coherent, T!Steps, Course
<1>3. \A op : ~ T!Precedes(Course, 1, op)
  BY DEF T!Precedes
<1>4. ~ Unloaded(1)
  BY DEF Unloaded
<1> QED BY <1>2, <1>3, <1>4 DEF OpAt, FileAt, LinkAt, StateAt, T!FilesAt, T!ActiveAt

LEMMA Preceding ==
  ASSUME NEW n \in Nat, n > 0, NEW op
  PROVE  T!Precedes(Course, n + 1, op) <=> T!Precedes(Course, n, op) \/ Course[n].op = op
  BY DEF T!Precedes

LEMMA CourseSteps ==
  ASSUME plan \in Transactions, NEW n \in 1..Len(Course)
  PROVE  /\ OpAt(n) = Course[n].op /\ OpAt(n) \in {"verify", "file", "link", "daemon-reload", "start", "stop"}
         /\ OpAt(n) \in {"file", "link"} => OpAt(n) \in DOMAIN After(n)
         /\ OpAt(n) \in {"start", "stop"} =>
              "service" \in DOMAIN Course[n].before /\ "service" \in DOMAIN After(n)
         /\ OpAt(n) = "file" => StateAt(n) = "inactive"
         /\ OpAt(n) = "start" =>
              /\ StateAt(n) = "inactive" /\ Course[n].before["service"].reload = FALSE
              /\ After(n)["service"].active = "active"
         /\ OpAt(n) = "stop" => StateAt(n) = "active" /\ After(n)["service"].active = "inactive"
         /\ FileAt(n + 1) = IF OpAt(n) = "file" THEN After(n)["file"] ELSE FileAt(n)
         /\ LinkAt(n + 1) = IF OpAt(n) = "link" THEN After(n)["link"] ELSE LinkAt(n)
         /\ StateAt(n + 1) = IF OpAt(n) \in {"start", "stop"} THEN After(n)["service"].active
                             ELSE StateAt(n)
         /\ OpAt(n) # "daemon-reload" /\ Unloaded(n) => Unloaded(n + 1)
         /\ OpAt(n) = "link" => Unloaded(n + 1)
<1>0. /\ T!Coherent(Course)
      /\ Len(Course) \in Nat /\ Len(Course) > 1 /\ T!Steps(Along) = 1..Len(Course)
  BY CoherentCourse, CourseBegins
<1>1. OpAt(n) = Course[n].op /\ n \in Nat /\ n > 0
  BY <1>0 DEF OpAt
<1>2. /\ OpAt(n) \in {"verify", "file", "link", "daemon-reload", "start", "stop"}
      /\ OpAt(n) \in {"file", "link"} =>
           OpAt(n) \in DOMAIN After(n) /\ After(n)[OpAt(n)] = T!LastOf(Course).after[OpAt(n)]
      /\ OpAt(n) \in {"start", "stop"} =>
           "service" \in DOMAIN Course[n].before /\ "service" \in DOMAIN After(n)
      /\ OpAt(n) = "file" => StateAt(n) = "inactive"
      /\ OpAt(n) = "start" =>
           /\ StateAt(n) = "inactive" /\ Course[n].before["service"].reload = FALSE
           /\ After(n)["service"].active = "active"
      /\ OpAt(n) = "stop" => StateAt(n) = "active" /\ After(n)["service"].active = "inactive"
           /\ ~ T!Precedes(Course, n, "start")
  BY <1>0, <1>1 DEF T!Coherent, After, StateAt, T!LastOf
<1>3. \A op : T!Precedes(Course, n + 1, op) <=> T!Precedes(Course, n, op) \/ Course[n].op = op
  BY <1>1, Preceding
<1>4. FileAt(n + 1) = IF OpAt(n) = "file" THEN After(n)["file"] ELSE FileAt(n)
  BY <1>1, <1>2, <1>3 DEF FileAt, T!FilesAt
<1>5. LinkAt(n + 1) = IF OpAt(n) = "link" THEN After(n)["link"] ELSE LinkAt(n)
  BY <1>1, <1>2, <1>3 DEF LinkAt, T!FilesAt
<1>6. StateAt(n + 1) = IF OpAt(n) \in {"start", "stop"} THEN After(n)["service"].active ELSE StateAt(n)
  BY <1>1, <1>2, <1>3 DEF StateAt, T!ActiveAt
<1>u. Unloaded(n + 1) <=> \E i \in 1..n : Course[i].op = "link" /\
                           ~ \E j \in (i + 1)..n : Course[j].op = "daemon-reload"
  <2>1. (n + 1) - 1 = n
    BY <1>1
  <2> QED BY <2>1 DEF Unloaded
<1>7. ASSUME OpAt(n) # "daemon-reload", Unloaded(n) PROVE Unloaded(n + 1)
  <2>1. PICK i \in 1..(n - 1) : Course[i].op = "link" /\
          \A j \in (i + 1)..(n - 1) : Course[j].op # "daemon-reload"
    BY <1>7 DEF Unloaded
  <2>2. \A j \in (i + 1)..n : j = n \/ j \in (i + 1)..(n - 1)
    BY <1>1
  <2>3. i \in 1..n /\ \A j \in (i + 1)..n : Course[j].op # "daemon-reload"
    BY <1>1, <1>7, <2>1, <2>2
  <2> QED BY <1>u, <2>1, <2>3
<1>8. ASSUME OpAt(n) = "link" PROVE Unloaded(n + 1)
  <2>1. n \in 1..n /\ (n + 1)..n = {}
    BY <1>1
  <2> QED BY <1>u, <1>1, <1>8, <2>1
<1> QED BY <1>1, <1>2, <1>4, <1>5, <1>6, <1>7, <1>8

LEMMA CourseEnds ==
  ASSUME plan \in Transactions
  PROVE  LET n == Len(Course) + 1
             result == T!LastOf(Course).after
         IN /\ OpAt(n) = "none" /\ EntryAt(n) = "none" /\ ~ Unloaded(n)
            /\ FileAt(n) = result["file"] /\ LinkAt(n) = result["link"]
            /\ StateAt(n) = result["service"].active
<1> DEFINE n == Len(Course)
<1>0. /\ T!Coherent(Course)
      /\ n \in Nat /\ n > 1 /\ T!Steps(Along) = 1..n
  BY CoherentCourse, CourseBegins
<1>1. Course[n].op = "verify" /\ n \in 1..n
  BY <1>0 DEF T!Coherent
<1>2. FileAt(n + 1) = FileAt(n) /\ LinkAt(n + 1) = LinkAt(n) /\ StateAt(n + 1) = StateAt(n)
  BY <1>1, CourseSteps
<1>3. FileAt(n) = T!LastOf(Course).after["file"] /\ LinkAt(n) = T!LastOf(Course).after["link"]
      /\ StateAt(n) = T!LastOf(Course).after["service"].active
  BY <1>0 DEF T!Coherent, FileAt, LinkAt, StateAt, T!LastOf
<1>4. ~ Unloaded(n + 1)
  <2>1. ASSUME NEW i \in 1..n, Course[i].op = "link" PROVE \E j \in (i + 1)..n : Course[j].op = "daemon-reload"
    BY <1>0, <2>1 DEF T!Coherent
  <2> QED BY <1>0, <2>1 DEF Unloaded
<1>5. OpAt(n + 1) = "none" /\ EntryAt(n + 1) = "none"
  BY <1>0 DEF OpAt, EntryAt
<1> QED BY <1>2, <1>3, <1>4, <1>5

-----------------------------------------------------------------------------
(* The host and its calls.                                                 *)
LEMMA SameCourse ==
  ASSUME UNCHANGED plan, Along' = Along, NEW n
  PROVE  /\ Course' = Course /\ T!Steps(Along)' = T!Steps(Along) /\ OpAt(n)' = OpAt(n)
         /\ FileAt(n)' = FileAt(n) /\ LinkAt(n)' = LinkAt(n) /\ StateAt(n)' = StateAt(n)
         /\ Unloaded(n)' = Unloaded(n) /\ After(n)' = After(n)
<1>1. Course' = Course
  BY DEF Course
<1> QED BY <1>1 DEF T!Steps, OpAt, FileAt, LinkAt, StateAt, Unloaded, After, T!FilesAt,
     T!ActiveAt, T!Precedes, T!LastOf

(* Only a worker of the direction under way has a phase to act on.         *)
LEMMA BusyIsAlong ==
  ASSUME ServiceShape, CallsTrue, NEW n \in 1..(Len(Course) + 1), Reached(n), NEW s, T!Busy(s)
  PROVE  /\ Along \in T!Direction /\ asked[owner] = Along /\ owner \in T!Call
         /\ n \in T!Steps(Along) /\ T!dir = Along /\ T!pos = n /\ T!phase = Course[n]
         /\ OpAt(n) = Course[n].op /\ EntryAt(n) = ledger[Along][n] /\ Acting(n, s)
<1>1. owner # 0 /\ stage = s /\ T!Open(T!dir) # {} /\ owner \in T!Call /\ asked[owner] \in T!Direction
  BY DEF T!Busy, ServiceShape
<1>2. Along \in T!Direction
  BY DEF Along, T!Direction
<1>3. asked[owner] = Along
  <2>1. CASE Along = "apply"
    BY <1>1, <2>1 DEF CallsTrue, T!Direction
  <2>2. CASE Along = "restore" /\ asked[owner] = "apply"
    BY <1>1, <2>2 DEF CallsTrue, AllDone, T!Open, T!dir
  <2> QED BY <1>1, <2>1, <2>2 DEF Along, T!Direction
<1>4. T!dir = Along
  BY <1>3 DEF T!dir
<1>5. T!pos \in T!Open(Along) /\ \A j \in T!Open(Along) : T!pos <= j
  BY <1>1, <1>4, FirstIsOpen
<1>6. T!Steps(Along) = 1..Len(Course) /\ Len(Course) \in Nat
  BY CourseBegins DEF CallsTrue
<1>7. T!Open(Along) = {i \in 1..Len(Course) : i >= n}
  BY <1>6 DEF T!Open, Reached
<1>8. n \in T!Open(Along) /\ T!pos = n
  <2>1. T!pos \in 1..Len(Course) /\ T!pos >= n
    BY <1>5, <1>7
  <2>2. n \in T!Open(Along)
    BY <1>6, <1>7, <2>1
  <2>3. T!pos <= n
    BY <1>5, <2>2
  <2> QED BY <1>6, <2>1, <2>2, <2>3
<1> QED BY <1>1, <1>2, <1>3, <1>4, <1>6, <1>7, <1>8 DEF T!phase, Course, OpAt, EntryAt, Acting

(* A record is written where the direction under way has got to.           *)
LEMMA WriteKeepsCalls ==
  ASSUME ServiceShape, CallsTrue, NEW s, T!Busy(s), NEW x, T!Write(x),
         UNCHANGED <<plan, last, waiting, asked, reply>>
  PROVE  CallsTrue'
<1>1. T!dir \in T!Direction /\ T!pos \in T!Open(T!dir)
  BY FirstIsOpen DEF ServiceShape, T!Busy, T!dir
<1>2. \A d \in T!Direction : \A i \in T!Steps(d) :
        ledger'[d][i] = IF d = T!dir /\ i = T!pos THEN x ELSE ledger[d][i]
  BY <1>1 DEF T!Write, ServiceShape, T!Open
<1>3. T!Steps("apply")' = T!Steps("apply") /\ T!Steps("restore")' = T!Steps("restore")
  BY DEF T!Steps
<1>4. \A d \in T!Direction : AllDone(d) => AllDone(d)'
  BY <1>1, <1>2, <1>3 DEF AllDone, T!Open, T!Direction
<1>5. Along = "apply" => T!dir = "apply"
  BY <1>1 DEF CallsTrue, T!dir, T!Direction, T!Busy, ServiceShape
<1>6. Along' = Along /\ "apply" \in T!Direction /\ "restore" \in T!Direction
  BY DEF Along, T!Direction
<1> QED BY <1>2, <1>3, <1>4, <1>5, <1>6 DEF CallsTrue, T!Current, T!Sent, T!NoEvent

LEMMA SameCalls ==
  ASSUME CallsTrue, UNCHANGED <<plan, ledger, asked>>, waiting' => waiting,
         last' = last \/ (last # T!NoEvent /\ last' = [last EXCEPT !.state = "uncertain"]),
         DOMAIN reply' = T!Call,
         \A c \in T!Call : reply'[c] = "done" => asked[c] \in T!Direction /\ AllDone(asked[c])
  PROVE  CallsTrue'
<1>1. \A d \in T!Direction : AllDone(d) => AllDone(d)'
  BY DEF AllDone, T!Steps
<1>2. /\ last' \in {T!NoEvent} \cup
           [direction : T!Direction, state : {"dispatch", "acknowledged", "uncertain"}]
      /\ last'.direction = last.direction /\ (last = T!NoEvent <=> last' = T!NoEvent)
      /\ last'.state = "acknowledged" => last.state = "acknowledged"
  BY DEF CallsTrue, T!NoEvent, T!Direction
<1>3. Along' = Along
  BY <1>2 DEF Along
<1> QED BY <1>1, <1>2, <1>3 DEF CallsTrue, T!Current, T!Sent, T!NoEvent, T!Direction, T!Steps

LEMMA DispatchKeepsCalls ==
  ASSUME ServiceShape, CallsTrue, UNCHANGED plan, NEW d \in T!Direction, T!Dispatch(d)
  PROVE  CallsTrue' /\ (Along' # Along => Along = "apply" /\ d = "restore" /\ AllDone("apply"))
         /\ Along' = d
<1>1. PICK c \in T!Call : /\ ~ T!Sent(c) /\ \A k \in T!Call : k < c => T!Sent(k)
                          /\ asked' = [asked EXCEPT ![c] = d]
  BY DEF T!Dispatch
<1>2. last' = [direction |-> d, state |-> "dispatch"] /\ waiting' = TRUE
      /\ UNCHANGED <<plan, ledger, reply>> /\ ~ waiting
  BY DEF T!Dispatch, T!records
<1>3. \A k \in T!Call : asked'[k] = IF k = c THEN d ELSE asked[k]
  BY <1>1 DEF ServiceShape
<1>4. \A k \in T!Call : k > c => ~ T!Sent(k)
  BY <1>1 DEF CallsTrue, T!Call
<1>5. Along' = d /\ (Along' # Along => Along = "apply" /\ d = "restore" /\ AllDone("apply"))
  <2>1. T!MayDispatch(d)
    BY DEF T!Dispatch
  <2> QED BY <1>2, <2>1 DEF CallsTrue, T!MayDispatch, T!NoEvent, Along, T!Direction
<1>6. \A x \in T!Direction : AllDone(x)' = AllDone(x)
  BY <1>2 DEF AllDone, T!Steps
<1>7. Along = "restore" => d = "restore"
  BY <1>5
<1>8. reply[c] # "done"
  BY <1>1 DEF CallsTrue, T!Sent, T!Direction
<1>9. \A k \in T!Call : T!Sent(k)' <=> k = c \/ T!Sent(k)
  BY <1>3 DEF T!Sent, T!Direction
<1>10. \A k \in T!Call : T!Current(k)' => k = c
  BY <1>4, <1>9 DEF T!Current, T!Call
<1>11. \A k \in T!Call : T!Sent(k)' => \A j \in T!Call : j < k => T!Sent(j)'
  BY <1>1, <1>9 DEF CallsTrue
<1>12. \A k \in T!Call :
         /\ (asked'[k] = "restore" => d = "restore")
         /\ reply'[k] = "done" => asked'[k] \in T!Direction /\ AllDone(asked[k])'
         /\ T!Current(k)' => asked'[k] = d
  BY <1>2, <1>3, <1>5, <1>6, <1>7, <1>8, <1>10 DEF CallsTrue
<1>13. d = "restore" => AllDone("apply")
  BY <1>5 DEF CallsTrue
<1>14. d = "apply" => \A i \in T!Steps("restore") : ledger["restore"][i] = "none"
  BY <1>5, <1>7 DEF CallsTrue, Along
<1>15. /\ last' \in [direction : T!Direction, state : {"dispatch", "acknowledged", "uncertain"}]
       /\ last' # T!NoEvent /\ last'.state = "dispatch" /\ last'.direction = d
  BY <1>2 DEF T!NoEvent
<1>16. AllDone("apply")' = AllDone("apply")
       /\ (\A i \in T!Steps("restore") : ledger["restore"][i] = "none")'
            = (\A i \in T!Steps("restore") : ledger["restore"][i] = "none")
  BY <1>2, <1>6 DEF T!Direction, T!Steps
<1>17. plan' \in Transactions /\ DOMAIN reply' = T!Call
  BY <1>2 DEF CallsTrue
<1>18. CallsTrue'
  BY <1>5, <1>11, <1>12, <1>13, <1>14, <1>15, <1>16, <1>17 DEF CallsTrue
<1> QED BY <1>5, <1>18

LEMMA AcknowledgedKeepsCalls ==
  ASSUME ServiceShape, CallsTrue, UNCHANGED plan, T!Acknowledged
  PROVE  CallsTrue' /\ Along' = Along
<1>1. PICK c \in T!Call : T!Current(c) /\ reply[c] = "done"
  BY DEF T!Acknowledged
<1>2. waiting /\ last' = [last EXCEPT !.state = "acknowledged"] /\ waiting' = FALSE
      /\ UNCHANGED <<plan, asked, reply, ledger>>
  BY DEF T!Acknowledged, T!calls, T!records
<1>3. last.direction \in T!Direction /\ AllDone(last.direction)
  BY <1>1, <1>2 DEF CallsTrue
<1>4. last' \in [direction : T!Direction, state : {"dispatch", "acknowledged", "uncertain"}]
      /\ last' # T!NoEvent /\ last'.direction = last.direction
  BY <1>2, <1>3 DEF CallsTrue, T!NoEvent
<1>5. Along' = Along /\ \A d \in T!Direction : AllDone(d)' = AllDone(d)
  BY <1>2, <1>4 DEF Along, AllDone, T!Steps
<1>6. "apply" \in T!Direction
  BY DEF T!Direction
<1> QED BY <1>2, <1>3, <1>4, <1>5, <1>6 DEF CallsTrue, T!Current, T!Sent, T!Steps

LEMMA AnswerKeepsCalls ==
  ASSUME ServiceShape, CallsTrue, owner # 0, NEW x, T!Answer(x),
         UNCHANGED <<plan, ledger, asked, last, waiting>>,
         x = "done" => asked[owner] \in T!Direction /\ AllDone(asked[owner])
  PROVE  CallsTrue'
<1>1. DOMAIN reply' = T!Call /\ \A c \in T!Call : reply'[c] = IF c = owner THEN x ELSE reply[c]
  BY DEF T!Answer, CallsTrue
<1> QED BY <1>1, SameCalls DEF CallsTrue

LEMMA CallsKept == ServiceShape /\ CallsTrue /\ T!Next => CallsTrue'
<1> SUFFICES ASSUME ServiceShape, CallsTrue, T!Next PROVE CallsTrue'
  OBVIOUS
<1>0. UNCHANGED plan
  BY DEF T!Next
<1>d. DOMAIN reply = T!Call
      /\ \A c \in T!Call : reply[c] = "done" => asked[c] \in T!Direction /\ AllDone(asked[c])
  BY DEF CallsTrue
<1>1. ASSUME NEW d \in T!Direction, T!Dispatch(d) PROVE CallsTrue'
  BY <1>0, <1>1, DispatchKeepsCalls
<1>2. CASE T!Acknowledged
  BY <1>0, <1>2, AcknowledgedKeepsCalls
<1>3. CASE T!GaveUp
  <2>1. last # T!NoEvent /\ UNCHANGED <<ledger, asked, reply>> /\ ~ waiting'
        /\ last' \in {last, [last EXCEPT !.state = "uncertain"]}
    BY <1>3 DEF T!GaveUp, T!calls, T!records, CallsTrue
  <2> QED BY <1>0, <1>d, <2>1, SameCalls
<1>4. ASSUME NEW c \in T!Call, T!Refused(c) PROVE CallsTrue'
  <2>1. UNCHANGED <<ledger, asked, last, waiting>> /\ reply' = [reply EXCEPT ![c] = "error"]
    BY <1>4 DEF T!Refused, T!host, T!records
  <2>2. DOMAIN reply' = T!Call /\ \A k \in T!Call : reply'[k] = "done" => reply[k] = "done"
    BY <1>d, <2>1
  <2> QED BY <1>0, <1>d, <2>1, <2>2, SameCalls
<1>5. CASE T!AlreadyThere
  BY <1>0, <1>5, WriteKeepsCalls DEF T!AlreadyThere, T!host, T!calls
<1>6. CASE T!Intend
  BY <1>0, <1>6, WriteKeepsCalls DEF T!Intend, T!host, T!calls
<1>7. CASE T!Settle
  BY <1>0, <1>7, WriteKeepsCalls DEF T!Settle, T!host, T!calls
<1>8. CASE T!Finish
  <2>1. asked[owner] \in T!Direction /\ AllDone(asked[owner])
    BY <1>8 DEF T!Finish, T!Open, T!dir, AllDone, ServiceShape
  <2> QED BY <1>0, <1>8, <2>1, AnswerKeepsCalls DEF T!Finish, T!host, T!records
<1>9. CASE T!Raised \/ T!Killed
  BY <1>0, <1>9, AnswerKeepsCalls DEF T!Raised, T!Killed, T!host
<1>10. CASE T!Reboot
  <2>1. UNCHANGED <<ledger, asked, last, waiting>>
        /\ reply' = [c \in T!Call |-> IF c = owner THEN "error" ELSE reply[c]]
    BY <1>10 DEF T!Reboot, T!host, T!records
  <2>2. DOMAIN reply' = T!Call /\ \A k \in T!Call : reply'[k] = "done" => reply[k] = "done"
    BY <2>1
  <2> QED BY <1>0, <1>d, <2>1, <2>2, SameCalls
<1>11. CASE UNCHANGED <<ledger, asked, reply, last, waiting>>
  BY <1>0, <1>d, <1>11, SameCalls
<1> QED BY <1>1, <1>2, <1>3, <1>4, <1>5, <1>6, <1>7, <1>8, <1>9, <1>10, <1>11
      DEF T!Next, T!Worker, T!Systemd, T!Begin, T!ActFile, T!ActSystemctl, T!Returned,
          T!VerifyEffect, T!Forget, T!Remember, T!Reload, T!StartJob, T!StopJob, T!RequestLost,
          T!ServiceFails, T!calls, T!records, T!host, T!Others

-----------------------------------------------------------------------------
(* The target.                                                             *)
LEMMA SamePlace ==
  ASSUME UNCHANGED <<plan, ledger>>, Along' = Along, NEW n
  PROVE  /\ Course' = Course /\ T!Steps(Along)' = T!Steps(Along) /\ OpAt(n)' = OpAt(n)
         /\ FileAt(n)' = FileAt(n) /\ LinkAt(n)' = LinkAt(n) /\ StateAt(n)' = StateAt(n)
         /\ Unloaded(n)' = Unloaded(n) /\ After(n)' = After(n)
         /\ EntryAt(n)' = EntryAt(n) /\ (Reached(n) => Reached(n)')
<1>1. /\ Course' = Course /\ T!Steps(Along)' = T!Steps(Along) /\ OpAt(n)' = OpAt(n)
      /\ FileAt(n)' = FileAt(n) /\ LinkAt(n)' = LinkAt(n) /\ StateAt(n)' = StateAt(n)
      /\ Unloaded(n)' = Unloaded(n) /\ After(n)' = After(n)
  BY SameCourse
<1> QED BY <1>1 DEF EntryAt, Reached

Stages == {"intended", "waiting", "acted", "settled"}

LEMMA SameTarget ==
  ASSUME UNCHANGED <<plan, ledger, T!target, rebooted>>, Along' = Along, NEW n, Place(n),
         \A s \in Stages : Acting(n, s)' => Acting(n, s)
  PROVE  Place(n)'
<1>1. /\ OpAt(n)' = OpAt(n) /\ EntryAt(n)' = EntryAt(n) /\ (Reached(n) => Reached(n)')
      /\ FileAt(n)' = FileAt(n) /\ LinkAt(n)' = LinkAt(n) /\ StateAt(n)' = StateAt(n)
      /\ Unloaded(n)' = Unloaded(n) /\ After(n)' = After(n)
  BY SamePlace
<1>2. UNCHANGED <<file, link, temporary, active, running, cache, graph, request, rebooted>>
  BY DEF T!target, T!disk, T!systemd
<1>3. Steady' = Steady /\ T!Known' = T!Known
  BY <1>2 DEF Steady, T!Known, T!OnDisk
<1>4. Effective(n)' = Effective(n)
  BY <1>1, <1>2 DEF Effective
<1>5. WorkerTrue(n) => WorkerTrue(n)'
  <2> HIDE DEF Effective, Acting, Systemctl
  <2>1. /\ Acting(n, "intended")' => Acting(n, "intended")
        /\ Acting(n, "waiting")' => Acting(n, "waiting")
        /\ Acting(n, "acted")' => Acting(n, "acted")
        /\ Acting(n, "settled")' => Acting(n, "settled")
    BY DEF Stages
  <2> QED BY <1>1, <1>2, <1>4, <2>1 DEF WorkerTrue, Systemctl
<1>6. CourseTrue(n) => FilesTrue(n)' /\ JobTrue(n)' /\ StateTrue(n)' /\ GraphTrue(n)'
  BY <1>1, <1>2, <1>3 DEF CourseTrue, FilesTrue, JobTrue, StateTrue, GraphTrue, Systemctl
<1> QED BY <1>1, <1>3, <1>5, <1>6 DEF Place, CourseTrue

LEMMA SystemdKeepsPlace ==
  ASSUME CallsTrue, UNCHANGED plan, NEW n \in 1..(Len(Course) + 1), Place(n), T!Systemd
  PROVE  Place(n)'
<1>0. UNCHANGED <<plan, last, asked, owner, stage, ledger, file, link, temporary, rebooted>>
  BY DEF T!Systemd, T!Forget, T!Remember, T!Reload, T!StartJob, T!StopJob, T!RequestLost,
      T!ServiceFails, T!Others, T!host, T!calls, T!records, T!disk
<1>1. /\ Along' = Along /\ OpAt(n)' = OpAt(n) /\ EntryAt(n)' = EntryAt(n)
      /\ FileAt(n)' = FileAt(n) /\ LinkAt(n)' = LinkAt(n) /\ StateAt(n)' = StateAt(n)
      /\ Unloaded(n)' = Unloaded(n) /\ After(n)' = After(n) /\ Reached(n)'
  <2>1. Along' = Along
    BY <1>0 DEF Along
  <2> QED BY <1>0, <2>1, SamePlace DEF Place
<1>2. /\ Acting(n, "intended")' = Acting(n, "intended") /\ Acting(n, "waiting")' = Acting(n, "waiting")
      /\ Acting(n, "acted")' = Acting(n, "acted") /\ Acting(n, "settled")' = Acting(n, "settled")
      /\ \A s \in Stages : Acting(n, s) => stage = s
  BY <1>0, <1>1 DEF Acting, T!Steps
<1>3. OpAt(n) \in {"start", "stop", "daemon-reload"} =>
        /\ OpAt(n) = "start" => After(n)["service"].active = "active" /\ StateAt(n) = "inactive"
        /\ OpAt(n) = "stop" => After(n)["service"].active = "inactive" /\ StateAt(n) = "active"
  <2>1. CASE n \in 1..Len(Course)
    BY <2>1, CourseSteps DEF CallsTrue
  <2>2. CASE n = Len(Course) + 1
    BY <2>2, CourseEnds DEF CallsTrue
  <2> QED BY <2>1, <2>2, CourseBegins DEF CallsTrue
<1> SUFFICES ASSUME Steady' PROVE CourseTrue(n)'
  BY <1>1 DEF Place
<1>4. ~ T!ServiceFails
  BY DEF T!ServiceFails, Steady
<1>5. Steady
  BY <1>0, <1>4 DEF T!Systemd, T!Forget, T!Remember, T!Reload, T!StartJob, T!StopJob,
      T!RequestLost, T!systemd, Steady
<1>6. FilesTrue(n) /\ JobTrue(n) /\ StateTrue(n) /\ GraphTrue(n) /\ WorkerTrue(n)
  BY <1>5 DEF Place, CourseTrue
<1>7. FilesTrue(n)'
  BY <1>0, <1>1, <1>6 DEF FilesTrue
<1>k. cache = T!Forgotten => T!Known.file = file
  BY DEF T!Known, T!OnDisk
<1>8. CASE T!Forget \/ T!Remember
  <2>0. UNCHANGED <<active, running, graph, request>>
    BY <1>8 DEF T!Forget, T!Remember
  <2>1. T!Known.file = file => T!Known'.file = file
    BY <1>0, <1>8 DEF T!Forget, T!Remember, T!Known, T!OnDisk
  <2>2. active = "activating" => cache'.file = file
    BY <1>8, <1>6 DEF T!Forget, T!Remember, T!OnDisk, JobTrue
  <2>3. JobTrue(n)' /\ StateTrue(n)' /\ GraphTrue(n)'
    BY <1>0, <1>1, <1>6, <2>0, <2>1, <2>2 DEF JobTrue, StateTrue, GraphTrue, Systemctl
  <2>4. Effective(n)' = Effective(n)
    BY <1>0, <1>1, <2>0 DEF Effective
  <2>5. WorkerTrue(n)'
    BY <1>0, <1>1, <1>2, <1>6, <2>0, <2>4 DEF WorkerTrue, Systemctl
  <2> QED BY <1>7, <2>3, <2>5 DEF CourseTrue
<1>9. CASE T!Reload
  <2>0. /\ UNCHANGED <<active, running>> /\ request = "daemon-reload" /\ request' = "none"
        /\ graph' = link /\ cache' = IF cache = T!Forgotten THEN T!Forgotten ELSE T!OnDisk
    BY <1>9 DEF T!Reload
  <2>1. OpAt(n) = "daemon-reload" /\ EntryAt(n) = "intent" /\ active \notin {"activating", "deactivating"}
    BY <1>6, <2>0 DEF JobTrue
  <2>2. JobTrue(n)' /\ StateTrue(n)' /\ GraphTrue(n)'
    BY <1>0, <1>1, <1>6, <2>0, <2>1 DEF JobTrue, StateTrue, GraphTrue, Systemctl
  <2>3. WorkerTrue(n)'
    BY <1>0, <1>1, <1>2, <1>6, <2>0, <2>1 DEF WorkerTrue, Systemctl, Effective, FilesTrue
  <2> QED BY <1>7, <2>2, <2>3 DEF CourseTrue
<1>10. CASE T!StartJob
  <2>0. /\ UNCHANGED graph /\ request = "start"
        /\ \/ active = "inactive" /\ active' = "activating" /\ cache' = T!Known
              /\ UNCHANGED <<running, request>>
           \/ active = "activating" /\ active' = "active" /\ running' = cache.file
              /\ request' = "none" /\ UNCHANGED cache
    BY <1>10 DEF T!StartJob
  <2>1. OpAt(n) = "start" /\ EntryAt(n) = "intent"
    BY <1>6, <2>0 DEF JobTrue
  <2>2. T!Known.file = file /\ (active = "activating" => cache.file = file)
    BY <1>6, <2>1 DEF StateTrue, JobTrue
  <2>3. T!Known'.file = file
    BY <1>0, <2>0, <2>2 DEF T!Known, T!OnDisk
  <2>4. JobTrue(n)' /\ StateTrue(n)' /\ GraphTrue(n)'
    BY <1>0, <1>1, <1>6, <2>0, <2>1, <2>2, <2>3 DEF JobTrue, StateTrue, GraphTrue, Systemctl
  <2>5. WorkerTrue(n)'
    BY <1>0, <1>1, <1>2, <1>3, <1>6, <2>0, <2>1 DEF WorkerTrue, Systemctl, Effective, FilesTrue
  <2> QED BY <1>7, <2>4, <2>5 DEF CourseTrue
<1>11. CASE T!StopJob
  <2>0. /\ UNCHANGED <<cache, graph>> /\ request = "stop"
        /\ \/ active = "active" /\ active' = "deactivating" /\ UNCHANGED <<running, request>>
           \/ active = "deactivating" /\ active' = "inactive" /\ running' = T!Nothing
              /\ request' = "none"
    BY <1>11 DEF T!StopJob
  <2>1. OpAt(n) = "stop" /\ EntryAt(n) = "intent"
    BY <1>6, <2>0 DEF JobTrue
  <2>4. JobTrue(n)' /\ StateTrue(n)' /\ GraphTrue(n)'
    BY <1>0, <1>1, <1>6, <2>0, <2>1 DEF JobTrue, StateTrue, GraphTrue, Systemctl
  <2>5. WorkerTrue(n)'
    BY <1>0, <1>1, <1>2, <1>3, <1>6, <2>0, <2>1 DEF WorkerTrue, Systemctl, Effective, FilesTrue
  <2> QED BY <1>7, <2>4, <2>5 DEF CourseTrue
<1>12. CASE T!RequestLost
  <2>0. /\ UNCHANGED <<active, running, cache, graph>> /\ stage # "waiting"
        /\ active \notin {"activating", "deactivating"} /\ request' = "none" /\ request # "none"
    BY <1>12 DEF T!RequestLost, T!systemd
  <2>1. T!Known' = T!Known
    BY <1>0, <2>0 DEF T!Known, T!OnDisk
  <2>2. JobTrue(n)' /\ StateTrue(n)' /\ GraphTrue(n)'
    BY <1>0, <1>1, <1>6, <2>0, <2>1 DEF JobTrue, StateTrue, GraphTrue, Systemctl
  <2>3. ~ Acting(n, "waiting")
    BY <2>0 DEF Acting
  <2>4. WorkerTrue(n)'
    BY <1>0, <1>1, <1>2, <1>6, <2>0, <2>3 DEF WorkerTrue, Effective
  <2> QED BY <1>7, <2>2, <2>4 DEF CourseTrue
<1> QED BY <1>4, <1>8, <1>9, <1>10, <1>11, <1>12 DEF T!Systemd

(* The worker makes its intent durable, or finds the effect there.         *)
LEMMA WriteKeepsPlace ==
  ASSUME ServiceShape, CallsTrue, NEW n \in 1..(Len(Course) + 1), Reached(n), NEW s, T!Busy(s),
         UNCHANGED <<plan, last>>, T!Write("intent")
  PROVE  /\ Along' = Along /\ OpAt(n)' = OpAt(n) /\ EntryAt(n)' = "intent"
         /\ FileAt(n)' = FileAt(n) /\ LinkAt(n)' = LinkAt(n) /\ StateAt(n)' = StateAt(n)
         /\ Unloaded(n)' = Unloaded(n) /\ After(n)' = After(n) /\ Reached(n)'
<1>1. Along' = Along /\ T!Steps(Along)' = T!Steps(Along)
  BY DEF Along, T!Steps
<1>2. /\ Along \in T!Direction /\ n \in T!Steps(Along) /\ T!dir = Along /\ T!pos = n
  BY BusyIsAlong
<1>3. \A i \in T!Steps(Along) : ledger'[Along][i] = IF i = n THEN "intent" ELSE ledger[Along][i]
  BY <1>2 DEF T!Write, ServiceShape
<1>4. EntryAt(n)' = "intent"
  BY <1>1, <1>2, <1>3 DEF EntryAt
<1>5. Reached(n)'
  BY <1>1, <1>2, <1>3, CourseBegins DEF Reached, CallsTrue
<1> QED BY <1>1, <1>4, <1>5, SameCourse

LEMMA ShownFields ==
  /\ T!Shown["file"] = file /\ T!Shown["link"] = link /\ T!Shown["service"].active = active
  /\ T!Shown["service"].reload = (T!Known.file # file)
  BY DEF T!Shown, T!Views, T!Service

LEMMA IntendKeepsPlace ==
  ASSUME ServiceShape, CallsTrue, UNCHANGED plan, NEW n \in 1..(Len(Course) + 1), Place(n),
         T!AlreadyThere \/ T!Intend
  PROVE  Place(n)'
<1>0. /\ T!Busy("next") /\ T!Write("intent") /\ T!Reconcile
      /\ UNCHANGED <<last, asked, owner, file, link, active, running, cache, graph, request, rebooted>>
      /\ stage' \in {"settled", "intended"}
      /\ stage' = "settled" => T!Shows(T!phase.after) /\ ~ T!MustAct(T!phase)
      /\ stage' = "intended" =>
           /\ T!Shows(T!phase.before) \/ (T!MustAct(T!phase) /\ T!Shows(T!phase.after))
           /\ T!MayIntend
  BY DEF T!AlreadyThere, T!Intend, T!host, T!calls, T!systemd
<1>1. /\ Along \in T!Direction /\ asked[owner] = Along /\ n \in T!Steps(Along)
      /\ T!phase = Course[n] /\ OpAt(n) = T!phase.op /\ EntryAt(n) = ledger[T!dir][T!pos]
  BY <1>0, BusyIsAlong DEF Place
<1>2. /\ Along' = Along /\ OpAt(n)' = OpAt(n) /\ EntryAt(n)' = "intent"
      /\ FileAt(n)' = FileAt(n) /\ LinkAt(n)' = LinkAt(n) /\ StateAt(n)' = StateAt(n)
      /\ Unloaded(n)' = Unloaded(n) /\ After(n)' = After(n) /\ Reached(n)'
  BY <1>0, WriteKeepsPlace DEF Place
<1>3. n \in 1..Len(Course)
  BY <1>1, CourseBegins DEF CallsTrue
<1>4. /\ OpAt(n) \in {"verify", "file", "link", "daemon-reload", "start", "stop"}
      /\ OpAt(n) \in {"file", "link"} => OpAt(n) \in DOMAIN After(n)
      /\ OpAt(n) \in {"start", "stop"} =>
           "service" \in DOMAIN Course[n].before /\ "service" \in DOMAIN After(n)
      /\ OpAt(n) = "start" =>
           /\ StateAt(n) = "inactive" /\ Course[n].before["service"].reload = FALSE
           /\ After(n)["service"].active = "active"
      /\ OpAt(n) = "stop" => StateAt(n) = "active" /\ After(n)["service"].active = "inactive"
  BY <1>3, CourseSteps DEF CallsTrue
<1> SUFFICES ASSUME Steady' PROVE CourseTrue(n)'
  BY <1>2 DEF Place
<1>5. FilesTrue(n) /\ JobTrue(n) /\ StateTrue(n) /\ GraphTrue(n) /\ WorkerTrue(n)
  BY <1>0 DEF Place, CourseTrue, Steady
<1>6. /\ temporary' # "none" => OpAt(n) \in {"file", "link"}
      /\ T!Shows(T!phase.after) => temporary' = "none"
  <2>1. CASE EntryAt(n) = "intent" /\ OpAt(n) \in {"file", "link"} /\ temporary # "none"
    <3>1. temporary' = IF T!Shown[T!phase.op] = T!phase.after[T!phase.op] THEN "none" ELSE "full"
      BY <1>0, <1>1, <2>1 DEF T!Reconcile
    <3>2. T!Shows(T!phase.after) => T!Shown[T!phase.op] = T!phase.after[T!phase.op]
      BY <1>1, <1>4, <2>1 DEF T!Shows, After
    <3> QED BY <3>1, <3>2, <2>1
  <2>2. CASE ~ (EntryAt(n) = "intent" /\ OpAt(n) \in {"file", "link"} /\ temporary # "none")
    BY <1>0, <1>1, <1>5, <2>2 DEF T!Reconcile, FilesTrue
  <2> QED BY <2>1, <2>2
<1>7. FilesTrue(n)' /\ JobTrue(n)' /\ GraphTrue(n)'
  BY <1>0, <1>2, <1>5, <1>6 DEF FilesTrue, JobTrue, GraphTrue, Systemctl
<1>8. T!Known' = T!Known
  BY <1>0 DEF T!Known, T!OnDisk
<1>9. T!Shows(T!phase.after) =>
        /\ OpAt(n) = "file" => file = After(n)["file"]
        /\ OpAt(n) = "link" => link = After(n)["link"]
        /\ OpAt(n) \in {"start", "stop"} => active = After(n)["service"].active
  BY <1>1, <1>4, ShownFields DEF T!Shows, After
<1>10. T!Shows(T!phase.before) /\ OpAt(n) = "start" => T!Known.file = file
  BY <1>1, <1>4, ShownFields DEF T!Shows
<1>11. CASE stage' = "settled"
  <2>1. OpAt(n) # "daemon-reload"
    BY <1>0, <1>1, <1>11 DEF T!MustAct
  <2>2. OpAt(n) = "start" => EntryAt(n) = "intent"
    BY <1>0, <1>4, <1>5, <1>9, <1>11 DEF StateTrue
  <2>3. StateTrue(n)'
    BY <1>0, <1>2, <1>5, <1>8, <2>2 DEF StateTrue
  <2>4. request = "none"
    BY <1>0, <1>4, <1>5, <1>9, <1>11, <2>1 DEF JobTrue, Systemctl
  <2>5. Effective(n)'
    BY <1>0, <1>2, <1>6, <1>9, <1>11, <2>1, <2>4 DEF Effective
  <2>6. WorkerTrue(n)'
    BY <1>2, <1>11, <2>5 DEF WorkerTrue, Acting
  <2> QED BY <1>7, <2>3, <2>6 DEF CourseTrue
<1>12. CASE stage' = "intended"
  <2>1. OpAt(n) \in {"start", "stop"} => EntryAt(n) = "none" /\ T!Shows(T!phase.before)
    BY <1>0, <1>1, <1>12 DEF T!MayIntend, T!Repeatable, T!MustAct
  <2>2. OpAt(n) \in {"start", "stop"} => request = "none" /\ active = StateAt(n)
    BY <1>5, <2>1 DEF JobTrue, StateTrue
  <2>3. StateTrue(n)'
    BY <1>0, <1>2, <1>5, <1>8, <1>10, <2>1 DEF StateTrue
  <2>4. WorkerTrue(n)'
    BY <1>0, <1>2, <1>12, <2>2 DEF WorkerTrue, Acting
  <2> QED BY <1>7, <2>3, <2>4 DEF CourseTrue
<1> QED BY <1>0, <1>11, <1>12

(* A file or link is published, or the worker dies before it was.          *)
LEMMA PublishKeepsTarget ==
  ASSUME ServiceShape, CallsTrue, NEW n \in 1..(Len(Course) + 1), Place(n), Steady,
         T!Busy("intended"), T!phase.op \in {"file", "link"},
         UNCHANGED <<plan, last, ledger, active, running, cache, graph, request, rebooted>>,
         UNCHANGED <<file, link>> \/ (T!Publish /\ T!PublishLink)
  PROVE  /\ FilesTrue(n)' /\ JobTrue(n)' /\ StateTrue(n)' /\ GraphTrue(n)'
         /\ request = "none" /\ n \in T!Steps(Along)
         /\ OpAt(n)' = OpAt(n) /\ EntryAt(n)' = "intent" /\ After(n)' = After(n)
         /\ OpAt(n) \in {"file", "link"} /\ T!phase = Course[n] /\ OpAt(n) = T!phase.op
<1>1. /\ asked[owner] = Along /\ n \in T!Steps(Along) /\ T!phase = Course[n]
      /\ OpAt(n) = T!phase.op /\ Acting(n, "intended")
  BY BusyIsAlong DEF Place
<1>2. /\ Along' = Along /\ OpAt(n)' = OpAt(n) /\ EntryAt(n)' = EntryAt(n)
      /\ FileAt(n)' = FileAt(n) /\ LinkAt(n)' = LinkAt(n) /\ StateAt(n)' = StateAt(n)
      /\ Unloaded(n)' = Unloaded(n) /\ After(n)' = After(n) /\ Reached(n)'
  <2>1. Along' = Along
    BY DEF Along
  <2> QED BY <2>1, SamePlace DEF Place
<1>3. FilesTrue(n) /\ JobTrue(n) /\ StateTrue(n) /\ GraphTrue(n) /\ WorkerTrue(n)
  BY DEF Place, CourseTrue
<1>4. OpAt(n) = "file" => StateAt(n) = "inactive"
  BY <1>1, CourseSteps, CourseBegins DEF CallsTrue
<1>5. EntryAt(n) = "intent" /\ request = "none" /\ OpAt(n) \in {"file", "link"}
      /\ (OpAt(n) = "file" => active = "inactive")
  BY <1>1, <1>3, <1>4 DEF WorkerTrue, JobTrue, StateTrue, Systemctl
<1>6. /\ file' = file \/ (OpAt(n) = "file" /\ file' = After(n)["file"])
      /\ link' = link \/ (OpAt(n) = "link" /\ link' = After(n)["link"])
  BY <1>1 DEF T!Publish, T!PublishLink, After
<1>7. FilesTrue(n)'
  BY <1>2, <1>3, <1>5, <1>6 DEF FilesTrue
<1>8. JobTrue(n)' /\ StateTrue(n)' /\ GraphTrue(n)'
  BY <1>2, <1>3, <1>5, <1>6 DEF JobTrue, StateTrue, GraphTrue, Systemctl
<1> QED BY <1>1, <1>2, <1>5, <1>7, <1>8

LEMMA ActFileKeepsPlace ==
  ASSUME ServiceShape, CallsTrue, UNCHANGED plan, NEW n \in 1..(Len(Course) + 1), Place(n),
         T!ActFile
  PROVE  Place(n)'
<1>0. /\ T!Busy("intended") /\ T!phase.op \in {"file", "link"} /\ T!Publish /\ T!PublishLink
      /\ temporary' = "none" /\ stage' = "acted"
      /\ UNCHANGED <<last, ledger, active, running, cache, graph, request, rebooted>>
  BY DEF T!ActFile, T!host, T!systemd
<1>1. Along' = Along /\ Steady' = Steady
  BY <1>0 DEF Along, Steady
<1>2. Reached(n)'
  BY <1>0, <1>1, SamePlace DEF Place
<1> SUFFICES ASSUME Steady PROVE CourseTrue(n)'
  BY <1>1, <1>2 DEF Place
<1>3. /\ FilesTrue(n)' /\ JobTrue(n)' /\ StateTrue(n)' /\ GraphTrue(n)'
      /\ request = "none" /\ OpAt(n)' = OpAt(n) /\ EntryAt(n)' = "intent" /\ After(n)' = After(n)
      /\ OpAt(n) \in {"file", "link"} /\ T!phase = Course[n] /\ OpAt(n) = T!phase.op
  BY <1>0, PublishKeepsTarget
<1>4. Effective(n)'
  BY <1>0, <1>3 DEF Effective, T!Publish, T!PublishLink, After
<1>5. WorkerTrue(n)'
  BY <1>0, <1>3, <1>4 DEF WorkerTrue, Acting
<1> QED BY <1>3, <1>5 DEF CourseTrue

(* A worker that raises or is killed is gone.                              *)
LEMMA GoneKeepsPlace ==
  ASSUME ServiceShape, CallsTrue, UNCHANGED plan, NEW n \in 1..(Len(Course) + 1), Place(n),
         T!Raised \/ T!Killed
  PROVE  Place(n)'
<1>0. /\ owner' = 0
      /\ UNCHANGED <<last, ledger, active, running, cache, graph, request, rebooted>>
      /\ UNCHANGED <<file, link, temporary>> \/ (T!Busy("intended") /\ T!phase.op \in {"file", "link"})
      /\ UNCHANGED <<file, link>> \/ (T!Publish /\ T!PublishLink)
  BY DEF T!Raised, T!Killed, T!host, T!systemd, T!disk, T!Answer
<1>1. Along' = Along /\ Steady' = Steady
  BY <1>0 DEF Along, Steady
<1>2. Reached(n)'
  BY <1>0, <1>1, SamePlace DEF Place
<1>3. CASE UNCHANGED <<file, link, temporary>>
  <2>1. \A s \in Stages : Acting(n, s)' => Acting(n, s)
    BY <1>0 DEF Acting
  <2> QED BY <1>0, <1>1, <1>3, <2>1, SameTarget DEF T!target, T!disk, T!systemd
<1>4. CASE ~ (UNCHANGED <<file, link, temporary>>)
  <2> SUFFICES ASSUME Steady PROVE CourseTrue(n)'
    BY <1>1, <1>2 DEF Place
  <2>1. FilesTrue(n)' /\ JobTrue(n)' /\ StateTrue(n)' /\ GraphTrue(n)'
    BY <1>0, <1>4, PublishKeepsTarget
  <2>2. WorkerTrue(n)'
    BY <1>0 DEF WorkerTrue, Acting
  <2> QED BY <2>1, <2>2 DEF CourseTrue
<1> QED BY <1>3, <1>4

LEMMA ActSystemctlKeepsPlace ==
  ASSUME ServiceShape, CallsTrue, UNCHANGED plan, NEW n \in 1..(Len(Course) + 1), Place(n),
         T!ActSystemctl
  PROVE  Place(n)'
<1>0. /\ T!Busy("intended") /\ T!phase.op \in Systemctl /\ request' = T!phase.op
      /\ stage' = "waiting" /\ UNCHANGED <<last, owner, asked, ledger, file, link, temporary>>
      /\ UNCHANGED <<active, running, cache, graph, rebooted>>
  BY DEF T!ActSystemctl, T!host, T!calls, T!disk, T!systemd, Systemctl
<1>1. /\ asked[owner] = Along /\ n \in T!Steps(Along) /\ T!phase = Course[n]
      /\ OpAt(n) = T!phase.op /\ Acting(n, "intended")
  BY <1>0, BusyIsAlong DEF Place
<1>2. /\ Along' = Along /\ OpAt(n)' = OpAt(n) /\ EntryAt(n)' = EntryAt(n)
      /\ FileAt(n)' = FileAt(n) /\ LinkAt(n)' = LinkAt(n) /\ StateAt(n)' = StateAt(n)
      /\ Unloaded(n)' = Unloaded(n) /\ After(n)' = After(n) /\ Reached(n)'
  <2>1. Along' = Along
    BY <1>0 DEF Along
  <2> QED BY <1>0, <2>1, SamePlace DEF Place
<1> SUFFICES ASSUME Steady' PROVE CourseTrue(n)'
  BY <1>2 DEF Place
<1>3. FilesTrue(n) /\ JobTrue(n) /\ StateTrue(n) /\ GraphTrue(n) /\ WorkerTrue(n)
  BY <1>0 DEF Place, CourseTrue, Steady
<1>4. /\ OpAt(n) = "start" => StateAt(n) = "inactive"
      /\ OpAt(n) = "stop" => StateAt(n) = "active"
  BY <1>1, CourseSteps, CourseBegins DEF CallsTrue
<1>5. EntryAt(n) = "intent" /\ OpAt(n) \in Systemctl /\ request' = OpAt(n)
      /\ (OpAt(n) \in {"start", "stop"} => request = "none" /\ active = StateAt(n))
  BY <1>0, <1>1, <1>3 DEF WorkerTrue
<1>6. active \notin {"activating", "deactivating"}
  BY <1>3, <1>4, <1>5 DEF JobTrue, Systemctl
<1>7. T!Known' = T!Known
  BY <1>0 DEF T!Known, T!OnDisk
<1>8. FilesTrue(n)' /\ StateTrue(n)' /\ GraphTrue(n)'
  BY <1>0, <1>2, <1>3, <1>7 DEF FilesTrue, StateTrue, GraphTrue
<1>9. JobTrue(n)'
  BY <1>0, <1>2, <1>3, <1>4, <1>5, <1>6 DEF JobTrue, Systemctl
<1>10. WorkerTrue(n)'
  BY <1>0, <1>2, <1>3, <1>5 DEF WorkerTrue, Acting, FilesTrue, Systemctl
<1> QED BY <1>8, <1>9, <1>10 DEF CourseTrue

(* systemctl returned, or its effect was seen.                             *)
LEMMA SeenKeepsPlace ==
  ASSUME ServiceShape, CallsTrue, UNCHANGED plan, NEW n \in 1..(Len(Course) + 1), Place(n),
         T!Returned \/ T!VerifyEffect
  PROVE  Place(n)'
<1>0. /\ \/ T!Busy("waiting") /\ request = "none" /\ stage' = "acted"
         \/ T!Busy("acted") /\ stage' = "settled"
      /\ UNCHANGED <<last, owner, asked, ledger, file, link, temporary>>
      /\ UNCHANGED <<active, running, cache, graph, request, rebooted>>
  BY DEF T!Returned, T!VerifyEffect, T!host, T!calls, T!records, T!target, T!disk, T!systemd
<1>1. (Acting(n, "waiting") /\ request = "none") \/ Acting(n, "acted")
  BY <1>0, BusyIsAlong DEF Place
<1>2. /\ Along' = Along /\ OpAt(n)' = OpAt(n) /\ EntryAt(n)' = EntryAt(n)
      /\ FileAt(n)' = FileAt(n) /\ LinkAt(n)' = LinkAt(n) /\ StateAt(n)' = StateAt(n)
      /\ Unloaded(n)' = Unloaded(n) /\ After(n)' = After(n) /\ Reached(n)'
  <2>1. Along' = Along
    BY <1>0 DEF Along
  <2> QED BY <1>0, <2>1, SamePlace DEF Place
<1> SUFFICES ASSUME Steady' PROVE CourseTrue(n)'
  BY <1>2 DEF Place
<1>3. FilesTrue(n) /\ JobTrue(n) /\ StateTrue(n) /\ GraphTrue(n) /\ WorkerTrue(n)
  BY <1>0 DEF Place, CourseTrue, Steady
<1>4. EntryAt(n) = "intent" /\ Effective(n)
  BY <1>1, <1>3 DEF WorkerTrue
<1>5. Effective(n)' /\ T!Known' = T!Known
  BY <1>0, <1>2, <1>4 DEF Effective, T!Known, T!OnDisk
<1>6. FilesTrue(n)' /\ JobTrue(n)' /\ StateTrue(n)' /\ GraphTrue(n)'
  BY <1>0, <1>2, <1>3, <1>5 DEF FilesTrue, JobTrue, StateTrue, GraphTrue, Systemctl
<1>7. WorkerTrue(n)'
  BY <1>0, <1>2, <1>4, <1>5 DEF WorkerTrue, Acting
<1> QED BY <1>6, <1>7 DEF CourseTrue

(* A phase is done, and the next one is reached.                           *)
LEMMA SettleKeepsPlace ==
  ASSUME ServiceShape, CallsTrue, UNCHANGED plan, NEW n \in 1..(Len(Course) + 1), Place(n),
         T!Settle
  PROVE  n + 1 \in 1..(Len(Course) + 1) /\ Place(n + 1)'
<1>0. /\ T!Busy("settled") /\ T!Write("done") /\ stage' = "next"
      /\ UNCHANGED <<last, owner, asked, file, link, temporary>>
      /\ UNCHANGED <<active, running, cache, graph, request, rebooted>>
  BY DEF T!Settle, T!host, T!calls, T!target, T!disk, T!systemd
<1>1. /\ Along \in T!Direction /\ n \in T!Steps(Along) /\ T!dir = Along /\ T!pos = n
      /\ Acting(n, "settled")
  BY <1>0, BusyIsAlong DEF Place
<1>2. T!Steps(Along) = 1..Len(Course) /\ n \in 1..Len(Course) /\ Len(Course) \in Nat
  BY <1>1, CourseBegins DEF CallsTrue
<1>3. Along' = Along
  BY <1>0 DEF Along
<1>4. /\ T!Steps(Along)' = T!Steps(Along) /\ OpAt(n + 1)' = OpAt(n + 1)
      /\ FileAt(n + 1)' = FileAt(n + 1) /\ LinkAt(n + 1)' = LinkAt(n + 1)
      /\ StateAt(n + 1)' = StateAt(n + 1) /\ Unloaded(n + 1)' = Unloaded(n + 1)
  BY <1>3, SameCourse
<1>5. \A i \in T!Steps(Along) : ledger'[Along][i] = IF i = n THEN "done" ELSE ledger[Along][i]
  BY <1>0, <1>1 DEF T!Write, ServiceShape
<1>6. Reached(n + 1)' /\ EntryAt(n + 1)' = EntryAt(n + 1) /\ EntryAt(n + 1) = "none"
  BY <1>2, <1>3, <1>4, <1>5 DEF Reached, Place, EntryAt
<1>7. n + 1 \in 1..(Len(Course) + 1)
  BY <1>2
<1> SUFFICES ASSUME Steady' PROVE CourseTrue(n + 1)'
  BY <1>6, <1>7 DEF Place
<1>8. FilesTrue(n) /\ JobTrue(n) /\ StateTrue(n) /\ GraphTrue(n) /\ WorkerTrue(n)
  BY <1>0 DEF Place, CourseTrue, Steady
<1>9. EntryAt(n) = "intent" /\ Effective(n)
  BY <1>1, <1>8 DEF WorkerTrue
<1>10. /\ OpAt(n) \in {"verify", "file", "link", "daemon-reload", "start", "stop"}
       /\ OpAt(n) = "start" => After(n)["service"].active = "active"
       /\ OpAt(n) = "stop" => After(n)["service"].active = "inactive"
       /\ FileAt(n + 1) = IF OpAt(n) = "file" THEN After(n)["file"] ELSE FileAt(n)
       /\ LinkAt(n + 1) = IF OpAt(n) = "link" THEN After(n)["link"] ELSE LinkAt(n)
       /\ StateAt(n + 1) = IF OpAt(n) \in {"start", "stop"} THEN After(n)["service"].active
                           ELSE StateAt(n)
       /\ OpAt(n) # "daemon-reload" /\ Unloaded(n) => Unloaded(n + 1)
       /\ OpAt(n) = "link" => Unloaded(n + 1)
  BY <1>2, CourseSteps DEF CallsTrue
<1>11. file = FileAt(n + 1) /\ link = LinkAt(n + 1) /\ active = StateAt(n + 1)
  BY <1>8, <1>9, <1>10 DEF Effective, FilesTrue, StateTrue
<1>12. FilesTrue(n + 1)'
  BY <1>0, <1>4, <1>9, <1>11 DEF FilesTrue, Effective
<1>13. active \in {"active", "inactive"}
  BY <1>8, <1>9 DEF JobTrue, Effective
<1>14. JobTrue(n + 1)' /\ StateTrue(n + 1)'
  BY <1>0, <1>4, <1>6, <1>8, <1>9, <1>11, <1>13 DEF JobTrue, StateTrue, Effective
<1>15. GraphTrue(n + 1)'
  BY <1>0, <1>4, <1>8, <1>9, <1>10 DEF GraphTrue, Effective
<1>16. WorkerTrue(n + 1)'
  BY <1>0 DEF WorkerTrue, Acting
<1> QED BY <1>12, <1>14, <1>15, <1>16 DEF CourseTrue

(* Where every phase is done the unit is as the direction promises.        *)
LEMMA DoneIsThere ==
  ASSUME CallsTrue, NEW n \in 1..(Len(Course) + 1), Place(n), AllDone(Along)
  PROVE  n = Len(Course) + 1 /\ (Steady =>
           LET result == T!LastOf(Course).after
           IN /\ file = result["file"] /\ link = result["link"] /\ graph = link
              /\ active = result["service"].active /\ active \in {"active", "inactive"}
              /\ running = (IF active = "active" THEN file ELSE T!Nothing)
              /\ temporary = "none" /\ request = "none")
<1>1. T!Steps(Along) = 1..Len(Course) /\ Len(Course) \in Nat
  BY CourseBegins DEF CallsTrue
<1>2. n = Len(Course) + 1
  BY <1>1 DEF Place, Reached, AllDone
<1>3. LET result == T!LastOf(Course).after
      IN /\ OpAt(n) = "none" /\ EntryAt(n) = "none" /\ ~ Unloaded(n)
         /\ FileAt(n) = result["file"] /\ LinkAt(n) = result["link"]
         /\ StateAt(n) = result["service"].active
  BY <1>2, CourseEnds DEF CallsTrue
<1>4. ASSUME Steady PROVE
           LET result == T!LastOf(Course).after
           IN /\ file = result["file"] /\ link = result["link"] /\ graph = link
              /\ active = result["service"].active /\ active \in {"active", "inactive"}
              /\ running = (IF active = "active" THEN file ELSE T!Nothing)
              /\ temporary = "none" /\ request = "none"
  <2>1. FilesTrue(n) /\ JobTrue(n) /\ StateTrue(n) /\ GraphTrue(n)
    BY <1>4 DEF Place, CourseTrue
  <2>2. temporary = "none" /\ request = "none"
    BY <1>3, <2>1 DEF FilesTrue, JobTrue
  <2>3. active \in {"active", "inactive"}
    BY <2>1, <2>2 DEF JobTrue
  <2> QED BY <1>3, <2>1, <2>2, <2>3 DEF FilesTrue, StateTrue, GraphTrue
<1> QED BY <1>2, <1>4

(* The other direction starts from where this one ended.                   *)
LEMMA TurnKeepsPlace ==
  ASSUME ServiceShape, CallsTrue, CallsTrue', UNCHANGED <<plan, ledger, T!target, rebooted, owner, stage>>,
         Along = "apply", Along' = "restore", AllDone("apply"),
         \A c \in T!Call : asked[c] # "none" => asked'[c] = asked[c],
         NEW n \in 1..(Len(Course) + 1), Place(n)
  PROVE  Place(1)'
<1>0. UNCHANGED <<file, link, temporary, active, running, cache, graph, request, rebooted>>
  BY DEF T!target, T!disk, T!systemd
<1>1. Course = plan["apply"] /\ Course' = plan["restore"] /\ Steady' = Steady
  BY <1>0 DEF Course, Steady
<1>2. T!LastOf(Course).after = Course'[1].before
  BY <1>1, CoherentCourse DEF CallsTrue
<1>3. /\ OpAt(1)' = "verify" /\ ~ Unloaded(1)'
      /\ FileAt(1)' = Course'[1].before["file"] /\ LinkAt(1)' = Course'[1].before["link"]
      /\ StateAt(1)' = Course'[1].before["service"].active
      /\ T!Steps(Along)' = 1..Len(Course') /\ Len(Course') \in Nat
  <2>1. T!Coherent(Course')
    BY <1>1, CoherentCourse DEF CallsTrue
  <2>2. Len(Course') \in Nat /\ Len(Course') > 1 /\ T!Steps(Along)' = 1..Len(Course')
        /\ Course'[1].op = "verify"
    BY <2>1 DEF T!Coherent, T!Steps, Course
  <2>3. \A op : ~ T!Precedes(Course', 1, op)
    BY DEF T!Precedes
  <2>4. ~ Unloaded(1)'
    BY DEF Unloaded
  <2> QED BY <2>2, <2>3, <2>4 DEF OpAt, FileAt, LinkAt, StateAt, T!FilesAt, T!ActiveAt
<1>4. \A i \in T!Steps("restore") : ledger["restore"][i] = "none"
  BY DEF CallsTrue
<1>5. T!Steps(Along)' = T!Steps("restore")
  BY DEF T!Steps
<1>6. Reached(1)'
  BY <1>3, <1>4, <1>5 DEF Reached
<1>7. ~ Acting(1, "intended")' /\ ~ Acting(1, "waiting")' /\ ~ Acting(1, "acted")' /\ ~ Acting(1, "settled")'
  BY DEF Acting, CallsTrue, ServiceShape, T!Direction
<1> SUFFICES ASSUME Steady PROVE CourseTrue(1)'
  BY <1>1, <1>6 DEF Place
<1>8. LET result == T!LastOf(Course).after
      IN /\ file = result["file"] /\ link = result["link"] /\ graph = link
         /\ active = result["service"].active /\ active \in {"active", "inactive"}
         /\ running = (IF active = "active" THEN file ELSE T!Nothing)
         /\ temporary = "none" /\ request = "none"
  BY DoneIsThere
<1>9. FilesTrue(1)' /\ JobTrue(1)' /\ StateTrue(1)' /\ GraphTrue(1)' /\ WorkerTrue(1)'
  BY <1>0, <1>2, <1>3, <1>7, <1>8 DEF FilesTrue, JobTrue, StateTrue, GraphTrue, WorkerTrue
<1> QED BY <1>9 DEF CourseTrue

LEMMA TransactionKept == ServiceInv /\ TransactionInv /\ T!Next => TransactionInv'
<1> SUFFICES ASSUME ServiceInv, TransactionInv, T!Next PROVE TransactionInv'
  OBVIOUS
<1>0. UNCHANGED plan /\ ServiceShape /\ CallsTrue /\ CallsTrue'
  BY CallsKept DEF T!Next, ServiceInv, TransactionInv
<1>n. PICK n \in 1..(Len(Course) + 1) : Place(n)
  BY DEF TransactionInv
<1>p. ASSUME Along' = Along, Place(n)' PROVE TransactionInv'
  <2>1. Course' = Course
    BY <1>0, <1>p DEF Course
  <2> QED BY <1>0, <1>n, <1>p, <2>1 DEF TransactionInv
<1>s. ASSUME UNCHANGED <<ledger, T!target, rebooted>>, Along' = Along,
             \A s \in Stages : Acting(n, s)' => Acting(n, s)
      PROVE  TransactionInv'
  BY <1>0, <1>n, <1>p, <1>s, SameTarget
<1>1. ASSUME NEW d \in T!Direction, T!Dispatch(d) PROVE TransactionInv'
  <2>0. UNCHANGED <<ledger, T!target, rebooted, owner, stage>>
    BY <1>1 DEF T!Dispatch, T!records
  <2>1. /\ Along' # Along => Along = "apply" /\ d = "restore" /\ AllDone("apply")
        /\ Along' = d
    BY <1>0, <1>1, DispatchKeepsCalls
  <2>2. \A c \in T!Call : asked[c] # "none" => asked'[c] = asked[c]
    BY <1>0, <1>1 DEF T!Dispatch, T!Sent, ServiceShape
  <2>3. CASE Along' = Along
    <3>1. T!Steps(Along)' = T!Steps(Along)
      BY <1>0, <2>3 DEF T!Steps
    <3>2. \A s \in Stages : Acting(n, s)' => Acting(n, s)
      BY <1>0, <2>0, <2>2, <2>3, <3>1 DEF Acting, ServiceShape, T!Direction
    <3> QED BY <1>s, <2>0, <2>3, <3>2
  <2>4. CASE Along' # Along
    <3>1. Place(1)'
      BY <1>0, <1>n, <2>0, <2>1, <2>2, <2>4, TurnKeepsPlace
    <3>2. T!Coherent(Course')
      BY <1>0, <2>1, <2>4, CoherentCourse DEF Course, CallsTrue
    <3>3. 1 \in 1..(Len(Course') + 1)
      BY <3>2 DEF T!Coherent
    <3> QED BY <1>0, <3>1, <3>3 DEF TransactionInv
  <2> QED BY <2>3, <2>4
<1>2. CASE T!Acknowledged
  <2>1. UNCHANGED <<ledger, T!target, rebooted, asked, owner, stage, plan>>
    BY <1>0, <1>2 DEF T!Acknowledged, T!calls, T!records
  <2>2. Along' = Along
    BY <1>0, <1>2, AcknowledgedKeepsCalls
  <2> QED BY <1>s, <2>1, <2>2 DEF Acting, T!Steps
<1>3. CASE T!GaveUp
  <2>1. UNCHANGED <<ledger, T!target, rebooted, asked, owner, stage, plan>>
    BY <1>0, <1>3 DEF T!GaveUp, T!calls, T!records
  <2>2. Along' = Along
    BY <1>0, <1>3 DEF T!GaveUp, Along, CallsTrue, T!NoEvent
  <2> QED BY <1>s, <2>1, <2>2 DEF Acting, T!Steps
<1>4. ASSUME NEW c \in T!Call, T!Begin(c) \/ T!Refused(c) PROVE TransactionInv'
  <2>1. UNCHANGED <<ledger, T!target, rebooted, asked, last, plan>>
        /\ (stage' = "next" \/ UNCHANGED <<owner, stage>>)
    BY <1>0, <1>4 DEF T!Begin, T!Refused, T!host, T!calls, T!records
  <2>2. Along' = Along
    BY <2>1 DEF Along
  <2> QED BY <1>s, <2>1, <2>2 DEF Acting, T!Steps, Stages
<1>5. CASE T!AlreadyThere \/ T!Intend
  <2>1. Along' = Along
    BY <1>5 DEF T!AlreadyThere, T!Intend, T!host, Along
  <2> QED BY <1>0, <1>n, <1>p, <1>5, <2>1, IntendKeepsPlace
<1>6. CASE T!ActFile
  <2>1. Along' = Along
    BY <1>6 DEF T!ActFile, T!host, Along
  <2> QED BY <1>0, <1>n, <1>p, <1>6, <2>1, ActFileKeepsPlace
<1>7. CASE T!ActSystemctl
  <2>1. Along' = Along
    BY <1>7 DEF T!ActSystemctl, T!host, Along
  <2> QED BY <1>0, <1>n, <1>p, <1>7, <2>1, ActSystemctlKeepsPlace
<1>8. CASE T!Returned \/ T!VerifyEffect
  <2>1. Along' = Along
    BY <1>8 DEF T!Returned, T!VerifyEffect, T!host, Along
  <2> QED BY <1>0, <1>n, <1>p, <1>8, <2>1, SeenKeepsPlace
<1>9. CASE T!Settle
  <2>1. Course' = Course
    BY <1>0, <1>9 DEF T!Settle, T!host, Along, Course
  <2>2. n + 1 \in 1..(Len(Course) + 1) /\ Place(n + 1)'
    BY <1>0, <1>n, <1>9, SettleKeepsPlace
  <2> QED BY <1>0, <2>1, <2>2 DEF TransactionInv
<1>10. CASE T!Finish
  <2>1. UNCHANGED <<ledger, T!target, rebooted, asked, last, plan>> /\ stage' = "next"
    BY <1>0, <1>10 DEF T!Finish, T!host, T!Answer, T!records
  <2>2. Along' = Along
    BY <2>1 DEF Along
  <2> QED BY <1>s, <2>1, <2>2 DEF Acting, Stages
<1>11. CASE T!Raised \/ T!Killed
  <2>1. Along' = Along
    BY <1>11 DEF T!Raised, T!Killed, T!host, Along
  <2> QED BY <1>0, <1>n, <1>p, <1>11, <2>1, GoneKeepsPlace
<1>12. CASE T!Systemd
  <2>1. Along' = Along
    BY <1>12 DEF T!Systemd, T!Forget, T!Remember, T!Reload, T!StartJob, T!StopJob, T!RequestLost,
        T!ServiceFails, T!Others, T!host, Along
  <2> QED BY <1>0, <1>n, <1>p, <1>12, <2>1, SystemdKeepsPlace
<1>13. CASE T!Reboot
  <2>1. UNCHANGED <<ledger, last, plan>> /\ rebooted' = TRUE
    BY <1>0, <1>13 DEF T!Reboot, T!host, T!records
  <2>2. Along' = Along
    BY <2>1 DEF Along
  <2>3. Place(n)'
    BY <1>n, <2>1, <2>2, SamePlace DEF Place, Steady
  <2> QED BY <1>p, <2>2, <2>3
<1> QED BY <1>1, <1>2, <1>3, <1>4, <1>5, <1>6, <1>7, <1>8, <1>9, <1>10, <1>11, <1>12, <1>13
      DEF T!Next, T!Worker

LEMMA TransactionBegins == T!Init => TransactionInv
<1> SUFFICES ASSUME T!Init PROVE TransactionInv
  OBVIOUS
<1>0. /\ plan \in Transactions /\ last = T!NoEvent /\ ~ waiting
      /\ asked = [c \in T!Call |-> "none"] /\ reply = [c \in T!Call |-> "none"]
      /\ owner = 0 /\ ledger = [d \in T!Direction |-> [i \in T!Steps(d) |-> "none"]]
      /\ file = T!Origin.file /\ link = T!Origin.link /\ temporary = "none"
      /\ active = T!Origin.service.active /\ running = (IF active = "active" THEN file ELSE T!Nothing)
      /\ graph = link /\ request = "none"
  BY DEF T!Init
<1>1. Along = "apply" /\ Course = plan["apply"] /\ Along \in T!Direction /\ "restore" \in T!Direction
  BY <1>0 DEF Along, Course, T!NoEvent, T!Direction
<1>2. CallsTrue
  BY <1>0, <1>1 DEF CallsTrue, T!Current, T!Sent, T!NoEvent, T!Direction
<1>3. /\ Len(Course) \in Nat /\ T!Steps(Along) = 1..Len(Course)
      /\ OpAt(1) = "verify" /\ FileAt(1) = Course[1].before["file"]
      /\ LinkAt(1) = Course[1].before["link"] /\ StateAt(1) = Course[1].before["service"].active
      /\ StateAt(1) \in {"active", "inactive"}
  BY <1>0, CourseBegins
<1>4. Reached(1)
  BY <1>0, <1>1, <1>3 DEF Reached
<1>5. file = FileAt(1) /\ link = LinkAt(1) /\ active = StateAt(1)
  BY <1>0, <1>1, <1>3 DEF T!Origin
<1>6. FilesTrue(1) /\ JobTrue(1) /\ StateTrue(1) /\ GraphTrue(1) /\ WorkerTrue(1)
  BY <1>0, <1>3, <1>5 DEF FilesTrue, JobTrue, StateTrue, GraphTrue, WorkerTrue, Acting
<1> QED BY <1>2, <1>3, <1>4, <1>6 DEF TransactionInv, Place, CourseTrue

LEMMA TransactionStays == ServiceInv /\ TransactionInv /\ [T!Next]_(T!vars) => TransactionInv'
<1> SUFFICES ASSUME ServiceInv, TransactionInv, UNCHANGED T!vars PROVE TransactionInv'
  BY TransactionKept
<1>1. UNCHANGED <<plan, last, waiting, asked, reply, owner, stage, ledger, T!target, rebooted>>
  BY DEF T!vars, T!host, T!calls, T!records
<1>2. Along' = Along /\ Course' = Course
  BY <1>1 DEF Along, Course
<1>3. CallsTrue'
  BY <1>1, SameCalls DEF TransactionInv, CallsTrue
<1>4. \A n : \A s \in Stages : Acting(n, s)' => Acting(n, s)
  BY <1>1, <1>2 DEF Acting, T!Steps
<1>5. PICK n \in 1..(Len(Course) + 1) : Place(n)
  BY DEF TransactionInv
<1>6. Place(n)'
  BY <1>1, <1>2, <1>4, <1>5, SameTarget
<1> QED BY <1>2, <1>3, <1>5, <1>6 DEF TransactionInv

(* An acknowledged direction is there, for every coherent plan, whatever   *)
(* became of the workers and jobs before and after.                        *)
THEOREM AcknowledgedStaysTrue == T!Spec => []AcknowledgedIsTrue
<1>1. ASSUME TransactionInv PROVE AcknowledgedIsTrue
  <2> SUFFICES ASSUME last # T!NoEvent, Steady, last.state = "acknowledged"
               PROVE  LET result == T!Final(last.direction).after
                      IN /\ file = result.file /\ link = result.link /\ graph = link
                         /\ active = result.service.active
                         /\ running = (IF active = "active" THEN file ELSE T!Nothing)
                         /\ temporary = "none" /\ request = "none"
    BY DEF AcknowledgedIsTrue, T!AcknowledgedIsTrue, Steady
  <2>1. Along = last.direction /\ AllDone(Along) /\ CallsTrue
    BY <1>1 DEF TransactionInv, CallsTrue, Along, T!Direction
  <2>2. PICK n \in 1..(Len(Course) + 1) : Place(n)
    BY <1>1 DEF TransactionInv
  <2> QED BY <2>1, <2>2, DoneIsThere DEF T!Final, Course
<1> QED BY <1>1, ServiceInvBegins, ServiceInvKept, TransactionBegins, TransactionStays, PTL DEF T!Spec
=============================================================================
