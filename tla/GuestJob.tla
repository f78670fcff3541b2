------------------------------- MODULE GuestJob -------------------------------
(***************************************************************************)
(* Commands in the guest of an owned emulator: the serial transactions of   *)
(* uconsole_agent.py, the supervised jobs of forge_guest_jobs.py, their     *)
(* supervisor in the guest (forge_guest_worker.py), and the runtime that    *)
(* serialises them and stops the guest (forge_runtime.py).                  *)
(*                                                                          *)
(* One serial console leads to one shell.  A transaction is a line typed    *)
(* to that shell; the host waits for its acknowledgement and may give up,   *)
(* while the line still waits, runs or has run.  Operations of one runtime  *)
(* do not overlap: a second one is refused without a trace.                 *)
(***************************************************************************)
EXTENDS Naturals, Sequences, FiniteSets

CONSTANTS
  Leader,   \* the script's shell, leader of its process group
  Child,    \* further processes it may create
  MaxOps,   \* bound on the operations of a runtime
  None

Statuses == {"completed", "timeout", "cancelled"}

GuestJobAssumption ==
  /\ Leader \notin Child /\ None \notin Statuses \cup {"uncertain"}
  /\ MaxOps \in Nat

VARIABLES
  op, at, waiting, parts, verdict,  \* host: operation, transaction, answer
  cancel, requested,                \* the cancellation event, and its relay
  latch,                            \* guest_channel_error
  ops,
  vm,                               \* on, quit or forced off
  shell, reply,                     \* lines typed and not yet run; the answer
  dir, cancelFile, result,          \* the job's private directory
  worker, reason, seen,             \* supervisor: phase, cause, census
  members, born                     \* the script's process group

host == <<op, at, waiting, parts, verdict, requested, latch, ops>>
channel == <<shell, reply>>
files == <<dir, cancelFile, result>>
supervisor == <<worker, reason, seen>>
group == <<members, born>>
guest == <<files, supervisor, group>>
vars == <<host, cancel, vm, channel, guest>>

-----------------------------------------------------------------------------
Process == Child \cup {Leader}
Transactions == {"mkdir", "probe", "create", "install", "remove",
                 "launch", "cancel", "poll", "cleanup", "remount"}

Init ==
  /\ op = None /\ at = "idle" /\ waiting = FALSE /\ parts = 0 /\ verdict = None
  /\ cancel = FALSE /\ requested = FALSE /\ latch = FALSE /\ ops = 0
  /\ vm = "on" /\ shell = <<>> /\ reply = None
  /\ dir = "none" /\ cancelFile = FALSE /\ result = None
  /\ worker = "none" /\ reason = None /\ seen = None
  /\ members = {} /\ born = {}

-----------------------------------------------------------------------------
(* The host.                                                               *)

\* guest_operation: the mutex is free, the child alive, the channel certain.
MayOperate == at = "idle" /\ vm = "on" /\ ~ latch

Begin(o, first, n) ==
  /\ MayOperate /\ ops < MaxOps
  /\ op' = o /\ at' = first /\ parts' = n
  /\ ops' = ops + 1
  /\ cancel' = FALSE
  /\ verdict' = None /\ requested' = FALSE
  /\ UNCHANGED <<waiting, latch, vm, channel, group>>

StartJob ==
  /\ Begin("job", "mkdir", 2)
  /\ dir' = "none" /\ cancelFile' = FALSE /\ result' = None
  /\ worker' = "none" /\ reason' = None /\ seen' = None

StartUpload == Begin("upload", "probe", 1) /\ UNCHANGED <<files, supervisor>>

StartStop == Begin("stop", "remount", 0) /\ UNCHANGED <<files, supervisor>>

Cancel ==
  /\ at # "idle" /\ op # "stop" /\ ~ cancel
  /\ cancel' = TRUE
  /\ UNCHANGED <<host, vm, channel, guest>>

\* Where cancellation is observed before the next line is typed.
Observed ==
  /\ cancel
  /\ \/ at \in {"mkdir", "probe", "create", "install", "launch"}
     \/ at = "poll" /\ ~ requested

Send ==
  /\ at # "idle" /\ ~ waiting /\ ~ Observed /\ vm = "on"
  /\ shell' = Append(shell, at)
  /\ reply' = None
  /\ waiting' = TRUE
  /\ UNCHANGED <<op, at, parts, verdict, requested, latch, ops, cancel, vm, guest>>

\* Leaving a step for another with what the caller will be told, if decided.
Move(next, v) ==
  /\ at' = next
  /\ verdict' = v
  /\ waiting' = FALSE
  /\ UNCHANGED <<op, requested, latch, ops, cancel, vm, channel, guest>>

\* After an upload or a failed preparation.
Finally == IF op = "job" THEN "cleanup" ELSE "idle"

\* Nothing more is typed, not even the removal of temporary and job files: an
\* earlier line may still run.
Uncertain ==
  /\ at' = "idle" /\ waiting' = FALSE
  /\ verdict' = "uncertain"
  /\ latch' = TRUE
  /\ UNCHANGED <<op, parts, requested, ops, cancel, vm, channel, guest>>

ObserveCancel ==
  /\ Observed /\ ~ waiting
  /\ CASE at = "mkdir" -> Move("idle", "not launched") /\ UNCHANGED parts
       [] at = "probe" -> Move(Finally, "not launched") /\ UNCHANGED parts
       [] at \in {"create", "install"} ->
            Move("remove", "not launched") /\ UNCHANGED parts
       [] at = "launch" -> Move("cleanup", "not launched") /\ UNCHANGED parts
       [] at = "poll" -> Move("cancel", verdict) /\ UNCHANGED parts

\* A transaction that is known not to have run, or whose exit code is not 0.
Fails ==
  CASE at \in {"mkdir", "remount"} -> Move("idle", "failed") /\ UNCHANGED parts
    [] at = "probe" -> Move(Finally, "failed") /\ UNCHANGED parts
    [] at \in {"create", "install"} -> Move("remove", "failed") /\ UNCHANGED parts
    [] at = "cleanup" -> Move("idle", "failed") /\ UNCHANGED parts
    [] at \in {"launch", "cancel", "poll"} -> Uncertain

\* The upload's own removal is best effort.
Removed ==
  /\ at = "remove"
  /\ IF verdict # None THEN Move(Finally, verdict) /\ UNCHANGED parts
     ELSE /\ parts' = parts - 1
          /\ IF parts > 1 THEN Move("probe", None)
             ELSE IF op = "job" THEN Move("launch", None)
             ELSE Move("idle", "completed")

CannotConnect ==
  /\ at # "idle" /\ ~ waiting /\ ~ Observed
  /\ IF at = "remove" THEN Removed ELSE Fails

Succeeds ==
  CASE at = "mkdir" -> Move("probe", None) /\ UNCHANGED parts
    [] at = "probe" -> Move("create", None) /\ UNCHANGED parts
    [] at = "create" -> Move("install", None) /\ UNCHANGED parts
    [] at = "install" -> Move("remove", None) /\ UNCHANGED parts
    [] at = "launch" -> Move("poll", None) /\ UNCHANGED parts
    [] at = "cancel" ->
         /\ at' = "poll" /\ waiting' = FALSE /\ requested' = TRUE
         /\ UNCHANGED <<op, parts, verdict, latch, ops, cancel, vm, channel, guest>>
    [] at = "poll" ->
         IF reply.result = None THEN Move("poll", None) /\ UNCHANGED parts
         ELSE IF reply.result \in Statuses
           THEN Move("cleanup", reply.result) /\ UNCHANGED parts
         ELSE Uncertain
    [] at = "cleanup" -> Move("idle", verdict) /\ UNCHANGED parts
    [] at = "remount" -> FALSE

Acknowledged ==
  /\ waiting /\ reply # None
  /\ IF at = "remove" THEN Removed
     ELSE IF reply.ok THEN Succeeds ELSE Fails

\* Mutation: a timeout is an ordinary failure.
GiveUpAsFailure == waiting /\ Fails

\* Timeout, end of file, too much output or an interrupt after dispatch.
GiveUp == waiting /\ Uncertain

\* Mutation: no deadline once cancellation was relayed.
DeadlineUnasked == at = "poll" /\ ~ waiting /\ ~ requested /\ Uncertain

SupervisorDeadline == at = "poll" /\ ~ waiting /\ Uncertain

NobodyLeft ==
  /\ shell' = <<>> /\ reply' = None
  /\ members' = {}
  /\ worker' = "none" /\ seen' = None
  /\ UNCHANGED <<reason, files, born>>

\* Read-only remount acknowledged: the monitor is told to quit.
Quit ==
  /\ at = "remount" /\ waiting /\ reply # None /\ reply.ok
  /\ vm' = "quit"
  /\ at' = "idle" /\ waiting' = FALSE /\ verdict' = "completed"
  /\ NobodyLeft
  /\ UNCHANGED <<op, parts, requested, latch, ops, cancel>>

ForcedStop ==
  /\ vm = "on"
  /\ vm' = "forced"
  /\ NobodyLeft
  /\ UNCHANGED <<host, cancel>>

-----------------------------------------------------------------------------
(* The guest's shell.                                                      *)

Effect(line, ok) ==
  CASE line = "mkdir" /\ ok -> dir' = "there"
                              /\ UNCHANGED <<cancelFile, result, supervisor, group>>
    [] line = "launch" /\ ok ->
         /\ worker' = "watching"
         /\ members' = members \cup {Leader} /\ born' = members \cup {Leader}
         /\ UNCHANGED <<reason, seen, files>>
    [] line = "cancel" /\ ok -> cancelFile' = TRUE
                               /\ UNCHANGED <<dir, result, supervisor, group>>
    [] line = "cleanup" /\ ok -> dir' = "gone"
                                /\ UNCHANGED <<cancelFile, result, supervisor, group>>
    [] OTHER -> UNCHANGED guest

ShellRuns ==
  /\ shell # <<>>
  /\ shell' = Tail(shell)
  /\ \E ok \in BOOLEAN :
       /\ Effect(Head(shell), ok)
       /\ reply' = IF waiting /\ at = Head(shell)
                   THEN [ok |-> ok, result |-> result] ELSE reply
  /\ UNCHANGED <<host, cancel, vm>>

-----------------------------------------------------------------------------
(* The script's process group and its supervisor.                          *)

\* Of a script whose processes create none once they are told to terminate.
Fork(m) ==
  /\ m \in members
  /\ worker # "killed"
  /\ reason = None
  /\ \E c \in Child \ born : members' = members \cup {c} /\ born' = born \cup {c}
  /\ UNCHANGED <<host, cancel, vm, channel, files, supervisor>>

Exit(m) ==
  /\ m \in members
  /\ members' = members \ {m}
  /\ UNCHANGED <<host, cancel, vm, channel, files, supervisor, born>>

\* Cancellation before the deadline before the leader's exit; each signals
\* SIGTERM to the group, of which the leader stays unreaped.
Decide ==
  /\ worker = "watching"
  /\ \/ cancelFile /\ reason' = "cancelled"
     \/ ~ cancelFile /\ reason' = "timeout"
     \/ ~ cancelFile /\ Leader \notin members /\ reason' = "completed"
  /\ worker' = "stopping"
  /\ UNCHANGED <<host, cancel, vm, channel, files, seen, group>>

\* members(): the names in /proc first, then the state of each.
List ==
  /\ worker \in {"stopping", "killed"} /\ seen = None
  /\ seen' = members
  /\ UNCHANGED <<host, cancel, vm, channel, files, worker, reason, group>>

AllGone == seen \cap members = {}

Census ==
  /\ seen # None
  /\ seen' = None
  /\ IF AllGone THEN worker' = "done" /\ result' = reason
     ELSE UNCHANGED <<worker, result>>
  /\ UNCHANGED <<host, cancel, vm, channel, dir, cancelFile, reason, group>>

KillGroup ==
  /\ worker = "stopping" /\ seen = None
  /\ worker' = "killed"
  /\ UNCHANGED <<host, cancel, vm, channel, files, reason, seen, group>>

\* Six seconds after SIGTERM a member is still there.
GroupStays ==
  /\ worker = "killed" /\ seen = None /\ members # {}
  /\ worker' = "done" /\ result' = "uncertain"
  /\ UNCHANGED <<host, cancel, vm, channel, dir, cancelFile, reason, seen, group>>

\* The supervisor itself is killed: it leaves no result.
SupervisorDies ==
  /\ worker \in {"watching", "stopping", "killed"}
  /\ worker' = "dead" /\ seen' = None
  /\ UNCHANGED <<host, cancel, vm, channel, files, reason, group>>

-----------------------------------------------------------------------------
Host ==
  \/ StartJob \/ StartUpload \/ StartStop
  \/ Send \/ ObserveCancel \/ CannotConnect \/ Acknowledged \/ GiveUp
  \/ SupervisorDeadline \/ Quit

Worker == Decide \/ List \/ Census \/ KillGroup \/ GroupStays \/ SupervisorDies

Next ==
  \/ Host \/ Cancel \/ ForcedStop
  \/ ShellRuns \/ Worker
  \/ \E m \in Process : Fork(m) \/ Exit(m)

\* The host's code runs on: a transaction ends by its acknowledgement or its
\* timeout, and polling by its deadline.  Nothing is assumed of the guest.
Fairness ==
  /\ WF_vars(Send \/ ObserveCancel \/ CannotConnect \/ Acknowledged \/ GiveUp \/ Quit)
  /\ SF_vars(SupervisorDeadline)

Spec == Init /\ [][Next]_vars /\ Fairness

-----------------------------------------------------------------------------
TypeOK ==
  /\ op \in {None, "job", "upload", "stop"}
  /\ at \in Transactions \cup {"idle"}
  /\ waiting \in BOOLEAN /\ (waiting => at # "idle")
  /\ parts \in 0 .. 2
  /\ verdict \in Statuses \cup {None, "not launched", "failed", "uncertain"}
  /\ (at = "idle" /\ op # None) => verdict # None
  /\ latch \in BOOLEAN /\ ops \in 0 .. MaxOps
  /\ vm \in {"on", "quit", "forced"}
  /\ shell \in Seq(Transactions)
  /\ reply = None \/ reply \in [ok : BOOLEAN, result : Statuses \cup {None, "uncertain"}]
  /\ dir \in {"none", "there", "gone"}
  /\ worker \in {"none", "watching", "stopping", "killed", "done", "dead"}
  /\ seen \in SUBSET Process \cup {None}
  /\ members \subseteq Process /\ born \subseteq Process

\* A line is typed only to a shell that has answered all earlier ones: the
\* channel never holds two (guest_operation, serial_exec, the finally blocks
\* of guest_put and execute).  And any answer but "uncertain" means that the
\* script's process group and its supervisor are gone and nothing of the
\* operation can run any more, whatever became of its last line (execute, run).
OneLineAtATime ==
  /\ Len(shell) <= 1
  /\ at = "idle" /\ verdict \notin {None, "uncertain"} =>
       members = {} /\ worker \in {"none", "done"} /\ shell = <<>>

\* Every operation ends, whatever the guest does.
EveryOperationEnds == (at # "idle") ~> (at = "idle")

=============================================================================
