--------------------------- MODULE JobController ---------------------------
(***************************************************************************)
(* The job core of tools/forge_controller.py (submit, work, the cancelled  *)
(* callback, finished, job, cancel, close) with the durable outcomes of    *)
(* tools/forge_history.py.  Several clients submit, poll and cancel; a     *)
(* pool of worker threads runs the functions; a job owns its workspace     *)
(* path, and its physical target if it has one, from submission until its  *)
(* cleanup.                                                                *)
(*                                                                         *)
(* A job passes through its phases in this order, those of the worker on   *)
(* the left, those of a job cancelled while queued on the right:           *)
(*   queued, starting, checking, executing, recording, releasing,          *)
(*   finalizing, publishing, over    | queued, unhooked, recording,        *)
(*                                   | releasing, finalizing, over         *)
(***************************************************************************)
EXTENDS Naturals, FiniteSets

CONSTANTS
  Job, Path, Machine,  \* job ids, canonical workspace paths, machine identities
  PathOf, MachineOf,   \* what each job works on; NoMachine without a target
  NoJob, NoMachine,
  Cancellable,         \* the jobs submitted with cancellable=True
  Workers,             \* threads of the executor (4)
  Limit                \* jobs kept in memory (128)

ASSUME ControllerAssumption ==
  /\ PathOf \in [Job -> Path] /\ MachineOf \in [Job -> Machine \cup {NoMachine}]
  /\ NoJob \notin Job /\ NoMachine \notin Machine
  /\ Cancellable \subseteq Job
  /\ Workers \in Nat \ {0} /\ Limit \in Nat \ {0}

VARIABLES
  owner,       \* the controller: open, closing, closed (or crashed)
  phase,       \* where each job is
  result,      \* the outcome a job is heading for, and job() reports when it is over
  jobs,        \* the job ids the controller still holds in memory
  busy,        \* [Path -> owning job]
  targetBusy,  \* [Machine -> owning job]
  hooked,      \* jobs whose done callback is registered
  stop,        \* jobs whose cancel event is set
  cancelled,   \* jobs whose future was cancelled by future.cancel()
  swept,       \* cancelled jobs whose callback runs in close()'s own thread
  persisted,   \* jobs whose terminal outcome was committed
  history,     \* the durable row of each job
  began,       \* history variable: jobs whose function was called
  returned     \* history variable: jobs whose function returned normally

core == <<owner, phase, result, jobs>>
locks == <<busy, targetBusy>>
events == <<hooked, stop, cancelled, swept, persisted>>
past == <<began, returned>>
vars == <<core, locks, events, history, past>>

Terminal == {"completed", "failed", "cancelled"}
Working == {"starting", "checking", "executing", "recording", "releasing",
            "finalizing", "publishing"}

TypeOK ==
  /\ owner \in {"open", "closing", "closed"}
  /\ phase \in [Job -> Working \cup {"new", "queued", "unhooked", "over", "lost"}]
  /\ result \in [Job -> Terminal \cup {"none"}]
  /\ jobs \subseteq Job /\ Cardinality(jobs) <= Limit
  /\ busy \in [Path -> Job \cup {NoJob}]
  /\ targetBusy \in [Machine -> Job \cup {NoJob}]
  /\ hooked \subseteq Job /\ stop \subseteq Job /\ cancelled \subseteq Job
  /\ swept \subseteq cancelled /\ persisted \subseteq Job
  /\ history \in [Job -> Terminal \cup {"none", "queued", "running"}]
  /\ began \subseteq Job /\ returned \subseteq Job

Init ==
  /\ owner = "open"
  /\ phase = [j \in Job |-> "new"] /\ result = [j \in Job |-> "none"] /\ jobs = {}
  /\ busy = [p \in Path |-> NoJob] /\ targetBusy = [m \in Machine |-> NoJob]
  /\ hooked = {} /\ stop = {} /\ cancelled = {} /\ swept = {} /\ persisted = {}
  /\ history = [j \in Job |-> "none"]
  /\ began = {} /\ returned = {}

Goto(j, p) == phase' = [phase EXCEPT ![j] = p]

-----------------------------------------------------------------------------
(* submit                                                                  *)

FreeWorkspace(j) == busy[PathOf[j]] = NoJob
Free(j) ==
  /\ busy[PathOf[j]] = NoJob
  /\ MachineOf[j] # NoMachine => targetBusy[MachineOf[j]] = NoJob

(* done, finalized and persisted: only such a job may leave memory.        *)
Retirable(k) == phase[k] = "over" /\ k \in persisted

(* At the limit one retirable job makes room; without one submit refuses.  *)
MakeRoom ==
  IF Cardinality(jobs) < Limit
    THEN {jobs}
    ELSE {jobs \ {k} : k \in {k \in jobs : Retirable(k)}}

Own(j) ==
  /\ busy' = [busy EXCEPT ![PathOf[j]] = j]
  /\ targetBusy' = [m \in Machine |-> IF m = MachineOf[j] THEN j ELSE targetBusy[m]]

(* Under the mutex: the durable row, the locks, the executor's queue and   *)
(* the in-memory entry.                                                    *)
Submit(j) ==
  /\ owner = "open" /\ phase[j] = "new" /\ Free(j)
  /\ \E room \in MakeRoom : jobs' = room \cup {j}
  /\ history' = [history EXCEPT ![j] = "queued"]
  /\ Own(j)
  /\ Goto(j, "queued")
  /\ UNCHANGED <<owner, result, events, past>>

(* The row cannot be created (at any time, and always once the history is  *)
(* closed), or the executor was already shut down: then the locks are      *)
(* given back and the row says, if it can be written, that nothing began.  *)
SubmitRefused(j) ==
  /\ phase[j] = "new" /\ Free(j)
  /\ \E room \in MakeRoom : jobs' = room
  /\ \E outcome \in IF owner = "closing" THEN {"failed", "queued", "none"} ELSE {"none"} :
       history' = [history EXCEPT ![j] = outcome]
  /\ Goto(j, "lost")
  /\ UNCHANGED <<owner, result, locks, events, past>>

HookForLater(j) ==
  /\ j \in jobs /\ j \notin hooked
  /\ hooked' = hooked \cup {j}
  /\ UNCHANGED <<owner, phase, result, jobs, locks, stop, cancelled, swept, persisted, history, past>>

(* add_done_callback, outside the mutex; it runs at once on a future that  *)
(* was cancelled in between.                                               *)
Hook(j) ==
  /\ j \in jobs /\ j \notin hooked
  /\ hooked' = hooked \cup {j}
  /\ IF phase[j] = "unhooked" THEN Goto(j, "recording") ELSE UNCHANGED phase
  /\ UNCHANGED <<owner, result, jobs, locks, stop, cancelled, swept, persisted, history, past>>

-----------------------------------------------------------------------------
(* work, in a pool thread                                                  *)

Running == {j \in Job : phase[j] \in Working /\ j \notin cancelled}

Start(j) ==
  /\ phase[j] = "queued"
  /\ Cardinality(Running) < Workers
  /\ Goto(j, "starting")
  /\ UNCHANGED <<owner, result, jobs, locks, events, history, past>>

RecordRunningBestEffort(j) ==
  /\ phase[j] = "starting"
  /\ history' \in {history, [history EXCEPT ![j] = "running"]}
  /\ Goto(j, "checking")
  /\ UNCHANGED <<owner, result, jobs, locks, events, past>>

(* record({'status': 'running'}) commits, or fails and ends the job.       *)
RecordRunning(j) ==
  /\ phase[j] = "starting"
  /\ \/ /\ history' = [history EXCEPT ![j] = "running"]
        /\ Goto(j, "checking")
        /\ UNCHANGED result
     \/ /\ Goto(j, "releasing")
        /\ result' = [result EXCEPT ![j] = "failed"]
        /\ UNCHANGED history
  /\ UNCHANGED <<owner, jobs, locks, events, past>>

Check(j) ==
  /\ phase[j] = "checking"
  /\ IF j \in stop
       THEN /\ result' = [result EXCEPT ![j] = "cancelled"]
            /\ Goto(j, "recording")
            /\ UNCHANGED began
       ELSE Goto(j, "executing") /\ began' = began \cup {j} /\ UNCHANGED result
  /\ UNCHANGED <<owner, jobs, locks, events, history, returned>>

(* The function returns, raises, or raises one of the cancellation errors  *)
(* (which a cooperating function does only once its event is set).         *)
Execute(j) ==
  /\ phase[j] = "executing"
  /\ \E outcome \in {"completed", "failed"} \cup (IF j \in stop THEN {"cancelled"} ELSE {}) :
       /\ result' = [result EXCEPT ![j] = outcome]
       /\ returned' = IF outcome = "completed" THEN returned \cup {j} ELSE returned
  /\ Goto(j, "recording")
  /\ UNCHANGED <<owner, jobs, locks, events, history, began>>

(* record(outcome), by the worker or by the callback.  A commit that fails *)
(* turns the outcome into a failure and leaves the row as it was.          *)
RecordOutcome(j) ==
  /\ phase[j] = "recording"
  /\ \/ /\ owner # "closed"
        /\ history' = [history EXCEPT ![j] = result[j]]
        /\ persisted' = persisted \cup {j}
        /\ UNCHANGED result
     \/ /\ result' = [result EXCEPT ![j] = "failed"]
        /\ UNCHANGED <<history, persisted>>
  /\ Goto(j, "releasing")
  /\ UNCHANGED <<owner, jobs, locks, hooked, stop, cancelled, swept, past>>

(* finished(): only what this very job still owns is given back.           *)
Release(j) ==
  /\ phase[j] = "releasing"
  /\ busy' = [p \in Path |-> IF busy[p] = j THEN NoJob ELSE busy[p]]
  /\ targetBusy' = [m \in Machine |-> IF targetBusy[m] = j THEN NoJob ELSE targetBusy[m]]
  /\ Goto(j, "finalizing")
  /\ UNCHANGED <<owner, result, jobs, events, history, past>>

(* finalized.set(); a cancelled future is terminal with it.                *)
Finalize(j) ==
  /\ phase[j] = "finalizing"
  /\ Goto(j, IF j \in cancelled THEN "over" ELSE "publishing")
  /\ UNCHANGED <<owner, result, jobs, locks, events, history, past>>

(* The executor publishes the future's result.                             *)
Publish(j) ==
  /\ phase[j] = "publishing"
  /\ Goto(j, "over")
  /\ UNCHANGED <<owner, result, jobs, locks, events, history, past>>

-----------------------------------------------------------------------------
(* future.cancel() on a queued job: the callback runs in that thread, if   *)
(* it is already registered.                                               *)
CancelFuture(j) ==
  /\ phase[j] = "queued" /\ j \in jobs
  /\ cancelled' = cancelled \cup {j}
  /\ result' = [result EXCEPT ![j] = "cancelled"]
  /\ Goto(j, IF j \in hooked THEN "recording" ELSE "unhooked")
  /\ UNCHANGED <<owner, jobs, locks, hooked, stop, persisted, history, past>>

(* cancel(), by a client.                                                  *)
CancelQueued(j) == CancelFuture(j) /\ UNCHANGED swept

(* A running job that supports it is asked to stop.                        *)
RequestStop(j) ==
  /\ phase[j] \in Working /\ j \in jobs /\ j \notin cancelled
  /\ j \in Cancellable
  /\ stop' = stop \cup {j}
  /\ UNCHANGED <<core, locks, hooked, cancelled, swept, persisted, history, past>>

(* close(): the executor takes no more work, what is queued is cancelled,  *)
(* and the history is closed after the last worker is done.  Nobody waits  *)
(* for a callback in another client's thread.                              *)
BeginClose ==
  /\ owner = "open"
  /\ owner' = "closing"
  /\ UNCHANGED <<phase, result, jobs, locks, events, history, past>>

Sweep(j) ==
  /\ owner = "closing"
  /\ CancelFuture(j)
  /\ swept' = swept \cup (hooked \cap {j})

EndClose ==
  /\ owner = "closing"
  /\ Running = {}
  /\ \A j \in Job : phase[j] # "queued"
  /\ \A j \in swept : phase[j] = "over"
  /\ owner' = "closed"
  /\ UNCHANGED <<phase, result, jobs, locks, events, history, past>>

(* The process dies and a new controller opens the same history: memory is *)
(* gone, rows are not.                                                     *)
Crash ==
  /\ owner' = "open" /\ jobs' = {}
  /\ phase' = [j \in Job |-> IF phase[j] = "new" THEN "new" ELSE "lost"]
  /\ busy' = [p \in Path |-> NoJob] /\ targetBusy' = [m \in Machine |-> NoJob]
  /\ hooked' = {} /\ stop' = {} /\ cancelled' = {} /\ swept' = {} /\ persisted' = {}
  /\ result' = [j \in Job |-> "none"]
  /\ UNCHANGED <<history, past>>

Work(j) ==
  \/ RecordRunning(j) \/ Check(j) \/ Execute(j) \/ RecordOutcome(j)
  \/ Release(j) \/ Finalize(j) \/ Publish(j)

Next ==
  \/ \E j \in Job :
       \/ Submit(j) \/ SubmitRefused(j) \/ Hook(j) \/ Start(j) \/ Work(j)
       \/ CancelQueued(j) \/ Sweep(j) \/ RequestStop(j)
  \/ BeginClose \/ EndClose \/ Crash

(* The process is scheduled and functions return: while a pool thread, a   *)
(* callback or close can go on, one of them does.  Clients owe nothing.    *)
Scheduled == EndClose \/ \E j \in Job : Start(j) \/ Work(j) \/ Hook(j) \/ Sweep(j)
Fairness == WF_vars(Scheduled)

Spec == Init /\ [][Next]_vars /\ Fairness

-----------------------------------------------------------------------------
(* What job() answers for a job of this session.                           *)
Status(j) ==
  IF j \notin jobs
    THEN IF history[j] \in {"queued", "running"} THEN "unresolved" ELSE history[j]
    ELSE CASE phase[j] = "over" -> result[j]
           [] phase[j] # "over" /\ j \in stop \cup cancelled -> "cancelling"
           [] phase[j] = "queued" /\ j \notin stop \cup cancelled -> "queued"
           [] OTHER -> "running"

(* From submission until its locks are released.                           *)
Holding(j) ==
  phase[j] \in {"queued", "unhooked", "starting", "checking", "executing", "recording", "releasing"}

(* Two functions never work on one workspace or one physical target, with  *)
(* late and cancelled cleanups of earlier jobs still on their way.         *)
Exclusive ==
  \A j, k \in Job :
    j # k /\ Holding(j) /\ Holding(k) =>
      /\ PathOf[j] # PathOf[k]
      /\ MachineOf[j] # MachineOf[k] \/ MachineOf[j] = NoMachine

(* The durable row never claims what did not happen: "queued" and the      *)
(* refusal mean the function was never called, "completed" that it         *)
(* returned; so after a crash an unresolved row is the only doubt.  And a  *)
(* job that was dropped from memory is answered from its row as it ended.  *)
HistoryHonest ==
  \A j \in Job :
    /\ phase[j] = "over" /\ j \notin jobs => Status(j) = result[j]
    /\ history[j] \in {"none", "queued"} => j \notin began
    /\ history[j] = "completed" => j \in returned
    /\ history[j] = "cancelled" => j \notin returned

(* Every job submitted is over at last, or its controller is gone: no      *)
(* order of cancel(), callback registration and close() strands one.  (The *)
(* jobs of a history are finitely many, so all of them are over together.) *)
EveryJobEnds == []<>(\A j \in Job : phase[j] \in {"new", "over", "lost"})
=============================================================================
