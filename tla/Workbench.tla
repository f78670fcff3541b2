----------------------------- MODULE Workbench -----------------------------
(***************************************************************************)
(* The desktop window (tools/uconsole_workbench.py) and the agents attached *)
(* to it (forge_dispatch.py, forge_local.py, forge_client.py).  One thread *)
(* runs Tk's event loop: the owner's actions, and every 100 ms a poll that  *)
(* reads finished jobs, accepts agents' requests from a bounded queue and   *)
(* connects the serial console.  Jobs run in the controller's workers, one  *)
(* at a time on the window's workspace.  A modal dialog is a nested event   *)
(* loop: the action that opened it is suspended while polls go on.          *)
(***************************************************************************)
EXTENDS Naturals, Sequences, FiniteSets

CONSTANTS Calls,        \* requests of attached agents, one thread each
          MaxBoots,     \* bound: virtual machines ever started
          QueueLimit    \* OwnerQueue's maxsize, 32 in the code

VARIABLES
  field,     \* the window's own job ids: none, live, or done and not yet polled
  job,       \* the job that owns the workspace in the controller
  vm,        \* every QEMU started
  owned,     \* controller.runtimes['gui'], 0 when absent or None
  runtime,   \* the window's runtime and process, 0 for None
  serial,    \* the QEMU whose console socket the window holds, or 0
  channelError, \* QEMUs whose guest channel is uncertain
  shutdown,  \* shutdown_requested
  queue,     \* OwnerQueue.pending
  future,    \* per call: the future between client thread and owner
  told,      \* per call: what the client was answered
  stage,     \* the part of poll that comes next
  dialog,    \* the action suspended in a modal dialog
  life,      \* of the window
  disowned   \* history variable: QEMUs that ReplayChosen removed from the controller

vars == <<field, job, vm, owned, runtime, serial, channelError, shutdown, queue,
          future, told, stage, dialog, life, disowned>>
window == <<runtime, serial, shutdown, stage, dialog, life>>
calls == <<queue, future, told>>
machines == <<vm, owned, channelError, disowned>>

VMs == 1 .. MaxBoots
\* "guest" is guest_job and transfer: every guard of the window names both.
Fields == {"agent", "boot", "control", "power", "replay", "lifecycle", "guest", "host", "panel"}
AgentOps == {"boot", "qmp", "image", "exec", "stop", "force"}
Ops == AgentOps \cup {"replay", "task", "panel"}
ConsoleOps == {"exec", "stop"}                  \* clean stop runs a guest command too
NoJob == [op |-> "", by |-> "", step |-> "none", on |-> 0, cancel |-> FALSE]

TypeOK ==
  /\ field \in [Fields -> {"none", "live", "done"}]
  /\ job \in {NoJob} \cup
       [op : Ops, by : Fields, step : {"queued", "running", "spawning", "console", "booting"},
        on : 0 .. MaxBoots, cancel : BOOLEAN]
  /\ vm \in [VMs -> {"unborn", "alive", "exited"}]
  /\ owned \in 0 .. MaxBoots /\ runtime \in 0 .. MaxBoots /\ serial \in 0 .. MaxBoots
  /\ channelError \subseteq VMs /\ disowned \subseteq VMs
  /\ shutdown \in BOOLEAN
  /\ queue \in Seq([call : Calls, op : AgentOps]) /\ Len(queue) <= QueueLimit
  /\ future \in [Calls -> {"new", "pending", "running", "cancelled", "finished"}]
  /\ told \in [Calls -> {"", "nothing started", "job", "refused"}]
  /\ stage \in {"idle", "drain", "jobs", "serial", "exit"}
  /\ dialog \in {"none", "replay", "discard", "stop"}
  /\ life \in {"open", "closing", "closed"}

Init ==
  /\ field = [f \in Fields |-> "none"]
  /\ job = NoJob
  /\ vm = [v \in VMs |-> "unborn"]
  /\ owned = 0 /\ runtime = 0 /\ serial = 0
  /\ channelError = {} /\ disowned = {}
  /\ shutdown = FALSE
  /\ queue = <<>>
  /\ future = [c \in Calls |-> "new"]
  /\ told = [c \in Calls |-> ""]
  /\ stage = "idle" /\ dialog = "none" /\ life = "open"

Alive(v) == v # 0 /\ vm[v] = "alive"
NonePending(fs) == \A f \in fs : field[f] = "none"

-----------------------------------------------------------------------------
(* The window's guards. *)

require_no_replay ==
  NonePending({"agent", "control", "power", "boot", "host", "guest", "replay"})

require_guest_idle ==
  /\ NonePending({"agent", "control", "power", "boot", "host", "guest"})
  /\ ~shutdown
  /\ runtime \notin channelError

\* display_setup is the lifecycle job that prepares the desktop.
check_startable == NonePending({"agent", "boot", "host", "lifecycle"}) /\ runtime = 0

(* Controller.submit for this workspace: refused while another job owns it. *)
Submit(f, op) ==
  /\ job = NoJob
  /\ job' = [op |-> op, by |-> f, step |-> "queued", on |-> 0, cancel |-> FALSE]
  /\ field' = [field EXCEPT ![f] = "live"]

(* An owner's action: it submits, or the controller's refusal is reported. *)
SubmitOrRefused(f, op) == Submit(f, op) \/ (job # NoJob /\ UNCHANGED <<job, field>>)

AtRest == life = "open" /\ stage = "idle" /\ dialog = "none"
Polling(s) == life = "open" /\ stage = s

-----------------------------------------------------------------------------
(* The owner's actions. *)

launch_locked ==
  /\ AtRest /\ check_startable
  /\ SubmitOrRefused("boot", "boot")
  /\ shutdown' = (shutdown /\ job # NoJob)
  /\ UNCHANGED <<machines, runtime, serial, stage, dialog, life, calls>>

\* Pause and resume.  The controller is given the window's runtime.
control ==
  /\ AtRest /\ require_no_replay /\ runtime # 0
  /\ owned' = runtime
  /\ SubmitOrRefused("control", "qmp")
  /\ UNCHANGED <<vm, channelError, disowned, window, calls>>

live_power ==
  /\ AtRest /\ require_no_replay /\ Alive(runtime) /\ ~shutdown
  /\ owned' = runtime
  /\ SubmitOrRefused("power", "qmp")
  /\ UNCHANGED <<vm, channelError, disowned, window, calls>>

release_serial == serial' = 0

\* start_guest_command and start_transfer.
start_guest_command ==
  /\ AtRest /\ require_no_replay /\ require_guest_idle /\ Alive(runtime)
  /\ owned' = runtime
  /\ release_serial
  /\ SubmitOrRefused("guest", "exec")
  /\ UNCHANGED <<vm, channelError, disowned, runtime, shutdown, stage, dialog, life, calls>>

poweroff ==
  /\ AtRest /\ require_no_replay /\ require_guest_idle /\ runtime # 0
  /\ owned' = runtime
  /\ release_serial
  /\ SubmitOrRefused("guest", "stop")
  /\ shutdown' = (job = NoJob)
  /\ UNCHANGED <<vm, channelError, disowned, runtime, stage, dialog, life, calls>>

start_host_task ==
  /\ AtRest /\ require_no_replay /\ require_guest_idle /\ NonePending({"lifecycle"})
  /\ SubmitOrRefused("host", "task")
  /\ UNCHANGED <<machines, window, calls>>

start_lifecycle ==
  /\ AtRest /\ NonePending({"agent", "boot", "lifecycle", "host"}) /\ runtime = 0
  /\ SubmitOrRefused("lifecycle", "image")
  /\ UNCHANGED <<machines, window, calls>>

(* The recovery, target, modem and audio panels submit through the same      *)
(* controller and ask none of the window's guards; they poll by themselves. *)
PanelSubmit ==
  /\ AtRest /\ field["panel"] = "none"
  /\ Submit("panel", "panel")
  /\ UNCHANGED <<machines, window, calls>>

PanelPoll ==
  /\ Polling("idle") /\ field["panel"] = "done"
  /\ field' = [field EXCEPT !["panel"] = "none"]
  /\ UNCHANGED <<job, machines, window, calls>>

\* start_replay asks for the schedule after its checks and before it acts.
start_replay ==
  /\ AtRest /\ require_no_replay /\ Alive(runtime) /\ ~shutdown
  /\ dialog' = "replay"
  /\ UNCHANGED <<field, job, machines, runtime, serial, shutdown, stage, life, calls>>

ReplayChosen ==
  /\ Polling("idle") /\ dialog = "replay"
  /\ dialog' = "none"
  /\ owned' = runtime
  /\ disowned' = disowned \cup ({owned} \ {0, runtime})
  /\ SubmitOrRefused("replay", "replay")
  /\ UNCHANGED <<vm, channelError, runtime, serial, shutdown, stage, life, calls>>

\* No file chosen, or a question of close answered with no.
DialogDismissed ==
  /\ Polling("idle") /\ dialog # "none"
  /\ dialog' = "none"
  /\ UNCHANGED <<field, job, machines, runtime, serial, shutdown, stage, life, calls>>

JobDone ==
  /\ field' = [field EXCEPT ![job.by] = "done"]
  /\ job' = NoJob

\* The cancel buttons, and job_cancel of the session that submitted the job.
Cancel ==
  /\ life = "open" /\ job # NoJob /\ ~job.cancel
  /\ IF job.step = "queued"
       THEN JobDone
       ELSE /\ job.op \in {"boot", "replay", "image", "exec", "task"}
            /\ job' = [job EXCEPT !.cancel = TRUE]
            /\ UNCHANGED field
  /\ UNCHANGED <<machines, window, calls>>

-----------------------------------------------------------------------------
(* The controller's worker. *)

ThenStep(s, v) == job' = [job EXCEPT !.step = s, !.on = v] /\ UNCHANGED field

Start == job.step = "queued" /\ ThenStep("running", 0) /\ UNCHANGED <<machines, window, calls>>

\* QMP, replay, host task, image operation and panel jobs change none of this.
WorkEnds ==
  /\ job.step = "running" /\ job.op \in {"qmp", "replay", "task", "image", "panel"}
  /\ JobDone
  /\ UNCHANGED <<machines, window, calls>>

\* A live runtime of this workspace refuses the boot.
MayBoot == ~job.cancel /\ ~Alive(owned)
BootChecks ==
  /\ job.step = "running" /\ job.op = "boot"
  /\ IF MayBoot THEN ThenStep("spawning", 0) ELSE JobDone
  /\ UNCHANGED <<machines, window, calls>>

(* Runtime.start takes the workspace lock, which a live QEMU holds; when it  *)
(* raises it has stopped its child, and nothing is recorded.                 *)
BootSpawns ==
  /\ job.step = "spawning"
  /\ \/ JobDone /\ UNCHANGED <<vm, owned>>
     \/ \E v \in VMs :
          /\ vm[v] = "unborn" /\ \A u \in VMs : vm[u] # "alive" /\ (u < v => vm[u] # "unborn")
          /\ vm' = [vm EXCEPT ![v] = "alive"]
          /\ owned' = v
          /\ ThenStep("booting", v)
  /\ UNCHANGED <<channelError, disowned, window, calls>>

\* Ready, or failed with the VM retained; a cancelled boot stops its own VM.
BootEnds ==
  /\ job.step = "booting"
  /\ vm' = IF job.cancel THEN [vm EXCEPT ![job.on] = "exited"] ELSE vm
  /\ JobDone
  /\ UNCHANGED <<owned, channelError, disowned, window, calls>>

\* Controller.runtime and Runtime.guest_operation.
ConsoleOpens ==
  /\ job.step = "running" /\ job.op \in ConsoleOps
  /\ IF Alive(owned) /\ owned \notin channelError
       THEN ThenStep("console", owned)
       ELSE JobDone
  /\ UNCHANGED <<machines, window, calls>>

ConsoleEnds ==
  /\ job.step = "console"
  /\ \/ UNCHANGED <<vm, channelError>>
     \/ channelError' = channelError \cup {job.on} /\ UNCHANGED vm
     \/ job.op = "stop" /\ vm' = [vm EXCEPT ![job.on] = "exited"] /\ UNCHANGED channelError
  /\ JobDone
  /\ UNCHANGED <<owned, disowned, window, calls>>

ForcedStop ==
  /\ job.step = "running" /\ job.op = "force"
  /\ vm' = IF Alive(owned) THEN [vm EXCEPT ![owned] = "exited"] ELSE vm
  /\ JobDone
  /\ UNCHANGED <<owned, channelError, disowned, window, calls>>

\* The guest powers off or QEMU dies.
VMExits(v) ==
  /\ Alive(v)
  /\ vm' = [vm EXCEPT ![v] = "exited"]
  /\ UNCHANGED <<field, job, owned, channelError, disowned, window, calls>>

-----------------------------------------------------------------------------
(* poll, in the order of the code; workers and clients go on between parts. *)

PollAgent ==
  /\ Polling("idle")
  /\ stage' = "drain"
  /\ IF field["agent"] = "done"
       THEN /\ field' = [field EXCEPT !["agent"] = "none"]
            /\ runtime' = IF runtime = 0 THEN owned ELSE runtime
       ELSE UNCHANGED <<field, runtime>>
  /\ UNCHANGED <<job, machines, serial, shutdown, dialog, life, calls>>

MayRunCancelled(c) == future[c] \in {"pending", "cancelled"}
\* set_running_or_notify_cancel: a request its client gave up is dropped.
MayRun(c) == future[c] = "pending"
DrainTakes ==
  /\ Polling("drain") /\ queue # <<>>
  /\ LET c == Head(queue).call IN
     IF MayRun(c)
       THEN future' = [future EXCEPT ![c] = "running"] /\ UNCHANGED queue
       ELSE future[c] = "cancelled" /\ queue' = Tail(queue) /\ UNCHANGED future
  /\ UNCHANGED <<field, job, machines, window, told>>

(* agent_operation: the window's guards, then the session's own call. *)
Permitted(op) ==
  /\ require_no_replay /\ NonePending({"lifecycle"})
  /\ op \in ConsoleOps => require_guest_idle

agent_operation(c, op) ==
  IF Permitted(op)
    THEN /\ serial' = IF op \in ConsoleOps \cup {"force"} THEN 0 ELSE serial
         /\ SubmitOrRefused("agent", op)
         /\ told' = [told EXCEPT ![c] = IF job = NoJob THEN "job" ELSE "refused"]
    ELSE /\ told' = [told EXCEPT ![c] = "refused"]
         /\ UNCHANGED <<serial, field, job>>

DrainRuns ==
  /\ Polling("drain") /\ queue # <<>> /\ future[Head(queue).call] = "running"
  /\ agent_operation(Head(queue).call, Head(queue).op)
  /\ future' = [future EXCEPT ![Head(queue).call] = "finished"]
  /\ queue' = Tail(queue)
  /\ UNCHANGED <<machines, runtime, shutdown, stage, dialog, life>>

\* The loop runs maxsize times: a later entry may wait for the next poll.
DrainEnds ==
  /\ Polling("drain") /\ (queue # <<>> => future[Head(queue).call] # "running")
  /\ stage' = "jobs"
  /\ UNCHANGED <<field, job, machines, runtime, serial, shutdown, dialog, life, calls>>

(* poll_boot, poll_power, poll_control, poll_replay, poll_lifecycle,         *)
(* poll_guest, poll_host_task and poll_transfer.  A finished boot makes the *)
(* controller's runtime the window's; only a stop ends shutdown_requested,  *)
(* and while that is set no other guest job exists.                         *)
PollJobs ==
  /\ Polling("jobs")
  /\ stage' = "serial"
  /\ field' = [f \in Fields |-> IF f \notin {"agent", "panel"} /\ field[f] = "done"
                                 THEN "none" ELSE field[f]]
  /\ runtime' = IF field["boot"] = "done" /\ owned # 0 THEN owned ELSE runtime
  /\ shutdown' = (shutdown /\ field["guest"] # "done")
  /\ UNCHANGED <<job, machines, serial, dialog, life, calls>>

MayConnectDuringGuestJob == NonePending({"agent"}) /\ runtime \notin channelError
MayConnect == NonePending({"agent", "guest"}) /\ runtime \notin channelError
PollSerial ==
  /\ Polling("serial")
  /\ stage' = "exit"
  /\ serial' \in IF serial = 0 /\ Alive(runtime) /\ MayConnect THEN {0, runtime}
                 ELSE {serial} \cup {v \in {0} : ~Alive(serial)}    \* recv fails
  /\ UNCHANGED <<field, job, machines, runtime, shutdown, dialog, life, calls>>

releaseWhatever == runtime' = 0 /\ serial' = 0 /\ owned' = 0
\* release: the controller forgets the runtime only if it is the window's.
release ==
  /\ runtime' = 0 /\ serial' = 0
  /\ owned' = IF owned = runtime THEN 0 ELSE owned

CancelReplay == job' = IF job.by = "replay" THEN [job EXCEPT !.cancel = TRUE] ELSE job

PollExit ==
  /\ Polling("exit")
  /\ stage' = "idle"
  /\ IF runtime = 0 \/ Alive(runtime)
       THEN UNCHANGED <<runtime, serial, owned, job>>
       ELSE IF field["replay"] # "none"
         THEN CancelReplay /\ UNCHANGED <<runtime, serial, owned>>
       ELSE IF NonePending({"guest", "power", "control", "agent"})
         THEN release /\ UNCHANGED job
       ELSE UNCHANGED <<runtime, serial, owned, job>>
  /\ UNCHANGED <<field, vm, channelError, disowned, shutdown, dialog, life, calls>>

-----------------------------------------------------------------------------
(* Client threads. *)

Answer(c, text) == told' = [told EXCEPT ![c] = text]

\* OwnerQueue.call: closed, full, or queued.
Request(c, op) ==
  /\ future[c] = "new"
  /\ IF life # "open" \/ Len(queue) = QueueLimit
       THEN /\ future' = [future EXCEPT ![c] = "finished"]
            /\ Answer(c, "refused") /\ UNCHANGED queue
       ELSE /\ future' = [future EXCEPT ![c] = "pending"]
            /\ queue' = Append(queue, [call |-> c, op |-> op])
            /\ UNCHANGED told
  /\ UNCHANGED <<field, job, machines, window>>

\* After ten seconds: a request already accepted is waited for.
Timeout(c) ==
  /\ future[c] = "pending"
  /\ future' = [future EXCEPT ![c] = "cancelled"]
  /\ Answer(c, "nothing started")
  /\ UNCHANGED <<field, job, machines, window, queue>>

-----------------------------------------------------------------------------
(* close *)

\* Every job of the window and of its panels refuses the question.
CloseAsks ==
  /\ AtRest /\ NonePending(Fields)
  /\ dialog' = "discard"
  /\ UNCHANGED <<field, job, machines, runtime, serial, shutdown, stage, life, calls>>

\* OwnerQueue.close answers what is still pending.
CloseAttachment ==
  /\ life' = "closing" /\ dialog' = "none"
  /\ queue' = <<>>
  /\ future' = [c \in Calls |-> IF future[c] = "pending" THEN "finished" ELSE future[c]]
  /\ told' = [c \in Calls |-> IF future[c] = "pending" THEN "refused" ELSE told[c]]

CloseDiscards ==
  /\ Polling("idle") /\ dialog = "discard"
  /\ IF runtime # 0 THEN dialog' = "stop" /\ UNCHANGED <<life, calls>> ELSE CloseAttachment
  /\ UNCHANGED <<field, job, machines, runtime, serial, shutdown, stage>>

\* A VM that exited meanwhile raises, and the window stays open.
CloseStops ==
  /\ Polling("idle") /\ dialog = "stop"
  /\ IF Alive(runtime)
       THEN /\ vm' = [vm EXCEPT ![runtime] = "exited"]
            /\ release
            /\ CloseAttachment
       ELSE dialog' = "none" /\ UNCHANGED <<vm, owned, runtime, serial, life, calls>>
  /\ UNCHANGED <<field, job, channelError, disowned, shutdown, stage>>

\* Controller.close: queued work is cancelled, running work is waited for.
CloseEnds ==
  /\ life = "closing" /\ job.step \in {"none", "queued"}
  /\ life' = "closed"
  /\ job' = NoJob
  /\ vm' = IF Alive(owned) THEN [vm EXCEPT ![owned] = "exited"] ELSE vm
  /\ UNCHANGED <<field, owned, channelError, disowned, runtime, serial, shutdown, stage, dialog, calls>>

-----------------------------------------------------------------------------
Owner ==
  \/ launch_locked \/ control \/ live_power \/ start_guest_command \/ poweroff
  \/ start_host_task \/ start_lifecycle \/ PanelSubmit \/ PanelPoll
  \/ start_replay \/ ReplayChosen \/ DialogDismissed \/ Cancel
  \/ CloseAsks \/ CloseDiscards \/ CloseStops \/ CloseEnds

Worker ==
  \/ Start \/ WorkEnds \/ BootChecks \/ BootSpawns \/ BootEnds
  \/ ConsoleOpens \/ ConsoleEnds \/ ForcedStop

Poll == PollAgent \/ DrainTakes \/ DrainRuns \/ DrainEnds \/ PollJobs \/ PollSerial \/ PollExit

Next ==
  \/ Owner \/ Worker \/ Poll
  \/ \E v \in VMs : VMExits(v)
  \/ \E c \in Calls : Timeout(c) \/ \E op \in AgentOps : Request(c, op)

Spec == Init /\ [][Next]_vars

-----------------------------------------------------------------------------
(* The console socket of a VM has one reader: while a worker's transaction  *)
(* runs on it, neither the window's poll nor its entry field is connected.  *)
ConsoleExclusive == job.step = "console" => serial # job.on

(* A client that was told that nothing started is right for good, and one   *)
(* that was given a job or a refusal was served by the owner exactly then.   *)
NothingMeansNothing ==
  \A c \in Calls : told[c] = "nothing started" => future[c] = "cancelled"

(* Every live QEMU is the controller's, which will stop it, and none is      *)
(* left when the window is gone; choosing a replay schedule with a stale     *)
(* runtime is the one exception, and never makes two machines run.          *)
LiveIsOwned ==
  /\ \A v \in VMs : Alive(v) => v = owned \/ v \in disowned
  /\ \A u, v \in VMs : Alive(u) /\ Alive(v) => u = v
  /\ life = "closed" => \A v \in VMs : Alive(v) => v \in disowned

(* "Remote boot uses the same owned Runtime and becomes visible in the GUI   *)
(* after boot completion" (docs/forge-agents.md): with nothing under way and *)
(* nothing to poll, a VM of the controller is the window's.                  *)
BootBecomesVisible ==
  (AtRest /\ job = NoJob /\ NonePending(Fields) /\ Alive(owned)) => runtime = owned

=============================================================================
