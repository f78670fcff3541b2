------------------------- MODULE ServiceTransaction -------------------------
(***************************************************************************)
(* The dispatch of a paired service transaction over SSH                   *)
(* (tools/forge_target_service_dispatch.py) and the phase runner that      *)
(* executes a direction on the target (forge_target_phases.py with the     *)
(* effects of forge_target_effects.py) against systemd.                    *)
(*                                                                         *)
(* Each direction has its own ledger on the target.  A phase is observed,  *)
(* its intent made durable, its effect invoked and verified, and then it   *)
(* is done for ever.  Starting and stopping are never repeated without an  *)
(* acknowledgement.                                                        *)
(***************************************************************************)
EXTENDS Naturals, Sequences, ServicePlans

CONSTANTS
  Plans,       \* the transactions to choose from, [apply, restore: sequences of phases]
  MaxCalls,    \* bound on dispatches
  MaxFailures  \* bound on failures of the service

Direction == {"apply", "restore"}
Call == 1..MaxCalls
Nothing == "absent"
NoEvent == [direction |-> "none", state |-> "none"]
Forgotten == [file |-> "unknown", link |-> "unknown"]
LastOf(phases) == phases[Len(phases)]

(* What the phases before phase i of a direction leave behind.             *)
Precedes(phases, i, op) == \E j \in 1..(i - 1) : phases[j].op = op
FilesAt(phases, i, op) ==
  (IF Precedes(phases, i, op) THEN LastOf(phases).after ELSE phases[1].before)[op]
ActiveAt(phases, i) ==
  IF Precedes(phases, i, "start") THEN "active"
  ELSE IF Precedes(phases, i, "stop") THEN "inactive"
  ELSE phases[1].before["service"].active

(* A direction begins and ends with an aggregate verification; what its    *)
(* phases leave behind is what the last one verifies.  The unit's file is  *)
(* replaced while the service is stopped, it is started from a file that   *)
(* was reloaded, and a reload follows the change of the link.              *)
Coherent(phases) ==
  LET n == Len(phases)
      op(i) == phases[i].op
  IN /\ n \in Nat /\ n > 1
     /\ op(1) = "verify" /\ op(n) = "verify"
     /\ \A x \in {"file", "link"} : FilesAt(phases, n, x) = phases[n].after[x]
     /\ ActiveAt(phases, n) = phases[n].after["service"].active
     /\ ActiveAt(phases, 1) \in {"active", "inactive"}
     /\ \A i \in 1..n :
          /\ op(i) \in {"verify", "file", "link", "daemon-reload", "start", "stop"}
          /\ op(i) \in {"file", "link"} =>
               op(i) \in DOMAIN phases[i].after /\ phases[i].after[op(i)] = phases[n].after[op(i)]
          /\ op(i) \in {"start", "stop"} =>
               "service" \in DOMAIN phases[i].before /\ "service" \in DOMAIN phases[i].after
          /\ op(i) = "file" => ActiveAt(phases, i) = "inactive"
          /\ op(i) = "link" => \E j \in (i + 1)..n : op(j) = "daemon-reload"
          /\ op(i) = "start" =>
               /\ ActiveAt(phases, i) = "inactive" /\ phases[i].before["service"].reload = FALSE
               /\ phases[i].after["service"].active = "active"
          /\ op(i) = "stop" =>
               /\ ActiveAt(phases, i) = "active" /\ ~ Precedes(phases, i, "start")
               /\ phases[i].after["service"].active = "inactive"

(* Apply starts at the backup and restore where apply ended, and back.     *)
TransactionAssumption ==
  /\ MaxCalls \in Nat \ {0} /\ MaxFailures \in Nat
  /\ \A p \in Plans :
       /\ \A d \in Direction : Coherent(p[d])
       /\ LastOf(p["restore"]).after = p["apply"][1].before
       /\ LastOf(p["apply"]).after = p["restore"][1].before

VARIABLES
  plan,      \* the transaction that was authorized
  last,      \* the last event of the history: its direction and state
  journal,   \* "blocked" once an event cannot be read back
  waiting,   \* the host waits for the answer of the last call
  asked,     \* direction of each call made; "none" before
  reply,     \* how each call ended; "none" while it has not
  owner,     \* the call whose worker holds the target lock; 0 without
  stage,     \* how far it is with the first phase that is not done
  ledger,    \* [Direction -> [phase -> "none", "intent", "done"]]
  damaged,   \* directions whose ledger has an unreadable record
  file, link,    \* the unit file and its enablement link
  scratch,       \* the scratch name of the present file or link phase
  active,        \* ActiveState
  running,       \* the unit file the running service was started from
  cache,         \* what systemd remembers of the unit
  graph,         \* the link as the manager's dependencies know it
  request,       \* a systemctl job that is asked for or on its way
  failures,
  rebooted,      \* the boot identity is no longer the planned one
  acts           \* [Direction -> [phase -> effects invoked]]; history only

host == <<last, journal, waiting>>
calls == <<asked, reply>>
disk == <<file, link, scratch>>
systemd == <<active, running, cache, graph>>
target == <<disk, systemd, request>>
records == <<ledger, damaged, acts>>
vars == <<plan, host, calls, owner, stage, records, target, failures, rebooted>>

Origin == plan["apply"][1].before     \* what the backup captured
Final(d) == LastOf(plan[d])
Steps(d) == 1..Len(plan[d])

TypeOK ==
  /\ plan \in Plans
  /\ last \in [direction : Direction, state : {"dispatch", "acknowledged", "uncertain"}] \cup {NoEvent}
  /\ journal \in {"sound", "blocked"} /\ waiting \in BOOLEAN
  /\ asked \in [Call -> Direction \cup {"none"}]
  /\ reply \in [Call -> {"none", "done", "error"}]
  /\ owner \in {0} \cup {c \in Call : asked[c] # "none" /\ reply[c] = "none"}
  /\ stage \in {"next", "intended", "waiting", "acted", "settled"}
  /\ \A d \in Direction :
       /\ ledger[d] \in [Steps(d) -> {"none", "intent", "done"}]
       /\ acts[d] \in [Steps(d) -> 0..MaxCalls]
  /\ damaged \subseteq Direction
  /\ file \in {"absent", "old", "new"} /\ link \in {"absent", "link"}
  /\ scratch \in {"none", "partial", "full", "linked"}
  /\ active \in {"active", "inactive", "activating", "deactivating", "failed"}
  /\ running \in {"absent", "old", "new"}
  /\ cache \in [file : {"absent", "old", "new"}, link : {"absent", "link"}] \cup {Forgotten}
  /\ graph \in {"absent", "link"}
  /\ request \in {"none", "start", "stop", "daemon-reload"}
  /\ failures \in 0..MaxFailures /\ rebooted \in BOOLEAN

(* The captured backup, with the transaction authorized.                   *)
Init ==
  /\ plan \in Plans
  /\ last = NoEvent /\ journal = "sound" /\ waiting = FALSE
  /\ asked = [c \in Call |-> "none"] /\ reply = [c \in Call |-> "none"]
  /\ owner = 0 /\ stage = "next"
  /\ ledger = [d \in Direction |-> [i \in Steps(d) |-> "none"]]
  /\ acts = [d \in Direction |-> [i \in Steps(d) |-> 0]]
  /\ damaged = {}
  /\ file = Origin.file /\ link = Origin.link /\ scratch = "none"
  /\ active = Origin.service.active
  /\ running = IF active = "active" THEN file ELSE Nothing
  /\ cache = IF active = "active" THEN [file |-> file, link |-> link] ELSE Forgotten
  /\ graph = link /\ request = "none"
  /\ failures = 0 /\ rebooted = FALSE

-----------------------------------------------------------------------------
(* The host.                                                               *)

Sent(c) == asked[c] # "none"
Current(c) == Sent(c) /\ \A k \in Call : Sent(k) => k <= c

(* First apply; an unacknowledged direction only again; never apply after  *)
(* restore.                                                                *)
MayDispatch(d) ==
  IF last = NoEvent
    THEN d = "apply"
    ELSE /\ last.state = "acknowledged" \/ last.direction = d
         /\ ~ (last.direction = "restore" /\ d = "apply")

Dispatch(d) ==
  /\ journal = "sound" /\ ~ waiting /\ MayDispatch(d)
  /\ \E c \in Call :
       /\ ~ Sent(c) /\ \A k \in Call : k < c => Sent(k)
       /\ asked' = [asked EXCEPT ![c] = d]
  /\ last' = [direction |-> d, state |-> "dispatch"]
  /\ waiting' = TRUE
  /\ UNCHANGED <<journal, reply, owner, stage, records, target, failures, rebooted>>

Acknowledged ==
  /\ waiting
  /\ \E c \in Call : Current(c) /\ reply[c] = "done"
  /\ last' = [last EXCEPT !.state = "acknowledged"]
  /\ waiting' = FALSE
  /\ UNCHANGED <<journal, calls, owner, stage, records, target, failures, rebooted>>

(* An error, a timeout, or the host dies; its worker may run on, or start  *)
(* much later.                                                             *)
GaveUp ==
  /\ waiting
  /\ last' \in {last, [last EXCEPT !.state = "uncertain"]}
  /\ journal' \in {"sound", "blocked"}
  /\ waiting' = FALSE
  /\ UNCHANGED <<calls, owner, stage, records, target, failures, rebooted>>

-----------------------------------------------------------------------------
(* What the target shows.                                                  *)

OnDisk == [file |-> file, link |-> link]
Known == IF cache = Forgotten THEN OnDisk ELSE cache

Shown ==
  Views(Service(Known.file # Nothing, Known.link = "link", active, Known.file # file), file, link)

(* A second name of a file or link makes its snapshot fail.                *)
Observed(view) ==
  /\ DOMAIN view \cap {"file", "link"} # {} => scratch # "linked"
  /\ \A k \in DOMAIN view : Shown[k] = view[k]

-----------------------------------------------------------------------------
(* The worker.                                                             *)

dir == asked[owner]
Open(d) == {i \in Steps(d) : ledger[d][i] # "done"}
pos == CHOOSE i \in Open(dir) : \A j \in Open(dir) : i <= j
phase == plan[dir][pos]
Busy(s) == owner # 0 /\ stage = s /\ Open(dir) # {}
Write(x) == ledger' = [ledger EXCEPT ![dir][pos] = x]

(* execute(): identity, target lock, then the whole ledger is read.        *)
Begin(c) ==
  /\ Sent(c) /\ reply[c] = "none" /\ owner = 0
  /\ ~ rebooted /\ asked[c] \notin damaged
  /\ owner' = c /\ stage' = "next"
  /\ UNCHANGED <<host, calls, records, target, failures, rebooted>>

Refused(c) ==
  /\ Sent(c) /\ reply[c] = "none" /\ owner # c
  /\ reply' = [reply EXCEPT ![c] = "error"]
  /\ UNCHANGED <<host, asked, owner, stage, records, target, failures, rebooted>>

(* reconcile(): an interrupted file or link phase leaves a verified        *)
(* scratch name only while it is not published.                            *)
Reconcile ==
  IF ledger[dir][pos] = "intent" /\ phase.op \in {"file", "link"} /\ scratch # "none"
    THEN /\ scratch \in {"full", "linked"}
         /\ scratch' = IF Shown[phase.op] = phase.after[phase.op] THEN "none" ELSE "full"
    ELSE UNCHANGED scratch

Shows(view) == /\ scratch' # "linked" /\ \A k \in DOMAIN view : Shown[k] = view[k]

AlreadyThere ==
  /\ Busy("next") /\ Reconcile
  /\ Shows(phase.after) /\ ~ MustAct(phase)
  /\ Write("intent") /\ stage' = "settled"
  /\ UNCHANGED <<host, calls, owner, damaged, acts, file, link, systemd, request, failures, rebooted>>

MayIntendAgain == TRUE
(* An intent without an acknowledgement bars a start or stop for ever.     *)
MayIntend == ledger[dir][pos] = "none" \/ Repeatable(phase)

Intend ==
  /\ Busy("next") /\ Reconcile
  /\ Shows(phase.before) \/ (MustAct(phase) /\ Shows(phase.after))
  /\ ~ (Shows(phase.after) /\ ~ MustAct(phase))
  /\ MayIntend
  /\ Write("intent") /\ stage' = "intended"
  /\ UNCHANGED <<host, calls, owner, damaged, acts, file, link, systemd, request, failures, rebooted>>

Acts == acts' = [acts EXCEPT ![dir][pos] = @ + 1]

Publish == file' = IF phase.op = "file" THEN phase.after["file"] ELSE file
PublishLink == link' = IF phase.op = "link" THEN phase.after["link"] ELSE link

(* apply_file, apply_link: FileTransition.tla has them step by step.       *)
ActFile ==
  /\ Busy("intended") /\ phase.op \in {"file", "link"}
  /\ scratch \in {"none", "full"}
  /\ Publish /\ PublishLink /\ scratch' = "none"
  /\ Acts /\ stage' = "acted"
  /\ UNCHANGED <<host, calls, owner, ledger, damaged, systemd, request, failures, rebooted>>

ActSystemctl ==
  /\ Busy("intended") /\ phase.op \in {"start", "stop", "daemon-reload"}
  /\ request' = phase.op
  /\ Acts /\ stage' = "waiting"
  /\ UNCHANGED <<host, calls, owner, ledger, damaged, disk, systemd, failures, rebooted>>

Returned ==
  /\ Busy("waiting") /\ request = "none"
  /\ stage' = "acted"
  /\ UNCHANGED <<host, calls, owner, records, target, failures, rebooted>>

VerifyEffect ==
  /\ Busy("acted") /\ Observed(phase.after)
  /\ stage' = "settled"
  /\ UNCHANGED <<host, calls, owner, records, target, failures, rebooted>>

Settle ==
  /\ Busy("settled")
  /\ Write("done") /\ stage' = "next"
  /\ UNCHANGED <<host, calls, owner, damaged, acts, target, failures, rebooted>>

Answer(x) ==
  /\ reply' = [reply EXCEPT ![owner] = x]
  /\ owner' = 0 /\ stage' = "next"

(* All phases are done; the last one is observed once more.                *)
Finish ==
  /\ owner # 0 /\ Open(dir) = {} /\ Observed(Final(dir).after)
  /\ Answer("done")
  /\ UNCHANGED <<host, asked, records, target, failures, rebooted>>

(* A check, a systemctl timeout or any call raises; a file or link phase   *)
(* that raises takes its scratch name away and may have been published.    *)
Raised ==
  /\ owner # 0
  /\ IF Busy("intended") /\ phase.op \in {"file", "link"} /\ scratch \in {"none", "full"}
       THEN \/ UNCHANGED <<file, link, acts>> /\ scratch' \in {scratch, "none"}
            \/ Publish /\ PublishLink /\ Acts /\ scratch' = "none"
       ELSE UNCHANGED <<disk, acts>>
  /\ Answer("error")
  /\ UNCHANGED <<host, asked, ledger, damaged, systemd, request, failures, rebooted>>

(* Killed: inside a file or link phase any of its steps may be the last,   *)
(* and a record that was being written stays unreadable.                   *)
Killed ==
  /\ owner # 0
  /\ IF Busy("intended") /\ phase.op \in {"file", "link"}
       THEN \/ UNCHANGED <<file, link, acts>>
               /\ scratch' \in (IF scratch = "none" /\ phase.after[phase.op] # Nothing
                                  THEN {"none", "partial", "full"} ELSE {scratch})
            \/ Publish /\ PublishLink /\ Acts
               /\ scratch' \in (IF phase.before[phase.op] = Nothing THEN {"none", "linked"} ELSE {"none"})
       ELSE UNCHANGED <<disk, acts>>
  /\ damaged' \in (IF stage \in {"next", "settled"} THEN {damaged, damaged \cup {dir}} ELSE {damaged})
  /\ Answer("error")
  /\ UNCHANGED <<host, asked, ledger, systemd, request, failures, rebooted>>

-----------------------------------------------------------------------------
(* systemd, which goes on whatever becomes of the worker.                  *)

Others == <<host, calls, owner, stage, records, disk, rebooted>>

(* An inactive unit may be forgotten, and is loaded again when looked at.  *)
Forget ==
  /\ active \in {"inactive", "failed"} /\ cache # Forgotten
  /\ cache' = Forgotten
  /\ UNCHANGED <<Others, active, running, graph, request, failures>>

Remember ==
  /\ cache = Forgotten /\ cache' = OnDisk
  /\ UNCHANGED <<Others, active, running, graph, request, failures>>

Reload ==
  /\ request = "daemon-reload"
  /\ cache' = IF cache = Forgotten THEN Forgotten ELSE OnDisk
  /\ graph' = link /\ request' = "none"
  /\ UNCHANGED <<Others, active, running, failures>>

StartJob ==
  /\ request = "start"
  /\ \/ active = "inactive" /\ Known.file # Nothing
        /\ active' = "activating" /\ cache' = Known /\ UNCHANGED <<running, request>>
     \/ active = "activating"
        /\ active' = "active" /\ running' = cache.file /\ request' = "none" /\ UNCHANGED cache
  /\ UNCHANGED <<Others, graph, failures>>

StopJob ==
  /\ request = "stop"
  /\ \/ active = "active" /\ active' = "deactivating" /\ UNCHANGED <<running, request>>
     \/ active = "deactivating" /\ active' = "inactive" /\ running' = Nothing /\ request' = "none"
  /\ UNCHANGED <<Others, cache, graph, failures>>

(* systemctl died with its worker before systemd heard of the job.         *)
RequestLost ==
  /\ request # "none" /\ stage # "waiting"
  /\ active \notin {"activating", "deactivating"}
  /\ request' = "none"
  /\ UNCHANGED <<Others, systemd, failures>>

ServiceFails ==
  /\ failures < MaxFailures /\ failures' = failures + 1
  /\ active \in {"active", "activating"}
  /\ active' = "failed" /\ running' = Nothing /\ request' = "none"
  /\ UNCHANGED <<Others, cache, graph>>

(* Nothing of this transaction runs after the target booted again.         *)
Reboot ==
  /\ ~ rebooted /\ rebooted' = TRUE
  /\ reply' = [c \in Call |-> IF c = owner THEN "error" ELSE reply[c]]
  /\ owner' = 0 /\ stage' = "next"
  /\ LET up == file # Nothing /\ link = "link"
     IN /\ active' = IF up THEN "active" ELSE "inactive"
        /\ running' = IF up THEN file ELSE Nothing
        /\ cache' = IF up THEN OnDisk ELSE Forgotten
  /\ graph' = link /\ request' = "none"
  /\ UNCHANGED <<host, asked, records, disk, failures>>

Worker ==
  \/ AlreadyThere \/ Intend \/ ActFile \/ ActSystemctl \/ Returned
  \/ VerifyEffect \/ Settle \/ Finish \/ Raised \/ Killed

Systemd == Forget \/ Remember \/ Reload \/ StartJob \/ StopJob \/ RequestLost \/ ServiceFails

Next ==
  /\ \/ \E d \in Direction : Dispatch(d)
     \/ Acknowledged \/ GaveUp
     \/ \E c \in Call : Begin(c) \/ Refused(c)
     \/ Worker \/ Systemd \/ Reboot
  /\ UNCHANGED plan

Spec == Init /\ [][Next]_vars

-----------------------------------------------------------------------------
(* "Non-repeatable effects are never automatically retried after an        *)
(* unacknowledged intent": however many workers are killed, refused or     *)
(* late, a direction starts or stops the service at most once.             *)
ActedOnce ==
  \A d \in Direction : \A i \in Steps(d) : ~ Repeatable(plan[d][i]) => acts[d][i] <= 1

(* With the last event acknowledged, and unless the service failed or the  *)
(* target booted since, everything is as its direction promises: the files *)
(* and states of the plan, the unit file the service was started from, the *)
(* manager's dependencies, and no scratch name or job is left over.        *)
AcknowledgedIsTrue ==
  last # NoEvent /\ ~ rebooted /\ active # "failed" =>
    (last.state = "acknowledged" =>
       LET result == Final(last.direction).after
       IN /\ file = result.file /\ link = result.link /\ graph = link
          /\ active = result.service.active
          /\ running = (IF active = "active" THEN file ELSE Nothing)
          /\ scratch = "none" /\ request = "none")

=============================================================================
