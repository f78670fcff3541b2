---------------------------- MODULE LeaseTimers ----------------------------
(***************************************************************************)
(* A leased RAM recovery session on the target, from the start of its      *)
(* supervisor (tools/forge_recovery_lease_launcher.py) to the reset that   *)
(* ends it: the renewal endpoint, fed with whatever requests arrive, and   *)
(* two timer processes that read the published deadline on their own, the  *)
(* software timer (tools/forge_recovery_lease_timer.py) and the keeper of  *)
(* the hardware watchdog (tools/forge_recovery_lease_watchdog.py).         *)
(*                                                                         *)
(* The software timer polls in time unless it is stalled or dead.  Every   *)
(* other process may be slow at any point; /sbin/reboot may hang.  Only    *)
(* the watchdog hardware is trusted to keep its time.                      *)
(***************************************************************************)
EXTENDS LeaseEndpoint

CONSTANTS
  Watchdog,  \* watchdog timeout (15 s asked for, 10 to 60 s accepted)
  Poll,      \* the software timer's longest sleep (0.2 s)
  Seconds,   \* durations that are asked for
  MaxSeq,    \* bound on renewals
  MaxTime    \* bound on the clock

ASSUME TimerAssumption ==
  /\ Watchdog \in Nat \ {0} /\ Poll \in Nat \ {0}
  /\ Seconds \subseteq 1..Term /\ MaxSeq \in Nat /\ MaxTime \in Nat

VARIABLES
  soft, softSeen, softDue,  \* software timer: stage, last snapshot, next poll
  hard, hardSeen,           \* watchdog keeper: stage, last snapshot
  armed, pinged             \* the watchdog device: armed, last keepalive

softTimer == <<soft, softSeen, softDue>>
keeper == <<hard, hardSeen, armed, pinged>>
vars == <<now, power, endpoint, softTimer, keeper>>

TypeOK ==
  /\ EndpointTypeOK
  /\ soft \in {"starting", "polling", "stalled", "expired", "dead"}
  /\ softSeen \in Leases /\ softDue \in Nat
  /\ hard \in {"starting", "open", "checked", "fed", "closed"}
  /\ hardSeen \in Leases /\ armed \in BOOLEAN /\ pinged \in Nat

Init ==
  /\ EndpointInit
  /\ soft = "starting" /\ softSeen = InitialLease /\ softDue = 0
  /\ hard = "starting" /\ hardSeen = InitialLease
  /\ armed = FALSE /\ pinged = 0

-----------------------------------------------------------------------------
(* Time passes, though not past a poll of a punctual software timer nor    *)
(* past the moment at which the armed watchdog resets the machine.         *)
Tick ==
  /\ power = "up" /\ now < MaxTime
  /\ ~ (armed /\ now >= pinged + Watchdog)
  /\ ~ (soft = "polling" /\ now >= softDue)
  /\ now' = now + 1
  /\ UNCHANGED <<power, endpoint, softTimer, keeper>>

WatchdogFires ==
  /\ power = "up" /\ armed /\ now >= pinged + Watchdog
  /\ power' = "reset"
  /\ UNCHANGED <<now, endpoint, softTimer, keeper>>

(* reboot(): /sbin/reboot -f by the failed supervisor or by the expired    *)
(* software timer; it may also never come back.                            *)
Reboot ==
  /\ power = "up"
  /\ service = "failed" \/ soft = "expired"
  /\ power' = "reset"
  /\ UNCHANGED <<now, endpoint, softTimer, keeper>>

-----------------------------------------------------------------------------

(* SoftwareTimer.step; the launcher waits for the first one.               *)
SoftPoll ==
  /\ power = "up" /\ soft \in {"starting", "polling", "stalled"}
  /\ IF Acceptable(softSeen, file, now)
       THEN /\ softSeen' = file
            /\ IF soft = "stalled"
                 THEN UNCHANGED <<soft, softDue>>
                 ELSE soft' = "polling" /\ softDue' = Earlier(now + Poll, file.deadline)
       ELSE soft' = "expired" /\ UNCHANGED <<softSeen, softDue>>
  /\ UNCHANGED <<now, power, endpoint, keeper>>

(* The process is stopped or starved: from here on it may be late.         *)
SoftStalls ==
  /\ power = "up" /\ soft = "polling"
  /\ soft' = "stalled" /\ softDue' = 0
  /\ UNCHANGED <<now, power, endpoint, softSeen, keeper>>

(* Its snapshot is gone with the process.                                  *)
SoftDies ==
  /\ power = "up" /\ soft # "dead"
  /\ soft' = "dead" /\ softSeen' = InitialLease /\ softDue' = 0
  /\ UNCHANGED <<now, power, endpoint, keeper>>

-----------------------------------------------------------------------------
(* LinuxWatchdog: the initial lease is checked, then the device is opened  *)
(* and its timeout set, which starts the countdown.                        *)
HardArms ==
  /\ power = "up" /\ hard = "starting" /\ Live(InitialLease, now)
  /\ hard' = "open" /\ armed' = TRUE /\ pinged' = now
  /\ UNCHANGED <<now, power, endpoint, softTimer, hardSeen>>

(* LeaseWatchdog.step, first half: the published deadline is read; on any  *)
(* doubt the process ends with the descriptor closed, never disarmed.      *)
HardChecks ==
  /\ power = "up" /\ hard \in {"open", "fed"}
  /\ IF Acceptable(hardSeen, file, now)
       THEN hard' = "checked" /\ hardSeen' = file
       ELSE hard' = "closed" /\ hardSeen' = InitialLease
  /\ UNCHANGED <<now, power, endpoint, softTimer, armed, pinged>>

HardPingsUnchecked ==
  /\ power = "up" /\ hard \in {"open", "checked", "fed"}
  /\ hard' = "fed" /\ pinged' = now
  /\ UNCHANGED <<now, power, endpoint, softTimer, hardSeen, armed>>

(* Second half: the keepalive, however long after the check.               *)
HardPings ==
  /\ power = "up" /\ hard = "checked"
  /\ hard' = "fed" /\ pinged' = now
  /\ UNCHANGED <<now, power, endpoint, softTimer, hardSeen, armed>>

HardDiesDisarming ==
  /\ power = "up" /\ hard # "closed"
  /\ hard' = "closed" /\ armed' = FALSE
  /\ UNCHANGED <<now, power, endpoint, softTimer, hardSeen, pinged>>

(* The keeper dies or its ioctl fails; the device stays armed.             *)
HardDies ==
  /\ power = "up" /\ hard # "closed"
  /\ hard' = "closed" /\ hardSeen' = InitialLease
  /\ UNCHANGED <<now, power, endpoint, softTimer, armed, pinged>>

-----------------------------------------------------------------------------

(* await_children: both children stepped once; only now is poll called.    *)
Ready ==
  /\ power = "up" /\ service = "starting"
  /\ soft \in {"polling", "stalled"} /\ hard = "fed"
  /\ service' = "serving"
  /\ UNCHANGED <<now, power, lease, file, renewing, candidate, softTimer, keeper>>

(* The startup deadline passed, or a child exited.                         *)
SupervisorFails ==
  /\ power = "up"
  /\ \/ service = "starting"
     \/ service = "serving" /\ (soft \in {"expired", "dead"} \/ hard = "closed")
  /\ service' = "failed"
  /\ UNCHANGED <<now, power, lease, file, renewing, candidate, softTimer, keeper>>

(* Requests of any age arrive, in any order and any number of times.       *)
ServeAny ==
  \E seq \in 1..MaxSeq, secs \in Seconds : Serve([seq |-> seq, secs |-> secs])

EndpointStep ==
  /\ ServeAny \/ Publish \/ Acknowledge \/ PollFails
  /\ UNCHANGED <<softTimer, keeper>>

Next ==
  \/ Tick \/ WatchdogFires \/ Reboot
  \/ SoftPoll \/ SoftStalls \/ SoftDies
  \/ HardArms \/ HardChecks \/ HardPings \/ HardDies
  \/ Ready \/ SupervisorFails \/ EndpointStep

(* The clock advances, the watchdog hardware keeps it, and the software    *)
(* timer is scheduled; nothing else is owed, not even a reboot.            *)
Fairness == WF_vars(Tick) /\ WF_vars(WatchdogFires) /\ WF_vars(SoftPoll)

Spec == Init /\ [][Next]_vars /\ Fairness

-----------------------------------------------------------------------------
(* Once the watchdog is armed the session is over less than twice its      *)
(* timeout after the last published deadline, and after the hard cap,      *)
(* whatever process stalls or dies and even if every reboot hangs.  (Twice:*)
(* the keeper may be slow between its check and its keepalive.)            *)
ResetInTime ==
  power = "up" /\ armed =>
    /\ now < file.deadline + 2 * Watchdog
    /\ now < Hard + 2 * Watchdog

(* A punctual software timer ends the session at the deadline it last read,*)
(* and sleeps past no deadline.                                            *)
SoftResetInTime == power = "up" /\ soft = "polling" => now <= softSeen.deadline

(* Nothing is granted to a session that no watchdog guards.                *)
GrantedOnlyArmed == file.seq > 0 \/ renewing => armed

(* Only a new sequence number moves the deadline, by whatever route a      *)
(* request is duplicated or delayed, and never beyond the cap.             *)
OnlyNewRequestsExtend ==
  [][file'.deadline # file.deadline =>
       file'.seq = file.seq + 1 /\ file.deadline < file'.deadline /\ file'.deadline <= Hard]_vars

(* A timer gives a live session up only if it slept past the deadline it   *)
(* knew: no other check of a snapshot ever trips on what the endpoint      *)
(* publishes.                                                              *)
NoSpuriousExpiry ==
  [][(soft # "expired" /\ soft' = "expired") =>
       now >= file.deadline \/ file.sampled >= softSeen.deadline]_vars

(* Every session that armed its watchdog ends in a reset.                  *)
EverySessionEnds == armed ~> power = "reset"
=============================================================================
