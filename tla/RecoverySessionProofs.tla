----------------------- MODULE RecoverySessionProofs -----------------------
(***************************************************************************)
(* The lease and its timers for every term, cap, watchdog timeout and any  *)
(* number of renewals, and then the durable host session around them.      *)
(*                                                                         *)
(* ResetInTime is not inductive: it rests on what the keeper's stage says  *)
(* about the time of its last keepalive.  In the session the sequence      *)
(* numbers of both sides are tied together by what the endpoint may be     *)
(* doing at the moment: repeating its lease, or granting the very request  *)
(* that is pending on the host's disk.                                     *)
(***************************************************************************)
EXTENDS RecoverySession, TLAPS


(* Snapshot c was published at or after snapshot l.                        *)
Follows(l, c) ==
  /\ l.sampled <= c.sampled /\ l.deadline <= c.deadline /\ l.seq <= c.seq
  /\ l.seq = c.seq => l.deadline = c.deadline /\ l.secs = c.secs
  /\ l.seq # c.seq => 0 < c.secs

(* The published file is bounded and not from the future.                  *)
FileBounds ==
  /\ file.sampled <= now /\ file.deadline <= Hard
  /\ file.deadline <= file.sampled + Term

(* Between the endpoint's lease, its candidate and the file.               *)
EndpointAgrees ==
  /\ file = lease \/ (renewing /\ file = candidate)
  /\ renewing => candidate.seq = lease.seq \/ candidate.seq = lease.seq + 1

(* The keeper was never fed long after the deadline it could have read.    *)
KeeperBounds ==
  /\ Follows(InitialLease, file) /\ Follows(hardSeen, file)
  /\ hard = "starting" => ~ armed
  /\ hard \in {"open", "checked", "fed"} => armed
  /\ armed => pinged <= now /\ now <= pinged + Watchdog
  /\ armed => pinged < file.deadline + Watchdog
  /\ hard \in {"open", "checked"} => pinged < file.deadline

(* The software timer sleeps no further than the deadline it read.         *)
SoftBounds ==
  /\ Follows(softSeen, file)
  /\ soft = "polling" => now <= softDue /\ softDue <= softSeen.deadline

(* The endpoint is not polled before both timers are there.                *)
StartupOrder ==
  /\ service = "serving" => armed
  /\ file.seq > 0 \/ renewing => armed

IInv ==
  /\ TypeOK /\ FileBounds /\ EndpointAgrees
  /\ KeeperBounds /\ SoftBounds /\ StartupOrder
-----------------------------------------------------------------------------
(* What a renewal returns: the same or the next sequence number, and a     *)
(* duplicate leaves the deadline alone.                                    *)
LEMMA RenewedLease ==
  ASSUME NEW l \in Leases, NEW r \in Requests, NEW t \in Nat, Renewable(l, r, t)
  PROVE  /\ Renewed(l, r, t) \in Leases
         /\ Renewed(l, r, t).seq = l.seq \/ Renewed(l, r, t).seq = l.seq + 1
         /\ Renewed(l, r, t).seq = l.seq => Renewed(l, r, t).deadline = l.deadline
  BY LeaseAssumption
  DEF Renewed, Renewable, IsDuplicate, IsNext, Leases, Requests, Earlier, Later

(* An acceptable snapshot comes after the one it is compared with.         *)
LEMMA AcceptedFollows ==
  ASSUME NEW l \in Leases, NEW c \in Leases, NEW t \in Nat, Acceptable(l, c, t)
  PROVE  Follows(l, c) /\ c.sampled <= t /\ t < c.deadline
  BY DEF Acceptable, Follows, Live, Leases

LEMMA FollowsReflexive == ASSUME NEW l \in Leases PROVE Follows(l, l)
  BY DEF Follows, Leases

LEMMA FollowsTransitive ==
  ASSUME NEW l \in Leases, NEW c \in Leases, NEW d \in Leases, Follows(l, c), Follows(c, d)
  PROVE  Follows(l, d)
  BY DEF Follows, Leases

LEMMA InitialIsLease == InitialLease \in Leases
  BY LeaseAssumption DEF InitialLease, Leases

(* Conversely, a snapshot that came later is refused only if it is expired *)
(* or was published after the reader's own deadline.                       *)
LEMMA RefusedOnlyLate ==
  ASSUME NEW l \in Leases, NEW c \in Leases, NEW t \in Nat, Follows(l, c),
         c.sampled <= t, c.deadline <= Hard, c.deadline <= c.sampled + Term,
         ~ Acceptable(l, c, t)
  PROVE  t >= c.deadline \/ c.sampled >= l.deadline
  BY LeaseAssumption DEF Acceptable, Follows, Live, Leases

-----------------------------------------------------------------------------
LEMMA InitIInv == Init => IInv
<1> SUFFICES ASSUME Init PROVE IInv
  OBVIOUS
<1>1. InitialLease \in Leases /\ Follows(InitialLease, InitialLease)
  BY InitialIsLease, FollowsReflexive
<1>2. TypeOK
  BY <1>1 DEF Init, EndpointInit, TypeOK, EndpointTypeOK
<1>3. FileBounds
  BY LeaseAssumption DEF Init, EndpointInit, FileBounds, InitialLease
<1>4. EndpointAgrees /\ StartupOrder
  BY DEF Init, EndpointInit, EndpointAgrees, StartupOrder, InitialLease
<1>5. KeeperBounds /\ SoftBounds
  BY <1>1 DEF Init, EndpointInit, KeeperBounds, SoftBounds
<1> QED BY <1>2, <1>3, <1>4, <1>5 DEF IInv

LEMMA StepIInv == IInv /\ [Next]_vars => IInv'
<1> SUFFICES ASSUME IInv, [Next]_vars PROVE IInv'
  OBVIOUS
<1> USE LeaseAssumption, TimerAssumption DEF IInv, TypeOK, EndpointTypeOK
<1>1. CASE Tick
  <2>1. TypeOK' /\ FileBounds' /\ EndpointAgrees' /\ StartupOrder'
    BY <1>1 DEF Tick, FileBounds, EndpointAgrees, StartupOrder, Leases, endpoint, softTimer, keeper
  <2>2. KeeperBounds'
    BY <1>1 DEF Tick, KeeperBounds, Leases, endpoint, keeper, Follows
  <2>3. SoftBounds'
    BY <1>1 DEF Tick, SoftBounds, Leases, endpoint, softTimer, Follows
  <2> QED BY <2>1, <2>2, <2>3
<1>2. CASE WatchdogFires \/ Reboot \/ UNCHANGED vars
  BY <1>2 DEF WatchdogFires, Reboot, vars, FileBounds, EndpointAgrees, KeeperBounds, SoftBounds,
              StartupOrder, Follows, endpoint, softTimer, keeper
<1>3. CASE SoftPoll
  <2>1. FileBounds' /\ EndpointAgrees' /\ KeeperBounds' /\ StartupOrder'
    BY <1>3 DEF SoftPoll, FileBounds, EndpointAgrees, KeeperBounds, StartupOrder, Follows,
                endpoint, keeper
  <2>2. CASE Acceptable(softSeen, file, now)
    <3>1. now < file.deadline /\ file \in Leases
      BY <2>2, AcceptedFollows
    <3>2. /\ softSeen' = file /\ file' = file /\ now' = now
          /\ \/ soft' = "polling" /\ softDue' = Earlier(now + Poll, file.deadline)
             \/ soft' = "stalled" /\ softDue' = softDue
      BY <1>3, <2>2 DEF SoftPoll, endpoint
    <3>3. /\ softDue' \in Nat
          /\ soft' = "polling" => now' <= softDue' /\ softDue' <= softSeen'.deadline
      BY <3>1, <3>2 DEF Earlier, Leases
    <3>4. Follows(softSeen', file')
      BY <3>1, <3>2, FollowsReflexive
    <3> QED BY <1>3, <2>1, <3>1, <3>2, <3>3, <3>4 DEF SoftPoll, SoftBounds, endpoint, keeper
  <2>3. CASE ~ Acceptable(softSeen, file, now)
    BY <1>3, <2>1, <2>3 DEF SoftPoll, SoftBounds, Follows, endpoint, keeper
  <2> QED BY <2>2, <2>3
<1>4. CASE SoftStalls \/ SoftDies
  <2>1. UNCHANGED <<now, power, endpoint, keeper>> /\ soft' \in {"stalled", "dead"}
        /\ softSeen' \in {softSeen, InitialLease} /\ softDue' = 0
    BY <1>4 DEF SoftStalls, SoftDies
  <2>2. TypeOK' /\ FileBounds' /\ EndpointAgrees' /\ KeeperBounds' /\ StartupOrder'
    BY <2>1, InitialIsLease DEF FileBounds, EndpointAgrees, KeeperBounds, StartupOrder, Follows,
                                endpoint, keeper
  <2>3. SoftBounds'
    BY <2>1 DEF SoftBounds, KeeperBounds, endpoint
  <2> QED BY <2>2, <2>3
<1>5. CASE HardArms
  <2>1. now < file.deadline
    BY <1>5, InitialIsLease DEF HardArms, KeeperBounds, Follows, Live, Leases
  <2>2. KeeperBounds'
    BY <1>5, <2>1 DEF HardArms, KeeperBounds, Follows, Leases, endpoint
  <2> QED
    BY <1>5, <2>2 DEF HardArms, FileBounds, EndpointAgrees, SoftBounds, StartupOrder, Follows,
                      endpoint, softTimer
<1>6. CASE HardChecks
  <2>1. TypeOK' /\ FileBounds' /\ EndpointAgrees' /\ SoftBounds' /\ StartupOrder'
    BY <1>6, InitialIsLease DEF HardChecks, FileBounds, EndpointAgrees, SoftBounds,
                                StartupOrder, Follows, endpoint, softTimer
  <2>2. CASE Acceptable(hardSeen, file, now)
    <3>1. now < file.deadline /\ Follows(file, file)
      BY <2>2, AcceptedFollows, FollowsReflexive
    <3>2. pinged < file.deadline
      BY <1>6, <3>1 DEF HardChecks, KeeperBounds, Leases
    <3> QED BY <1>6, <2>1, <2>2, <3>1, <3>2 DEF HardChecks, KeeperBounds, Follows, endpoint
  <2>3. CASE ~ Acceptable(hardSeen, file, now)
    BY <1>6, <2>1, <2>3 DEF HardChecks, KeeperBounds, Follows, endpoint
  <2> QED BY <2>2, <2>3
<1>7. CASE HardPings
  <2>1. KeeperBounds'
    BY <1>7 DEF HardPings, KeeperBounds, Follows, Leases, endpoint
  <2> QED
    BY <1>7, <2>1 DEF HardPings, FileBounds, EndpointAgrees, SoftBounds, StartupOrder, Follows,
                      endpoint, softTimer
<1>8. CASE HardDies
  <2>1. TypeOK' /\ FileBounds' /\ EndpointAgrees' /\ SoftBounds' /\ StartupOrder'
    BY <1>8, InitialIsLease DEF HardDies, FileBounds, EndpointAgrees, SoftBounds, StartupOrder,
                                Follows, endpoint, softTimer
  <2>2. KeeperBounds'
    BY <1>8 DEF HardDies, KeeperBounds, Follows, endpoint
  <2> QED BY <2>1, <2>2
<1>9. CASE Ready \/ SupervisorFails
  BY <1>9 DEF Ready, SupervisorFails, FileBounds, EndpointAgrees, KeeperBounds, SoftBounds,
              StartupOrder, Follows, softTimer, keeper
<1>10. CASE ServeAny /\ UNCHANGED <<softTimer, keeper>>
  <2>1. PICK seq \in 1..MaxSeq, secs \in Seconds : Serve([seq |-> seq, secs |-> secs])
    BY <1>10 DEF ServeAny
  <2> DEFINE r == [seq |-> seq, secs |-> secs]
  <2>2. r \in Requests
    BY DEF Requests
  <2>3. /\ candidate' = Renewed(lease, r, now) /\ renewing' = TRUE
        /\ file' = file /\ lease' = lease /\ service = "serving" /\ ~ renewing
        /\ Renewable(lease, r, now)
    BY <2>1 DEF Serve
  <2>4. /\ candidate' \in Leases
        /\ candidate'.seq = lease.seq \/ candidate'.seq = lease.seq + 1
    BY <2>2, <2>3, RenewedLease
  <2> HIDE DEF r
  <2>5. EndpointAgrees' /\ StartupOrder'
    BY <1>10, <2>3, <2>4 DEF EndpointAgrees, StartupOrder, keeper
  <2>6. TypeOK'
    BY <1>10, <2>1, <2>4 DEF Serve, softTimer, keeper
  <2>7. FileBounds' /\ KeeperBounds' /\ SoftBounds'
    BY <1>10, <2>1 DEF Serve, FileBounds, KeeperBounds, SoftBounds, Follows, softTimer, keeper
  <2> QED BY <2>5, <2>6, <2>7
<1>11. CASE Publish /\ UNCHANGED <<softTimer, keeper>>
  <2>1. CASE Acceptable(file, candidate, now)
    <3>1. /\ file' = candidate /\ lease' = lease /\ candidate' = candidate /\ renewing
          /\ renewing' = renewing /\ service' = service /\ now' = now /\ power' = power
      BY <1>11, <2>1 DEF Publish
    <3>2. Follows(file, candidate) /\ candidate.sampled <= now
      BY <2>1, AcceptedFollows
    <3>3. FileBounds'
      BY <2>1, <3>1, <3>2 DEF FileBounds, Acceptable
    <3>4. Follows(softSeen', file') /\ Follows(hardSeen', file') /\ Follows(InitialLease, file')
      BY <1>11, <3>1, <3>2, FollowsTransitive, InitialIsLease
      DEF KeeperBounds, SoftBounds, softTimer, keeper
    <3>5. file.deadline <= file'.deadline
      BY <3>1, <3>2 DEF Follows
    <3>6. KeeperBounds' /\ SoftBounds'
      BY <1>11, <3>1, <3>4, <3>5 DEF KeeperBounds, SoftBounds, softTimer, keeper, Leases
    <3>7. TypeOK' /\ EndpointAgrees' /\ StartupOrder'
      BY <1>11, <3>1 DEF EndpointAgrees, StartupOrder, softTimer, keeper
    <3> QED BY <3>3, <3>6, <3>7
  <2>2. CASE ~ Acceptable(file, candidate, now)
    BY <1>11, <2>2 DEF Publish, FileBounds, EndpointAgrees, KeeperBounds, SoftBounds,
                       StartupOrder, Follows, softTimer, keeper
  <2> QED BY <2>1, <2>2
<1>12. CASE (Acknowledge \/ PollFails) /\ UNCHANGED <<softTimer, keeper>>
  <2>1. /\ now' = now /\ power' = power /\ file' = file /\ candidate' = candidate
        /\ service = "serving"
    BY <1>12 DEF Acknowledge, PollFails
  <2>2. TypeOK'
    BY <1>12, <2>1 DEF Acknowledge, PollFails, softTimer, keeper
  <2>3. EndpointAgrees' /\ StartupOrder'
    BY <1>12, <2>1 DEF Acknowledge, PollFails, EndpointAgrees, StartupOrder, keeper
  <2>4. FileBounds' /\ KeeperBounds' /\ SoftBounds'
    BY <1>12, <2>1 DEF FileBounds, KeeperBounds, SoftBounds, Follows, softTimer, keeper
  <2> QED BY <2>2, <2>3, <2>4
<1> QED
  BY <1>1, <1>2, <1>3, <1>4, <1>5, <1>6, <1>7, <1>8, <1>9, <1>10, <1>11, <1>12
  DEF Next, EndpointStep

LEMMA Inductive == Spec => []IInv
  BY InitIInv, StepIInv, PTL DEF Spec

-----------------------------------------------------------------------------
(* The session's state keeps its shape.                                    *)
THEOREM TypeCorrect == Spec => []TypeOK
  BY Inductive, PTL DEF IInv

(* An armed session is reset less than two watchdog timeouts after its     *)
(* last published deadline, whatever else stalls, dies or hangs.           *)
THEOREM AlwaysResetInTime == Spec => []ResetInTime
<1>1. IInv => ResetInTime
  BY LeaseAssumption, TimerAssumption
  DEF IInv, TypeOK, EndpointTypeOK, FileBounds, KeeperBounds, ResetInTime, Leases
<1> QED BY <1>1, Inductive, PTL

(* A punctual software timer never runs past the deadline it read.         *)
THEOREM SoftAlwaysInTime == Spec => []SoftResetInTime
<1>1. IInv => SoftResetInTime
  BY DEF IInv, TypeOK, EndpointTypeOK, SoftBounds, SoftResetInTime, Leases
<1> QED BY <1>1, Inductive, PTL

(* No renewal is even considered before the watchdog is armed.             *)
THEOREM AlwaysArmedFirst == Spec => []GrantedOnlyArmed
<1>1. IInv => GrantedOnlyArmed
  BY DEF IInv, StartupOrder, GrantedOnlyArmed
<1> QED BY <1>1, Inductive, PTL

(* Duplicated, delayed and reordered requests never move the deadline; a   *)
(* new one moves it forward, and never beyond the cap.                     *)
THEOREM ExtensionsAreNew == Spec => OnlyNewRequestsExtend
<1>1. ASSUME IInv, [Next]_vars, file'.deadline # file.deadline
      PROVE  /\ file'.seq = file.seq + 1
             /\ file.deadline < file'.deadline /\ file'.deadline <= Hard
  <2>1. Publish /\ file' = candidate
    BY <1>1 DEF Next, EndpointStep, vars, endpoint, Tick, WatchdogFires, Reboot, SoftPoll,
                SoftStalls, SoftDies, HardArms, HardChecks, HardPings, HardDies, Ready,
                SupervisorFails, ServeAny, Serve, Publish, Acknowledge, PollFails
  <2>2. Acceptable(file, candidate, now) /\ renewing /\ candidate # file
    BY <1>1, <2>1 DEF Publish
  <2>3. file = lease /\ (candidate.seq = lease.seq \/ candidate.seq = lease.seq + 1)
    BY <1>1, <2>2 DEF IInv, EndpointAgrees
  <2> QED
    BY <1>1, <2>1, <2>2, <2>3, LeaseAssumption
    DEF Acceptable, IInv, TypeOK, EndpointTypeOK, Leases
<1>2. IInv /\ [Next]_vars =>
        [file'.deadline # file.deadline =>
           file'.seq = file.seq + 1 /\ file.deadline < file'.deadline
           /\ file'.deadline <= Hard]_vars
  BY <1>1
<1> QED BY <1>2, Inductive, PTL DEF Spec, OnlyNewRequestsExtend

(* The software timer ends a session early only if it overslept.           *)
THEOREM ExpiryIsNeverSpurious == Spec => NoSpuriousExpiry
<1>1. ASSUME IInv, [Next]_vars, soft # "expired", soft' = "expired"
      PROVE  now >= file.deadline \/ file.sampled >= softSeen.deadline
  <2>1. SoftPoll /\ ~ Acceptable(softSeen, file, now)
    BY <1>1 DEF Next, EndpointStep, vars, softTimer, Tick, WatchdogFires, Reboot, SoftPoll,
                SoftStalls, SoftDies, HardArms, HardChecks, HardPings, HardDies, Ready,
                SupervisorFails
  <2> QED
    BY <1>1, <2>1, RefusedOnlyLate DEF IInv, TypeOK, EndpointTypeOK, FileBounds, SoftBounds
<1>2. IInv /\ [Next]_vars =>
        [(soft # "expired" /\ soft' = "expired") =>
           now >= file.deadline \/ file.sampled >= softSeen.deadline]_vars
  BY <1>1
<1> QED BY <1>2, Inductive, PTL DEF Spec, NoSpuriousExpiry
-----------------------------------------------------------------------------
(* The session of the host.                                                *)


(* What a host may ask for.                                                *)
Asked == [seq : 1..MaxSeq, secs : Seconds]
Receipts == [seq : Nat, deadline : Nat, at : Nat]

(* The journal: at most one request without a reply, the next one.         *)
Journaled ==
  /\ accepted \in [seq : 0..MaxSeq, deadline : Nat]
  /\ pending = <<>> \/ \E r \in Asked : pending = <<r>> /\ r.seq = accepted.seq + 1
  /\ call # "none" => pending # <<>>

(* What is under way: receipts of granted leases, orphans of old calls.    *)
UnderWay ==
  /\ answer = <<>> \/ \E a \in Receipts : answer = <<a>> /\ a.seq <= lease.seq
  /\ orphans \subseteq Asked
  /\ \A r \in orphans : r.seq <= accepted.seq \/ pending = <<r>>

(* A renewal being granted repeats the lease, or is the pending one.       *)
Granting ==
  renewing =>
    \/ candidate.seq = lease.seq /\ candidate.secs = lease.secs
    \/ /\ lease.seq = accepted.seq
       /\ candidate.seq = accepted.seq + 1
       /\ pending = <<[seq |-> candidate.seq, secs |-> candidate.secs]>>

SInv == IInv /\ Journaled /\ UnderWay /\ Granting /\ SessionAgrees
-----------------------------------------------------------------------------
(* A served request is one of those LeaseTimers expects.                   *)
LEMMA ServedAny == ASSUME NEW r \in Asked, Serve(r) PROVE ServeAny
<1>1. r = [seq |-> r.seq, secs |-> r.secs] /\ r.seq \in 1..MaxSeq /\ r.secs \in Seconds
  BY DEF Asked
<1> QED BY <1>1 DEF ServeAny

LEMMA StepTimers == SInv /\ [SessionNext]_sessionVars => [Next]_vars
<1> SUFFICES ASSUME SInv, [SessionNext]_sessionVars PROVE [Next]_vars
  OBVIOUS
<1> USE DEF SInv
<1>1. CASE OnTheirOwn
  BY <1>1 DEF OnTheirOwn, Next
<1>2. CASE ServeCall
  <2>1. PICK r \in Asked : pending = <<r>>
    BY <1>2 DEF ServeCall, Journaled
  <2>2. Serve(r) /\ UNCHANGED <<softTimer, keeper>>
    BY <1>2, <2>1 DEF ServeCall
  <2> QED BY <2>2, ServedAny DEF Next, EndpointStep
<1>3. CASE ServeOrphan
  <2>1. PICK r \in orphans : Serve(r) /\ UNCHANGED <<softTimer, keeper>>
    BY <1>3 DEF ServeOrphan
  <2> QED BY <2>1, ServedAny DEF Next, EndpointStep, UnderWay
<1>4. CASE PublishRenewal \/ AcknowledgeRenewal
  BY <1>4 DEF PublishRenewal, AcknowledgeRenewal, Next, EndpointStep
<1>5. CASE (\E secs \in Seconds : Renew(secs)) \/ Retry \/ Accept \/ Abandon \/ JournalBlocked
  BY <1>5 DEF Renew, Retry, Accept, Abandon, JournalBlocked, target
<1>6. CASE UNCHANGED sessionVars
  BY <1>6 DEF sessionVars
<1> QED BY <1>1, <1>2, <1>3, <1>4, <1>5, <1>6 DEF SessionNext

LEMMA InitSInv == SessionInit => SInv
<1> SUFFICES ASSUME SessionInit PROVE SInv
  OBVIOUS
<1>1. IInv
  BY InitIInv DEF SessionInit
<1>2. Journaled /\ UnderWay /\ Granting /\ SessionAgrees
  BY TimerAssumption
  DEF SessionInit, Init, EndpointInit, InitialLease, Journaled, UnderWay, Granting, SessionAgrees
<1> QED BY <1>1, <1>2 DEF SInv

(* The endpoint takes a request, of a call or of an orphan.                *)
LEMMA ServedGranting ==
  ASSUME SInv, NEW r \in Asked, r.seq <= accepted.seq \/ pending = <<r>>, Serve(r),
         UNCHANGED <<pending, accepted>>
  PROVE  Granting' /\ SessionAgrees' /\ UNCHANGED lease
<1> USE DEF SInv
<1>1. file = lease /\ lease \in Leases
  BY DEF Serve, IInv, EndpointAgrees, TypeOK, EndpointTypeOK
<1>2. SessionAgrees' /\ UNCHANGED <<lease, file>>
  BY DEF Serve, SessionAgrees
<1>3. r.seq \in Nat /\ r = [seq |-> r.seq, secs |-> r.secs]
  BY DEF Asked
<1>4. accepted.seq \in Nat /\ accepted.seq <= lease.seq /\ lease.seq \in Nat
  BY <1>1 DEF Journaled, SessionAgrees, Leases
<1>5. CASE IsDuplicate(lease, r)
  <2>1. candidate' = [lease EXCEPT !.sampled = now]
    BY <1>5 DEF Serve, Renewed
  <2>2. candidate'.seq = lease.seq /\ candidate'.secs = lease.secs
    BY <2>1, <1>1 DEF Leases
  <2> QED BY <2>2, <1>2 DEF Granting
<1>6. CASE ~ IsDuplicate(lease, r)
  <2>1. r.seq = lease.seq + 1
    BY <1>6 DEF Serve, Renewable, IsNext
  <2>2. pending = <<r>> /\ r.seq = accepted.seq + 1
    <3>1. pending = <<r>>
      BY <2>1, <1>3, <1>4
    <3>2. PICK q \in Asked : pending = <<q>> /\ q.seq = accepted.seq + 1
      BY <3>1 DEF Journaled
    <3>3. pending[1] = r /\ pending[1] = q
      BY <3>1, <3>2
    <3> QED BY <3>1, <3>2, <3>3
  <2>3. candidate'.seq = r.seq /\ candidate'.secs = r.secs
    BY <1>6 DEF Serve, Renewed
  <2>4. lease.seq = accepted.seq
    BY <2>1, <2>2, <1>4
  <2> QED BY <2>2, <2>3, <2>4, <1>2, <1>3 DEF Granting
<1> QED BY <1>5, <1>6

LEMMA StepSInv == SInv /\ [SessionNext]_sessionVars => SInv'
<1> SUFFICES ASSUME SInv, [SessionNext]_sessionVars PROVE SInv'
  OBVIOUS
<1>0. IInv'
  BY StepTimers, StepIInv DEF SInv
<1> USE DEF SInv
<1>a. lease \in Leases /\ file \in Leases /\ candidate \in Leases /\ now \in Nat
  BY DEF IInv, TypeOK, EndpointTypeOK
<1>1. CASE OnTheirOwn
  <2>1. UNCHANGED <<session, lease, file, renewing, candidate>>
    BY <1>1 DEF OnTheirOwn, Tick, WatchdogFires, Reboot, SoftPoll, SoftStalls, SoftDies, HardArms,
                HardChecks, HardPings, HardDies, Ready, SupervisorFails, endpoint
  <2> QED BY <2>1, <1>0 DEF session, Journaled, UnderWay, Granting, SessionAgrees
<1>2. CASE ServeCall
  <2>1. PICK r \in Asked : pending = <<r>>
    BY <1>2 DEF ServeCall, Journaled
  <2>2. Serve(r)
    BY <1>2, <2>1 DEF ServeCall
  <2>3. Granting' /\ SessionAgrees' /\ UNCHANGED lease
    BY <1>2, <2>1, <2>2, ServedGranting DEF ServeCall
  <2>4. Journaled' /\ UnderWay'
    BY <1>2, <2>1, <2>3 DEF ServeCall, Journaled, UnderWay
  <2> QED BY <2>3, <2>4, <1>0
<1>3. CASE ServeOrphan
  <2>1. PICK r \in orphans : Serve(r) /\ UNCHANGED <<journal, pending, accepted, call, answer>>
                             /\ orphans' = orphans \ {r}
    BY <1>3 DEF ServeOrphan
  <2>2. Granting' /\ SessionAgrees' /\ UNCHANGED lease
    BY <2>1, ServedGranting DEF UnderWay
  <2>3. Journaled' /\ UnderWay'
    BY <2>1, <2>2 DEF Journaled, UnderWay
  <2> QED BY <2>2, <2>3, <1>0
<1>4. CASE PublishRenewal
  <2>1. Journaled' /\ UnderWay' /\ Granting'
    BY <1>4 DEF PublishRenewal, Publish, PollFails, session, Journaled, UnderWay, Granting
  <2>2. CASE UNCHANGED file
    BY <1>0, <1>4, <2>1, <2>2 DEF PublishRenewal, session, SessionAgrees
  <2>3. CASE renewing /\ candidate # file /\ file' = candidate
    <3>1. file = lease
      BY <2>3 DEF IInv, EndpointAgrees
    <3>2. UNCHANGED <<pending, accepted>>
      BY <1>4 DEF PublishRenewal, session
    <3>3. accepted.seq \in Nat /\ candidate.seq \in Nat
      BY <1>a DEF Journaled, Leases
    <3>4. SessionAgrees'
      BY <2>3, <3>1, <3>2, <3>3 DEF SessionAgrees, Granting
    <3> QED BY <3>4, <2>1, <1>0
  <2> QED BY <1>4, <2>2, <2>3 DEF PublishRenewal, Publish, PollFails
<1>5. CASE AcknowledgeRenewal
  <2>1. UNCHANGED <<file, candidate, pending, accepted, call, orphans>> /\ lease' = file
        /\ ~ renewing' /\ renewing /\ candidate = file
    BY <1>5 DEF AcknowledgeRenewal, Acknowledge
  <2>2. Journaled' /\ Granting' /\ SessionAgrees'
    BY <2>1 DEF Journaled, Granting, SessionAgrees
  <2>3. lease.seq <= lease'.seq /\ lease'.seq \in Nat
    BY <1>a, <2>1 DEF Granting, Leases, Journaled
  <2>4. answer' = answer \/ answer' = <<[seq |-> lease'.seq, deadline |-> candidate.deadline, at |-> now]>>
    BY <1>5, <2>1 DEF AcknowledgeRenewal
  <2>5. [seq |-> lease'.seq, deadline |-> candidate.deadline, at |-> now] \in Receipts
    BY <2>3, <1>a, LeaseAssumption DEF Receipts, Leases
  <2>6. answer' = <<>> \/ \E a \in Receipts : answer' = <<a>> /\ a.seq <= lease'.seq
    <3>1. CASE answer' = <<[seq |-> lease'.seq, deadline |-> candidate.deadline, at |-> now]>>
      BY <3>1, <2>5, <2>3
    <3>2. CASE answer' = answer
      <4>1. CASE answer = <<>>
        BY <3>2, <4>1
      <4>2. CASE answer # <<>>
        <5>1. PICK a \in Receipts : answer = <<a>> /\ a.seq <= lease.seq
          BY <4>2 DEF UnderWay
        <5>2. a.seq <= lease'.seq
          BY <5>1, <2>3, <1>a DEF Receipts, Leases
        <5> QED BY <3>2, <5>1, <5>2
      <4> QED BY <4>1, <4>2
    <3> QED BY <2>4, <3>1, <3>2
  <2>7. UnderWay'
    BY <2>1, <2>6 DEF UnderWay
  <2> QED BY <1>0, <2>2, <2>7
<1>6. CASE \E secs \in Seconds : Renew(secs)
  <2>1. PICK secs \in Seconds : Renew(secs)
    BY <1>6
  <2>2. UNCHANGED <<vars, accepted, answer, orphans>> /\ pending = <<>> /\ accepted.seq < MaxSeq
        /\ pending' = <<[seq |-> accepted.seq + 1, secs |-> secs]>>
    BY <2>1 DEF Renew, target
  <2>3. UNCHANGED <<lease, file, renewing, candidate>>
    BY <2>2 DEF vars, endpoint
  <2>4. [seq |-> accepted.seq + 1, secs |-> secs] \in Asked
    BY <2>2, TimerAssumption DEF Journaled, Asked
  <2>5. Journaled'
    BY <2>2, <2>4 DEF Journaled
  <2>6. UnderWay' /\ Granting' /\ SessionAgrees'
    BY <2>2, <2>3 DEF UnderWay, Granting, SessionAgrees
  <2> QED BY <1>0, <2>5, <2>6
<1>7. CASE Retry \/ Abandon \/ JournalBlocked
  <2>1. UNCHANGED <<vars, accepted, pending>> /\ answer' \in {answer, <<>>}
        /\ (call' # "none" => pending # <<>>)
        /\ \A r \in orphans' : r \in orphans \/ (call = "sent" /\ r = pending[1])
    BY <1>7 DEF Retry, Abandon, JournalBlocked, target
  <2>2. UNCHANGED <<lease, file, renewing, candidate>>
    BY <2>1 DEF vars, endpoint
  <2>3. Journaled' /\ Granting' /\ SessionAgrees'
    BY <2>1, <2>2 DEF Journaled, Granting, SessionAgrees
  <2>4. ASSUME NEW r \in orphans' PROVE r \in Asked /\ (r.seq <= accepted.seq \/ pending = <<r>>)
    BY <2>1 DEF Journaled, UnderWay
  <2>5. UnderWay'
    BY <2>1, <2>2, <2>4 DEF UnderWay
  <2> QED BY <1>0, <2>3, <2>5
<1>8. CASE Accept
  <2>1. PICK a \in Receipts : answer = <<a>> /\ a.seq <= lease.seq
    BY <1>8 DEF Accept, UnderWay
  <2>2. PICK r \in Asked : pending = <<r>> /\ r.seq = accepted.seq + 1
    BY <1>8 DEF Accept, Journaled
  <2>3. UNCHANGED <<vars, orphans>> /\ a.seq = r.seq /\ pending' = <<>> /\ answer' = <<>>
        /\ call' = "none" /\ accepted' = [seq |-> a.seq, deadline |-> a.deadline]
    BY <1>8, <2>1, <2>2 DEF Accept, Receipt, target
  <2>4. UNCHANGED <<lease, file, renewing, candidate>>
    BY <2>3 DEF vars, endpoint
  <2>5. accepted.seq \in Nat /\ a.seq = accepted.seq + 1 /\ a.seq \in 1..MaxSeq /\ a.deadline \in Nat
    BY <2>2, <2>3, <2>1 DEF Journaled, Asked, Receipts
  <2>6. (candidate.seq = lease.seq /\ candidate.secs = lease.secs) \/ ~ renewing
    BY <2>1, <2>5, <1>a DEF Granting, Leases
  <2>7. lease.seq = file.seq
    BY <2>6, <1>a DEF IInv, EndpointAgrees
  <2>8. SessionAgrees'
    BY SMTT(30), <2>3, <2>4, <2>5, <2>7, <2>1, <1>a DEF SessionAgrees, Leases
  <2>9. Journaled' /\ Granting'
    BY <2>3, <2>4, <2>5, <2>6 DEF Journaled, Granting
  <2>10. UnderWay'
    <3>1. ASSUME NEW q \in orphans PROVE q.seq <= a.seq
      BY <2>2, <2>5 DEF UnderWay, Asked
    <3> QED BY <3>1, <2>3, <2>4 DEF UnderWay
  <2> QED BY <1>0, <2>8, <2>9, <2>10
<1>9. CASE UNCHANGED sessionVars
  BY <1>0, <1>9 DEF sessionVars, session, vars, endpoint, Journaled, UnderWay, Granting, SessionAgrees
<1> QED BY <1>1, <1>2, <1>3, <1>4, <1>5, <1>6, <1>7, <1>8, <1>9 DEF SessionNext

LEMMA SessionInductive == SessionSpec => []SInv
<1> QED BY InitSInv, StepSInv, PTL DEF SessionSpec

-----------------------------------------------------------------------------
(* The whole session is a behaviour of the timers: what the host sends are *)
(* requests they expect.                                                   *)
THEOREM TimersRefined == SessionSpec => ImplementsTimers
<1>1. SessionInit => Init
  BY DEF SessionInit
<1> QED BY <1>1, SessionInductive, StepTimers, PTL DEF SessionSpec, ImplementsTimers

LEMMA SessionTimers == SessionSpec => Spec
<1>1. SessionSpec => Fairness
  BY DEF SessionSpec
<1> QED BY <1>1, TimersRefined, PTL DEF Spec, ImplementsTimers

(* Host and target agree on the renewals up to the one on the host's disk, *)
(* for any number of lost replies, retries, crashes and late requests.     *)
THEOREM SessionsAgree == SessionSpec => []SessionAgrees
<1>1. SInv => SessionAgrees
  BY DEF SInv
<1> QED BY <1>1, SessionInductive, PTL

(* Whatever the host does, the armed session ends in time.                 *)
THEOREM SessionsEndInTime == SessionSpec => []ResetInTime
<1> QED BY SessionTimers, AlwaysResetInTime, PTL

(* Whatever the host does, no timer gives up on what the endpoint says.    *)
THEOREM SessionsExpireOnTime == SessionSpec => NoSpuriousExpiry
<1> QED BY SessionTimers, ExpiryIsNeverSpurious, PTL
=============================================================================
