--------------------------- MODULE BootCommitProofs ---------------------------
(***************************************************************************)
(* The four parts of a recovery boot that rest on each other, each for     *)
(* every value of its constants: the commit of a selector (BootCommit),    *)
(* the boots, enrollments and reboots around it (HeldBoot), the contents   *)
(* of the files it selects (BootRecipe) and the plans of one card          *)
(* (Campaign).  MCBoot declares their variables side by side.              *)
(*                                                                         *)
(* LeaseOutlivesMount is not inductive: what the mounted phase may rely on *)
(* is the budget seen when the approval was read, less what has passed in  *)
(* the phases since (Reserve).  VerdictIsTrue speaks of the card as it is  *)
(* now, and needs that nothing writes to it any more once a fence was set  *)
(* (Barrier).  RebootsWhereApproved needs that nobody changes the selector *)
(* under a worker that has inspected it (HeldLocked).  A card is released  *)
(* whole because a reset loses nothing that a finished writer wrote        *)
(* (CampaignSynced) and a release rests on a plan that is over             *)
(* (CampaignReleases).  A card boots whole because a draft that was sealed *)
(* keeps it a prefix of the steps, beside the two files of the system      *)
(* (Between), or the hold.                                                 *)
(***************************************************************************)
EXTENDS MCBoot, Integers, Sequences, TLAPS

Times ==
  /\ left \in Nat /\ waited \in Nat /\ boot \in Nat

(* What is left of the lease, by the phase of the worker.                  *)
Reserve ==
  /\ worker = "approved" => waited <= Check /\ left + waited >= Budget
  /\ worker \in Mounted => waited <= Window /\ left + waited >= Budget - Check
  /\ worker = "unmounting" => waited <= Unmounting /\ left + waited >= Budget - Check - Window

(* From a fence on no worker holds the card, and none can begin.           *)
Barrier ==
  fenced # "none" \/ verdict # "none" =>
    worker \notin Holding /\ (boot # 0 \/ ledger # "none") /\ ~ dirty

IInv == Times /\ Reserve /\ Barrier /\ VerdictIsTrue

LEMMA Constants ==
  /\ Longest \in Nat /\ Budget \in Nat /\ Check \in Nat /\ Window \in Nat
  /\ Unmounting \in Nat /\ Approval \in Nat
  /\ Check + Window + Unmounting < Budget
  BY TimeAssumption

LEMMA InitIInv == Init => IInv
  BY Constants DEF Init, IInv, Times, Reserve, Barrier, VerdictIsTrue, Mounted

-----------------------------------------------------------------------------
LEMMA TimesKept == Times /\ Next => Times'
<1> SUFFICES ASSUME Times, Next PROVE Times'
  OBVIOUS
<1> USE Constants DEF Times, clock, card
<1>1. CASE Host
  BY <1>1 DEF Host, Dispatch, Heartbeat, Authorize, Commit, NoteUnmounted, Accept, HostFails, Renewed
<1>2. CASE Guest
  BY <1>2 DEF Guest, Start, Refused, Prepared, Approved, Mount, Stage, Replace, Unmount, Complete,
              Raised, RaisedMounted, GaveUpMounted, Killed
<1>3. CASE Reconciliation
  BY <1>3 DEF Reconciliation, Fence, FenceFails, Inspect, ReconcileFails, Renewed
<1>4. CASE Tick
  BY <1>4 DEF Tick
<1>5. CASE Reset
  BY <1>5 DEF Reset
<1> QED BY <1>1, <1>2, <1>3, <1>4, <1>5 DEF Next

(* A renewal only adds to the lease; a phase begins with what the one      *)
(* before it must have left.                                               *)
LEMMA ReserveKept == Times /\ Reserve /\ Next => Reserve'
<1> SUFFICES ASSUME Times, Reserve, Next PROVE Reserve'
  OBVIOUS
<1> USE Constants DEF Times, clock, Mounted
<1>1. ASSUME UNCHANGED <<worker, waited>>, left' \in Nat, left' >= left PROVE Reserve'
  <2>1. ASSUME NEW m \in Nat, NEW n \in Nat, NEW w \in Nat, NEW b \in Int, n >= m, m + w >= b
        PROVE  n + w >= b
    BY <2>1
  <2>2. worker' = worker /\ waited' = waited
    BY <1>1
  <2>3. Budget \in Int /\ Budget - Check \in Int /\ Budget - Check - Window \in Int
    OBVIOUS
  <2>4. \A b \in Int : left + waited >= b => left' + waited >= b
    BY <1>1, <2>1
  <2> QED BY <2>2, <2>3, <2>4 DEF Reserve
<1>2. ASSUME worker' \notin Mounted \cup {"approved", "unmounting"} PROVE Reserve'
  BY <1>2 DEF Reserve
<1>3. CASE Host
  <2>1. CASE Dispatch
    BY <2>1, <1>2 DEF Dispatch
  <2>2. CASE Heartbeat \/ Authorize \/ Commit \/ NoteUnmounted \/ Accept \/ HostFails
    BY <2>2, <1>1 DEF Heartbeat, Authorize, Commit, NoteUnmounted, Accept, HostFails, Renewed
  <2> QED BY <1>3, <2>1, <2>2 DEF Host
<1>4. CASE Guest
  <2>1. CASE Start \/ Refused \/ Prepared \/ Unmount \/ Complete \/ Raised \/ GaveUpMounted \/ Killed
    BY <2>1, <1>2 DEF Start, Refused, Prepared, Unmount, Complete, Raised, GaveUpMounted, Killed, Go
  <2>2. CASE Approved
    BY <2>2 DEF Approved, EnoughBudget, Go, Reserve
  <2>3. CASE Mount
    BY <2>3 DEF Mount, At, Go, Reserve
  <2>4. CASE Stage \/ Replace
    BY <2>4 DEF Stage, Replace, At, Go, Reserve
  <2>5. CASE RaisedMounted
    BY <2>5 DEF RaisedMounted, Go, Reserve
  <2> QED BY <1>4, <2>1, <2>2, <2>3, <2>4, <2>5 DEF Guest
<1>5. CASE Reconciliation
  BY <1>5, <1>1 DEF Reconciliation, Fence, FenceFails, Inspect, ReconcileFails, Renewed
<1>6. CASE Tick
  BY <1>6 DEF Tick, Reserve, Writing
<1>7. CASE Reset
  BY <1>7, <1>2 DEF Reset, Holding, Writing
<1> QED BY <1>3, <1>4, <1>5, <1>6, <1>7 DEF Next

-----------------------------------------------------------------------------
LEMMA BarrierKept == Times /\ Barrier /\ Next => Barrier'
<1> SUFFICES ASSUME Times, Barrier, Next PROVE Barrier'
  OBVIOUS
<1> USE DEF Times, card, hostVars, Barrier
<1>1. CASE Host
  BY <1>1 DEF Host, Dispatch, Heartbeat, Authorize, Commit, NoteUnmounted, Accept, HostFails, Holding, Writing, Mounted
<1>2. CASE Start \/ Refused
  BY <1>2 DEF Start, Refused, At, Go, Holding, Writing, Mounted
<1>3. CASE Guest /\ worker \in Holding
  BY <1>3 DEF Guest, Start, Refused, Prepared, Approved, Mount, Stage, Replace, Unmount, Complete,
              Raised, RaisedMounted, GaveUpMounted, Killed
<1>4. CASE Guest /\ worker \notin Holding /\ ~ Start /\ ~ Refused
  BY <1>4 DEF Guest, Prepared, Approved, Mount, Stage, Replace, Unmount, Complete, At, Go,
              Raised, RaisedMounted, GaveUpMounted, Killed, Holding, Writing, Mounted
<1>5. CASE Fence \/ FenceFails
  BY <1>5 DEF Fence, FenceFails, MayFence, Barred, Unmounts
<1>6. CASE Inspect \/ ReconcileFails
  BY <1>6 DEF Inspect, ReconcileFails
<1>7. CASE Tick
  BY <1>7 DEF Tick
<1>8. CASE Reset
  BY <1>8 DEF Reset, Holding, Writing, Mounted
<1> QED BY <1>1, <1>2, <1>3, <1>4, <1>5, <1>6, <1>7, <1>8 DEF Next, Reconciliation

(* Only a worker that holds the card writes to it, and only a reset loses  *)
(* what it wrote.                                                          *)
LEMMA VerdictKept == Barrier /\ VerdictIsTrue /\ Next => VerdictIsTrue'
<1> SUFFICES ASSUME Barrier, VerdictIsTrue, Next PROVE VerdictIsTrue'
  OBVIOUS
<1> USE DEF card, hostVars, VerdictIsTrue
<1>1. CASE Host
  BY <1>1 DEF Host, Dispatch, Heartbeat, Authorize, Commit, NoteUnmounted, Accept, HostFails
<1>2. CASE Guest /\ worker \in Holding
  BY <1>2 DEF Barrier, Guest, Start, Refused, Prepared, Approved, Mount, Stage, Replace, Unmount, Complete,
              Raised, RaisedMounted, GaveUpMounted, Killed
<1>3. CASE Guest /\ worker \notin Holding
  BY <1>3 DEF Guest, Start, Refused, Prepared, Approved, Mount, Stage, Replace, Unmount, Complete, At,
              Raised, RaisedMounted, GaveUpMounted, Killed, Holding, Writing, Mounted
<1>4. CASE Fence \/ FenceFails \/ ReconcileFails
  BY <1>4 DEF Fence, FenceFails, ReconcileFails, Unmounts
<1>5. CASE Inspect
  BY <1>5 DEF Inspect, Found
<1>6. CASE Tick
  BY <1>6 DEF Tick
<1>7. CASE Reset
  BY <1>7 DEF Reset, Barrier
<1> QED BY <1>1, <1>2, <1>3, <1>4, <1>5, <1>6, <1>7 DEF Next, Reconciliation

LEMMA StepIInv == IInv /\ [Next]_vars => IInv'
<1>1. IInv /\ Next => IInv'
  BY TimesKept, ReserveKept, BarrierKept, VerdictKept DEF IInv
<1>2. IInv /\ UNCHANGED vars => IInv'
  BY DEF IInv, vars, hostVars, card, clock, Times, Reserve, Barrier, VerdictIsTrue
<1> QED BY <1>1, <1>2

-----------------------------------------------------------------------------
(* The lease, and with it the target, outlives every mount of the boot     *)
(* partition, although nobody renews it meanwhile, whenever the budget     *)
(* exceeds the last check, the alarm and the unmount (TimeAssumption).     *)
THEOREM AlwaysOutlived == Spec => []LeaseOutlivesMount
<1>1. IInv => LeaseOutlivesMount
  BY Constants DEF IInv, Times, Reserve, LeaseOutlivesMount, Writing
<1> QED BY InitIInv, StepIInv, <1>1, PTL DEF Spec

(* What a complete reconciliation found stays what is on the card, however *)
(* late the worker of the attempt arrives and however often the target is  *)
(* reset.                                                                  *)
THEOREM VerdictsStayTrue == Spec => []VerdictIsTrue
<1>1. IInv => VerdictIsTrue
  BY DEF IInv
<1> QED BY InitIInv, StepIInv, <1>1, PTL DEF Spec

(* Once fenced or inspected, an attempt never touches the card again.      *)
THEOREM FencedForGood == Spec => []Barrier
<1>1. IInv => Barrier
  BY DEF IInv
<1> QED BY InitIInv, StepIInv, <1>1, PTL DEF Spec

-----------------------------------------------------------------------------
(* Boots, enrollments and reboots (HeldBoot).                              *)

HeldShape ==
  /\ number \in H!Boots /\ DOMAIN kind = H!Boots /\ DOMAIN by = H!Boots
  /\ DOMAIN enrolled = H!Boots /\ DOMAIN op = Plans /\ DOMAIN of = Plans
  /\ DOMAIN commit = Plans /\ DOMAIN flow = Plans /\ DOMAIN asked = Plans
  /\ DOMAIN writer = Plans /\ DOMAIN rebooter = Plans /\ DOMAIN proof = Plans
  /\ DOMAIN enr = H!Enrollers
  /\ \A e \in H!Enrollers : DOMAIN enr[e] = {"step", "boot", "as"}

(* What a worker that holds the lock has inspected cannot change.          *)
HeldLocked ==
  \A p \in Plans :
    /\ writer[p] \in {"locked", "written"} => lock = p
    /\ rebooter[p] \in {"locked", "inspected"} => lock = p
    /\ rebooter[p] = "inspected" => selector = H!After(op[p])

(* How far a plan has come, from its preparation to its reboot.            *)
HeldOrder ==
  \A p \in Plans :
    /\ op[p] # "none" => of[p] \in 1..number
    /\ commit[p] # "none" => op[p] # "none"
    /\ writer[p] # "none" => commit[p] # "none"
    /\ commit[p] = "acknowledged" => writer[p] \in {"done", "dead"}
    /\ flow[p] \in H!Sessions => commit[p] = "acknowledged"
    /\ flow[p] \in {"claimed", "renewed", "sent"} => asked[p]
    /\ rebooter[p] # "none" => asked[p] /\ commit[p] = "acknowledged"

(* A boot that a plan's worker brought about.                              *)
HeldReboots ==
  \A b \in H!Boots : by[b] # 0 =>
    /\ b <= number /\ by[b] \in Plans /\ op[by[b]] # "none"
    /\ kind[b] = H!After(op[by[b]]) /\ b = of[by[b]] + 1
    /\ asked[by[b]] /\ commit[by[b]] = "acknowledged"

(* How far an enrollment has come, and what is enrolled.                   *)
HeldEnrolled ==
  /\ \A e \in H!Enrollers :
       /\ enr[e].step \in {"claim", "inspect", "select", "again"} => enr[e].boot \in 1..number
       /\ enr[e].step \in {"inspect", "select", "again"} => enr[e].boot \in claimed
       /\ enr[e].step = "again" => kind[enr[e].boot] = enr[e].as
  /\ \A b \in H!Boots : enrolled[b] # "no" =>
       b <= number /\ b \in claimed /\ kind[b] = enrolled[b]

(* What a plan's flow has seen of the boot after its reboot.               *)
HeldWitnessed ==
  \A p \in Plans :
    /\ enr[p].step # "none" =>
         /\ enr[p].step # "discover" /\ enr[p].as = "held" /\ of[p] < enr[p].boot
         /\ flow[p] = "enrolling" /\ op[p] = "install-hold"
    /\ proof[p] # 0 =>
         /\ proof[p] \in 1..number /\ of[p] < proof[p] /\ op[p] # "none"
         /\ kind[proof[p]] = H!After(op[p]) /\ commit[p] = "acknowledged"

HeldInv ==
  HeldShape /\ HeldLocked /\ HeldOrder /\ HeldReboots /\ HeldEnrolled /\ HeldWitnessed

LEMMA HeldShapeKept == HeldInv /\ H!Next => HeldShape'
<1> SUFFICES ASSUME HeldInv, H!Next PROVE HeldShape'
  OBVIOUS
<1> USE HeldAssumption DEF HeldInv, HeldShape, H!PlansAssumption, H!target, H!records, H!plan,
      H!reboots, H!workers, H!Boots, H!Enrollers
<1>1. CASE H!Reset
  BY <1>1 DEF H!Reset, H!BootsAs, H!Alive
<1>2. CASE H!Tryboot
  BY <1>2 DEF H!Tryboot, H!BootsAs, H!Alive
<1>3. ASSUME NEW as \in H!Recovery, H!OwnerEnrolls(as) PROVE HeldShape'
  BY <1>3 DEF H!OwnerEnrolls, H!Busy, H!EnrollTo
<1>4. ASSUME NEW e \in H!Enrollers, H!Discover(e) PROVE HeldShape'
  BY <1>4 DEF H!Discover, H!EnrollTo, H!Visible, H!Recovery
<1>5. ASSUME NEW e \in H!Enrollers, H!Claim(e) PROVE HeldShape'
  BY <1>5 DEF H!Claim, H!EnrollTo
<1>6. ASSUME NEW e \in H!Enrollers, H!InspectBoot(e) PROVE HeldShape'
  BY <1>6 DEF H!InspectBoot, H!EnrollTo, H!SameBoot, H!Visible, H!Recovery
<1>7. ASSUME NEW e \in H!Enrollers, H!CaptureSelection(e) PROVE HeldShape'
  BY <1>7 DEF H!CaptureSelection, H!EnrollTo, H!Selected, H!SameBoot, H!Visible, H!Recovery
<1>8. ASSUME NEW e \in H!Enrollers, H!Enroll(e) PROVE HeldShape'
  BY <1>8 DEF H!Enroll, H!EnrollTo, H!NoBody, H!SameBoot, H!Visible, H!Recovery
<1>9. ASSUME NEW e \in H!Enrollers, H!EnrollFails(e) PROVE HeldShape'
  BY <1>9 DEF H!EnrollFails, H!Busy, H!EnrollTo, H!NoBody
<1>10. ASSUME NEW p \in Plans, NEW o \in {"install-hold", "release-hold"}, H!Prepare(p, o) PROVE HeldShape'
  BY <1>10 DEF H!Prepare
<1>11. ASSUME NEW p \in Plans, H!ExecuteCommit(p) PROVE HeldShape'
  BY <1>11 DEF H!ExecuteCommit, H!SameBoot, H!SessionFree, H!Visible, H!Sessions, H!Recovery
<1>12. ASSUME NEW p \in Plans, H!WriterLocks(p) PROVE HeldShape'
  BY <1>12 DEF H!WriterLocks, H!Before
<1>13. ASSUME NEW p \in Plans, H!WriterReplaces(p) PROVE HeldShape'
  BY <1>13 DEF H!WriterReplaces, H!After
<1>14. ASSUME NEW p \in Plans, H!WriterEnds(p) PROVE HeldShape'
  BY <1>14 DEF H!WriterEnds
<1>15. ASSUME NEW p \in Plans, H!WriterDies(p) PROVE HeldShape'
  BY <1>15 DEF H!WriterDies
<1>16. ASSUME NEW p \in Plans, H!CommitEnds(p) PROVE HeldShape'
  BY <1>16 DEF H!CommitEnds, H!SameBoot, H!Visible, H!Recovery
<1>17. ASSUME NEW p \in Plans, H!Begin(p) PROVE HeldShape'
  BY <1>17 DEF H!Begin, H!Reviewed, H!SessionFree, H!Step, H!Sessions
<1>18. ASSUME NEW p \in Plans, H!ClaimReboot(p) PROVE HeldShape'
  BY <1>18 DEF H!ClaimReboot, H!Step
<1>19. ASSUME NEW p \in Plans, H!RenewForReboot(p) PROVE HeldShape'
  BY <1>19 DEF H!RenewForReboot, H!SameBoot, H!Step, H!Visible, H!Recovery
<1>20. ASSUME NEW p \in Plans, H!SendReboot(p) PROVE HeldShape'
  BY <1>20 DEF H!SendReboot, H!Step
<1>21. ASSUME NEW p \in Plans, H!TransportEnds(p) PROVE HeldShape'
  BY <1>21 DEF H!TransportEnds, H!Step
<1>22. ASSUME NEW p \in Plans, H!SeeRecovery(p) PROVE HeldShape'
  BY <1>22 DEF H!SeeRecovery, H!EnrollTo, H!Step, H!Visible, H!Recovery
<1>23. ASSUME NEW p \in Plans, H!VerifyOnly(p) PROVE HeldShape'
  BY <1>23 DEF H!VerifyOnly, H!SessionFree, H!Step, H!Sessions
<1>24. ASSUME NEW p \in Plans, H!SeeNormal(p) PROVE HeldShape'
  BY <1>24 DEF H!SeeNormal, H!NormalBoot, H!Step
<1>25. ASSUME NEW p \in Plans, H!FlowFails(p) PROVE HeldShape'
  BY <1>25 DEF H!FlowFails, H!Sessions, H!Step
<1>26. ASSUME NEW p \in Plans, H!WorkerLocks(p) PROVE HeldShape'
  BY <1>26 DEF H!WorkerLocks
<1>27. ASSUME NEW p \in Plans, H!WorkerInspects(p) PROVE HeldShape'
  BY <1>27 DEF H!WorkerInspects, H!After, H!Funded
<1>28. ASSUME NEW p \in Plans, H!WorkerReboots(p) PROVE HeldShape'
  BY <1>28 DEF H!WorkerReboots, H!BootsAs, H!Funded, H!Alive
<1>29. ASSUME NEW p \in Plans, H!WorkerDies(p) PROVE HeldShape'
  BY <1>29 DEF H!WorkerDies
<1> HIDE DEF HeldInv, HeldShape
<1> QED BY <1>1, <1>2, <1>3, <1>4, <1>5, <1>6, <1>7, <1>8, <1>9, <1>10, <1>11, <1>12, <1>13,
      <1>14, <1>15, <1>16, <1>17, <1>18, <1>19, <1>20, <1>21, <1>22, <1>23, <1>24, <1>25, <1>26,
      <1>27, <1>28, <1>29
      DEF H!Next

LEMMA HeldLockedKept == HeldInv /\ H!Next => HeldLocked'
<1> SUFFICES ASSUME HeldInv, H!Next PROVE HeldLocked'
  OBVIOUS
<1> USE HeldAssumption DEF HeldInv, HeldLocked, HeldOrder, HeldShape, H!PlansAssumption,
      H!target, H!records, H!plan, H!reboots, H!workers, H!Boots, H!Enrollers
<1>1. CASE H!Reset
  BY <1>1 DEF H!Reset, H!BootsAs, H!Alive, H!After, H!Sessions
<1>2. CASE H!Tryboot
  BY <1>2 DEF H!Tryboot, H!BootsAs, H!Alive, H!After, H!Sessions
<1>3. ASSUME NEW p \in Plans, NEW o \in {"install-hold", "release-hold"}, H!Prepare(p, o) PROVE HeldLocked'
  BY <1>3 DEF H!Prepare, H!After, H!Sessions
<1>4. ASSUME NEW p \in Plans, H!ExecuteCommit(p) PROVE HeldLocked'
  BY <1>4 DEF H!ExecuteCommit, H!SameBoot, H!SessionFree, H!Visible, H!Sessions, H!Recovery,
      H!After
<1>5. ASSUME NEW p \in Plans, H!WriterLocks(p) PROVE HeldLocked'
  BY <1>5 DEF H!WriterLocks, H!Before, H!After, H!Sessions
<1>6. ASSUME NEW p \in Plans, H!WriterReplaces(p) PROVE HeldLocked'
  BY <1>6 DEF H!WriterReplaces, H!After, H!Sessions
<1>7. ASSUME NEW p \in Plans, H!WriterEnds(p) PROVE HeldLocked'
  BY <1>7 DEF H!WriterEnds, H!After, H!Sessions
<1>8. ASSUME NEW p \in Plans, H!WriterDies(p) PROVE HeldLocked'
  BY <1>8 DEF H!WriterDies, H!After, H!Sessions
<1>9. ASSUME NEW p \in Plans, H!SendReboot(p) PROVE HeldLocked'
  BY <1>9 DEF H!SendReboot, H!Step, H!After, H!Sessions
<1>10. ASSUME NEW p \in Plans, H!WorkerLocks(p) PROVE HeldLocked'
  BY <1>10 DEF H!WorkerLocks, H!After, H!Sessions
<1>11. ASSUME NEW p \in Plans, H!WorkerInspects(p) PROVE HeldLocked'
  BY <1>11 DEF H!WorkerInspects, H!After, H!Funded, H!Sessions
<1>12. ASSUME NEW p \in Plans, H!WorkerReboots(p) PROVE HeldLocked'
  BY <1>12 DEF H!WorkerReboots, H!BootsAs, H!Funded, H!Alive, H!After, H!Sessions
<1>13. ASSUME NEW p \in Plans, H!WorkerDies(p) PROVE HeldLocked'
  BY <1>13 DEF H!WorkerDies, H!After, H!Sessions
<1>14. CASE UNCHANGED <<lock, op, rebooter, selector, writer>>
  BY <1>14 DEF H!After
<1> HIDE DEF HeldInv, HeldLocked, HeldOrder, HeldShape
<1> QED BY <1>1, <1>2, <1>3, <1>4, <1>5, <1>6, <1>7, <1>8, <1>9, <1>10, <1>11, <1>12, <1>13,
      <1>14
      DEF H!Next, H!OwnerEnrolls, H!Discover, H!Claim, H!InspectBoot, H!CaptureSelection,
          H!Enroll, H!EnrollFails, H!CommitEnds, H!Begin, H!ClaimReboot, H!RenewForReboot,
          H!TransportEnds, H!SeeRecovery, H!VerifyOnly, H!SeeNormal, H!FlowFails, H!target,
          H!records, H!plan, H!reboots, H!workers

LEMMA HeldOrderKept == HeldInv /\ H!Next => HeldOrder'
<1> SUFFICES ASSUME HeldInv, H!Next PROVE HeldOrder'
  OBVIOUS
<1> USE HeldAssumption DEF HeldInv, HeldEnrolled, HeldOrder, HeldShape, HeldWitnessed,
      H!PlansAssumption, H!target, H!records, H!plan, H!reboots, H!workers, H!Boots, H!Enrollers
<1>1. CASE H!Reset
  BY <1>1 DEF H!Reset, H!BootsAs, H!Alive, H!Sessions, H!After
<1>2. CASE H!Tryboot
  BY <1>2 DEF H!Tryboot, H!BootsAs, H!Alive, H!Sessions, H!After
<1>3. ASSUME NEW e \in H!Enrollers, H!Enroll(e) PROVE HeldOrder'
  BY <1>3 DEF H!Enroll, H!EnrollTo, H!NoBody, H!SameBoot, H!Visible, H!Recovery, H!Sessions,
      H!After
<1>4. ASSUME NEW e \in H!Enrollers, H!EnrollFails(e) PROVE HeldOrder'
  BY <1>4 DEF H!EnrollFails, H!Busy, H!EnrollTo, H!NoBody, H!Sessions, H!After
<1>5. ASSUME NEW p \in Plans, NEW o \in {"install-hold", "release-hold"}, H!Prepare(p, o) PROVE HeldOrder'
  BY <1>5 DEF H!Prepare, H!Sessions, H!After
<1>6. ASSUME NEW p \in Plans, H!ExecuteCommit(p) PROVE HeldOrder'
  BY <1>6 DEF H!ExecuteCommit, H!SameBoot, H!SessionFree, H!Visible, H!Sessions, H!Recovery,
      H!After
<1>7. ASSUME NEW p \in Plans, H!WriterLocks(p) PROVE HeldOrder'
  BY <1>7 DEF H!WriterLocks, H!Before, H!Sessions, H!After
<1>8. ASSUME NEW p \in Plans, H!WriterReplaces(p) PROVE HeldOrder'
  BY <1>8 DEF H!WriterReplaces, H!After, H!Sessions
<1>9. ASSUME NEW p \in Plans, H!WriterEnds(p) PROVE HeldOrder'
  BY <1>9 DEF H!WriterEnds, H!Sessions, H!After
<1>10. ASSUME NEW p \in Plans, H!WriterDies(p) PROVE HeldOrder'
  BY <1>10 DEF H!WriterDies, H!Sessions, H!After
<1>11. ASSUME NEW p \in Plans, H!CommitEnds(p) PROVE HeldOrder'
  BY <1>11 DEF H!CommitEnds, H!SameBoot, H!Visible, H!Recovery, H!Sessions, H!After
<1>12. ASSUME NEW p \in Plans, H!Begin(p) PROVE HeldOrder'
  BY <1>12 DEF H!Begin, H!Reviewed, H!SessionFree, H!Step, H!Sessions, H!After
<1>13. ASSUME NEW p \in Plans, H!ClaimReboot(p) PROVE HeldOrder'
  BY <1>13 DEF H!ClaimReboot, H!Step, H!Sessions, H!After
<1>14. ASSUME NEW p \in Plans, H!RenewForReboot(p) PROVE HeldOrder'
  BY <1>14 DEF H!RenewForReboot, H!SameBoot, H!Step, H!Visible, H!Recovery, H!Sessions, H!After
<1>15. ASSUME NEW p \in Plans, H!SendReboot(p) PROVE HeldOrder'
  BY <1>15 DEF H!SendReboot, H!Step, H!Sessions, H!After
<1>16. ASSUME NEW p \in Plans, H!TransportEnds(p) PROVE HeldOrder'
  BY <1>16 DEF H!TransportEnds, H!Step, H!Sessions, H!After
<1>17. ASSUME NEW p \in Plans, H!SeeRecovery(p) PROVE HeldOrder'
  BY <1>17 DEF H!SeeRecovery, H!EnrollTo, H!Step, H!Visible, H!Recovery, H!Sessions, H!After
<1>18. ASSUME NEW p \in Plans, H!VerifyOnly(p) PROVE HeldOrder'
  BY <1>18 DEF H!VerifyOnly, H!SessionFree, H!Step, H!Sessions, H!After
<1>19. ASSUME NEW p \in Plans, H!SeeNormal(p) PROVE HeldOrder'
  BY <1>19 DEF H!SeeNormal, H!NormalBoot, H!Step, H!Sessions, H!After
<1>20. ASSUME NEW p \in Plans, H!FlowFails(p) PROVE HeldOrder'
  BY <1>20 DEF H!FlowFails, H!Sessions, H!Step, H!After
<1>21. ASSUME NEW p \in Plans, H!WorkerLocks(p) PROVE HeldOrder'
  BY <1>21 DEF H!WorkerLocks, H!Sessions, H!After
<1>22. ASSUME NEW p \in Plans, H!WorkerInspects(p) PROVE HeldOrder'
  BY <1>22 DEF H!WorkerInspects, H!After, H!Funded, H!Sessions
<1>23. ASSUME NEW p \in Plans, H!WorkerReboots(p) PROVE HeldOrder'
  BY <1>23 DEF H!WorkerReboots, H!BootsAs, H!Funded, H!Alive, H!Sessions, H!After
<1>24. ASSUME NEW p \in Plans, H!WorkerDies(p) PROVE HeldOrder'
  BY <1>24 DEF H!WorkerDies, H!Sessions, H!After
<1>25. CASE UNCHANGED <<asked, commit, flow, number, of, op, rebooter, writer>>
  BY <1>25 DEF H!Sessions
<1> HIDE DEF HeldInv, HeldEnrolled, HeldOrder, HeldShape, HeldWitnessed
<1> QED BY <1>1, <1>2, <1>3, <1>4, <1>5, <1>6, <1>7, <1>8, <1>9, <1>10, <1>11, <1>12, <1>13,
      <1>14, <1>15, <1>16, <1>17, <1>18, <1>19, <1>20, <1>21, <1>22, <1>23, <1>24, <1>25
      DEF H!Next, H!OwnerEnrolls, H!Discover, H!Claim, H!InspectBoot, H!CaptureSelection,
          H!target, H!records, H!plan, H!reboots, H!workers

LEMMA HeldRebootsKept == HeldInv /\ H!Next => HeldReboots'
<1> SUFFICES ASSUME HeldInv, H!Next PROVE HeldReboots'
  OBVIOUS
<1> USE HeldAssumption DEF HeldInv, HeldLocked, HeldOrder, HeldReboots, HeldShape,
      H!PlansAssumption, H!target, H!records, H!plan, H!reboots, H!workers, H!Boots, H!Enrollers
<1>1. CASE H!Reset
  BY <1>1 DEF H!Reset, H!BootsAs, H!Alive, H!After, H!Sessions
<1>2. CASE H!Tryboot
  BY <1>2 DEF H!Tryboot, H!BootsAs, H!Alive, H!After, H!Sessions
<1>3. ASSUME NEW p \in Plans, NEW o \in {"install-hold", "release-hold"}, H!Prepare(p, o) PROVE HeldReboots'
  BY <1>3 DEF H!Prepare, H!After, H!Sessions
<1>4. ASSUME NEW p \in Plans, H!ExecuteCommit(p) PROVE HeldReboots'
  BY <1>4 DEF H!ExecuteCommit, H!SameBoot, H!SessionFree, H!Visible, H!Sessions, H!Recovery,
      H!After
<1>5. ASSUME NEW p \in Plans, H!CommitEnds(p) PROVE HeldReboots'
  BY <1>5 DEF H!CommitEnds, H!SameBoot, H!Visible, H!Recovery, H!After, H!Sessions
<1>6. ASSUME NEW p \in Plans, H!ClaimReboot(p) PROVE HeldReboots'
  BY <1>6 DEF H!ClaimReboot, H!Step, H!After, H!Sessions
<1>7. ASSUME NEW p \in Plans, H!WorkerReboots(p) PROVE HeldReboots'
  BY <1>7 DEF H!WorkerReboots, H!BootsAs, H!Funded, H!Alive, H!After, H!Sessions
<1>8. CASE UNCHANGED <<asked, by, commit, kind, number, of, op>>
  BY <1>8 DEF H!After
<1> HIDE DEF HeldInv, HeldLocked, HeldOrder, HeldReboots, HeldShape
<1> QED BY ZenonT(60), <1>1, <1>2, <1>3, <1>4, <1>5, <1>6, <1>7, <1>8
      DEF H!Next, H!OwnerEnrolls, H!Discover, H!Claim, H!InspectBoot, H!CaptureSelection,
          H!Enroll, H!EnrollFails, H!WriterLocks, H!WriterReplaces, H!WriterEnds, H!WriterDies,
          H!Begin, H!RenewForReboot, H!SendReboot, H!TransportEnds, H!SeeRecovery, H!VerifyOnly,
          H!SeeNormal, H!FlowFails, H!WorkerLocks, H!WorkerInspects, H!WorkerDies, H!target,
          H!records, H!plan, H!reboots, H!workers

LEMMA HeldEnrolledKept == HeldInv /\ H!Next => HeldEnrolled'
<1> SUFFICES ASSUME HeldInv, H!Next PROVE HeldEnrolled'
  OBVIOUS
<1> USE HeldAssumption DEF HeldInv, HeldEnrolled, HeldShape, H!PlansAssumption, H!target,
      H!records, H!plan, H!reboots, H!workers, H!Boots, H!Enrollers
<1>1. CASE H!Reset
  BY <1>1 DEF H!Reset, H!BootsAs, H!Alive
<1>2. CASE H!Tryboot
  BY <1>2 DEF H!Tryboot, H!BootsAs, H!Alive
<1>3. ASSUME NEW as \in H!Recovery, H!OwnerEnrolls(as) PROVE HeldEnrolled'
  <2>1. ~ H!Busy(Owner) /\ UNCHANGED <<number, kind, claimed, enrolled, flow, op, of, commit, proof>>
    BY <1>3 DEF H!OwnerEnrolls
  <2>2. ASSUME NEW v, H!EnrollTo(Owner, v), DOMAIN v = {"step", "boot", "as"},
               v.step = "discover" \/ (v.step = "claim" /\ v.boot \in 1..number)
        PROVE  HeldEnrolled'
    BY <2>1, <2>2 DEF H!EnrollTo, H!After, H!Sessions
  <2>3. CASE H!EnrollTo(Owner, [step |-> "discover", boot |-> 0, as |-> as])
    BY <2>2, <2>3
  <2>4. ASSUME NEW b \in 2..number, H!EnrollTo(Owner, [step |-> "claim", boot |-> b, as |-> as])
        PROVE  HeldEnrolled'
    BY <2>2, <2>4
  <2> QED BY <1>3, <2>3, <2>4 DEF H!OwnerEnrolls
<1>4. ASSUME NEW e \in H!Enrollers, H!Discover(e) PROVE HeldEnrolled'
  BY <1>4 DEF H!Discover, H!EnrollTo, H!Visible, H!Recovery
<1>5. ASSUME NEW e \in H!Enrollers, H!Claim(e) PROVE HeldEnrolled'
  BY <1>5 DEF H!Claim, H!EnrollTo
<1>6. ASSUME NEW e \in H!Enrollers, H!InspectBoot(e) PROVE HeldEnrolled'
  BY <1>6 DEF H!InspectBoot, H!EnrollTo, H!SameBoot, H!Visible, H!Recovery
<1>7. ASSUME NEW e \in H!Enrollers, H!CaptureSelection(e) PROVE HeldEnrolled'
  BY <1>7 DEF H!CaptureSelection, H!EnrollTo, H!Selected, H!SameBoot, H!Visible, H!Recovery
<1>8. ASSUME NEW e \in H!Enrollers, H!Enroll(e) PROVE HeldEnrolled'
  BY <1>8 DEF H!Enroll, H!EnrollTo, H!NoBody, H!SameBoot, H!Visible, H!Recovery
<1>9. ASSUME NEW e \in H!Enrollers, H!EnrollFails(e) PROVE HeldEnrolled'
  BY <1>9 DEF H!EnrollFails, H!Busy, H!EnrollTo, H!NoBody
<1>10. ASSUME NEW p \in Plans, NEW o \in {"install-hold", "release-hold"}, H!Prepare(p, o) PROVE HeldEnrolled'
  BY <1>10 DEF H!Prepare
<1>11. ASSUME NEW p \in Plans, H!ExecuteCommit(p) PROVE HeldEnrolled'
  BY <1>11 DEF H!ExecuteCommit, H!SameBoot, H!SessionFree, H!Visible, H!Sessions, H!Recovery
<1>12. ASSUME NEW p \in Plans, H!WriterLocks(p) PROVE HeldEnrolled'
  BY <1>12 DEF H!WriterLocks, H!Before
<1>13. ASSUME NEW p \in Plans, H!WriterReplaces(p) PROVE HeldEnrolled'
  BY <1>13 DEF H!WriterReplaces, H!After
<1>14. ASSUME NEW p \in Plans, H!WriterEnds(p) PROVE HeldEnrolled'
  BY <1>14 DEF H!WriterEnds
<1>15. ASSUME NEW p \in Plans, H!WriterDies(p) PROVE HeldEnrolled'
  BY <1>15 DEF H!WriterDies
<1>16. ASSUME NEW p \in Plans, H!CommitEnds(p) PROVE HeldEnrolled'
  BY <1>16 DEF H!CommitEnds, H!SameBoot, H!Visible, H!Recovery
<1>17. ASSUME NEW p \in Plans, H!Begin(p) PROVE HeldEnrolled'
  BY <1>17 DEF H!Begin, H!Reviewed, H!SessionFree, H!Step, H!Sessions
<1>18. ASSUME NEW p \in Plans, H!ClaimReboot(p) PROVE HeldEnrolled'
  BY <1>18 DEF H!ClaimReboot, H!Step
<1>19. ASSUME NEW p \in Plans, H!RenewForReboot(p) PROVE HeldEnrolled'
  BY <1>19 DEF H!RenewForReboot, H!SameBoot, H!Step, H!Visible, H!Recovery
<1>20. ASSUME NEW p \in Plans, H!SendReboot(p) PROVE HeldEnrolled'
  BY <1>20 DEF H!SendReboot, H!Step
<1>21. ASSUME NEW p \in Plans, H!TransportEnds(p) PROVE HeldEnrolled'
  BY <1>21 DEF H!TransportEnds, H!Step
<1>22. ASSUME NEW p \in Plans, H!SeeRecovery(p) PROVE HeldEnrolled'
  BY <1>22 DEF H!SeeRecovery, H!EnrollTo, H!Step, H!Visible, H!Recovery
<1>23. ASSUME NEW p \in Plans, H!VerifyOnly(p) PROVE HeldEnrolled'
  BY <1>23 DEF H!VerifyOnly, H!SessionFree, H!Step, H!Sessions
<1>24. ASSUME NEW p \in Plans, H!SeeNormal(p) PROVE HeldEnrolled'
  BY <1>24 DEF H!SeeNormal, H!NormalBoot, H!Step
<1>25. ASSUME NEW p \in Plans, H!FlowFails(p) PROVE HeldEnrolled'
  BY <1>25 DEF H!FlowFails, H!Sessions, H!Step
<1>26. ASSUME NEW p \in Plans, H!WorkerLocks(p) PROVE HeldEnrolled'
  BY <1>26 DEF H!WorkerLocks
<1>27. ASSUME NEW p \in Plans, H!WorkerInspects(p) PROVE HeldEnrolled'
  BY <1>27 DEF H!WorkerInspects, H!After, H!Funded
<1>28. ASSUME NEW p \in Plans, H!WorkerReboots(p) PROVE HeldEnrolled'
  BY <1>28 DEF H!WorkerReboots, H!BootsAs, H!Funded, H!Alive
<1>29. ASSUME NEW p \in Plans, H!WorkerDies(p) PROVE HeldEnrolled'
  BY <1>29 DEF H!WorkerDies
<1> HIDE DEF HeldInv, HeldEnrolled, HeldShape
<1> QED BY <1>1, <1>2, <1>3, <1>4, <1>5, <1>6, <1>7, <1>8, <1>9, <1>10, <1>11, <1>12, <1>13,
      <1>14, <1>15, <1>16, <1>17, <1>18, <1>19, <1>20, <1>21, <1>22, <1>23, <1>24, <1>25, <1>26,
      <1>27, <1>28, <1>29
      DEF H!Next

LEMMA HeldWitnessedKept == HeldInv /\ H!Next => HeldWitnessed'
<1> SUFFICES ASSUME HeldInv, H!Next PROVE HeldWitnessed'
  OBVIOUS
<1> USE HeldAssumption DEF HeldInv, HeldEnrolled, HeldOrder, HeldShape, HeldWitnessed,
      H!PlansAssumption, H!target, H!records, H!plan, H!reboots, H!workers, H!Boots, H!Enrollers
<1>1. CASE H!Reset
  BY <1>1 DEF H!Reset, H!BootsAs, H!Alive, H!After, H!Sessions
<1>2. CASE H!Tryboot
  BY <1>2 DEF H!Tryboot, H!BootsAs, H!Alive, H!After, H!Sessions
<1>3. ASSUME NEW as \in H!Recovery, H!OwnerEnrolls(as) PROVE HeldWitnessed'
  <2>1. ~ H!Busy(Owner) /\ UNCHANGED <<number, kind, claimed, enrolled, flow, op, of, commit, proof>>
    BY <1>3 DEF H!OwnerEnrolls
  <2>2. ASSUME NEW v, H!EnrollTo(Owner, v), DOMAIN v = {"step", "boot", "as"},
               v.step = "discover" \/ (v.step = "claim" /\ v.boot \in 1..number)
        PROVE  HeldWitnessed'
    BY <2>1, <2>2 DEF H!EnrollTo, H!After, H!Sessions
  <2>3. CASE H!EnrollTo(Owner, [step |-> "discover", boot |-> 0, as |-> as])
    BY <2>2, <2>3
  <2>4. ASSUME NEW b \in 2..number, H!EnrollTo(Owner, [step |-> "claim", boot |-> b, as |-> as])
        PROVE  HeldWitnessed'
    BY <2>2, <2>4
  <2> QED BY <1>3, <2>3, <2>4 DEF H!OwnerEnrolls
<1>4. ASSUME NEW e \in H!Enrollers, H!Discover(e) PROVE HeldWitnessed'
  BY <1>4 DEF H!Discover, H!EnrollTo, H!Visible, H!Recovery, H!After, H!Sessions
<1>5. ASSUME NEW e \in H!Enrollers, H!Claim(e) PROVE HeldWitnessed'
  BY <1>5 DEF H!Claim, H!EnrollTo, H!After, H!Sessions
<1>6. ASSUME NEW e \in H!Enrollers, H!InspectBoot(e) PROVE HeldWitnessed'
  BY <1>6 DEF H!InspectBoot, H!EnrollTo, H!SameBoot, H!Visible, H!Recovery, H!After, H!Sessions
<1>7. ASSUME NEW e \in H!Enrollers, H!CaptureSelection(e) PROVE HeldWitnessed'
  BY <1>7 DEF H!CaptureSelection, H!EnrollTo, H!Selected, H!SameBoot, H!Visible, H!Recovery,
      H!After, H!Sessions
<1>8. ASSUME NEW e \in H!Enrollers, H!Enroll(e) PROVE HeldWitnessed'
  BY <1>8 DEF H!Enroll, H!EnrollTo, H!NoBody, H!SameBoot, H!Visible, H!Recovery, H!After,
      H!Sessions
<1>9. ASSUME NEW e \in H!Enrollers, H!EnrollFails(e) PROVE HeldWitnessed'
  BY <1>9 DEF H!EnrollFails, H!Busy, H!EnrollTo, H!NoBody, H!After, H!Sessions
<1>10. ASSUME NEW p \in Plans, NEW o \in {"install-hold", "release-hold"}, H!Prepare(p, o) PROVE HeldWitnessed'
  BY <1>10 DEF H!Prepare, H!After, H!Sessions
<1>11. ASSUME NEW p \in Plans, H!ExecuteCommit(p) PROVE HeldWitnessed'
  BY <1>11 DEF H!ExecuteCommit, H!SameBoot, H!SessionFree, H!Visible, H!Sessions, H!Recovery,
      H!After
<1>12. ASSUME NEW p \in Plans, H!WriterLocks(p) PROVE HeldWitnessed'
  BY <1>12 DEF H!WriterLocks, H!Before, H!After, H!Sessions
<1>13. ASSUME NEW p \in Plans, H!WriterReplaces(p) PROVE HeldWitnessed'
  BY <1>13 DEF H!WriterReplaces, H!After, H!Sessions
<1>14. ASSUME NEW p \in Plans, H!WriterEnds(p) PROVE HeldWitnessed'
  BY <1>14 DEF H!WriterEnds, H!After, H!Sessions
<1>15. ASSUME NEW p \in Plans, H!WriterDies(p) PROVE HeldWitnessed'
  BY <1>15 DEF H!WriterDies, H!After, H!Sessions
<1>16. ASSUME NEW p \in Plans, H!CommitEnds(p) PROVE HeldWitnessed'
  BY <1>16 DEF H!CommitEnds, H!SameBoot, H!Visible, H!Recovery, H!After, H!Sessions
<1>17. ASSUME NEW p \in Plans, H!Begin(p) PROVE HeldWitnessed'
  BY <1>17 DEF H!Begin, H!Reviewed, H!SessionFree, H!Step, H!Sessions, H!After
<1>18. ASSUME NEW p \in Plans, H!ClaimReboot(p) PROVE HeldWitnessed'
  BY <1>18 DEF H!ClaimReboot, H!Step, H!After, H!Sessions
<1>19. ASSUME NEW p \in Plans, H!RenewForReboot(p) PROVE HeldWitnessed'
  BY <1>19 DEF H!RenewForReboot, H!SameBoot, H!Step, H!Visible, H!Recovery, H!After, H!Sessions
<1>20. ASSUME NEW p \in Plans, H!SendReboot(p) PROVE HeldWitnessed'
  BY <1>20 DEF H!SendReboot, H!Step, H!After, H!Sessions
<1>21. ASSUME NEW p \in Plans, H!TransportEnds(p) PROVE HeldWitnessed'
  BY <1>21 DEF H!TransportEnds, H!Step, H!After, H!Sessions
<1>22. ASSUME NEW p \in Plans, H!SeeRecovery(p) PROVE HeldWitnessed'
  BY <1>22 DEF H!SeeRecovery, H!EnrollTo, H!Step, H!Visible, H!Recovery, H!After, H!Sessions
<1>23. ASSUME NEW p \in Plans, H!VerifyOnly(p) PROVE HeldWitnessed'
  BY <1>23 DEF H!VerifyOnly, H!SessionFree, H!Step, H!Sessions, H!After
<1>24. ASSUME NEW p \in Plans, H!SeeNormal(p) PROVE HeldWitnessed'
  BY <1>24 DEF H!SeeNormal, H!NormalBoot, H!Step, H!After, H!Sessions
<1>25. ASSUME NEW p \in Plans, H!FlowFails(p) PROVE HeldWitnessed'
  BY <1>25 DEF H!FlowFails, H!Sessions, H!Step, H!After
<1>26. ASSUME NEW p \in Plans, H!WorkerLocks(p) PROVE HeldWitnessed'
  BY <1>26 DEF H!WorkerLocks, H!After, H!Sessions
<1>27. ASSUME NEW p \in Plans, H!WorkerInspects(p) PROVE HeldWitnessed'
  BY <1>27 DEF H!WorkerInspects, H!After, H!Funded, H!Sessions
<1>28. ASSUME NEW p \in Plans, H!WorkerReboots(p) PROVE HeldWitnessed'
  BY <1>28 DEF H!WorkerReboots, H!BootsAs, H!Funded, H!Alive, H!After, H!Sessions
<1>29. ASSUME NEW p \in Plans, H!WorkerDies(p) PROVE HeldWitnessed'
  BY <1>29 DEF H!WorkerDies, H!After, H!Sessions
<1> HIDE DEF HeldInv, HeldEnrolled, HeldOrder, HeldShape, HeldWitnessed
<1> QED BY <1>1, <1>2, <1>3, <1>4, <1>5, <1>6, <1>7, <1>8, <1>9, <1>10, <1>11, <1>12, <1>13,
      <1>14, <1>15, <1>16, <1>17, <1>18, <1>19, <1>20, <1>21, <1>22, <1>23, <1>24, <1>25, <1>26,
      <1>27, <1>28, <1>29
      DEF H!Next

LEMMA HeldInvBegins == H!Init => HeldInv
  BY HeldAssumption DEF H!Init, HeldInv, HeldShape, HeldLocked, HeldOrder, HeldReboots, HeldEnrolled,
      HeldWitnessed, H!PlansAssumption, H!Boots, H!Enrollers, H!NoBody, H!Sessions

LEMMA HeldInvKept == HeldInv /\ [H!Next]_(H!vars) => HeldInv'
<1>1. HeldInv /\ H!Next => HeldInv'
  BY HeldShapeKept, HeldLockedKept, HeldOrderKept, HeldRebootsKept, HeldEnrolledKept,
     HeldWitnessedKept DEF HeldInv
<1>2. HeldInv /\ UNCHANGED H!vars => HeldInv'
  BY DEF HeldInv, HeldShape, HeldLocked, HeldOrder, HeldReboots, HeldEnrolled, HeldWitnessed,
      H!vars, H!target, H!records, H!plan, H!reboots, H!workers
<1> QED BY <1>1, <1>2

(* For any number of plans, enrollments and boots: a reboot asked for with *)
(* a plan ends the boot the plan is bound to, once, and lands where the    *)
(* plan's selector points, however late its worker starts.                 *)
THEOREM RebootsStayApproved == H!Spec => []RebootsWhereApproved
<1>1. HeldInv => RebootsWhereApproved
  BY DEF HeldInv, HeldReboots, RebootsWhereApproved, H!RebootsWhereApproved
<1> QED BY HeldInvBegins, HeldInvKept, <1>1, PTL DEF H!Spec

(* What the host has written down about a boot is true of that boot, and   *)
(* every boot that a plan brought about was asked for under its record.    *)
THEOREM EvidenceStaysTrue == H!Spec => []EvidenceIsTrue
<1>1. HeldInv => EvidenceIsTrue
  BY DEF HeldInv, HeldReboots, HeldEnrolled, HeldWitnessed, EvidenceIsTrue, H!EvidenceIsTrue
<1> QED BY HeldInvBegins, HeldInvKept, <1>1, PTL DEF H!Spec

-----------------------------------------------------------------------------
(* The campaign of plans on one card (Campaign).                           *)

Ended == {"completed", "fenced-not-started"}
IsRoot(j) == plan[j].op \in C!RootOps
IsRelease(j) == plan[j].op = "release-hold"

CampaignShape ==
  /\ boots \in Seq({"trial", "held", "normal"}) /\ 0 < Len(boots)
  /\ DOMAIN plan = Journals /\ DOMAIN attempt = Journals
  /\ \A j \in Journals :
       attempt[j] \in {"none", "sent", "writing", "incomplete"} \cup Ended

CampaignPlans ==
  \A j \in Journals :
    /\ plan[j].op \in {"none"} \cup C!HoldOps \cup C!RootOps /\ plan[j].boot \in 0..Len(boots)
    /\ attempt[j] # "none" => plan[j] # C!NoPlan
    /\ IsRelease(j) => plan[j].guard \in C!Whole
    /\ IsRoot(j) => plan[j].after \in C!Whole
    /\ attempt[j] = "writing" => IsRoot(j) /\ plan[j].boot = Len(boots) /\ config_txt = "held"

(* What a reconciliation found about an attempt of this very boot is final.*)
CampaignQuery ==
  query # C!NoQuery =>
    /\ DOMAIN query = {"of", "outcome", "selector"}
    /\ query.of \in Journals /\ attempt[query.of] # "none"
    /\ query.outcome \in {"previous-boot-ended", "incomplete"} \cup Ended
    /\ query.outcome = "previous-boot-ended" => plan[query.of].boot # Len(boots)
    /\ query.outcome \in Ended => attempt[query.of] = query.outcome

CampaignEvidence ==
  \A e \in evidence :
    /\ e.boot \in 1..Len(boots)
    /\ e.status = "source-matched" =>
         /\ e.of \in Journals /\ attempt[e.of] # "none"
         /\ ~ e.again /\ IsRoot(e.of) /\ plan[e.of].boot = e.boot => attempt[e.of] \in Ended

(* A release rests on a root plan that is over, in its own boot at least.  *)
CampaignReleases ==
  \A l \in Journals : IsRelease(l) =>
    \E k \in Journals : IsRoot(k) /\ (plan[k].boot = plan[l].boot => attempt[k] \in Ended)

(* Nothing that a reset would lose, unless a writer of this boot is not    *)
(* finished.                                                               *)
CampaignSynced ==
  (\A k \in Journals : IsRoot(k) /\ plan[k].boot = Len(boots) =>
     attempt[k] \notin {"writing", "incomplete"}) => root = disk

(* No boot has both a release plan and a root transfer that did not finish.*)
Settled ==
  \A k, l \in Journals :
    IsRoot(k) /\ IsRelease(l) /\ plan[k].boot = plan[l].boot => attempt[k] # "incomplete"

CampaignNormal ==
  Settled /\ config_txt = "normal" => root \in C!Whole /\ disk \in C!Whole

CampaignInv ==
  /\ CampaignShape /\ CampaignPlans /\ CampaignQuery /\ CampaignEvidence /\ CampaignReleases
  /\ CampaignSynced /\ CampaignNormal

LEMMA CampaignShapeKept == CampaignInv /\ C!Next => CampaignShape'
<1> SUFFICES ASSUME CampaignInv, C!Next PROVE CampaignShape'
  OBVIOUS
<1> USE DEF CampaignInv, CampaignShape, Ended, C!card, C!boot, C!HoldOps, C!RootOps
<1>1. CASE C!reconcile
  BY <1>1 DEF C!reconcile, C!Again, C!ClassifyHold, C!Keep, C!NoQuery, C!NobodyWrites,
      C!classify, C!Selected, C!NoPlan, C!Conflict
<1>2. CASE C!writeback
  BY <1>2 DEF C!writeback
<1>3. CASE C!reset
  BY <1>3 DEF C!reset, C!NoQuery, C!NoPlan
<1>4. ASSUME NEW j \in Journals, C!prepare_hold(j) PROVE CampaignShape'
  BY <1>4 DEF C!prepare_hold, C!Draft, C!NoPlan, C!Session, C!Idle, C!NoQuery
<1>5. ASSUME NEW j \in Journals, C!prepare_root(j) PROVE CampaignShape'
  BY <1>5 DEF C!prepare_root, C!Draft, C!NoPlan, C!Session, C!Idle, C!NoQuery
<1>6. ASSUME NEW j \in Journals, C!prepare_release(j) PROVE CampaignShape'
  BY <1>6 DEF C!prepare_release, C!Draft, C!Releasable, C!NoPlan, C!Session, C!Idle, C!NoQuery
<1>7. ASSUME NEW j \in Journals, C!execute(j) PROVE CampaignShape'
  BY <1>7 DEF C!execute, C!Session, C!load, C!Idle, C!NoPlan, C!NoQuery
<1>8. ASSUME NEW j \in Journals, C!commit(j) PROVE CampaignShape'
  BY <1>8 DEF C!commit, C!Arrives, C!Selected, C!verify_guards, C!NobodyWrites
<1>9. ASSUME NEW j \in Journals, C!stop(j) PROVE CampaignShape'
  BY <1>9 DEF C!stop, C!Arrives, C!NobodyWrites
<1>10. ASSUME NEW j \in Journals, C!write(j) PROVE CampaignShape'
  BY <1>10 DEF C!write, C!Arrives, C!Unfinished, C!NobodyWrites
<1>11. ASSUME NEW j \in Journals, C!last_chunk(j) PROVE CampaignShape'
  BY <1>11 DEF C!last_chunk, C!Writer
<1>12. ASSUME NEW j \in Journals, C!finish(j) PROVE CampaignShape'
  BY <1>12 DEF C!finish, C!Writer
<1>13. ASSUME NEW j \in Journals, C!kill(j) PROVE CampaignShape'
  BY <1>13 DEF C!kill, C!Writer
<1>14. ASSUME NEW j \in Journals, C!fence(j) PROVE CampaignShape'
  BY <1>14 DEF C!fence, C!Dispatched, C!NobodyWrites, C!Outcome, C!Recovering, C!Session,
      C!Idle, C!NoQuery, C!NoPlan
<1>15. CASE UNCHANGED <<attempt, boots, plan>>
  BY <1>15
<1> HIDE DEF CampaignInv, CampaignShape
<1> QED BY <1>1, <1>2, <1>3, <1>4, <1>5, <1>6, <1>7, <1>8, <1>9, <1>10, <1>11, <1>12, <1>13,
      <1>14, <1>15
      DEF C!Next, C!give_up, C!capture, C!inspect, C!live, C!card

LEMMA CampaignPlansKept == CampaignInv /\ C!Next => CampaignPlans'
<1> SUFFICES ASSUME CampaignInv, C!Next PROVE CampaignPlans'
  OBVIOUS
<1> USE DEF CampaignInv, CampaignEvidence, CampaignPlans, CampaignShape, Ended, C!card, C!boot,
      C!HoldOps, C!RootOps
<1>1. CASE C!give_up
  BY <1>1 DEF C!give_up, C!NoQuery, C!NoPlan, C!Whole, IsRelease, IsRoot
<1>2. CASE C!capture
  BY <1>2 DEF C!capture, C!Keep, C!NobodyWrites, C!Recovering, C!Session, C!Idle, C!NoQuery,
      C!NoPlan, C!Whole, IsRelease, IsRoot
<1>3. CASE C!inspect
  BY <1>3 DEF C!inspect, C!NoQuery, C!NobodyWrites, C!NoPlan, C!Whole, IsRelease, IsRoot
<1>4. CASE C!reconcile
  BY <1>4 DEF C!reconcile, C!Again, C!ClassifyHold, C!Keep, C!NoQuery, C!NobodyWrites,
      C!classify, C!Selected, C!NoPlan, C!Conflict, C!Whole, IsRelease, IsRoot
<1>5. CASE C!writeback
  BY <1>5 DEF C!writeback, C!NoPlan, C!Whole, IsRelease, IsRoot
<1>6. CASE C!reset
  BY <1>6 DEF C!reset, C!NoQuery, C!NoPlan, C!Whole, IsRelease, IsRoot
<1>7. CASE C!live
  BY <1>7 DEF C!live, C!Recovering, C!NoPlan, C!Whole, IsRelease, IsRoot
<1>8. ASSUME NEW j \in Journals, C!prepare_hold(j) PROVE CampaignPlans'
  BY <1>8 DEF C!prepare_hold, C!Draft, C!NoPlan, C!Session, C!Idle, C!NoQuery, C!Whole,
      IsRelease, IsRoot
<1>9. ASSUME NEW j \in Journals, C!prepare_root(j) PROVE CampaignPlans'
  BY <1>9 DEF C!prepare_root, C!Draft, C!NoPlan, C!Session, C!Idle, C!NoQuery, C!Whole,
      IsRelease, IsRoot
<1>10. ASSUME NEW j \in Journals, C!prepare_release(j) PROVE CampaignPlans'
  BY <1>10 DEF C!prepare_release, C!Draft, C!Releasable, C!NoPlan, C!Session, C!Idle, C!NoQuery,
      C!Whole, IsRelease, IsRoot
<1>11. ASSUME NEW j \in Journals, C!execute(j) PROVE CampaignPlans'
  BY <1>11 DEF C!execute, C!Session, C!load, C!Idle, C!NoPlan, C!NoQuery, C!Whole, IsRelease,
      IsRoot
<1>12. ASSUME NEW j \in Journals, C!commit(j) PROVE CampaignPlans'
  BY <1>12 DEF C!commit, C!Arrives, C!Selected, C!verify_guards, C!NobodyWrites, C!NoPlan,
      C!Whole, IsRelease, IsRoot
<1>13. ASSUME NEW j \in Journals, C!stop(j) PROVE CampaignPlans'
  BY <1>13 DEF C!stop, C!Arrives, C!NobodyWrites, C!NoPlan, C!Whole, IsRelease, IsRoot
<1>14. ASSUME NEW j \in Journals, C!write(j) PROVE CampaignPlans'
  BY <1>14 DEF C!write, C!Arrives, C!Unfinished, C!NobodyWrites, C!NoPlan, C!Whole, IsRelease,
      IsRoot
<1>15. ASSUME NEW j \in Journals, C!last_chunk(j) PROVE CampaignPlans'
  BY <1>15 DEF C!last_chunk, C!Writer, C!NoPlan, C!Whole, IsRelease, IsRoot
<1>16. ASSUME NEW j \in Journals, C!finish(j) PROVE CampaignPlans'
  BY <1>16 DEF C!finish, C!Writer, C!NoPlan, C!Whole, IsRelease, IsRoot
<1>17. ASSUME NEW j \in Journals, C!kill(j) PROVE CampaignPlans'
  BY <1>17 DEF C!kill, C!Writer, C!NoPlan, C!Whole, IsRelease, IsRoot
<1>18. ASSUME NEW j \in Journals, C!fence(j) PROVE CampaignPlans'
  BY <1>18 DEF C!fence, C!Dispatched, C!NobodyWrites, C!Outcome, C!Recovering, C!Session,
      C!Idle, C!NoQuery, C!NoPlan, C!Whole, IsRelease, IsRoot
<1> HIDE DEF CampaignInv, CampaignEvidence, CampaignPlans, CampaignShape
<1> QED BY <1>1, <1>2, <1>3, <1>4, <1>5, <1>6, <1>7, <1>8, <1>9, <1>10, <1>11, <1>12, <1>13,
      <1>14, <1>15, <1>16, <1>17, <1>18
      DEF C!Next

LEMMA CampaignQueryKept == CampaignInv /\ C!Next => CampaignQuery'
<1> SUFFICES ASSUME CampaignInv, C!Next PROVE CampaignQuery'
  OBVIOUS
<1> USE DEF CampaignInv, CampaignPlans, CampaignQuery, CampaignShape, Ended, C!card, C!boot,
      C!HoldOps, C!RootOps
<1>1. CASE C!give_up
  BY <1>1 DEF C!give_up, C!NoQuery, C!NoPlan, C!Whole, IsRelease, IsRoot
<1>2. CASE C!capture
  BY <1>2 DEF C!capture, C!Keep, C!NobodyWrites, C!Recovering, C!Session, C!Idle, C!NoQuery,
      C!NoPlan, C!Whole, IsRelease, IsRoot
<1>3. CASE C!inspect
  BY <1>3 DEF C!inspect, C!NoQuery, C!NobodyWrites, C!NoPlan, C!Whole, IsRelease, IsRoot
<1>4. CASE C!reconcile
  BY <1>4 DEF C!reconcile, C!Again, C!ClassifyHold, C!Keep, C!NoQuery, C!NobodyWrites,
      C!classify, C!Selected, C!NoPlan, C!Conflict, C!Whole, IsRelease, IsRoot
<1>5. CASE C!writeback
  BY <1>5 DEF C!writeback, C!NoQuery, C!NoPlan, C!Whole, IsRelease, IsRoot
<1>6. CASE C!reset
  BY <1>6 DEF C!reset, C!NoQuery, C!NoPlan, C!Whole, IsRelease, IsRoot
<1>7. CASE C!live
  BY <1>7 DEF C!live, C!Recovering, C!NoQuery, C!NoPlan, C!Whole, IsRelease, IsRoot
<1>8. ASSUME NEW j \in Journals, C!prepare_hold(j) PROVE CampaignQuery'
  BY <1>8 DEF C!prepare_hold, C!Draft, C!NoPlan, C!Session, C!Idle, C!NoQuery, C!Whole,
      IsRelease, IsRoot
<1>9. ASSUME NEW j \in Journals, C!prepare_root(j) PROVE CampaignQuery'
  BY <1>9 DEF C!prepare_root, C!Draft, C!NoPlan, C!Session, C!Idle, C!NoQuery, C!Whole,
      IsRelease, IsRoot
<1>10. ASSUME NEW j \in Journals, C!prepare_release(j) PROVE CampaignQuery'
  BY <1>10 DEF C!prepare_release, C!Draft, C!Releasable, C!NoPlan, C!Session, C!Idle, C!NoQuery,
      C!Whole, IsRelease, IsRoot
<1>11. ASSUME NEW j \in Journals, C!execute(j) PROVE CampaignQuery'
  BY <1>11 DEF C!execute, C!Session, C!load, C!Idle, C!NoPlan, C!NoQuery, C!Whole, IsRelease,
      IsRoot
<1>12. ASSUME NEW j \in Journals, C!commit(j) PROVE CampaignQuery'
  BY <1>12 DEF C!commit, C!Arrives, C!Selected, C!verify_guards, C!NobodyWrites, C!NoQuery,
      C!NoPlan, C!Whole, IsRelease, IsRoot
<1>13. ASSUME NEW j \in Journals, C!stop(j) PROVE CampaignQuery'
  BY <1>13 DEF C!stop, C!Arrives, C!NobodyWrites, C!NoQuery, C!NoPlan, C!Whole, IsRelease,
      IsRoot
<1>14. ASSUME NEW j \in Journals, C!write(j) PROVE CampaignQuery'
  BY <1>14 DEF C!write, C!Arrives, C!Unfinished, C!NobodyWrites, C!NoQuery, C!NoPlan, C!Whole,
      IsRelease, IsRoot
<1>15. ASSUME NEW j \in Journals, C!last_chunk(j) PROVE CampaignQuery'
  BY <1>15 DEF C!last_chunk, C!Writer, C!NoQuery, C!NoPlan, C!Whole, IsRelease, IsRoot
<1>16. ASSUME NEW j \in Journals, C!finish(j) PROVE CampaignQuery'
  BY <1>16 DEF C!finish, C!Writer, C!NoQuery, C!NoPlan, C!Whole, IsRelease, IsRoot
<1>17. ASSUME NEW j \in Journals, C!kill(j) PROVE CampaignQuery'
  BY <1>17 DEF C!kill, C!Writer, C!NoQuery, C!NoPlan, C!Whole, IsRelease, IsRoot
<1>18. ASSUME NEW j \in Journals, C!fence(j) PROVE CampaignQuery'
  BY <1>18 DEF C!fence, C!Dispatched, C!NobodyWrites, C!Outcome, C!Recovering, C!Session,
      C!Idle, C!NoQuery, C!NoPlan, C!Whole, IsRelease, IsRoot
<1> HIDE DEF CampaignInv, CampaignPlans, CampaignQuery, CampaignShape
<1> QED BY <1>1, <1>2, <1>3, <1>4, <1>5, <1>6, <1>7, <1>8, <1>9, <1>10, <1>11, <1>12, <1>13,
      <1>14, <1>15, <1>16, <1>17, <1>18
      DEF C!Next

LEMMA CampaignEvidenceKept == CampaignInv /\ C!Next => CampaignEvidence'
<1> SUFFICES ASSUME CampaignInv, C!Next PROVE CampaignEvidence'
  OBVIOUS
<1> USE DEF CampaignInv, CampaignEvidence, CampaignPlans, CampaignQuery, CampaignShape, Ended,
      C!card, C!boot, C!HoldOps, C!RootOps
<1>1. CASE C!give_up
  BY <1>1 DEF C!give_up, C!NoQuery, C!NoPlan, IsRoot, C!Whole, IsRelease
<1>2. CASE C!capture
  BY <1>2 DEF C!capture, C!Keep, C!NobodyWrites, C!Recovering, C!Session, C!Idle, C!NoQuery,
      C!NoPlan, IsRoot, C!Whole, IsRelease
<1>3. CASE C!inspect
  BY <1>3 DEF C!inspect, C!NoQuery, C!NobodyWrites, C!NoPlan, IsRoot, C!Whole, IsRelease
<1>4. CASE C!reconcile
  <2> DEFINE p == plan[query.of]
             hold == p.op \in C!HoldOps
             found == [of |-> query.of, boot |-> C!boot, root |-> root, selector |-> config_txt,
                       status |-> IF hold THEN C!ClassifyHold(p, query) ELSE C!classify(p, query),
                       again |-> ~ hold /\ C!Again(p, query)]
  <2>1. query # C!NoQuery /\ UNCHANGED <<boots, plan, attempt>>
    BY <1>4 DEF C!reconcile
  <2>2. evidence' = evidence \/ evidence' = evidence \cup {found}
    BY <1>4 DEF C!reconcile, C!Keep
  <2>3. found.of = query.of /\ found.boot = Len(boots)
    OBVIOUS
  <2>4. ASSUME found.status = "source-matched" PROVE ~ hold
    <3>1. SUFFICES ASSUME hold PROVE FALSE
      OBVIOUS
    <3>2. found.status = C!ClassifyHold(p, query)
      BY <3>1
    <3> HIDE DEF found, hold
    <3> QED BY <2>4, <3>2 DEF C!ClassifyHold
  <2>5. found.again = (~ hold /\ C!Again(p, query))
    OBVIOUS
  <2> HIDE DEF found, hold
  <2>6. found.boot \in 1..Len(boots)
    BY <2>3
  <2>7. found.status = "source-matched" /\ ~ found.again /\ plan[query.of].boot = found.boot =>
          attempt[query.of] \in Ended
    BY <2>1, <2>3, <2>4, <2>5 DEF C!Again
  <2> QED BY <2>1, <2>2, <2>3, <2>6, <2>7 DEF IsRoot
<1>5. CASE C!writeback
  BY <1>5 DEF C!writeback, IsRoot, C!NoPlan, C!Whole, IsRelease, C!NoQuery
<1>6. CASE C!reset
  BY <1>6 DEF C!reset, C!NoQuery, C!NoPlan, IsRoot, C!Whole, IsRelease
<1>7. CASE C!live
  BY <1>7 DEF C!live, C!Recovering, IsRoot, C!NoPlan, C!Whole, IsRelease, C!NoQuery
<1>8. ASSUME NEW j \in Journals, C!prepare_hold(j) PROVE CampaignEvidence'
  BY <1>8 DEF C!prepare_hold, C!Draft, C!NoPlan, C!Session, C!Idle, C!NoQuery, IsRoot, C!Whole,
      IsRelease
<1>9. ASSUME NEW j \in Journals, C!prepare_root(j) PROVE CampaignEvidence'
  BY <1>9 DEF C!prepare_root, C!Draft, C!NoPlan, C!Session, C!Idle, C!NoQuery, IsRoot, C!Whole,
      IsRelease
<1>10. ASSUME NEW j \in Journals, C!prepare_release(j) PROVE CampaignEvidence'
  BY <1>10 DEF C!prepare_release, C!Draft, C!Releasable, C!NoPlan, C!Session, C!Idle, C!NoQuery,
      IsRoot, C!Whole, IsRelease
<1>11. ASSUME NEW j \in Journals, C!execute(j) PROVE CampaignEvidence'
  BY <1>11 DEF C!execute, C!Session, C!load, C!Idle, C!NoPlan, C!NoQuery, IsRoot, C!Whole,
      IsRelease
<1>12. ASSUME NEW j \in Journals, C!commit(j) PROVE CampaignEvidence'
  BY <1>12 DEF C!commit, C!Arrives, C!Selected, C!verify_guards, C!NobodyWrites, IsRoot,
      C!NoPlan, C!Whole, IsRelease, C!NoQuery
<1>13. ASSUME NEW j \in Journals, C!stop(j) PROVE CampaignEvidence'
  BY <1>13 DEF C!stop, C!Arrives, C!NobodyWrites, IsRoot, C!NoPlan, C!Whole, IsRelease,
      C!NoQuery
<1>14. ASSUME NEW j \in Journals, C!write(j) PROVE CampaignEvidence'
  BY <1>14 DEF C!write, C!Arrives, C!Unfinished, C!NobodyWrites, IsRoot, C!NoPlan, C!Whole,
      IsRelease, C!NoQuery
<1>15. ASSUME NEW j \in Journals, C!last_chunk(j) PROVE CampaignEvidence'
  BY <1>15 DEF C!last_chunk, C!Writer, IsRoot, C!NoPlan, C!Whole, IsRelease, C!NoQuery
<1>16. ASSUME NEW j \in Journals, C!finish(j) PROVE CampaignEvidence'
  BY <1>16 DEF C!finish, C!Writer, IsRoot, C!NoPlan, C!Whole, IsRelease, C!NoQuery
<1>17. ASSUME NEW j \in Journals, C!kill(j) PROVE CampaignEvidence'
  BY <1>17 DEF C!kill, C!Writer, IsRoot, C!NoPlan, C!Whole, IsRelease, C!NoQuery
<1>18. ASSUME NEW j \in Journals, C!fence(j) PROVE CampaignEvidence'
  BY <1>18 DEF C!fence, C!Dispatched, C!NobodyWrites, C!Outcome, C!Recovering, C!Session,
      C!Idle, C!NoQuery, C!NoPlan, IsRoot, C!Whole, IsRelease
<1> HIDE DEF CampaignInv, CampaignEvidence, CampaignPlans, CampaignQuery, CampaignShape
<1> QED BY <1>1, <1>2, <1>3, <1>4, <1>5, <1>6, <1>7, <1>8, <1>9, <1>10, <1>11, <1>12, <1>13,
      <1>14, <1>15, <1>16, <1>17, <1>18
      DEF C!Next

LEMMA CampaignReleasesKept == CampaignInv /\ C!Next => CampaignReleases'
<1> SUFFICES ASSUME CampaignInv, C!Next PROVE CampaignReleases'
  OBVIOUS
<1> USE DEF CampaignInv, CampaignEvidence, CampaignPlans, CampaignReleases, CampaignShape,
      Ended, C!card, C!boot, C!HoldOps, C!RootOps
<1>1. CASE C!give_up
  BY <1>1 DEF C!give_up, C!NoQuery, C!NoPlan, IsRelease, IsRoot, C!Whole
<1>2. CASE C!capture
  BY <1>2 DEF C!capture, C!Keep, C!NobodyWrites, C!Recovering, C!Session, C!Idle, C!NoQuery,
      C!NoPlan, IsRelease, IsRoot, C!Whole
<1>3. CASE C!inspect
  BY <1>3 DEF C!inspect, C!NoQuery, C!NobodyWrites, C!NoPlan, IsRelease, IsRoot, C!Whole
<1>4. CASE C!reconcile
  BY <1>4 DEF C!reconcile, C!Again, C!ClassifyHold, C!Keep, C!NoQuery, C!NobodyWrites,
      C!classify, C!Selected, C!NoPlan, C!Conflict, IsRelease, IsRoot, C!Whole
<1>5. CASE C!writeback
  BY <1>5 DEF C!writeback, IsRelease, IsRoot, C!NoPlan, C!Whole
<1>6. CASE C!reset
  BY <1>6 DEF C!reset, C!NoQuery, C!NoPlan, IsRelease, IsRoot, C!Whole
<1>7. CASE C!live
  BY <1>7 DEF C!live, C!Recovering, IsRelease, IsRoot, C!NoPlan, C!Whole
<1>8. ASSUME NEW j \in Journals, C!prepare_hold(j) PROVE CampaignReleases'
  BY <1>8 DEF C!prepare_hold, C!Draft, C!NoPlan, C!Session, C!Idle, C!NoQuery, IsRelease,
      IsRoot, C!Whole
<1>9. ASSUME NEW j \in Journals, C!prepare_root(j) PROVE CampaignReleases'
  BY <1>9 DEF C!prepare_root, C!Draft, C!NoPlan, C!Session, C!Idle, C!NoQuery, IsRelease,
      IsRoot, C!Whole
<1>10. ASSUME NEW j \in Journals, C!prepare_release(j) PROVE CampaignReleases'
  BY <1>10 DEF C!prepare_release, C!Draft, C!Releasable, C!NoPlan, C!Session, C!Idle, C!NoQuery,
      IsRelease, IsRoot, C!Whole
<1>11. ASSUME NEW j \in Journals, C!execute(j) PROVE CampaignReleases'
  BY <1>11 DEF C!execute, C!Session, C!load, C!Idle, C!NoPlan, C!NoQuery, IsRelease, IsRoot,
      C!Whole
<1>12. ASSUME NEW j \in Journals, C!commit(j) PROVE CampaignReleases'
  BY <1>12 DEF C!commit, C!Arrives, C!Selected, C!verify_guards, C!NobodyWrites, IsRelease,
      IsRoot, C!NoPlan, C!Whole
<1>13. ASSUME NEW j \in Journals, C!stop(j) PROVE CampaignReleases'
  BY <1>13 DEF C!stop, C!Arrives, C!NobodyWrites, IsRelease, IsRoot, C!NoPlan, C!Whole
<1>14. ASSUME NEW j \in Journals, C!write(j) PROVE CampaignReleases'
  BY <1>14 DEF C!write, C!Arrives, C!Unfinished, C!NobodyWrites, IsRelease, IsRoot, C!NoPlan,
      C!Whole
<1>15. ASSUME NEW j \in Journals, C!last_chunk(j) PROVE CampaignReleases'
  BY <1>15 DEF C!last_chunk, C!Writer, IsRelease, IsRoot, C!NoPlan, C!Whole
<1>16. ASSUME NEW j \in Journals, C!finish(j) PROVE CampaignReleases'
  BY <1>16 DEF C!finish, C!Writer, IsRelease, IsRoot, C!NoPlan, C!Whole
<1>17. ASSUME NEW j \in Journals, C!kill(j) PROVE CampaignReleases'
  BY <1>17 DEF C!kill, C!Writer, IsRelease, IsRoot, C!NoPlan, C!Whole
<1>18. ASSUME NEW j \in Journals, C!fence(j) PROVE CampaignReleases'
  BY <1>18 DEF C!fence, C!Dispatched, C!NobodyWrites, C!Outcome, C!Recovering, C!Session,
      C!Idle, C!NoQuery, C!NoPlan, IsRelease, IsRoot, C!Whole
<1> HIDE DEF CampaignInv, CampaignEvidence, CampaignPlans, CampaignReleases, CampaignShape
<1> QED BY <1>1, <1>2, <1>3, <1>4, <1>5, <1>6, <1>7, <1>8, <1>9, <1>10, <1>11, <1>12, <1>13,
      <1>14, <1>15, <1>16, <1>17, <1>18
      DEF C!Next

LEMMA CampaignSyncedKept == CampaignInv /\ C!Next => CampaignSynced'
<1> SUFFICES ASSUME CampaignInv, C!Next PROVE CampaignSynced'
  OBVIOUS
<1> USE DEF CampaignInv, CampaignPlans, CampaignShape, CampaignSynced, Ended, C!card, C!boot,
      C!HoldOps, C!RootOps
<1>1. CASE C!give_up
  BY <1>1 DEF C!give_up, C!NoQuery, C!NoPlan, IsRoot, C!Whole, IsRelease
<1>2. CASE C!capture
  BY <1>2 DEF C!capture, C!Keep, C!NobodyWrites, C!Recovering, C!Session, C!Idle, C!NoQuery,
      C!NoPlan, IsRoot, C!Whole, IsRelease
<1>3. CASE C!inspect
  BY <1>3 DEF C!inspect, C!NoQuery, C!NobodyWrites, C!NoPlan, IsRoot, C!Whole, IsRelease
<1>4. CASE C!reconcile
  BY <1>4 DEF C!reconcile, C!Again, C!ClassifyHold, C!Keep, C!NoQuery, C!NobodyWrites,
      C!classify, C!Selected, C!NoPlan, C!Conflict, IsRoot, C!Whole, IsRelease
<1>5. CASE C!writeback
  BY <1>5 DEF C!writeback, IsRoot, C!NoPlan, C!Whole, IsRelease
<1>6. CASE C!reset
  BY <1>6 DEF C!reset, C!NoQuery, C!NoPlan, IsRoot, C!Whole, IsRelease
<1>7. CASE C!live
  BY <1>7 DEF C!live, C!Recovering, IsRoot, C!NoPlan, C!Whole, IsRelease
<1>8. ASSUME NEW j \in Journals, C!prepare_hold(j) PROVE CampaignSynced'
  BY <1>8 DEF C!prepare_hold, C!Draft, C!NoPlan, C!Session, C!Idle, C!NoQuery, IsRoot, C!Whole,
      IsRelease
<1>9. ASSUME NEW j \in Journals, C!prepare_root(j) PROVE CampaignSynced'
  BY <1>9 DEF C!prepare_root, C!Draft, C!NoPlan, C!Session, C!Idle, C!NoQuery, IsRoot, C!Whole,
      IsRelease
<1>10. ASSUME NEW j \in Journals, C!prepare_release(j) PROVE CampaignSynced'
  BY <1>10 DEF C!prepare_release, C!Draft, C!Releasable, C!NoPlan, C!Session, C!Idle, C!NoQuery,
      IsRoot, C!Whole, IsRelease
<1>11. ASSUME NEW j \in Journals, C!execute(j) PROVE CampaignSynced'
  BY <1>11 DEF C!execute, C!Session, C!load, C!Idle, C!NoPlan, C!NoQuery, IsRoot, C!Whole,
      IsRelease
<1>12. ASSUME NEW j \in Journals, C!commit(j) PROVE CampaignSynced'
  BY <1>12 DEF C!commit, C!Arrives, C!Selected, C!verify_guards, C!NobodyWrites, IsRoot,
      C!NoPlan, C!Whole, IsRelease
<1>13. ASSUME NEW j \in Journals, C!stop(j) PROVE CampaignSynced'
  BY <1>13 DEF C!stop, C!Arrives, C!NobodyWrites, IsRoot, C!NoPlan, C!Whole, IsRelease
<1>14. ASSUME NEW j \in Journals, C!write(j) PROVE CampaignSynced'
  BY <1>14 DEF C!write, C!Arrives, C!Unfinished, C!NobodyWrites, IsRoot, C!NoPlan, C!Whole,
      IsRelease
<1>15. ASSUME NEW j \in Journals, C!last_chunk(j) PROVE CampaignSynced'
  BY <1>15 DEF C!last_chunk, C!Writer, IsRoot, C!NoPlan, C!Whole, IsRelease
<1>16. ASSUME NEW j \in Journals, C!finish(j) PROVE CampaignSynced'
  BY <1>16 DEF C!finish, C!Writer, IsRoot, C!NoPlan, C!Whole, IsRelease
<1>17. ASSUME NEW j \in Journals, C!kill(j) PROVE CampaignSynced'
  BY <1>17 DEF C!kill, C!Writer, IsRoot, C!NoPlan, C!Whole, IsRelease
<1>18. ASSUME NEW j \in Journals, C!fence(j) PROVE CampaignSynced'
  BY <1>18 DEF C!fence, C!Dispatched, C!NobodyWrites, C!Outcome, C!Recovering, C!Session,
      C!Idle, C!NoQuery, C!NoPlan, IsRoot, C!Whole, IsRelease
<1> HIDE DEF CampaignInv, CampaignPlans, CampaignShape, CampaignSynced
<1> QED BY <1>1, <1>2, <1>3, <1>4, <1>5, <1>6, <1>7, <1>8, <1>9, <1>10, <1>11, <1>12, <1>13,
      <1>14, <1>15, <1>16, <1>17, <1>18
      DEF C!Next

LEMMA CampaignNormalKept == CampaignInv /\ C!Next => CampaignNormal'
<1> SUFFICES ASSUME CampaignInv, C!Next PROVE CampaignNormal'
  OBVIOUS
<1> USE DEF CampaignInv, CampaignNormal, CampaignPlans, CampaignShape, CampaignSynced, Ended,
      C!card, C!boot, C!HoldOps, C!RootOps
<1>1. CASE C!give_up
  BY <1>1 DEF C!give_up, C!NoQuery, C!NoPlan, C!Whole, Settled, IsRelease, IsRoot
<1>2. CASE C!capture
  BY <1>2 DEF C!capture, C!Keep, C!NobodyWrites, C!Recovering, C!Session, C!Idle, C!NoQuery,
      C!NoPlan, C!Whole, Settled, IsRelease, IsRoot
<1>3. CASE C!inspect
  BY <1>3 DEF C!inspect, C!NoQuery, C!NobodyWrites, C!NoPlan, C!Whole, Settled, IsRelease,
      IsRoot
<1>4. CASE C!reconcile
  BY <1>4 DEF C!reconcile, C!Again, C!ClassifyHold, C!Keep, C!NoQuery, C!NobodyWrites,
      C!classify, C!Selected, C!NoPlan, C!Conflict, C!Whole, Settled, IsRelease, IsRoot
<1>5. CASE C!writeback
  BY <1>5 DEF C!writeback, C!Whole, Settled, IsRelease, IsRoot, C!NoPlan
<1>6. CASE C!reset
  BY <1>6 DEF C!reset, C!NoQuery, C!NoPlan, C!Whole, Settled, IsRelease, IsRoot
<1>7. CASE C!live
  BY <1>7 DEF C!live, C!Recovering, C!Whole, Settled, IsRelease, IsRoot, C!NoPlan
<1>8. ASSUME NEW j \in Journals, C!prepare_hold(j) PROVE CampaignNormal'
  BY <1>8 DEF C!prepare_hold, C!Draft, C!NoPlan, C!Session, C!Idle, C!NoQuery, C!Whole, Settled,
      IsRelease, IsRoot
<1>9. ASSUME NEW j \in Journals, C!prepare_root(j) PROVE CampaignNormal'
  BY <1>9 DEF C!prepare_root, C!Draft, C!NoPlan, C!Session, C!Idle, C!NoQuery, C!Whole, Settled,
      IsRelease, IsRoot
<1>10. ASSUME NEW j \in Journals, C!prepare_release(j) PROVE CampaignNormal'
  BY <1>10 DEF C!prepare_release, C!Draft, C!Releasable, C!NoPlan, C!Session, C!Idle, C!NoQuery,
      C!Whole, Settled, IsRelease, IsRoot
<1>11. ASSUME NEW j \in Journals, C!execute(j) PROVE CampaignNormal'
  BY <1>11 DEF C!execute, C!Session, C!load, C!Idle, C!NoPlan, C!NoQuery, C!Whole, Settled,
      IsRelease, IsRoot
<1>12. ASSUME NEW j \in Journals, C!commit(j) PROVE CampaignNormal'
  BY <1>12 DEF C!commit, C!Arrives, C!Selected, C!verify_guards, C!NobodyWrites, C!Whole,
      Settled, IsRelease, IsRoot, C!NoPlan
<1>13. ASSUME NEW j \in Journals, C!stop(j) PROVE CampaignNormal'
  BY <1>13 DEF C!stop, C!Arrives, C!NobodyWrites, C!Whole, Settled, IsRelease, IsRoot, C!NoPlan
<1>14. ASSUME NEW j \in Journals, C!write(j) PROVE CampaignNormal'
  BY <1>14 DEF C!write, C!Arrives, C!Unfinished, C!NobodyWrites, C!Whole, Settled, IsRelease,
      IsRoot, C!NoPlan
<1>15. ASSUME NEW j \in Journals, C!last_chunk(j) PROVE CampaignNormal'
  BY <1>15 DEF C!last_chunk, C!Writer, C!Whole, Settled, IsRelease, IsRoot, C!NoPlan
<1>16. ASSUME NEW j \in Journals, C!finish(j) PROVE CampaignNormal'
  BY <1>16 DEF C!finish, C!Writer, C!Whole, Settled, IsRelease, IsRoot, C!NoPlan
<1>17. ASSUME NEW j \in Journals, C!kill(j) PROVE CampaignNormal'
  BY <1>17 DEF C!kill, C!Writer, C!Whole, Settled, IsRelease, IsRoot, C!NoPlan
<1>18. ASSUME NEW j \in Journals, C!fence(j) PROVE CampaignNormal'
  BY <1>18 DEF C!fence, C!Dispatched, C!NobodyWrites, C!Outcome, C!Recovering, C!Session,
      C!Idle, C!NoQuery, C!NoPlan, C!Whole, Settled, IsRelease, IsRoot
<1> HIDE DEF CampaignInv, CampaignNormal, CampaignPlans, CampaignShape, CampaignSynced
<1> QED BY <1>1, <1>2, <1>3, <1>4, <1>5, <1>6, <1>7, <1>8, <1>9, <1>10, <1>11, <1>12, <1>13,
      <1>14, <1>15, <1>16, <1>17, <1>18
      DEF C!Next

LEMMA CampaignInvBegins == C!Init => CampaignInv
  BY DEF C!Init, CampaignInv, CampaignShape, CampaignPlans, CampaignQuery, CampaignEvidence,
      CampaignReleases, CampaignSynced, CampaignNormal, IsRoot, IsRelease, Ended, Settled,
      C!NoPlan, C!NoQuery, C!HoldOps, C!RootOps, C!Whole

LEMMA CampaignInvKept == CampaignInv /\ [C!Next]_(C!vars) => CampaignInv'
<1>1. CampaignInv /\ C!Next => CampaignInv'
  BY CampaignShapeKept, CampaignPlansKept, CampaignQueryKept, CampaignEvidenceKept,
     CampaignReleasesKept, CampaignSyncedKept, CampaignNormalKept DEF CampaignInv
<1>2. CampaignInv /\ UNCHANGED C!vars => CampaignInv'
  BY DEF CampaignInv, CampaignShape, CampaignPlans, CampaignQuery, CampaignEvidence,
      CampaignReleases, CampaignSynced, CampaignNormal, IsRoot, IsRelease, Settled, C!vars, C!card
<1> QED BY <1>1, <1>2

(* No transfer is left unfinished in the boot of a release while there is  *)
(* another root plan: the release policy looks at one plan only, and this  *)
(* is what it takes for granted about the others.                          *)
NoneBeside ==
  \A k, l, m \in Journals :
    /\ IsRoot(k) /\ IsRoot(m) /\ IsRelease(l)
    /\ plan[k].boot = plan[l].boot /\ attempt[k] = "incomplete" => k = m

(* For any number of plans, boots and observations: a card that starts the *)
(* normal system has a whole root that survives a reset, as long as no     *)
(* transfer stays unfinished beside another root plan in the boot of a     *)
(* release.  That the plan released itself is finished, or of an earlier   *)
(* boot, is what the reconciliation checks.                                *)
THEOREM NormalStaysWhole == C!Spec => [](NoneBeside => NormalIsWhole)
<1>1. CampaignReleases /\ NoneBeside => Settled
  BY DEF CampaignReleases, NoneBeside, Settled, Ended
<1>2. CampaignInv => (NoneBeside => NormalIsWhole)
  BY <1>1 DEF CampaignInv, CampaignNormal, NormalIsWhole, C!NormalIsWhole
<1> QED BY CampaignInvBegins, CampaignInvKept, <1>2, PTL DEF C!Spec

-----------------------------------------------------------------------------
(* The contents of the boot files (BootRecipe).                            *)

Kinds == R!Dropped \cup R!Override \cup {"console", "splash"}
NativeConfig ==
  [cmdline : {R!CMDLINE}, image : {"native"}, pair : {R!NATIVE}, watchdog : {FALSE}, odd : SUBSET R!Indirect]
ConfigFile == [kind : {"file"}, private : BOOLEAN, data : NativeConfig]
CmdlineFile == [kind : {"file"}, private : BOOLEAN, data : SUBSET Kinds]
NativeFile == [kind : {"file"}, private : BOOLEAN, data : {{"native"}}]
OwnFiles == {R!CONFIG, R!CMDLINE}

(* The files of a normal system, and those beside the native configuration *)
(* and command line as the first n steps leave them.                       *)
Plain(c) ==
  /\ c = [p \in R!Paths |-> c[p]]
  /\ c[R!CONFIG] \in ConfigFile /\ c[R!CMDLINE] \in CmdlineFile
  /\ c[R!NATIVE.start] \in NativeFile /\ c[R!NATIVE.fixup] \in NativeFile
Between(c, b, n) ==
  /\ c = [p \in R!Paths |-> c[p]]
  /\ c[R!CONFIG] \in ConfigFile /\ c[R!CMDLINE] \in CmdlineFile
  /\ "root" \in c[R!CMDLINE].data /\ "recovery" \notin c[R!CMDLINE].data
  /\ \A p \in R!Paths \ OwnFiles : c[p] = R!Staged(b, n)[p]

(* Once the draft is sealed, the card is between two of its transitions.   *)
RecipeInv ==
  /\ Plain(backup)
  /\ draft = {} => ~ begun /\ Plain(bootFiles)
  /\ draft # {} =>
       /\ draft = R!Compile(backup) /\ R!Compilable(backup)
       /\ bootFiles = R!Held(backup) \/ \E n \in 0..4 : Between(bootFiles, backup, n)

LEMMA Names ==
  /\ R!CONFIG = "config.txt" /\ R!CMDLINE = "cmdline.txt" /\ R!TRYBOOT = "tryboot.txt"
  /\ R!TRIAL_CMDLINE = "forge-trial-cmdline.txt" /\ R!AUTOBOOT = "autoboot.txt"
  /\ R!NATIVE.start = "start4.elf" /\ R!NATIVE.fixup = "fixup4.dat"
  /\ R!FORGE.start = "forge-start.elf" /\ R!FORGE.fixup = "forge-fixup.dat"
  /\ R!Paths = {R!CONFIG, R!CMDLINE, R!TRYBOOT, R!TRIAL_CMDLINE, R!AUTOBOOT,
                R!NATIVE.start, R!NATIVE.fixup, R!FORGE.start, R!FORGE.fixup}
  BY DEF R!CONFIG, R!CMDLINE, R!TRYBOOT, R!TRIAL_CMDLINE, R!AUTOBOOT, R!NATIVE, R!FORGE, R!Paths

LEMMA Files ==
  ASSUME NEW a, NEW x
  PROVE  R!File(a, x) # R!Absent /\ R!File(a, x).data = x
<1>1. R!File(a, x).kind = "file" /\ R!Absent.kind = "absent" /\ R!File(a, x).data = x
  BY DEF R!File, R!Absent
<1> QED BY <1>1

LEMMA Kept ==
  ASSUME NEW f, f \in ConfigFile \cup CmdlineFile \cup NativeFile
  PROVE  f # R!Absent
<1>1. f.kind = "file" /\ R!Absent.kind = "absent"
  BY DEF ConfigFile, CmdlineFile, NativeFile, R!Absent
<1> QED BY <1>1

(* What the first n steps have changed.                                    *)
LEMMA Stages ==
  ASSUME NEW b, NEW n \in 0..4
  PROVE  /\ R!Staged(b, n) = [p \in R!Paths |-> R!Staged(b, n)[p]]
         /\ \A p \in {R!CONFIG, R!CMDLINE, R!AUTOBOOT, R!NATIVE.start, R!NATIVE.fixup} : R!Staged(b, n)[p] = b[p]
         /\ n < 4 => R!Staged(b, n)[R!TRYBOOT] = b[R!TRYBOOT]
         /\ n = 4 => \A p \in {R!FORGE.start, R!FORGE.fixup, R!TRIAL_CMDLINE, R!TRYBOOT} :
                       R!Staged(b, n)[p] = R!File(TRUE, R!Recipe(b)[p])
<1> DEFINE done(p) == \E i \in 1..n : R!Steps[i] = p
<1>1. /\ R!Steps[1] = R!FORGE.start /\ R!Steps[2] = R!FORGE.fixup
      /\ R!Steps[3] = R!TRIAL_CMDLINE /\ R!Steps[4] = R!TRYBOOT
  BY DEF R!Steps
<1>2. \A p \in R!Paths : R!Staged(b, n)[p] = IF done(p) THEN R!File(TRUE, R!Recipe(b)[p]) ELSE b[p]
  BY DEF R!Staged
<1>3. \A i \in 1..n : i \in {1, 2, 3, 4}
  OBVIOUS
<1>4. \A p \in {R!CONFIG, R!CMDLINE, R!AUTOBOOT, R!NATIVE.start, R!NATIVE.fixup} : p \in R!Paths /\ ~ done(p)
  BY <1>1, <1>3, Names
<1>5. R!TRYBOOT \in R!Paths /\ (n < 4 => ~ done(R!TRYBOOT))
  <2>1. n < 4 => \A i \in 1..n : i \in {1, 2, 3}
    OBVIOUS
  <2> QED BY <1>1, <2>1, Names
<1>6. n = 4 => \A p \in {R!FORGE.start, R!FORGE.fixup, R!TRIAL_CMDLINE, R!TRYBOOT} : p \in R!Paths /\ done(p)
  <2>1. n = 4 => 1 \in 1..n /\ 2 \in 1..n /\ 3 \in 1..n /\ 4 \in 1..n
    OBVIOUS
  <2> QED BY <1>1, <2>1, Names
<1>7. R!Staged(b, n) = [p \in R!Paths |-> R!Staged(b, n)[p]]
  BY DEF R!Staged
<1> HIDE DEF done
<1> QED BY <1>2, <1>4, <1>5, <1>6, <1>7

LEMMA HeldFiles ==
  ASSUME NEW b, Plain(b)
  PROVE  /\ R!Held(b) = [p \in R!Paths |-> R!Held(b)[p]]
         /\ R!Held(b)[R!CONFIG].data = R!Recipe(b)[R!TRYBOOT] /\ R!Held(b)[R!CONFIG] # R!Absent
         /\ \A p \in R!Paths \ {R!CONFIG} : R!Held(b)[p] = R!Staged(b, 4)[p]
<1> DEFINE s == R!Staged(b, 4)
<1>1. s = [p \in R!Paths |-> s[p]] /\ s[R!CONFIG] = b[R!CONFIG]
      /\ s[R!TRYBOOT].data = R!Recipe(b)[R!TRYBOOT]
  <2>1. 4 \in 0..4
    OBVIOUS
  <2>2. s = [p \in R!Paths |-> s[p]] /\ s[R!CONFIG] = b[R!CONFIG]
    BY <2>1, Stages
  <2>3. s[R!TRYBOOT] = R!File(TRUE, R!Recipe(b)[R!TRYBOOT])
    BY <2>1, Stages
  <2> QED BY <2>2, <2>3, Files
<1>2. R!Held(b) = [s EXCEPT ![R!CONFIG].data = s[R!TRYBOOT].data]
  BY DEF R!Held
<1> HIDE DEF s
<1>3. R!CONFIG \in R!Paths
  BY Names
<1>4. s[R!CONFIG] \in ConfigFile
  BY <1>1 DEF Plain
<1>5. R!Held(b)[R!CONFIG] = [s[R!CONFIG] EXCEPT !.data = s[R!TRYBOOT].data]
  BY <1>1, <1>2, <1>3
<1>6. R!Held(b)[R!CONFIG].kind = "file" /\ R!Held(b)[R!CONFIG].data = s[R!TRYBOOT].data
  BY <1>4, <1>5 DEF ConfigFile
<1>7. R!Held(b)[R!CONFIG] # R!Absent
  BY <1>6 DEF R!Absent
<1>8. R!Held(b) = [p \in R!Paths |-> R!Held(b)[p]] /\ \A p \in R!Paths \ {R!CONFIG} : R!Held(b)[p] = s[p]
  BY <1>1, <1>2
<1> QED BY <1>1, <1>6, <1>7, <1>8 DEF s

(* The contents of the recipe make a recovery.                             *)
LEMMA Recipes ==
  ASSUME NEW b, Plain(b)
  PROVE  /\ R!Recipe(b)[R!FORGE.start] = {"bundle"} /\ R!Recipe(b)[R!FORGE.fixup] = {"bundle"}
         /\ {"ram", "recovery", "trial", "watchdog", "lease"} \subseteq R!Recipe(b)[R!TRIAL_CMDLINE]
         /\ R!Recipe(b)[R!TRIAL_CMDLINE] \cap R!Dropped = {}
         /\ R!Recipe(b)[R!TRYBOOT].cmdline = R!TRIAL_CMDLINE /\ R!Recipe(b)[R!TRYBOOT].image = "recovery"
         /\ R!Recipe(b)[R!TRYBOOT].pair = R!FORGE /\ R!Recipe(b)[R!TRYBOOT].watchdog = TRUE
<1>1. /\ R!Recipe(b)[R!FORGE.start] = {"bundle"} /\ R!Recipe(b)[R!FORGE.fixup] = {"bundle"}
      /\ R!Recipe(b)[R!TRIAL_CMDLINE] = R!RecoveryArguments(b[R!CMDLINE].data)
      /\ R!Recipe(b)[R!TRYBOOT] = R!RecoveryConfig(b[R!CONFIG].data)
  BY Names DEF R!Recipe
<1>2. b[R!CONFIG].data \in NativeConfig
  BY DEF Plain, ConfigFile
<1>3. /\ R!RecoveryConfig(b[R!CONFIG].data).cmdline = R!TRIAL_CMDLINE
      /\ R!RecoveryConfig(b[R!CONFIG].data).image = "recovery"
      /\ R!RecoveryConfig(b[R!CONFIG].data).pair = R!FORGE
      /\ R!RecoveryConfig(b[R!CONFIG].data).watchdog = TRUE
  BY <1>2 DEF R!RecoveryConfig, R!FirmwareConfig, NativeConfig
<1>4. \A a : /\ {"ram", "recovery", "trial", "watchdog", "lease"} \subseteq R!RecoveryArguments(a)
             /\ R!RecoveryArguments(a) \cap R!Dropped = {}
  BY DEF R!RecoveryArguments, R!Dropped
<1> QED BY <1>1, <1>3, <1>4

-----------------------------------------------------------------------------
(* What the firmware finds on a card.                                      *)
Chosen(c, oneShot) == IF oneShot /\ c[R!TRYBOOT] # R!Absent THEN c[R!TRYBOOT].data ELSE c[R!CONFIG].data
Contents(c, p) == IF c[p] = R!Absent THEN {} ELSE c[p].data
Pair(c, f) == {Contents(c, f.pair[m]) : m \in {"start", "fixup"}}

Resolves(f, arguments, pair) ==
  CASE f.image = "native" /\ "root" \in arguments /\ arguments \cap {"ram", "recovery"} = {}
         /\ pair = {{"native"}} /\ ~ f.watchdog -> "native"
    [] f.image = "recovery" /\ {"ram", "recovery", "trial", "watchdog", "lease"} \subseteq arguments
         /\ arguments \cap R!Dropped = {} /\ pair = {{"bundle"}} /\ f.watchdog -> "recovery"
    [] OTHER -> "broken"

LEMMA Finds ==
  ASSUME NEW c, NEW oneShot
  PROVE  R!Selects(c, oneShot) =
           Resolves(Chosen(c, oneShot), Contents(c, Chosen(c, oneShot).cmdline), Pair(c, Chosen(c, oneShot)))
  BY DEF R!Selects, Resolves, Chosen, Contents, Pair

LEMMA SelectsNative ==
  ASSUME NEW c, NEW oneShot \in BOOLEAN, Chosen(c, oneShot) \in NativeConfig,
         "root" \in Contents(c, R!CMDLINE), Contents(c, R!CMDLINE) \cap {"ram", "recovery"} = {},
         Contents(c, R!NATIVE.start) = {"native"}, Contents(c, R!NATIVE.fixup) = {"native"}
  PROVE  R!Selects(c, oneShot) = "native"
<1> DEFINE f == Chosen(c, oneShot)
<1>1. f.cmdline = R!CMDLINE /\ f.image = "native" /\ f.pair = R!NATIVE /\ f.watchdog = FALSE
  BY DEF NativeConfig
<1>2. /\ f.pair["start"] = R!NATIVE.start /\ f.pair["fixup"] = R!NATIVE.fixup
  BY <1>1
<1> HIDE DEF f
<1>3. Pair(c, f) = {{"native"}}
  BY <1>2 DEF Pair
<1>4. Resolves(f, Contents(c, R!CMDLINE), {{"native"}}) = "native"
  BY <1>1 DEF Resolves
<1> QED BY <1>1, <1>3, <1>4, Finds DEF f

LEMMA SelectsRecovery ==
  ASSUME NEW c, NEW oneShot \in BOOLEAN, NEW b, Plain(b), Chosen(c, oneShot) = R!Recipe(b)[R!TRYBOOT],
         \A p \in {R!FORGE.start, R!FORGE.fixup, R!TRIAL_CMDLINE} : c[p] = R!File(TRUE, R!Recipe(b)[p])
  PROVE  R!Selects(c, oneShot) = "recovery"
<1> DEFINE f == Chosen(c, oneShot)
<1>1. f.cmdline = R!TRIAL_CMDLINE /\ f.image = "recovery" /\ f.pair = R!FORGE /\ f.watchdog = TRUE
  BY Recipes
<1>2. f.pair["start"] = R!FORGE.start /\ f.pair["fixup"] = R!FORGE.fixup
  BY <1>1
<1>3. /\ Contents(c, R!FORGE.start) = {"bundle"} /\ Contents(c, R!FORGE.fixup) = {"bundle"}
      /\ Contents(c, R!TRIAL_CMDLINE) = R!Recipe(b)[R!TRIAL_CMDLINE]
  <2>1. \A p \in {R!FORGE.start, R!FORGE.fixup, R!TRIAL_CMDLINE} :
          c[p] # R!Absent /\ c[p].data = R!Recipe(b)[p]
    <3> TAKE p \in {R!FORGE.start, R!FORGE.fixup, R!TRIAL_CMDLINE}
    <3> DEFINE x == R!Recipe(b)[p]
    <3>1. c[p] = R!File(TRUE, x)
      OBVIOUS
    <3>2. R!File(TRUE, x) # R!Absent /\ R!File(TRUE, x).data = x
      BY Files
    <3> HIDE DEF x
    <3> QED BY <3>1, <3>2 DEF x
  <2>2. \A p \in {R!FORGE.start, R!FORGE.fixup, R!TRIAL_CMDLINE} : Contents(c, p) = R!Recipe(b)[p]
    BY <2>1 DEF Contents
  <2> QED BY <2>2, Recipes
<1> HIDE DEF f
<1>4. Pair(c, f) = {{"bundle"}}
  BY <1>2, <1>3 DEF Pair
<1>5. Resolves(f, R!Recipe(b)[R!TRIAL_CMDLINE], {{"bundle"}}) = "recovery"
  BY <1>1, Recipes DEF Resolves
<1> QED BY <1>1, <1>3, <1>4, <1>5, Finds DEF f

-----------------------------------------------------------------------------
(* The steps.                                                              *)

LEMMA RecipeBegins == R!Init => RecipeInv
<1> SUFFICES ASSUME R!Init PROVE RecipeInv
  OBVIOUS
<1>1. bootFiles \in R!Cards /\ backup = bootFiles /\ draft = {} /\ begun = FALSE
  BY DEF R!Init
<1>2. PICK odd \in {{}} \cup {{x} : x \in R!Indirect},
           arguments \in {R!Dropped, {}} \cup {R!Dropped \cup {x} : x \in R!Override},
           private \in BOOLEAN, taken \in R!Paths \cup {"none"} :
        bootFiles = R!Card(odd, arguments, private, taken)
  BY <1>1 DEF R!Cards
<1>3. odd \in SUBSET R!Indirect /\ {"console"} \cup arguments \in SUBSET Kinds
  BY DEF Kinds
<1>4. /\ bootFiles[R!CONFIG] = R!File(private, [cmdline |-> R!CMDLINE, image |-> "native", pair |-> R!NATIVE,
                                                watchdog |-> FALSE, odd |-> odd])
      /\ bootFiles[R!CMDLINE] = R!File(private, {"console"} \cup arguments)
      /\ bootFiles[R!NATIVE.start] = R!File(private, {"native"})
      /\ bootFiles[R!NATIVE.fixup] = R!File(private, {"native"})
  BY <1>2, Names DEF R!Card
<1>5. bootFiles = [p \in R!Paths |-> bootFiles[p]]
  BY <1>2 DEF R!Card
<1>6. bootFiles[R!CONFIG] \in ConfigFile
  BY <1>3, <1>4 DEF ConfigFile, NativeConfig, R!File
<1>7. bootFiles[R!CMDLINE] \in CmdlineFile
  BY <1>3, <1>4 DEF CmdlineFile, R!File
<1>8. bootFiles[R!NATIVE.start] \in NativeFile /\ bootFiles[R!NATIVE.fixup] \in NativeFile
  BY <1>4 DEF NativeFile, R!File
<1>9. Plain(bootFiles)
  BY <1>5, <1>6, <1>7, <1>8 DEF Plain
<1> QED BY <1>1, <1>9 DEF RecipeInv

LEMMA Nothing ==
  ASSUME NEW b
  PROVE  R!Compile(b) # {}
  BY DEF R!Compile

LEMMA Unstaged ==
  ASSUME NEW b, NEW n \in 0..4, Plain(b), R!Compilable(b)
  PROVE  Between(R!Staged(b, n), b, n)
<1>1. /\ R!Staged(b, n) = [p \in R!Paths |-> R!Staged(b, n)[p]]
      /\ R!Staged(b, n)[R!CONFIG] = b[R!CONFIG] /\ R!Staged(b, n)[R!CMDLINE] = b[R!CMDLINE]
  BY Stages
<1>2. "root" \in b[R!CMDLINE].data /\ "recovery" \notin b[R!CMDLINE].data
  BY DEF R!Compilable, R!Override
<1> QED BY <1>1, <1>2 DEF Between, Plain

LEMMA PrepareKeepsRecipe == ASSUME RecipeInv, R!Prepare PROVE RecipeInv'
<1>1. /\ draft = {} /\ R!Compilable(backup) /\ bootFiles = backup /\ draft' = R!Compile(backup)
      /\ UNCHANGED <<bootFiles, backup, begun>> /\ Plain(backup)
  BY DEF R!Prepare, RecipeInv
<1>2. /\ \A p \in R!Paths : R!Staged(backup, 0)[p] = backup[p]
      /\ R!Staged(backup, 0) = [p \in R!Paths |-> R!Staged(backup, 0)[p]]
      /\ backup = [p \in R!Paths |-> backup[p]]
  BY <1>1 DEF R!Staged, Plain
<1>3. R!Staged(backup, 0) = backup
  BY <1>2
<1>4. Between(bootFiles, backup, 0)
  BY <1>1, <1>3, Unstaged
<1>5. draft' # {}
  BY <1>1, Nothing
<1> QED BY <1>1, <1>4, <1>5 DEF RecipeInv

LEMMA ExecuteKeepsRecipe ==
  ASSUME RecipeInv, NEW t \in draft, R!Execute(t)
  PROVE  RecipeInv'
<1>1. /\ begun /\ bootFiles = t.before /\ UNCHANGED <<backup, draft, begun>>
      /\ bootFiles' = [p \in R!Paths |-> IF t.before[p] # t.after[p] THEN t.after[p] ELSE bootFiles[p]]
  BY DEF R!Execute, R!Matches
<1>2. Plain(backup) /\ draft # {} /\ draft = R!Compile(backup) /\ R!Compilable(backup)
  BY <1>1 DEF RecipeInv
<1>3. bootFiles' = [p \in R!Paths |-> t.after[p]]
  BY <1>1
<1>4. t.after = R!Held(backup) \/ \E n \in 0..4 : t.after = R!Staged(backup, n)
  <2>1. \A name, x, y : R!Transition(name, x, y).after = y
    BY DEF R!Transition
  <2>2. \/ \E n \in 1..4 : t = R!Transition("apply", R!Staged(backup, n - 1), R!Staged(backup, n))
        \/ \E n \in 1..4 : t = R!Transition("restore", R!Staged(backup, n), R!Staged(backup, n - 1))
        \/ t = R!Transition("install-hold", R!Staged(backup, 4), R!Held(backup))
        \/ t = R!Transition("release-hold", R!Held(backup), R!Staged(backup, 4))
    BY <1>2 DEF R!Compile
  <2>3. \A n \in 1..4 : n \in 0..4 /\ n - 1 \in 0..4
    OBVIOUS
  <2> QED BY <2>1, <2>2, <2>3
<1>5. CASE t.after = R!Held(backup)
  <2>1. bootFiles' = R!Held(backup)
    BY <1>2, <1>3, <1>5, HeldFiles
  <2> QED BY <1>1, <1>2, <2>1 DEF RecipeInv
<1>6. ASSUME NEW n \in 0..4, t.after = R!Staged(backup, n) PROVE RecipeInv'
  <2>1. R!Staged(backup, n) = [p \in R!Paths |-> R!Staged(backup, n)[p]]
    BY Stages
  <2>2. bootFiles' = R!Staged(backup, n)
    BY <1>3, <1>6, <2>1
  <2>3. Between(bootFiles', backup, n)
    BY <1>2, <2>2, Unstaged
  <2> QED BY <1>1, <1>2, <2>3 DEF RecipeInv
<1> QED BY <1>4, <1>5, <1>6

(* A held card is not normal; the normal system changes its own two files. *)
LEMMA UpdateKeepsRecipe == ASSUME RecipeInv, R!Update PROVE RecipeInv'
<1>1. /\ bootFiles[R!CONFIG].data.image = "native" /\ UNCHANGED <<backup, draft, begun>>
      /\ \/ \E x \in R!Indirect : bootFiles' = [bootFiles EXCEPT ![R!CONFIG].data.odd = {x}]
         \/ \E x \in {"quiet", "splash"} : bootFiles' = [bootFiles EXCEPT ![R!CMDLINE].data = {"root", "console", x}]
  BY DEF R!Update, R!Normal
<1>2. ASSUME bootFiles = [p \in R!Paths |-> bootFiles[p]],
             bootFiles[R!CONFIG] \in ConfigFile, bootFiles[R!CMDLINE] \in CmdlineFile
      PROVE  /\ bootFiles' = [p \in R!Paths |-> bootFiles'[p]]
             /\ bootFiles'[R!CONFIG] \in ConfigFile /\ bootFiles'[R!CMDLINE] \in CmdlineFile
             /\ \A p \in R!Paths \ OwnFiles : bootFiles'[p] = bootFiles[p]
             /\ \/ bootFiles'[R!CMDLINE].data = bootFiles[R!CMDLINE].data
                \/ "root" \in bootFiles'[R!CMDLINE].data /\ "recovery" \notin bootFiles'[R!CMDLINE].data
  <2>1. R!CONFIG \in R!Paths /\ R!CMDLINE \in R!Paths /\ R!CONFIG # R!CMDLINE
    BY Names
  <2>2. CASE \E x \in R!Indirect : bootFiles' = [bootFiles EXCEPT ![R!CONFIG].data.odd = {x}]
    <3>1. PICK x \in R!Indirect : bootFiles' = [bootFiles EXCEPT ![R!CONFIG].data.odd = {x}]
      BY <2>2
    <3>2. /\ bootFiles'[R!CONFIG] = [bootFiles[R!CONFIG] EXCEPT !.data.odd = {x}]
          /\ \A p \in R!Paths \ {R!CONFIG} : bootFiles'[p] = bootFiles[p]
      BY <1>2, <2>1, <3>1
    <3>3. [bootFiles[R!CONFIG] EXCEPT !.data.odd = {x}] \in ConfigFile
      BY <1>2 DEF ConfigFile, NativeConfig
    <3>4. bootFiles' = [p \in R!Paths |-> bootFiles'[p]]
      BY <1>2, <3>1
    <3>5. bootFiles'[R!CONFIG] \in ConfigFile /\ bootFiles'[R!CMDLINE] = bootFiles[R!CMDLINE]
      BY <2>1, <3>2, <3>3
    <3>6. \A p \in R!Paths \ OwnFiles : bootFiles'[p] = bootFiles[p]
      BY <3>2 DEF OwnFiles
    <3>7. bootFiles'[R!CMDLINE] \in CmdlineFile /\ bootFiles'[R!CMDLINE].data = bootFiles[R!CMDLINE].data
      BY <1>2, <3>5
    <3> QED BY <3>4, <3>5, <3>6, <3>7
  <2>3. CASE \E x \in {"quiet", "splash"} : bootFiles' = [bootFiles EXCEPT ![R!CMDLINE].data = {"root", "console", x}]
    <3>1. PICK x \in {"quiet", "splash"} : bootFiles' = [bootFiles EXCEPT ![R!CMDLINE].data = {"root", "console", x}]
      BY <2>3
    <3>2. /\ bootFiles'[R!CMDLINE] = [bootFiles[R!CMDLINE] EXCEPT !.data = {"root", "console", x}]
          /\ \A p \in R!Paths \ {R!CMDLINE} : bootFiles'[p] = bootFiles[p]
      BY <1>2, <2>1, <3>1
    <3>3. {"root", "console", x} \in SUBSET Kinds /\ "recovery" \notin {"root", "console", x}
      BY DEF Kinds, R!Dropped
    <3>4. /\ bootFiles'[R!CMDLINE] \in CmdlineFile
          /\ bootFiles'[R!CMDLINE].data = {"root", "console", x}
      BY <1>2, <3>2, <3>3 DEF CmdlineFile
    <3>5. bootFiles' = [p \in R!Paths |-> bootFiles'[p]]
      BY <1>2, <3>1
    <3> QED BY <1>2, <2>1, <3>2, <3>3, <3>4, <3>5 DEF OwnFiles
  <2> QED BY <1>1, <2>2, <2>3
<1>3. CASE draft = {}
  <2>1. Plain(bootFiles) /\ ~ begun /\ Plain(backup)
    BY <1>3 DEF RecipeInv
  <2>2. {R!NATIVE.start, R!NATIVE.fixup} \subseteq R!Paths \ OwnFiles
    BY Names DEF OwnFiles
  <2>3. Plain(bootFiles')
    BY <1>2, <2>1, <2>2 DEF Plain
  <2> QED BY <1>1, <1>3, <2>1, <2>3 DEF RecipeInv
<1>4. CASE draft # {}
  <2>1. /\ Plain(backup) /\ draft = R!Compile(backup) /\ R!Compilable(backup)
        /\ bootFiles = R!Held(backup) \/ \E n \in 0..4 : Between(bootFiles, backup, n)
    BY <1>4 DEF RecipeInv
  <2>2. R!Held(backup)[R!CONFIG].data.image = "recovery"
    <3>1. R!Held(backup)[R!CONFIG].data = R!Recipe(backup)[R!TRYBOOT]
      BY <2>1, HeldFiles
    <3>2. R!Recipe(backup)[R!TRYBOOT].image = "recovery"
      BY <2>1, Recipes
    <3> QED BY <3>1, <3>2
  <2>3. PICK n \in 0..4 : Between(bootFiles, backup, n)
    BY <1>1, <2>1, <2>2
  <2>4. Between(bootFiles', backup, n)
    BY <1>2, <2>3 DEF Between
  <2> QED BY <1>1, <1>4, <2>1, <2>4 DEF RecipeInv
<1> QED BY <1>3, <1>4

LEMMA RecipeKept == RecipeInv /\ [R!Next]_(R!vars) => RecipeInv'
<1> SUFFICES ASSUME RecipeInv, [R!Next]_(R!vars) PROVE RecipeInv'
  OBVIOUS
<1>1. ASSUME R!Capture PROVE RecipeInv'
  BY <1>1 DEF R!Capture, RecipeInv
<1>2. ASSUME R!Load PROVE RecipeInv'
  BY <1>2 DEF R!Load, RecipeInv
<1>3. ASSUME UNCHANGED R!vars PROVE RecipeInv'
  BY <1>3 DEF R!vars, RecipeInv
<1> QED BY <1>1, <1>2, <1>3, PrepareKeepsRecipe, UpdateKeepsRecipe, ExecuteKeepsRecipe DEF R!Next

(* Between any two transitions, and whatever the normal system did to its  *)
(* own files meanwhile, the firmware finds one complete system, with the   *)
(* one-shot flag and without it.                                           *)
THEOREM AlwaysBootsWhole == R!Spec => []WholeBoots
<1>1. ASSUME RecipeInv PROVE WholeBoots
  <2>1. SUFFICES ASSUME begun
                 PROVE  /\ R!Selects(bootFiles, FALSE) = IF R!Normal THEN "native" ELSE "recovery"
                        /\ R!Selects(bootFiles, TRUE) =
                             IF bootFiles[R!TRYBOOT] = R!Absent THEN "native" ELSE "recovery"
    BY DEF WholeBoots, R!WholeBoots
  <2>2. /\ Plain(backup) /\ R!Compilable(backup)
        /\ bootFiles = R!Held(backup) \/ \E n \in 0..4 : Between(bootFiles, backup, n)
    BY <1>1, <2>1 DEF RecipeInv
  <2>3. {R!FORGE.start, R!FORGE.fixup, R!TRIAL_CMDLINE, R!TRYBOOT} \subseteq R!Paths \ OwnFiles
    BY Names DEF OwnFiles
  <2>4. R!Staged(backup, 4)[R!TRYBOOT].data = R!Recipe(backup)[R!TRYBOOT]
        /\ R!Staged(backup, 4)[R!TRYBOOT] # R!Absent
    <3>1. R!Staged(backup, 4)[R!TRYBOOT] = R!File(TRUE, R!Recipe(backup)[R!TRYBOOT])
      BY Stages, 4 \in 0..4
    <3> QED BY <3>1, Files
  <2>5. \A p \in {R!FORGE.start, R!FORGE.fixup, R!TRIAL_CMDLINE} :
          R!Staged(backup, 4)[p] = R!File(TRUE, R!Recipe(backup)[p])
    BY Stages, 4 \in 0..4
  <2>6. CASE bootFiles = R!Held(backup)
    <3>1. \A p \in {R!FORGE.start, R!FORGE.fixup, R!TRIAL_CMDLINE, R!TRYBOOT} : bootFiles[p] = R!Staged(backup, 4)[p]
      BY <2>2, <2>3, <2>6, HeldFiles DEF OwnFiles
    <3>2. /\ bootFiles[R!CONFIG].data = R!Recipe(backup)[R!TRYBOOT]
          /\ bootFiles[R!TRYBOOT].data = R!Recipe(backup)[R!TRYBOOT] /\ bootFiles[R!TRYBOOT] # R!Absent
      BY <2>2, <2>4, <2>6, <3>1, HeldFiles
    <3>3. ~ R!Normal
      BY <2>2, <3>2, Recipes DEF R!Normal
    <3>4. \A o \in BOOLEAN : Chosen(bootFiles, o) = R!Recipe(backup)[R!TRYBOOT]
      BY <3>2 DEF Chosen
    <3>5. \A o \in BOOLEAN : R!Selects(bootFiles, o) = "recovery"
      BY <2>2, <2>5, <3>1, <3>4, SelectsRecovery
    <3> QED BY <3>2, <3>3, <3>5
  <2>7. ASSUME NEW n \in 0..4, Between(bootFiles, backup, n)
        PROVE  /\ R!Selects(bootFiles, FALSE) = "native" /\ R!Normal
               /\ R!Selects(bootFiles, TRUE) = IF bootFiles[R!TRYBOOT] = R!Absent THEN "native" ELSE "recovery"
    <3>1. bootFiles[R!CONFIG].data \in NativeConfig /\ R!Normal
      BY <2>7 DEF Between, ConfigFile, NativeConfig, R!Normal
    <3>2. /\ "root" \in Contents(bootFiles, R!CMDLINE)
          /\ Contents(bootFiles, R!CMDLINE) \cap {"ram", "recovery"} = {}
      <4>1. bootFiles[R!CMDLINE] # R!Absent /\ "ram" \notin bootFiles[R!CMDLINE].data
        BY <2>7, Kept DEF Between, CmdlineFile, Kinds, R!Dropped, R!Override
      <4> QED BY <2>7, <4>1 DEF Between, Contents
    <3>3. Contents(bootFiles, R!NATIVE.start) = {"native"} /\ Contents(bootFiles, R!NATIVE.fixup) = {"native"}
      <4>1. \A p \in {R!NATIVE.start, R!NATIVE.fixup} : p \in R!Paths \ OwnFiles
        BY Names DEF OwnFiles
      <4>2. \A p \in {R!NATIVE.start, R!NATIVE.fixup} : bootFiles[p] = backup[p] /\ bootFiles[p] \in NativeFile
        <5>1. \A p \in {R!NATIVE.start, R!NATIVE.fixup} : R!Staged(backup, n)[p] = backup[p]
          BY Stages, ZenonT(60)
        <5>2. \A p \in {R!NATIVE.start, R!NATIVE.fixup} : bootFiles[p] = R!Staged(backup, n)[p]
          BY <2>7, <4>1 DEF Between
        <5> QED BY <2>2, <5>1, <5>2 DEF Plain
      <4>3. \A p \in {R!NATIVE.start, R!NATIVE.fixup} : bootFiles[p] # R!Absent /\ bootFiles[p].data = {"native"}
        BY <4>2, Kept DEF NativeFile
      <4> QED BY <4>3 DEF Contents
    <3>4. \A o \in BOOLEAN : ~ o \/ bootFiles[R!TRYBOOT] = R!Absent => R!Selects(bootFiles, o) = "native"
      BY <3>1, <3>2, <3>3, SelectsNative DEF Chosen
    <3>5. ASSUME bootFiles[R!TRYBOOT] # R!Absent PROVE R!Selects(bootFiles, TRUE) = "recovery"
      <4>1. bootFiles[R!TRYBOOT] = R!Staged(backup, n)[R!TRYBOOT]
        BY <2>3, <2>7 DEF Between
      <4>2. n = 4
        <5>1. n < 4 => R!Staged(backup, n)[R!TRYBOOT] = backup[R!TRYBOOT]
          BY Stages
        <5>2. backup[R!TRYBOOT] = R!Absent
          BY <2>2 DEF R!Compilable
        <5> QED BY <3>5, <4>1, <5>1, <5>2
      <4>3. \A p \in {R!FORGE.start, R!FORGE.fixup, R!TRIAL_CMDLINE, R!TRYBOOT} : bootFiles[p] = R!Staged(backup, 4)[p]
        BY <2>3, <2>7, <4>2 DEF Between
      <4>4. Chosen(bootFiles, TRUE) = R!Recipe(backup)[R!TRYBOOT]
        BY <2>4, <3>5, <4>3 DEF Chosen
      <4> QED BY <2>2, <2>5, <4>3, <4>4, SelectsRecovery
    <3> QED BY <3>1, <3>4, <3>5
  <2> QED BY <2>2, <2>6, <2>7
<1> QED BY <1>1, RecipeBegins, RecipeKept, PTL DEF R!Spec
=============================================================================
