------------------------ MODULE ImageOperationProofs ------------------------
(***************************************************************************)
(* What the image operation, the file transition and the guest's jobs keep *)
(* for any number of attempts, calls, files and processes.                 *)
(*                                                                         *)
(* The ledger first: none of its properties is inductive alone, a receipt  *)
(* is proof only because the stage of the lock holder determines every     *)
(* torn record, and only the lock holder can be past its checks.  Then the *)
(* operation implements the ledger, for all the ledger sees of the host is *)
(* that it asks for nonces it has drawn; and the register, because a call  *)
(* that still travels for a closed attempt meets its fence.                *)
(***************************************************************************)
EXTENDS MCOperations, Integers, Sequences, WellFoundedInduction, TLAPS

(* The flock: exactly its owner is inside run or fence.                    *)
LockHeld == \A w \in Call : (at[w] # "out") <=> (owner = {w})

(* What the stage of a worker says about the records of its nonce.         *)
StageRecords ==
  \A w \in Call : LET n == serving[w] IN
    /\ at[w] = "intent" =>
         /\ intent[n] = "torn" /\ receipt[n] = "none" /\ fence[n] = "none"
         /\ \A m \in Attempt \ {n} : L!Settled(m)
    /\ at[w] = "effect" =>
         intent[n] = "whole" /\ receipt[n] = "none" /\ fence[n] = "none"
    /\ at[w] = "receipt" =>
         intent[n] = "whole" /\ receipt[n] = "torn" /\ fence[n] = "none" /\ n \in done
    /\ at[w] = "fence" =>
         intent[n] = "none" /\ receipt[n] = "none" /\ fence[n] = "torn"

(* What the records of a nonce say of each other and of its history.       *)
RecordOrder ==
  \A n \in Attempt :
    /\ fence[n] # "none" => intent[n] = "none" /\ receipt[n] = "none"
    /\ receipt[n] # "none" => intent[n] = "whole" /\ n \in done
    /\ intent[n] # "whole" => began[n] = 0
    /\ began[n] <= 1

LedgerInv == L!TypeOK /\ LockHeld /\ StageRecords /\ RecordOrder /\ L!OneOpenEffect

-----------------------------------------------------------------------------
(* An empty directory satisfies the inductive invariant.                   *)
LEMMA InitLedgerInv == L!Init => LedgerInv
  BY DEF L!Init, LedgerInv, L!TypeOK, LockHeld, StageRecords, RecordOrder,
         L!OneOpenEffect, L!Mark, L!Stage

(* Every step of every worker keeps it.                                    *)
LEMMA StepLedgerInv == LedgerInv /\ [L!Next]_(L!vars) => LedgerInv'
<1> SUFFICES ASSUME LedgerInv, [L!Next]_(L!vars) PROVE LedgerInv'
  OBVIOUS
<1>0. \A v, w \in Call : at[v] # "out" /\ at[w] # "out" => v = w
  BY DEF LedgerInv, LockHeld
<1> USE DEF LedgerInv, L!TypeOK, LockHeld, StageRecords, RecordOrder, L!OneOpenEffect, L!Mark,
    L!Readable,
            L!Stage
<1>1. ASSUME NEW w \in Call, L!BeginRun(w) PROVE LedgerInv'
  <2> USE <1>1 DEF L!BeginRun, L!Enter, L!MayStart, L!Settled, L!Untouched, L!Fenced,
      L!Completed
  <2>1. L!TypeOK' OBVIOUS
  <2>2. LockHeld' OBVIOUS
  <2>3. StageRecords' OBVIOUS
  <2>4. RecordOrder' OBVIOUS
  <2>5. L!OneOpenEffect' OBVIOUS
  <2> QED BY <2>1, <2>2, <2>3, <2>4, <2>5
<1>2. ASSUME NEW w \in Call, L!WriteIntent(w) PROVE LedgerInv'
  <2> USE <1>0, <1>2 DEF L!WriteIntent, L!Settled, L!Untouched, L!Fenced, L!Completed
  <2>1. L!TypeOK' OBVIOUS
  <2>2. LockHeld' OBVIOUS
  <2>3. StageRecords' OBVIOUS
  <2>4. RecordOrder' OBVIOUS
  <2>5. L!OneOpenEffect' OBVIOUS
  <2> QED BY <2>1, <2>2, <2>3, <2>4, <2>5
<1>3. ASSUME NEW w \in Call, L!EffectReturns(w) PROVE LedgerInv'
  <2> USE <1>0, <1>3 DEF L!EffectReturns
  <2>1. L!TypeOK' OBVIOUS
  <2>2. LockHeld' OBVIOUS
  <2>3. StageRecords' OBVIOUS
  <2>4. RecordOrder' OBVIOUS
  <2>5. L!OneOpenEffect' OBVIOUS
  <2> QED BY <2>1, <2>2, <2>3, <2>4, <2>5
<1>4. ASSUME NEW w \in Call, L!EffectRaises(w) PROVE LedgerInv'
  BY <1>0, <1>4 DEF L!EffectRaises, L!Leave, L!records
<1>5. ASSUME NEW w \in Call, L!WriteReceipt(w) PROVE LedgerInv'
  <2> USE <1>0, <1>5 DEF L!WriteReceipt, L!Leave
  <2>1. L!TypeOK' OBVIOUS
  <2>2. LockHeld' OBVIOUS
  <2>3. StageRecords' OBVIOUS
  <2>4. RecordOrder' OBVIOUS
  <2>5. L!OneOpenEffect' OBVIOUS
  <2> QED BY <2>1, <2>2, <2>3, <2>4, <2>5
<1>6. ASSUME NEW w \in Call, L!BeginFence(w) PROVE LedgerInv'
  <2> USE <1>0, <1>6 DEF L!BeginFence, L!Enter, L!Untouched
  <2>1. L!TypeOK' OBVIOUS
  <2>2. LockHeld' OBVIOUS
  <2>3. StageRecords' OBVIOUS
  <2>4. RecordOrder' OBVIOUS
  <2>5. L!OneOpenEffect' OBVIOUS
  <2> QED BY <2>1, <2>2, <2>3, <2>4, <2>5
<1>7. ASSUME NEW w \in Call, L!WriteFence(w) PROVE LedgerInv'
  BY <1>0, <1>7 DEF L!WriteFence, L!Leave
<1>8. ASSUME NEW w \in Call, L!Kill(w) PROVE LedgerInv'
  <2> USE <1>0, <1>8 DEF L!Kill, L!Leave, L!LeftBehind
  <2>1. L!TypeOK' OBVIOUS
  <2>2. LockHeld' OBVIOUS
  <2>3. StageRecords' OBVIOUS
  <2>4. RecordOrder' OBVIOUS
  <2>5. L!OneOpenEffect' OBVIOUS
  <2> QED BY <2>1, <2>2, <2>3, <2>4, <2>5
<1>9. CASE L!PowerLoss
  <2> USE <1>9 DEF L!PowerLoss, L!AfterPowerLoss, L!Survives
  <2>1. L!TypeOK' OBVIOUS
  <2>2. LockHeld' OBVIOUS
  <2>3. StageRecords' OBVIOUS
  <2>4. RecordOrder' OBVIOUS
  <2>5. L!OneOpenEffect' OBVIOUS
  <2> QED BY <2>1, <2>2, <2>3, <2>4, <2>5
<1>10. ASSUME NEW w \in Call, NEW n \in Attempt, L!Ask(w, n) PROVE LedgerInv'
  <2> USE <1>10 DEF L!Ask, L!records, L!Settled, L!Untouched, L!Fenced, L!Completed
  <2>1. L!TypeOK' OBVIOUS
  <2>2. LockHeld' OBVIOUS
  <2>3. StageRecords' OBVIOUS
  <2>4. RecordOrder' OBVIOUS
  <2>5. L!OneOpenEffect' OBVIOUS
  <2> QED BY <2>1, <2>2, <2>3, <2>4, <2>5
<1>11. CASE UNCHANGED L!vars
  BY <1>11 DEF L!vars, L!records, L!Settled, L!Untouched, L!Fenced, L!Completed
<1> QED
  BY <1>1, <1>2, <1>3, <1>4, <1>5, <1>6, <1>7, <1>8, <1>9, <1>10, <1>11
  DEF L!Next, L!Work

LEMMA LedgerHolds == L!Spec => []LedgerInv
  BY InitLedgerInv, StepLedgerInv, PTL DEF L!Spec

-----------------------------------------------------------------------------
(* The ledger's state keeps its shape under every interleaving and kill.   *)
THEOREM TypeCorrect == L!Spec => []L!TypeOK
  BY LedgerHolds, PTL DEF LedgerInv

(* run() executes the effect of a request at most once, whatever workers   *)
(* are started for it and wherever they die.                               *)
THEOREM ExecutedOnce == L!Spec => []L!ExecuteOnce
<1>1. LedgerInv => L!ExecuteOnce
  BY DEF LedgerInv, RecordOrder, L!ExecuteOnce
<1> QED BY <1>1, LedgerHolds, PTL

(* fence() and run() exclude each other for a nonce, for ever.             *)
THEOREM FenceIsFinal == L!Spec => []L!FencedNeverRuns
<1>1. LedgerInv => L!FencedNeverRuns
  BY DEF LedgerInv, RecordOrder, L!FencedNeverRuns
<1> QED BY <1>1, LedgerHolds, PTL

(* A receipt exists only for an effect that returned.                      *)
THEOREM ReceiptProves == L!Spec => []L!ReceiptIsProof
<1>1. LedgerInv => L!ReceiptIsProof
  BY DEF LedgerInv, RecordOrder, L!ReceiptIsProof
<1> QED BY <1>1, LedgerHolds, PTL

(* No effect starts on top of one that began and never returned.           *)
THEOREM EffectsSerialised == L!Spec => []L!OneOpenEffect
  BY LedgerHolds, PTL DEF LedgerInv

(* The scan that run() makes before it writes the intent still holds when  *)
(* the effect begins: the flock carries it across the two steps.           *)
THEOREM EffectsBeginAlone == L!Spec => L!BeginsAlone
<1> DEFINE Alone(m) == \A n \in Attempt \ {m} : intent[n] = "none" \/ receipt[n] \in L!Readable
<1>1. ASSUME LedgerInv, [L!Next]_(L!vars), NEW m \in Attempt, began'[m] # began[m] PROVE Alone(m)
  <2>1. PICK w \in Call : L!WriteIntent(w)
    BY <1>1 DEF L!Next, L!Work, L!vars, L!Ask, L!BeginRun, L!EffectReturns, L!EffectRaises,
        L!WriteReceipt,
                L!BeginFence, L!WriteFence, L!Kill, L!PowerLoss
  <2>2. m = serving[w]
    BY <1>1, <2>1 DEF L!WriteIntent, LedgerInv, L!TypeOK
  <2> QED
    BY <1>1, <2>1, <2>2
    DEF L!WriteIntent, LedgerInv, StageRecords, L!Settled, L!Untouched, L!Fenced, L!Completed
<1>2. LedgerInv /\ [L!Next]_(L!vars) =>
        [\A m \in Attempt : began'[m] # began[m] => Alone(m)]_(L!vars)
  BY <1>1
<1> QED BY <1>2, LedgerHolds, PTL DEF L!Spec, L!BeginsAlone

-----------------------------------------------------------------------------
(* The operation around the ledger.                                        *)

(* The host's counters stay within the bounds of the model.                *)
Counted ==
  /\ sent \in 0..MaxCalls
  /\ attempts \in Seq(Event) /\ Len(attempts) <= MaxAttempts
  /\ host # "idle" => Len(attempts) > 0

(* Rewriting one field of one event keeps the history a sequence of events.*)
LEMMA EventKept ==
  ASSUME NEW s \in Seq(Event), NEW i \in 1..Len(s), NEW e \in Event
  PROVE [s EXCEPT ![i] = e] \in Seq(Event) /\ Len([s EXCEPT ![i] = e]) = Len(s)
  OBVIOUS

LEMMA OutcomeKept ==
  ASSUME NEW e \in Event, NEW o \in Outcome PROVE [e EXCEPT !.outcome = o] \in Event
  BY DEF Event

LEMMA ResolutionKept ==
  ASSUME NEW e \in Event, NEW r \in Resolution PROVE [e EXCEPT !.resolution = r] \in Event
  BY DEF Event

LEMMA RecordKept ==
  ASSUME Counted, NEW o \in Outcome, Len(attempts) > 0, Record(o)
  PROVE attempts' \in Seq(Event) /\ Len(attempts') = Len(attempts)
<1> DEFINE e == [attempts[Last] EXCEPT !.outcome = o]
<1>1. attempts[Last] \in Event /\ Last \in 1..Len(attempts)
  BY DEF Counted, Last
<1>2. e \in Event
  BY <1>1, OutcomeKept
<1>3. attempts' = [attempts EXCEPT ![Last] = e]
  BY DEF Record
<1> HIDE DEF e
<1> QED BY <1>1, <1>2, <1>3, EventKept DEF Counted

LEMMA ResolutionRecorded ==
  ASSUME Counted, NEW r \in Resolution, Len(attempts) > 0,
         attempts' = [attempts EXCEPT ![Last].resolution = r]
  PROVE attempts' \in Seq(Event) /\ Len(attempts') = Len(attempts)
<1> DEFINE e == [attempts[Last] EXCEPT !.resolution = r]
<1>1. attempts[Last] \in Event /\ Last \in 1..Len(attempts)
  BY DEF Counted, Last
<1>2. e \in Event
  BY <1>1, ResolutionKept
<1>3. attempts' = [attempts EXCEPT ![Last] = e]
  OBVIOUS
<1> HIDE DEF e
<1> QED BY <1>1, <1>2, <1>3, EventKept DEF Counted

LEMMA InitCounted == Init => Counted
  BY BoundAssumption DEF Init, Counted

(* The host draws a nonce at most MaxAttempts times and calls at most      *)
(* MaxCalls times.                                                         *)
LEMMA StepCounted == Counted /\ [Next]_vars => Counted'
<1> SUFFICES ASSUME Counted, [Next]_vars PROVE Counted'
  OBVIOUS
<1>0. MaxAttempts \in Nat /\ MaxCalls \in Nat /\ sent \in 0..MaxCalls /\ Len(attempts) \in Nat
  BY BoundAssumption DEF Counted
<1>1. ASSUME NEW d \in Direction, Dispatch(d) PROVE Counted'
  <2> DEFINE e == [direction |-> d, outcome |-> "open", resolution |-> "none"]
  <2>1. e \in Event
    BY DEF Event, Outcome, Resolution
  <2>2. attempts' = Append(attempts, e) /\ Len(attempts) < MaxAttempts
    BY <1>1 DEF Dispatch, Last
  <2>3. sent < MaxCalls /\ sent' = sent + 1
    BY <1>1 DEF Dispatch, SendCall
  <2> HIDE DEF e
  <2> QED BY <1>0, <2>1, <2>2, <2>3 DEF Counted
<1>2. CASE Acknowledged \/ GaveUp \/ Reconcile
  <2>1. PICK o \in Outcome : Record(o)
    BY <1>2 DEF Acknowledged, GaveUp, Reconcile, Outcome
  <2>2. Len(attempts) > 0
    BY <1>2 DEF Acknowledged, GaveUp, Reconcile, Counted, Last
  <2>3. sent' \in 0..MaxCalls
    BY <1>0, <1>2 DEF Acknowledged, GaveUp, Reconcile, SendCall, calls
  <2> QED BY <2>1, <2>2, <2>3, RecordKept DEF Counted
<1>3. CASE Resolved
  <2>1. Len(attempts) > 0 /\ reply[sent] \in Resolution
    BY <1>3 DEF Resolved, Counted, Resolution
  <2>2. sent' = sent
    BY <1>3 DEF Resolved, calls
  <2> QED BY <1>3, <2>1, <2>2, ResolutionRecorded DEF Counted, Resolved
<1>4. ASSUME UNCHANGED attempts, UNCHANGED sent, host' \in {host, "idle"} PROVE Counted'
  BY <1>4 DEF Counted
<1>5. CASE NotResolved \/ HostCrash
  BY <1>4, <1>5 DEF NotResolved, HostCrash, calls
<1>6. CASE TargetPowerLoss
  BY <1>4, <1>6 DEF TargetPowerLoss, journals
<1>7. ASSUME NEW c \in Call, TargetWork(c) PROVE Counted'
  BY <1>4, <1>7
  DEF TargetWork, StartRun, WriteIntent, Stage, Publish, Remove, Sync, EffectReturns,
      EffectRaises, WriteReceipt, StartFence, WriteFence, ReportFence, Refuse, Kill, Answer,
      calls, journals
<1>8. CASE UNCHANGED vars
  BY <1>4, <1>8 DEF vars, calls, journals
<1> QED
  BY <1>1, <1>2, <1>3, <1>5, <1>6, <1>7, <1>8 DEF Next, Host

LEMMA InitLedger == Init => L!Init
  BY BoundAssumption DEF Init, L!Init, Attempt

(* A step of the operation is a step of the ledger or leaves it alone.     *)
LEMMA StepLedger == Counted /\ [Next]_vars => [L!Next]_(L!vars)
<1> SUFFICES ASSUME Counted, [Next]_vars PROVE L!Next \/ UNCHANGED L!vars
  OBVIOUS
<1> USE DEF L!Next, L!Work
<1>1. ASSUME NEW d \in Direction, Dispatch(d) PROVE L!Next
  <2>1. Last + 1 \in Attempt /\ sent + 1 \in Call
    BY <1>1, BoundAssumption DEF Dispatch, SendCall, Attempt, Call, Counted, Last
  <2> QED BY <1>1, <2>1 DEF Dispatch, SendCall
<1>2. CASE Reconcile
  <2>1. Last \in Attempt /\ sent + 1 \in Call
    BY <1>2, BoundAssumption DEF Reconcile, SendCall, Attempt, Call, Counted, Last
  <2> QED BY <1>2, <2>1 DEF Reconcile, SendCall
<1>3. CASE Acknowledged \/ GaveUp \/ Resolved \/ NotResolved \/ HostCrash
  BY <1>3 DEF Acknowledged, GaveUp, Resolved, NotResolved, HostCrash, ledger, L!vars, L!records
<1>4. CASE TargetPowerLoss
  BY <1>4 DEF TargetPowerLoss
<1>5. ASSUME NEW c \in Call, TargetWork(c) PROVE L!Next \/ UNCHANGED L!vars
  BY <1>5
  DEF TargetWork, StartRun, WriteIntent, Stage, Publish, Remove, Sync, EffectReturns,
      EffectRaises, WriteReceipt, StartFence, WriteFence, ReportFence, Refuse, Kill,
      ledger, L!vars, L!records
<1>6. CASE UNCHANGED vars
  BY <1>6 DEF vars, ledger, L!vars, L!records
<1> QED
  BY <1>1, <1>2, <1>3, <1>4, <1>5, <1>6 DEF Next, Host

(* The host's dispatches, timeouts, reconciliations and crashes are, to    *)
(* the target, packets that arrive: ledger and operation agree step for    *)
(* step.                                                                   *)
THEOREM LedgerRefined == Spec => ImplementsLedger
  BY InitCounted, StepCounted, InitLedger, StepLedger, PTL
  DEF Spec, ImplementsLedger, L!Spec

(* Hence no delayed, repeated or interrupted call makes an image operation *)
(* run twice,                                                              *)
THEOREM OperationRunsOnce == Spec => []L!ExecuteOnce
  BY LedgerRefined, ExecutedOnce, PTL DEF ImplementsLedger

(* none starts after its fence,                                            *)
THEOREM OperationFenced == Spec => []L!FencedNeverRuns
  BY LedgerRefined, FenceIsFinal, PTL DEF ImplementsLedger

(* and the image is never changed by two attempts at once.                 *)
THEOREM OperationsSerialised == Spec => []L!OneOpenEffect
  BY LedgerRefined, EffectsSerialised, PTL DEF ImplementsLedger

-----------------------------------------------------------------------------
(***************************************************************************)
(* What the owner is promised: the operation is a register.                *)
(***************************************************************************)
Definite == {"acknowledged", "fenced-not-started", "completed"}
Inside == {"intent", "effect", "receipt"}

(* An attempt is closed once its answer says so, whether or not the host   *)
(* has read it.                                                            *)
Closed(n) ==
  \/ ~ Unresolved(n)
  \/ \E c \in Call : kind[c] # "none" /\ serving[c] = n /\ reply[c] \in Definite

(* Each attempt has one call to run it; calls are about attempts made.     *)
CallsMade ==
  /\ kind \in [Call -> {"none", "run", "fence"}] /\ reply \in [Call -> Reply]
  /\ \A c \in Call : c <= sent <=> kind[c] # "none"
  /\ \A c \in Call : kind[c] = "none" => reply[c] = "none"
  /\ \A c \in Call : kind[c] # "none" => serving[c] \in 1..Last
  /\ \A c, k \in Call : kind[c] = "run" /\ kind[k] = "run" /\ serving[c] = serving[k] => c = k
  /\ \A c \in Call : at[c] # "out" =>
       reply[c] = "none" /\ kind[c] = (IF at[c] = "fence" THEN "fence" ELSE "run")
  /\ host # "idle" => sent \in Call /\ kind[sent] = host /\ serving[sent] = Last /\ Unresolved(Last)
  /\ \A n \in 1..Last : n # Last => ~ Unresolved(n)

(* What was answered is so, and what was not answered has not returned.    *)
Answers ==
  /\ \A c \in Call : kind[c] = "run" /\ reply[c] = "none" =>
       /\ at[c] \in {"out", "intent"} => began[serving[c]] = 0
       /\ at[c] \in {"effect", "receipt"} => began[serving[c]] # 0
       /\ at[c] # "receipt" => serving[c] \notin done
  /\ \A n \in Attempt : n > Last => began[n] = 0 /\ n \notin done
  /\ \A c \in Call : reply[c] \in {"acknowledged", "completed"} => serving[c] \in done
  /\ \A c \in Call : reply[c] = "fenced-not-started" => began[serving[c]] = 0

(* Whatever still travels for a closed attempt meets its fence.            *)
Barred ==
  \A c \in Call : kind[c] = "run" /\ reply[c] = "none" /\ Closed(serving[c]) =>
    at[c] = "out" /\ fence[serving[c]] \in L!Readable

(* The image before, while and after the effect of the last attempt.       *)
Lies(where) == image = where /\ onDisk = where
ImageKnown ==
  /\ Previous \in Direction
  /\ Last > 0 /\ Unresolved(Last) /\ began[Last] = 0 => Lies(Target(Previous))
  /\ Last > 0 /\ Last \in done => Lies(Target(attempts[Last].direction))
  /\ Last = 0 \/ ~ Unresolved(Last) => Lies(Target(Previous))
  /\ \A c \in Call : at[c] = "effect" =>
       /\ step \in {"moved", "synced"} => image = Target(attempts[Last].direction)
       /\ step = "synced" => onDisk = image

Sides == image \in {"absent", "present"} /\ onDisk \in {"absent", "present"}

OperationInv ==
  Counted /\ LedgerInv /\ Sides /\ CallsMade /\ Answers /\ Barred /\ ImageKnown

(* The history as the host's steps change it.                              *)
LEMMA HistoryKept ==
  ASSUME UNCHANGED attempts
  PROVE /\ Last' = Last /\ Previous' = Previous
        /\ \A n \in 1..Last : Unresolved(n)' = Unresolved(n)
  BY DEF Last, Previous, Taken, Took, Unresolved

LEMMA LastEvent ==
  ASSUME Counted
  PROVE /\ Last \in Nat /\ DOMAIN attempts = 1..Last
        /\ Last > 0 => Last \in 1..Last
        /\ Last \in 0..MaxAttempts /\ 1..Last \subseteq Attempt
        /\ \A n \in 1..Last : attempts[n] \in Event
  BY BoundAssumption DEF Counted, Last, Attempt

(* Every nonempty set of numbers up to a bound has a greatest.             *)
LEMMA Greatest ==
  ASSUME NEW top \in Nat, NEW S \in SUBSET (1..top), S # {}
  PROVE  \E i \in S : \A j \in S : j <= i
<1> DEFINE T == {top - i : i \in S}
<1>0. PICK k \in S : TRUE
  OBVIOUS
<1>1. T \subseteq Nat /\ T # {}
  <2>1. \A i \in S : i \in Nat /\ top - i \in Nat
    OBVIOUS
  <2>2. top - k \in T
    BY <1>0
  <2> QED BY <2>1, <2>2
<1> HIDE DEF T
<1> DEFINE R == OpToRel(<, Nat)
<1>2. IsWellFoundedOn(R, Nat)
  BY NatLessThanWellFounded
<1>3. \A x, y \in Nat : <<x, y>> \in R <=> x < y
  BY DEF OpToRel
<1> HIDE DEF R
<1>4. PICK t \in T : \A u \in T : ~ (<<u, t>> \in R)
  BY <1>1, <1>2, WFMin
<1>5. PICK i \in S : t = top - i
  BY DEF T
<1>6. ASSUME NEW j \in S PROVE j <= i
  <2>1. top - j \in T /\ top - j \in Nat /\ t \in Nat
    BY <1>1 DEF T
  <2>2. ~ (top - j < t)
    BY <1>3, <1>4, <2>1
  <2> QED BY <1>5, <2>2
<1> QED BY <1>6

LEMMA PreviousKept ==
  ASSUME Last \in Nat, DOMAIN attempts = 1..Last, Taken' = Taken,
         \A n \in 1..Last : attempts'[n].direction = attempts[n].direction
  PROVE Previous' = Previous
<1>1. CASE Taken = {}
  BY <1>1 DEF Previous
<1>2. CASE Taken # {}
  <2> DEFINE newest == CHOOSE n \in Taken : \A m \in Taken : m <= n
  <2>1. Taken \in SUBSET (1..Last)
    BY DEF Taken
  <2>2. newest \in Taken
    BY <1>2, <2>1, Greatest
  <2>3. Previous = attempts[newest].direction /\ Previous' = attempts'[newest].direction
    BY <1>2 DEF Previous
  <2> HIDE DEF newest
  <2> QED BY <2>1, <2>2, <2>3
<1> QED BY <1>1, <1>2

(* Told for any history, so that it serves the one after a step as well.   *)
LEMMA NewestTaken ==
  ASSUME NEW top \in Nat, NEW S \in SUBSET (1..top), top \in S
  PROVE (CHOOSE n \in S : \A m \in S : m <= n) = top
<1> DEFINE newest == CHOOSE n \in S : \A m \in S : m <= n
<1>1. top \in S /\ \A m \in S : m <= top
  OBVIOUS
<1>2. newest \in S /\ \A m \in S : m <= newest
  BY <1>1
<1>3. newest \in 1..top /\ newest <= top /\ top <= newest
  BY <1>1, <1>2
<1> HIDE DEF newest
<1>4. newest = top
  BY <1>3
<1> QED BY <1>4 DEF newest

(* The host writes the outcome of its last attempt.                        *)
LEMMA OutcomeWritten ==
  ASSUME Counted, NEW o \in Outcome, Last > 0, Record(o)
  PROVE /\ Last' = Last
        /\ \A n \in 1..Last : /\ n # Last => attempts'[n] = attempts[n]
                              /\ attempts'[n].direction = attempts[n].direction
                              /\ attempts'[n].resolution = attempts[n].resolution
        /\ attempts'[Last].outcome = o
<1> DEFINE e == [attempts[Last] EXCEPT !.outcome = o]
<1>1. attempts[Last] \in Event /\ Last \in 1..Len(attempts) /\ DOMAIN attempts = 1..Last
  BY LastEvent DEF Last
<1>2. e.outcome = o /\ e.direction = attempts[Last].direction
      /\ e.resolution = attempts[Last].resolution
  BY <1>1 DEF Event
<1>3. attempts' = [attempts EXCEPT ![Last] = e]
  BY DEF Record
<1>4. Last' = Last
  BY RecordKept DEF Last
<1> HIDE DEF e
<1> QED BY <1>1, <1>2, <1>3, <1>4

LEMMA ResolutionWritten ==
  ASSUME Counted, NEW r \in Resolution, Last > 0,
         attempts' = [attempts EXCEPT ![Last].resolution = r]
  PROVE /\ Last' = Last
        /\ \A n \in 1..Last : /\ n # Last => attempts'[n] = attempts[n]
                              /\ attempts'[n].direction = attempts[n].direction
                              /\ attempts'[n].outcome = attempts[n].outcome
        /\ attempts'[Last].resolution = r
<1> DEFINE e == [attempts[Last] EXCEPT !.resolution = r]
<1>1. attempts[Last] \in Event /\ Last \in 1..Len(attempts) /\ DOMAIN attempts = 1..Last
  BY LastEvent DEF Last
<1>2. e.resolution = r /\ e.direction = attempts[Last].direction
      /\ e.outcome = attempts[Last].outcome
  BY <1>1 DEF Event
<1>3. attempts' = [attempts EXCEPT ![Last] = e]
  OBVIOUS
<1>4. Last' = Last
  BY ResolutionRecorded DEF Last
<1> HIDE DEF e
<1> QED BY <1>1, <1>2, <1>3, <1>4

(* A last attempt that stays open, or is closed as never started, leaves   *)
(* what the closed ones add up to.                                         *)
LEMMA NothingTaken ==
  ASSUME Counted, Last > 0, Last' = Last, DOMAIN attempts' = DOMAIN attempts,
         ~ Took(Last), ~ Took(Last)',
         \A n \in 1..Last : /\ n # Last => attempts'[n] = attempts[n]
                           /\ attempts'[n].direction = attempts[n].direction
  PROVE Previous' = Previous
<1>1. DOMAIN attempts = 1..Last
  BY LastEvent
<1>2. \A n \in 1..Last : Took(n)' <=> Took(n)
  BY DEF Took
<1>3. Taken' = Taken
  BY <1>1, <1>2 DEF Taken
<1> QED BY <1>1, <1>3, LastEvent, PreviousKept

(* One that took effect is what they add up to from then on.               *)
LEMMA LastTaken ==
  ASSUME Counted, Last > 0, Last' = Last, DOMAIN attempts' = DOMAIN attempts, Took(Last)',
         \A n \in 1..Last : attempts'[n].direction = attempts[n].direction
  PROVE Previous' = attempts[Last].direction
<1>1. DOMAIN attempts = 1..Last /\ Last \in Nat /\ Last \in 1..Last
  BY LastEvent
<1>2. Taken' \subseteq 1..Last /\ Last \in Taken'
  BY <1>1 DEF Taken, Took
<1>3. (CHOOSE n \in Taken' : \A m \in Taken' : m <= n) = Last
  BY <1>1, <1>2, NewestTaken
<1>4. Previous' = attempts'[Last].direction
  BY <1>2, <1>3 DEF Previous
<1> QED BY <1>1, <1>4

(* Who is inside run is the one call of the last attempt, which is open.   *)
LEMMA InsideRun ==
  ASSUME OperationInv, NEW c \in Call, at[c] \in Inside
  PROVE /\ kind[c] = "run" /\ reply[c] = "none" /\ serving[c] = Last
        /\ Last \in 1..Last /\ Last \in Attempt /\ Unresolved(Last) /\ ~ Closed(Last)
        /\ \A k \in Call : at[k] # "out" => k = c
        /\ \A k \in Call : kind[k] = "run" /\ serving[k] = Last => k = c
<1>1. kind[c] = "run" /\ reply[c] = "none"
  BY DEF OperationInv, CallsMade, Inside
<1>2. serving[c] \in 1..Last
  BY <1>1 DEF OperationInv, CallsMade
<1>3. ~ Closed(serving[c])
  BY <1>1 DEF OperationInv, Barred, Inside
<1>4. Unresolved(serving[c])
  BY <1>3 DEF Closed
<1>5. serving[c] = Last
  BY <1>2, <1>4 DEF OperationInv, CallsMade
<1>6. Last \in Attempt
  BY <1>2, <1>5, LastEvent DEF OperationInv
<1>7. \A k \in Call : at[k] # "out" => k = c
  BY DEF OperationInv, LedgerInv, LockHeld, Inside
<1>8. \A k \in Call : kind[k] = "run" /\ serving[k] = Last => k = c
  BY <1>1, <1>5 DEF OperationInv, CallsMade
<1> QED BY <1>1, <1>2, <1>3, <1>4, <1>5, <1>6, <1>7, <1>8

LEMMA CallOrder ==
  /\ \A i \in 0..MaxCalls : i < MaxCalls => i + 1 \in Call /\ ~ (i + 1 <= i)
  /\ \A i \in 0..MaxCalls, c \in Call : c <= i + 1 <=> c <= i \/ c = i + 1
  BY BoundAssumption DEF Call

(* The next call leaves the host: it is new, and alone with its kind.      *)
LEMMA CallSent ==
  ASSUME OperationInv, NEW k \in {"run", "fence"}, NEW n \in Attempt, SendCall(k, n)
  PROVE /\ sent' \in Call /\ kind[sent'] = "none" /\ reply[sent'] = "none" /\ at[sent'] = "out"
        /\ \A c \in Call : c <= sent' <=> c <= sent \/ c = sent'
        /\ kind' \in [Call -> {"none", "run", "fence"}]
        /\ serving' \in [Call -> Attempt]
        /\ kind'[sent'] = k /\ serving'[sent'] = n
        /\ \A c \in Call : c # sent' => kind'[c] = kind[c] /\ serving'[c] = serving[c]
        /\ UNCHANGED <<reply, at, fence, began, done, files>>
<1>1. /\ sent < MaxCalls /\ sent' = sent + 1 /\ at[sent + 1] = "out"
      /\ kind' = [kind EXCEPT ![sent + 1] = k] /\ serving' = [serving EXCEPT ![sent + 1] = n]
      /\ UNCHANGED <<reply, at, fence, began, done, files>>
  BY DEF SendCall, L!Ask, L!records
<1>2. sent \in 0..MaxCalls
  BY DEF OperationInv, Counted
<1>3. sent' \in Call /\ ~ (sent' <= sent) /\ \A c \in Call : c <= sent' <=> c <= sent \/ c = sent'
  BY <1>1, <1>2, CallOrder
<1>4. kind[sent'] = "none" /\ reply[sent'] = "none"
  BY <1>3 DEF OperationInv, CallsMade
<1> QED BY <1>1, <1>3, <1>4 DEF OperationInv, CallsMade, LedgerInv, L!TypeOK

LEMMA DispatchKeeps ==
  ASSUME OperationInv, NEW d \in Direction, Dispatch(d)
  PROVE CallsMade' /\ Answers' /\ Barred' /\ ImageKnown'
<1> DEFINE e == [direction |-> d, outcome |-> "open", resolution |-> "none"]
<1>1. /\ host = "idle" /\ host' = "run" /\ AllResolved /\ Last < MaxAttempts
      /\ attempts' = Append(attempts, e) /\ SendCall("run", Last + 1)
  BY DEF Dispatch
<1>2. /\ attempts \in Seq(Event) /\ Last \in Nat /\ DOMAIN attempts = 1..Last
      /\ Last + 1 \in Attempt
  <2>1. attempts \in Seq(Event)
    BY DEF OperationInv, Counted
  <2>2. Last \in Nat /\ DOMAIN attempts = 1..Last
    BY <2>1 DEF Last
  <2>3. Last + 1 \in 1..MaxAttempts
    BY <1>1, <2>2, BoundAssumption
  <2> QED BY <2>1, <2>2, <2>3 DEF Attempt
<1>3. /\ e \in Event /\ e.outcome = "open" /\ e.resolution = "none"
  BY DEF Event, Outcome, Resolution
<1>4. /\ Last' = Last + 1 /\ Last' > 0 /\ 1..Last' = (1..Last) \cup {Last'} /\ Last' \notin 1..Last
      /\ attempts'[Last'] = e /\ DOMAIN attempts' = 1..Last'
      /\ \A n \in 1..Last : attempts'[n] = attempts[n]
  <2> HIDE DEF e
  <2> QED BY <1>1, <1>2, <1>3 DEF Last
<1> DEFINE c0 == sent'
<1>5. /\ c0 \in Call /\ kind[c0] = "none" /\ reply[c0] = "none" /\ at[c0] = "out"
      /\ \A c \in Call : c <= sent' <=> c <= sent \/ c = c0
      /\ kind' \in [Call -> {"none", "run", "fence"}]
      /\ kind'[c0] = "run" /\ serving'[c0] = Last'
      /\ \A c \in Call : c # c0 => kind'[c] = kind[c] /\ serving'[c] = serving[c]
      /\ UNCHANGED <<reply, at, fence, began, done, files>>
  BY <1>1, <1>2, <1>4, CallSent
<1>6. Unresolved(Last)' /\ ~ Took(Last)'
  BY <1>3, <1>4 DEF Unresolved, Took
<1>7. \A n \in 1..Last : (Unresolved(n)' <=> Unresolved(n)) /\ ~ Unresolved(n)
  BY <1>1, <1>2, <1>4 DEF Unresolved, AllResolved
<1>8. Previous' = Previous
  <2>1. Taken' = Taken
    BY <1>2, <1>4, <1>6 DEF Taken, Took
  <2> QED BY <1>2, <1>4, <2>1, PreviousKept
<1>9. \A c \in Call : kind[c] # "none" => c # c0 /\ serving[c] \in 1..Last /\ serving[c] # Last'
  BY <1>4, <1>5 DEF OperationInv, CallsMade
<1> HIDE DEF c0, e
<1>10. CallsMade'
  <2>1. \A c \in Call : c <= sent' <=> kind'[c] # "none"
    BY <1>5 DEF OperationInv, CallsMade
  <2>2. \A c \in Call : kind'[c] = "none" => reply'[c] = "none"
    BY <1>5 DEF OperationInv, CallsMade
  <2>3. \A c \in Call : kind'[c] # "none" => serving'[c] \in 1..Last'
    BY <1>4, <1>5, <1>9
  <2>4. \A c, k \in Call :
          kind'[c] = "run" /\ kind'[k] = "run" /\ serving'[c] = serving'[k] => c = k
    BY <1>5, <1>9 DEF OperationInv, CallsMade
  <2>5. \A c \in Call : at'[c] # "out" =>
          reply'[c] = "none" /\ kind'[c] = (IF at'[c] = "fence" THEN "fence" ELSE "run")
    BY <1>5 DEF OperationInv, CallsMade
  <2>6. sent' \in Call /\ kind'[sent'] = host' /\ serving'[sent'] = Last'
    BY <1>1, <1>5 DEF c0
  <2>7. \A n \in 1..Last' : n # Last' => ~ Unresolved(n)'
    BY <1>4, <1>7
  <2> QED BY <1>5, <1>6, <2>1, <2>2, <2>3, <2>4, <2>5, <2>6, <2>7 DEF OperationInv, CallsMade
<1>11. Answers'
  <2>0. Last' \in Attempt /\ Last' > Last /\ \A n \in Attempt : n > Last' => n > Last
    BY <1>2, <1>4 DEF Attempt
  <2>1. began[Last'] = 0 /\ Last' \notin done
    BY <2>0 DEF OperationInv, Answers
  <2>2. \A c \in Call : kind'[c] = "run" /\ reply'[c] = "none" =>
       /\ at'[c] \in {"out", "intent"} => began'[serving'[c]] = 0
       /\ at'[c] \in {"effect", "receipt"} => began'[serving'[c]] # 0
       /\ at'[c] # "receipt" => serving'[c] \notin done'
    BY <1>5, <2>1 DEF OperationInv, Answers
  <2>3. \A n \in Attempt : n > Last' => began'[n] = 0 /\ n \notin done'
    BY <1>5, <2>0 DEF OperationInv, Answers
  <2>4. \A c \in Call : reply'[c] # "none" => kind[c] # "none" /\ c # c0 /\ serving'[c] = serving[c]
    BY <1>5 DEF OperationInv, CallsMade
  <2>5. \A c \in Call : reply'[c] \in {"acknowledged", "completed"} => serving'[c] \in done'
    BY <1>5, <2>4 DEF OperationInv, Answers
  <2>6. \A c \in Call : reply'[c] = "fenced-not-started" => began'[serving'[c]] = 0
    BY <1>5, <2>4 DEF OperationInv, Answers
  <2> QED BY <2>2, <2>3, <2>5, <2>6 DEF Answers
<1>12. Barred'
  <2>1. ~ Closed(Last)'
    <3>1. \A c \in Call : serving'[c] = Last' => kind'[c] = "none" \/ reply'[c] = "none"
      BY <1>5, <1>9
    <3> QED BY <1>6, <3>1 DEF Closed, Definite
  <2>2. ASSUME NEW c \in Call, kind'[c] = "run", reply'[c] = "none", Closed(serving[c])'
        PROVE at'[c] = "out" /\ fence'[serving'[c]] \in L!Readable
    <3>1. c # c0 /\ kind[c] = "run" /\ reply[c] = "none" /\ serving'[c] = serving[c]
          /\ serving[c] \in 1..Last
      BY <1>4, <1>5, <1>9, <2>1, <2>2 DEF Closed
    <3>2. Closed(serving[c])
      BY <1>7, <3>1 DEF Closed
    <3> QED BY <1>5, <3>1, <3>2 DEF OperationInv, Barred
  <2> QED BY <2>2 DEF Barred
<1>13. ImageKnown'
  <2>1. Lies(Target(Previous)) /\ Previous \in Direction
    <3>1. Last = 0 \/ Last \in 1..Last
      BY <1>2
    <3> QED BY <1>7, <3>1 DEF OperationInv, ImageKnown
  <2>2. Target(Previous)' = Target(Previous)
    BY <1>8 DEF Target
  <2>3. Lies(Target(Previous))'
    BY <1>5, <2>1, <2>2 DEF Lies, files
  <2>4. Last' \notin done'
    <3>1. Last' \in Attempt /\ Last' > Last
      BY <1>2, <1>4
    <3> QED BY <1>5, <3>1 DEF OperationInv, Answers
  <2>5. \A c \in Call : at'[c] # "effect"
    <3>1. SUFFICES ASSUME NEW c \in Call, at[c] = "effect" PROVE FALSE
      BY <1>5
    <3>2. Last \in 1..Last /\ Unresolved(Last)
      BY <3>1, InsideRun DEF Inside
    <3> QED BY <1>7, <3>2
  <2> QED BY <1>8, <2>1, <2>3, <2>4, <2>5 DEF ImageKnown
<1> QED BY <1>10, <1>11, <1>12, <1>13

(* An outcome or a resolution leaves the calls, the ledger and the image.  *)
LEMMA WrittenKeeps ==
  ASSUME OperationInv, Last > 0, Last' = Last, host' = "idle", UNCHANGED <<ledger, calls, files>>,
         \A n \in 1..Last : n # Last => (Unresolved(n)' <=> Unresolved(n)),
         Unresolved(Last)' => Unresolved(Last),
         Closed(Last)' => Closed(Last)
  PROVE CallsMade' /\ Answers' /\ Barred'
<1>1. UNCHANGED <<kind, reply, sent, serving, at, began, done, fence>>
  BY DEF ledger, calls
<1>2. CallsMade'
  BY <1>1 DEF OperationInv, CallsMade
<1>3. Answers'
  BY <1>1 DEF OperationInv, Answers
<1>4. Barred'
  <2>1. \A c \in Call : kind[c] = "run" => serving[c] \in 1..Last
    BY DEF OperationInv, CallsMade
  <2>2. \A n \in 1..Last : Closed(n)' => Closed(n)
    BY <1>1 DEF Closed
  <2> QED BY <1>1, <2>1, <2>2 DEF OperationInv, Barred
<1> QED BY <1>2, <1>3, <1>4

(* The attempt whose answer the host has not seen, or not believed.        *)
LEMMA UncertainKeeps ==
  ASSUME Counted, Last > 0, Unresolved(Last), Record("uncertain")
  PROVE /\ Last' = Last /\ Previous' = Previous
        /\ \A n \in 1..Last : /\ Unresolved(n)' <=> Unresolved(n)
                              /\ attempts'[n].direction = attempts[n].direction
<1>1. /\ Last' = Last /\ Last \in 1..Last /\ DOMAIN attempts = 1..Last
      /\ \A n \in 1..Last : /\ n # Last => attempts'[n] = attempts[n]
                            /\ attempts'[n].direction = attempts[n].direction
                            /\ attempts'[n].resolution = attempts[n].resolution
      /\ attempts'[Last].outcome = "uncertain"
  BY OutcomeWritten, LastEvent DEF Outcome
<1>2. DOMAIN attempts' = DOMAIN attempts
  BY <1>1, RecordKept DEF Last, Outcome
<1>3. \A n \in 1..Last : Unresolved(n)' <=> Unresolved(n)
  BY <1>1 DEF Unresolved
<1>4. ~ Took(Last) /\ ~ Took(Last)'
  BY <1>1 DEF Took, Unresolved
<1>5. Previous' = Previous
  BY <1>1, <1>2, <1>4, NothingTaken
<1> QED BY <1>1, <1>3, <1>5

(* What was answered closes the attempt.                                   *)
LEMMA AcknowledgedSettles ==
  ASSUME Counted, Last > 0, Record("acknowledged")
  PROVE /\ Last' = Last /\ Previous' = attempts[Last].direction
        /\ ~ Unresolved(Last)'
        /\ \A n \in 1..Last : n # Last => (Unresolved(n)' <=> Unresolved(n))
        /\ \A n \in 1..Last : attempts'[n].direction = attempts[n].direction
<1>1. /\ Last' = Last /\ Last \in 1..Last /\ DOMAIN attempts = 1..Last
      /\ \A n \in 1..Last : /\ n # Last => attempts'[n] = attempts[n]
                            /\ attempts'[n].direction = attempts[n].direction
      /\ attempts'[Last].outcome = "acknowledged"
  BY OutcomeWritten, LastEvent DEF Outcome
<1>2. DOMAIN attempts' = DOMAIN attempts
  BY <1>1, RecordKept DEF Last, Outcome
<1>3. ~ Unresolved(Last)' /\ \A n \in 1..Last : n # Last => (Unresolved(n)' <=> Unresolved(n))
  BY <1>1 DEF Unresolved
<1>4. Took(Last)'
  BY <1>1 DEF Took
<1>5. Previous' = attempts[Last].direction
  BY <1>1, <1>2, <1>4, LastTaken
<1> QED BY <1>1, <1>3, <1>5

LEMMA ResolutionSettles ==
  ASSUME Counted, Last > 0, Unresolved(Last), NEW r \in {"fenced-not-started", "completed"},
         attempts' = [attempts EXCEPT ![Last].resolution = r]
  PROVE /\ Last' = Last
        /\ Previous' = (IF r = "completed" THEN attempts[Last].direction ELSE Previous)
        /\ ~ Unresolved(Last)'
        /\ \A n \in 1..Last : n # Last => (Unresolved(n)' <=> Unresolved(n))
        /\ \A n \in 1..Last : attempts'[n].direction = attempts[n].direction
<1>1. /\ Last' = Last /\ Last \in 1..Last /\ DOMAIN attempts = 1..Last
      /\ \A n \in 1..Last : /\ n # Last => attempts'[n] = attempts[n]
                            /\ attempts'[n].direction = attempts[n].direction
                            /\ attempts'[n].outcome = attempts[n].outcome
      /\ attempts'[Last].resolution = r
  BY ResolutionWritten, LastEvent DEF Resolution
<1>2. DOMAIN attempts' = DOMAIN attempts
  BY <1>1, ResolutionRecorded DEF Last, Resolution
<1>3. ~ Unresolved(Last)' /\ \A n \in 1..Last : n # Last => (Unresolved(n)' <=> Unresolved(n))
  BY <1>1 DEF Unresolved
<1>4. CASE r = "completed"
  <2>1. Took(Last)'
    BY <1>1, <1>4 DEF Took
  <2> QED BY <1>1, <1>2, <1>3, <1>4, <2>1, LastTaken
<1>5. CASE r = "fenced-not-started"
  <2>1. ~ Took(Last) /\ ~ Took(Last)'
    BY <1>1, <1>5 DEF Took, Unresolved
  <2> QED BY <1>1, <1>2, <1>3, <1>5, <2>1, NothingTaken
<1> QED BY <1>4, <1>5

(* The answer the host waits for is the one to its last attempt.           *)
LEMMA Waiting ==
  ASSUME OperationInv, host # "idle"
  PROVE /\ sent \in Call /\ kind[sent] = host /\ kind[sent] # "none" /\ serving[sent] = Last
        /\ Unresolved(Last) /\ Last > 0 /\ Last \in 1..Last
        /\ reply[sent] \in Definite => Closed(Last)
        /\ reply[sent] \in {"acknowledged", "completed"} => Last \in done
        /\ reply[sent] = "fenced-not-started" => began[Last] = 0
<1>1. /\ sent \in Call /\ kind[sent] = host /\ serving[sent] = Last /\ Unresolved(Last)
      /\ Last > 0
  BY DEF OperationInv, CallsMade, Counted, Last
<1>2. Last \in 1..Last
  BY <1>1, LastEvent DEF OperationInv
<1>3. kind[sent] # "none"
  <2>1. sent <= sent
    BY DEF OperationInv, Counted
  <2> QED BY <1>1, <2>1 DEF OperationInv, CallsMade
<1> QED BY <1>1, <1>2, <1>3 DEF Closed, OperationInv, Answers

LEMMA AcknowledgedKeeps ==
  ASSUME OperationInv, Acknowledged PROVE CallsMade' /\ Answers' /\ Barred' /\ ImageKnown'
<1>1. /\ host = "run" /\ reply[sent] = "acknowledged" /\ Record("acknowledged") /\ host' = "idle"
      /\ UNCHANGED <<ledger, calls, files>>
  BY DEF Acknowledged
<1>2. Unresolved(Last) /\ Last > 0 /\ Last \in 1..Last /\ Closed(Last) /\ Last \in done
  BY <1>1, Waiting DEF Definite
<1>3. /\ Last' = Last /\ Previous' = attempts[Last].direction
      /\ ~ Unresolved(Last)'
      /\ \A n \in 1..Last : n # Last => (Unresolved(n)' <=> Unresolved(n))
      /\ \A n \in 1..Last : attempts'[n].direction = attempts[n].direction
  BY <1>1, <1>2, AcknowledgedSettles DEF OperationInv
<1>4. CallsMade' /\ Answers' /\ Barred'
  BY <1>1, <1>2, <1>3, WrittenKeeps
<1>5. ImageKnown'
  <2>1. Lies(Target(attempts[Last].direction)) /\ attempts[Last].direction \in Direction
    BY <1>2, LastEvent DEF OperationInv, ImageKnown, Event
  <2>2. Lies(Target(Previous))' /\ Lies(Target(attempts[Last].direction))'
    BY <1>1, <1>2, <1>3, <2>1 DEF Lies, Target, files
  <2>3. \A c \in Call : at'[c] # "effect"
    <3>1. SUFFICES ASSUME NEW c \in Call, at[c] = "effect" PROVE FALSE
      BY <1>1 DEF ledger
    <3> QED BY <1>2, <3>1, InsideRun DEF Inside
  <2> QED BY <1>2, <1>3, <2>1, <2>2, <2>3 DEF ImageKnown
<1> QED BY <1>4, <1>5

LEMMA ResolvedKeeps ==
  ASSUME OperationInv, Resolved PROVE CallsMade' /\ Answers' /\ Barred' /\ ImageKnown'
<1> DEFINE r == reply[sent]
<1>1. /\ host = "fence" /\ r \in {"fenced-not-started", "completed"} /\ host' = "idle"
      /\ attempts' = [attempts EXCEPT ![Last].resolution = r]
      /\ UNCHANGED <<ledger, calls, files>>
  BY DEF Resolved
<1>2. /\ Unresolved(Last) /\ Last > 0 /\ Last \in 1..Last /\ Closed(Last)
      /\ r = "completed" => Last \in done
      /\ r = "fenced-not-started" => began[Last] = 0
  BY <1>1, Waiting DEF Definite
<1>3. /\ Last' = Last
      /\ Previous' = (IF r = "completed" THEN attempts[Last].direction ELSE Previous)
      /\ ~ Unresolved(Last)'
      /\ \A n \in 1..Last : n # Last => (Unresolved(n)' <=> Unresolved(n))
      /\ \A n \in 1..Last : attempts'[n].direction = attempts[n].direction
  BY <1>1, <1>2, ResolutionSettles DEF OperationInv
<1> HIDE DEF r
<1>4. CallsMade' /\ Answers' /\ Barred'
  BY <1>1, <1>2, <1>3, WrittenKeeps
<1>5. ImageKnown'
  <2>1. /\ Last \in done => Lies(Target(attempts[Last].direction))
        /\ attempts[Last].direction \in Direction /\ Previous \in Direction
        /\ r = "fenced-not-started" => Lies(Target(Previous))
    BY <1>2, LastEvent DEF OperationInv, ImageKnown, Event
  <2>2. Lies(Target(Previous))' /\ (Last \in done => Lies(Target(attempts[Last].direction))')
    BY <1>1, <1>2, <1>3, <2>1 DEF Lies, Target, files
  <2>3. \A c \in Call : at'[c] # "effect"
    <3>1. SUFFICES ASSUME NEW c \in Call, at[c] = "effect" PROVE FALSE
      BY <1>1 DEF ledger
    <3> QED BY <1>2, <3>1, InsideRun DEF Inside
  <2>4. Previous' \in Direction /\ done' = done
    BY <1>1, <1>3, <2>1 DEF ledger
  <2> QED BY <1>2, <1>3, <2>2, <2>3, <2>4 DEF ImageKnown
<1> QED BY <1>4, <1>5

(* With the history, the ledger and the image as they were, the image is   *)
(* known as before.                                                        *)
LEMMA ImageStillKnown ==
  ASSUME OperationInv, Last' = Last, Previous' = Previous,
         \A n \in 1..Last : /\ Unresolved(n)' <=> Unresolved(n)
                            /\ attempts'[n].direction = attempts[n].direction,
         UNCHANGED <<at, began, done, files>>
  PROVE ImageKnown'
<1>1. UNCHANGED <<step, image, onDisk>> /\ UNCHANGED <<at, began, done>>
  BY DEF files
<1>2. Last \in Nat /\ (Last > 0 => Last \in 1..Last)
  BY LastEvent DEF OperationInv
<1>3. Target(Previous)' = Target(Previous)
  BY DEF Target
<1>4. Last > 0 => Target(attempts[Last].direction)' = Target(attempts[Last].direction)
  BY <1>2 DEF Target
<1>5. /\ Previous' \in Direction
      /\ Last' > 0 /\ Unresolved(Last)' /\ began'[Last'] = 0 => Lies(Target(Previous))'
      /\ Last' > 0 /\ Last' \in done' => Lies(Target(attempts[Last].direction))'
      /\ Last' = 0 \/ ~ Unresolved(Last)' => Lies(Target(Previous))'
  BY <1>1, <1>2, <1>3, <1>4 DEF OperationInv, ImageKnown, Lies
<1>6. \A c \in Call : at'[c] = "effect" =>
        /\ step' \in {"moved", "synced"} => image' = Target(attempts[Last].direction)'
        /\ step' = "synced" => onDisk' = image'
  <2>1. ASSUME NEW c \in Call, at[c] = "effect" PROVE Last \in 1..Last /\ Last > 0
    BY <2>1, InsideRun, <1>2 DEF Inside
  <2> QED BY <1>1, <1>4, <2>1 DEF OperationInv, ImageKnown
<1> QED BY <1>5, <1>6 DEF ImageKnown

LEMMA GaveUpKeeps ==
  ASSUME OperationInv, GaveUp PROVE CallsMade' /\ Answers' /\ Barred' /\ ImageKnown'
<1>1. /\ host = "run" /\ Record("uncertain") /\ host' = "idle"
      /\ UNCHANGED <<ledger, calls, files>>
  BY DEF GaveUp
<1>2. Unresolved(Last) /\ Last > 0 /\ Last \in 1..Last
  BY <1>1, Waiting
<1>3. /\ Last' = Last /\ Previous' = Previous
      /\ \A n \in 1..Last : /\ Unresolved(n)' <=> Unresolved(n)
                            /\ attempts'[n].direction = attempts[n].direction
  BY <1>1, <1>2, UncertainKeeps DEF OperationInv
<1>4. Closed(Last)' => Closed(Last)
  BY <1>1, <1>2, <1>3 DEF Closed, calls, ledger
<1>5. CallsMade' /\ Answers' /\ Barred'
  BY <1>1, <1>2, <1>3, <1>4, WrittenKeeps
<1>6. ImageKnown'
  BY <1>1, <1>3, ImageStillKnown DEF ledger
<1> QED BY <1>5, <1>6

LEMMA ReconcileKeeps ==
  ASSUME OperationInv, Reconcile PROVE CallsMade' /\ Answers' /\ Barred' /\ ImageKnown'
<1>1. /\ host' = "fence" /\ Last > 0 /\ Unresolved(Last) /\ Record("uncertain")
      /\ SendCall("fence", Last)
  BY DEF Reconcile
<1>2. Last \in Attempt /\ Last \in 1..Last
  BY <1>1, LastEvent DEF OperationInv
<1>3. /\ Last' = Last /\ Previous' = Previous
      /\ \A n \in 1..Last : /\ Unresolved(n)' <=> Unresolved(n)
                            /\ attempts'[n].direction = attempts[n].direction
  BY <1>1, UncertainKeeps DEF OperationInv
<1> DEFINE c0 == sent'
<1>4. /\ c0 \in Call /\ kind[c0] = "none" /\ reply[c0] = "none" /\ at[c0] = "out"
      /\ \A c \in Call : c <= sent' <=> c <= sent \/ c = c0
      /\ kind' \in [Call -> {"none", "run", "fence"}]
      /\ kind'[c0] = "fence" /\ serving'[c0] = Last
      /\ \A c \in Call : c # c0 => kind'[c] = kind[c] /\ serving'[c] = serving[c]
      /\ UNCHANGED <<reply, at, fence, began, done, files>>
  BY <1>1, <1>2, CallSent
<1>5. c0 = sent'
  OBVIOUS
<1> HIDE DEF c0
<1>6. CallsMade'
  <2>1. \A c \in Call : c <= sent' <=> kind'[c] # "none"
    BY <1>4 DEF OperationInv, CallsMade
  <2>2. \A c \in Call : kind'[c] = "none" => reply'[c] = "none"
    BY <1>4 DEF OperationInv, CallsMade
  <2>3. \A c \in Call : kind'[c] # "none" => serving'[c] \in 1..Last
    BY <1>2, <1>4 DEF OperationInv, CallsMade
  <2>4. \A c, k \in Call :
          kind'[c] = "run" /\ kind'[k] = "run" /\ serving'[c] = serving'[k] => c = k
    BY <1>4 DEF OperationInv, CallsMade
  <2>5. \A c \in Call : at'[c] # "out" =>
          reply'[c] = "none" /\ kind'[c] = (IF at'[c] = "fence" THEN "fence" ELSE "run")
    BY <1>4 DEF OperationInv, CallsMade
  <2>6. sent' \in Call /\ kind'[sent'] = host' /\ serving'[sent'] = Last /\ Unresolved(Last)'
    BY <1>1, <1>2, <1>3, <1>4, <1>5
  <2>7. \A n \in 1..Last : n # Last => ~ Unresolved(n)'
    BY <1>3 DEF OperationInv, CallsMade
  <2> QED BY <1>3, <1>4, <2>1, <2>2, <2>3, <2>4, <2>5, <2>6, <2>7 DEF OperationInv, CallsMade
<1>7. Answers'
  <2>1. \A c \in Call : kind'[c] = "run" \/ reply'[c] # "none" =>
          c # c0 /\ kind'[c] = kind[c] /\ serving'[c] = serving[c]
    BY <1>4
  <2> QED BY <1>3, <1>4, <2>1 DEF OperationInv, Answers
<1>8. Barred'
  <2>1. \A n \in 1..Last : Closed(n)' => Closed(n)
    BY <1>3, <1>4 DEF Closed, Definite
  <2>2. \A c \in Call : kind'[c] = "run" =>
          c # c0 /\ kind[c] = "run" /\ serving'[c] = serving[c] /\ serving[c] \in 1..Last
    BY <1>4 DEF OperationInv, CallsMade
  <2> QED BY <1>4, <2>1, <2>2 DEF OperationInv, Barred
<1>9. ImageKnown'
  BY <1>3, <1>4, ImageStillKnown
<1> QED BY <1>6, <1>7, <1>8, <1>9

(* Nothing of the history or of the calls moves when the host stops        *)
(* waiting.                                                                *)
LEMMA StoppedKeeps ==
  ASSUME OperationInv, host' = "idle", UNCHANGED <<ledger, calls, attempts, files>>
  PROVE CallsMade' /\ Answers' /\ Barred' /\ ImageKnown'
<1>1. /\ Last' = Last /\ Previous' = Previous /\ \A n \in 1..Last : Unresolved(n)' <=> Unresolved(n)
  BY HistoryKept
<1>2. UNCHANGED <<kind, reply, sent, serving, at, began, done, fence>>
  BY DEF ledger, calls
<1>3. \A n \in 1..Last : Closed(n)' => Closed(n)
  BY <1>1, <1>2 DEF Closed
<1>4. CallsMade'
  BY <1>1, <1>2 DEF OperationInv, CallsMade
<1>5. Answers'
  BY <1>1, <1>2 DEF OperationInv, Answers
<1>6. Barred'
  BY <1>2, <1>3 DEF OperationInv, Barred, CallsMade
<1>7. ImageKnown'
  BY <1>1, <1>2, ImageStillKnown
<1> QED BY <1>4, <1>5, <1>6, <1>7

(* What every step of the target leaves alone.                             *)
TargetStep == UNCHANGED <<kind, sent, serving, attempts, host>>

LEMMA TargetSame ==
  ASSUME TargetStep
  PROVE /\ Last' = Last /\ Previous' = Previous /\ Target(Previous)' = Target(Previous)
        /\ \A n \in 1..Last : Unresolved(n)' <=> Unresolved(n)
        /\ UNCHANGED <<kind, sent, serving, attempts, host>>
  BY HistoryKept DEF TargetStep, Target

LEMMA Typed ==
  ASSUME OperationInv
  PROVE /\ at \in [Call -> L!Stage] /\ reply \in [Call -> Reply] /\ serving \in [Call -> Attempt]
        /\ kind \in [Call -> {"none", "run", "fence"}]
        /\ began \in [Attempt -> Nat] /\ done \subseteq Attempt
        /\ intent \in [Attempt -> L!Mark] /\ receipt \in [Attempt -> L!Mark]
        /\ fence \in [Attempt -> L!Mark]
        /\ \A c \in Call : kind[c] # "none" => serving[c] \in 1..Last
        /\ \A c \in Call : c <= sent => kind[c] # "none"
        /\ \A c \in Call : kind[c] = "none" => reply[c] = "none"
        /\ \A c \in Call : at[c] # "out" =>
             reply[c] = "none" /\ kind[c] = (IF at[c] = "fence" THEN "fence" ELSE "run")
  BY DEF OperationInv, LedgerInv, L!TypeOK, CallsMade

(* The flock: with no owner nobody is inside, and an owner is alone.       *)
LEMMA Alone ==
  ASSUME OperationInv
  PROVE /\ owner = {} => \A c \in Call : at[c] = "out"
        /\ \A c, k \in Call : at[c] # "out" /\ at[k] # "out" => k = c
  BY DEF OperationInv, LedgerInv, LockHeld

LEMMA CallsKept ==
  ASSUME OperationInv, TargetStep, reply' \in [Call -> Reply],
         \A c \in Call : kind[c] = "none" => reply'[c] = "none",
         \A c \in Call : at'[c] # "out" =>
           reply'[c] = "none" /\ kind[c] = (IF at'[c] = "fence" THEN "fence" ELSE "run")
  PROVE CallsMade'
<1>1. Last' = Last /\ \A n \in 1..Last : Unresolved(n)' <=> Unresolved(n)
  BY TargetSame
<1>2. host # "idle" => sent \in Call /\ kind[sent] = host /\ serving[sent] = Last /\ Unresolved(Last)'
  BY <1>1, LastEvent DEF OperationInv, CallsMade, Counted, Last
<1>3. /\ kind \in [Call -> {"none", "run", "fence"}]
      /\ \A c \in Call : c <= sent <=> kind[c] # "none"
      /\ \A c \in Call : kind[c] # "none" => serving[c] \in 1..Last
      /\ \A c, k \in Call : kind[c] = "run" /\ kind[k] = "run" /\ serving[c] = serving[k] => c = k
      /\ \A n \in 1..Last : n # Last => ~ Unresolved(n)'
  BY <1>1 DEF OperationInv, CallsMade
<1> QED BY <1>1, <1>2, <1>3 DEF CallsMade, TargetStep

(* An answer that settles nothing closes nothing.                          *)
LEMMA BarredStays ==
  ASSUME OperationInv, TargetStep,
         \A c \in Call : reply'[c] \in Definite => reply[c] = reply'[c],
         \A c \in Call : kind[c] = "run" /\ reply'[c] = "none" /\ Closed(serving[c]) =>
           reply[c] = "none" /\ at'[c] = at[c] /\ fence'[serving[c]] = fence[serving[c]]
  PROVE Barred'
<1> SUFFICES ASSUME NEW c \in Call, kind[c] = "run", reply'[c] = "none", Closed(serving[c])'
             PROVE at'[c] = "out" /\ fence'[serving[c]] \in L!Readable
  BY TargetSame DEF Barred
<1>1. serving[c] \in 1..Last
  BY Typed
<1>2. Closed(serving[c])
  <2>1. \A n \in 1..Last : Closed(n)' => Closed(n)
    BY TargetSame DEF Closed
  <2> QED BY <1>1, <2>1, TargetSame DEF Closed
<1> QED BY <1>2 DEF OperationInv, Barred

LEMMA ImageStays ==
  ASSUME OperationInv, TargetStep, UNCHANGED <<began, done, image, onDisk>>,
         \A c \in Call : at'[c] = "effect" => at[c] = "effect" /\ step' \in {step, "begin", "staged"}
  PROVE ImageKnown'
<1>1. Last \in Nat /\ (Last > 0 => Last \in 1..Last)
  BY LastEvent DEF OperationInv
<1>2. Target(attempts[Last].direction)' = Target(attempts[Last].direction)
  BY TargetSame DEF Target
<1>3. /\ Previous' \in Direction
      /\ Last' > 0 /\ Unresolved(Last)' /\ began'[Last'] = 0 => Lies(Target(Previous))'
      /\ Last' > 0 /\ Last' \in done' => Lies(Target(attempts[Last].direction))'
      /\ Last' = 0 \/ ~ Unresolved(Last)' => Lies(Target(Previous))'
  BY <1>1, <1>2, TargetSame DEF OperationInv, ImageKnown, Lies
<1>4. \A c \in Call : at'[c] = "effect" =>
        /\ step' \in {"moved", "synced"} => image' = Target(attempts[Last].direction)'
        /\ step' = "synced" => onDisk' = image'
  BY <1>2 DEF OperationInv, ImageKnown
<1> QED BY <1>3, <1>4 DEF ImageKnown

TargetParts == CallsMade /\ Answers /\ Barred /\ ImageKnown

LEMMA StartRunKeeps == ASSUME OperationInv, NEW c \in Call, StartRun(c) PROVE TargetParts'
<1>1. /\ TargetStep /\ owner = {} /\ at[c] = "out" /\ kind[c] = "run" /\ reply[c] = "none"
      /\ at' = [at EXCEPT ![c] = "intent"]
      /\ UNCHANGED <<reply, fence, began, done, image, onDisk, step>>
      /\ fence[serving[c]] = "none"
  BY DEF StartRun, L!BeginRun, L!Enter, L!MayStart, L!Untouched, Pending, calls, journals,
      files,
         TargetStep
<1>2. /\ \A k \in Call : at[k] = "out" /\ at'[k] = (IF k = c THEN "intent" ELSE "out")
      /\ began[serving[c]] = 0 /\ serving[c] \notin done
  BY <1>1, Typed, Alone DEF OperationInv, Answers
<1>3. CallsMade'
  BY <1>1, <1>2, Typed, CallsKept
<1>4. Answers'
  BY <1>1, <1>2, TargetSame DEF OperationInv, Answers
<1>5. Barred'
  <2>1. ~ Closed(serving[c])
    BY <1>1 DEF OperationInv, Barred, L!Readable
  <2> QED BY <1>1, <1>2, <2>1, BarredStays
<1>6. ImageKnown'
  BY <1>1, <1>2, ImageStays
<1> QED BY <1>3, <1>4, <1>5, <1>6 DEF TargetParts

LEMMA WriteIntentKeeps == ASSUME OperationInv, NEW c \in Call, WriteIntent(c) PROVE TargetParts'
<1>1. /\ TargetStep /\ at[c] = "intent" /\ step' = "begin"
      /\ at' = [at EXCEPT ![c] = "effect"] /\ began' = [began EXCEPT ![serving[c]] = @ + 1]
      /\ UNCHANGED <<reply, fence, done, image, onDisk>>
  BY DEF WriteIntent, L!WriteIntent, calls, journals, TargetStep
<1>2. /\ kind[c] = "run" /\ reply[c] = "none" /\ serving[c] = Last
      /\ Last \in 1..Last /\ Last \in Attempt /\ Unresolved(Last) /\ ~ Closed(Last)
      /\ \A k \in Call : at[k] # "out" => k = c
      /\ \A k \in Call : kind[k] = "run" /\ serving[k] = Last => k = c
  BY <1>1, InsideRun DEF Inside
<1>3. /\ \A k \in Call : at'[k] = (IF k = c THEN "effect" ELSE "out")
      /\ began[Last] = 0 /\ began'[Last] = 1 /\ \A n \in Attempt : n # Last => began'[n] = began[n]
  BY <1>1, <1>2, Typed DEF OperationInv, Answers
<1>4. CallsMade'
  BY <1>1, <1>2, <1>3, Typed, CallsKept
<1>5. Answers'
  <2>1. \A k \in Call : serving[k] \in Attempt /\ (reply[k] # "none" => kind[k] # "none")
    BY Typed DEF OperationInv, CallsMade
  <2>2. \A k \in Call : reply[k] = "fenced-not-started" => serving[k] # Last
    BY <1>2, <2>1 DEF Closed, Definite
  <2>3. \A k \in Call : kind[k] = "run" /\ reply[k] = "none" =>
          /\ at'[k] \in {"out", "intent"} => began'[serving[k]] = 0
          /\ at'[k] \in {"effect", "receipt"} => began'[serving[k]] # 0
          /\ serving[k] \notin done
    BY <1>1, <1>2, <1>3, <2>1 DEF OperationInv, Answers
  <2>4. \A n \in Attempt : n > Last => n # Last
    BY <1>2
  <2> QED BY <1>1, <1>3, <2>1, <2>2, <2>3, <2>4, TargetSame DEF OperationInv, Answers
<1>6. Barred'
  BY <1>1, <1>2, <1>3, BarredStays
<1>7. ImageKnown'
  <2>1. ~ (Last \in done)
    BY <1>1, <1>2 DEF OperationInv, Answers
  <2>2. Previous \in Direction
    BY DEF OperationInv, ImageKnown
  <2> QED BY <1>1, <1>2, <1>3, <2>1, <2>2, TargetSame DEF ImageKnown
<1> QED BY <1>4, <1>5, <1>6, <1>7 DEF TargetParts

LEMMA EffectReturnsKeeps ==
  ASSUME OperationInv, NEW c \in Call, EffectReturns(c) PROVE TargetParts'
<1>1. /\ TargetStep /\ at[c] = "effect" /\ step = "synced"
      /\ at' = [at EXCEPT ![c] = "receipt"] /\ done' = done \cup {serving[c]}
      /\ UNCHANGED <<reply, fence, began, image, onDisk>>
  BY DEF EffectReturns, L!EffectReturns, calls, journals, files, TargetStep
<1>2. /\ kind[c] = "run" /\ reply[c] = "none" /\ serving[c] = Last
      /\ Last \in 1..Last /\ Last \in Attempt /\ Unresolved(Last) /\ ~ Closed(Last)
      /\ \A k \in Call : at[k] # "out" => k = c
      /\ \A k \in Call : kind[k] = "run" /\ serving[k] = Last => k = c
  BY <1>1, InsideRun DEF Inside
<1>3. \A k \in Call : at'[k] = (IF k = c THEN "receipt" ELSE "out")
  BY <1>1, <1>2, Typed
<1>4. CallsMade'
  BY <1>1, <1>2, <1>3, Typed, CallsKept
<1>5. Answers'
  <2>1. began[Last] # 0
    BY <1>1, <1>2 DEF OperationInv, Answers
  <2>2. \A k \in Call : kind[k] = "run" /\ reply[k] = "none" =>
          /\ at'[k] \in {"out", "intent"} => began[serving[k]] = 0
          /\ at'[k] \in {"effect", "receipt"} => began[serving[k]] # 0
          /\ at'[k] # "receipt" => serving[k] \notin done'
    BY <1>1, <1>2, <1>3, <2>1 DEF OperationInv, Answers
  <2>3. \A n \in Attempt : n > Last => n # Last
    BY <1>2
  <2> QED BY <1>1, <1>2, <2>2, <2>3, TargetSame DEF OperationInv, Answers
<1>6. Barred'
  BY <1>1, <1>2, <1>3, BarredStays
<1>7. ImageKnown'
  <2>1. Lies(Target(attempts[Last].direction)) /\ Previous \in Direction /\ began[Last] # 0
    BY <1>1, <1>2 DEF OperationInv, ImageKnown, Lies, Answers
  <2>2. Lies(Target(attempts[Last].direction))'
    BY <1>1, <2>1, TargetSame DEF Lies, Target
  <2> QED BY <1>1, <1>2, <1>3, <2>1, <2>2, TargetSame DEF ImageKnown
<1> QED BY <1>4, <1>5, <1>6, <1>7 DEF TargetParts

(* Whoever gives up, is refused or is killed answers with an error.        *)
LEMMA ErrorKeeps ==
  ASSUME OperationInv, NEW c \in Call, TargetStep, reply' = [reply EXCEPT ![c] = "error"],
         kind[c] # "none", reply[c] = "none", at' = [at EXCEPT ![c] = "out"],
         UNCHANGED <<began, done, image, onDisk, step>>,
         \A n \in Attempt : fence[n] # "none" => fence'[n] = fence[n] \/ fence[n] = "torn"
  PROVE TargetParts'
<1>1. \A k \in Call : /\ reply'[k] = (IF k = c THEN "error" ELSE reply[k])
                      /\ at'[k] = (IF k = c THEN "out" ELSE at[k])
  BY Typed
<1>2. CallsMade'
  <2>1. reply' \in [Call -> Reply]
    BY Typed DEF Reply
  <2> QED BY <1>1, <2>1, Typed, CallsKept DEF OperationInv, CallsMade
<1>3. Answers'
  BY <1>1, TargetSame DEF OperationInv, Answers
<1>4. Barred'
  <2>1. \A k \in Call : kind[k] = "run" /\ reply'[k] = "none" /\ Closed(serving[k]) =>
          reply[k] = "none" /\ at'[k] = at[k] /\ fence'[serving[k]] = fence[serving[k]]
    BY <1>1, Typed DEF OperationInv, Barred, L!Readable
  <2> QED BY <1>1, <2>1, BarredStays DEF Definite
<1>5. ImageKnown'
  BY <1>1, ImageStays
<1> QED BY <1>2, <1>3, <1>4, <1>5 DEF TargetParts

LEMMA RaisesKeep == ASSUME OperationInv, NEW c \in Call, EffectRaises(c) PROVE TargetParts'
<1>1. /\ TargetStep /\ at[c] = "effect" /\ reply' = [reply EXCEPT ![c] = "error"]
      /\ at' = [at EXCEPT ![c] = "out"]
      /\ UNCHANGED <<fence, began, done, image, onDisk, step>>
  BY DEF EffectRaises, L!EffectRaises, L!Leave, L!records, Answer, journals, files, TargetStep
<1>2. kind[c] = "run" /\ reply[c] = "none"
  BY <1>1, InsideRun DEF Inside
<1> QED BY <1>1, <1>2, ErrorKeeps

LEMMA KillKeeps == ASSUME OperationInv, NEW c \in Call, Kill(c) PROVE TargetParts'
<1>1. /\ TargetStep /\ at[c] # "out" /\ reply' = [reply EXCEPT ![c] = "error"]
      /\ at' = [at EXCEPT ![c] = "out"]
      /\ UNCHANGED <<began, done, image, onDisk, step>>
      /\ \E mark \in L!LeftBehind(fence[serving[c]]) : fence' = [fence EXCEPT ![serving[c]] = mark]
  BY DEF Kill, L!Kill, L!Leave, Answer, journals, files, TargetStep
<1>2. kind[c] # "none" /\ reply[c] = "none"
  BY <1>1, Typed
<1>3. \A n \in Attempt : fence[n] # "none" => fence'[n] = fence[n] \/ fence[n] = "torn"
  BY <1>1, Typed DEF L!LeftBehind
<1> QED BY <1>1, <1>2, <1>3, ErrorKeeps

LEMMA RefuseKeeps == ASSUME OperationInv, NEW c \in Call, Refuse(c) PROVE TargetParts'
<1>1. /\ TargetStep /\ at[c] = "out" /\ reply[c] = "none" /\ c <= sent
      /\ reply' = [reply EXCEPT ![c] = "error"]
      /\ UNCHANGED <<at, fence, began, done, image, onDisk, step>>
  BY DEF Refuse, Pending, Answer, ledger, journals, files, TargetStep
<1>2. kind[c] # "none" /\ at' = [at EXCEPT ![c] = "out"]
  BY <1>1, Typed
<1> QED BY <1>1, <1>2, ErrorKeeps

(* A definite answer: what it says is so, and the run it is about, if it   *)
(* still travels, meets the fence.                                         *)
LEMMA DefiniteKeeps ==
  ASSUME OperationInv, NEW c \in Call, NEW r \in Definite, TargetStep,
         reply' = [reply EXCEPT ![c] = r], kind[c] # "none", reply[c] = "none",
         at' = [at EXCEPT ![c] = "out"],
         UNCHANGED <<began, done, image, onDisk, step>>,
         r = "fenced-not-started" => began[serving[c]] = 0,
         r # "fenced-not-started" => serving[c] \in done,
         \A k \in Call : kind[k] = "run" /\ reply[k] = "none" /\ k # c /\ serving[k] = serving[c] =>
           at[k] = "out" /\ fence'[serving[c]] \in L!Readable,
         \A n \in Attempt : n # serving[c] => fence'[n] = fence[n]
  PROVE TargetParts'
<1>1. \A k \in Call : /\ reply'[k] = (IF k = c THEN r ELSE reply[k])
                      /\ at'[k] = (IF k = c THEN "out" ELSE at[k])
  BY Typed
<1>2. r \in {"acknowledged", "fenced-not-started", "completed"}
  BY DEF Definite
<1>3. CallsMade'
  <2>1. reply' \in [Call -> Reply]
    BY <1>2, Typed DEF Reply
  <2> QED BY <1>1, <2>1, Typed, CallsKept
<1>4. Answers'
  BY <1>1, <1>2, TargetSame DEF OperationInv, Answers
<1>5. Barred'
  <2> SUFFICES ASSUME NEW k \in Call, kind[k] = "run", reply'[k] = "none", Closed(serving[k])'
               PROVE at'[k] = "out" /\ fence'[serving[k]] \in L!Readable
    BY TargetSame DEF Barred
  <2>1. k # c /\ reply[k] = "none" /\ serving[k] \in 1..Last /\ serving[k] \in Attempt
    BY <1>1, <1>2, Typed
  <2>2. CASE serving[k] = serving[c]
    BY <1>1, <2>1, <2>2
  <2>3. CASE serving[k] # serving[c]
    <3>1. \A n \in 1..Last : n # serving[c] /\ Closed(n)' => Closed(n)
      BY <1>1, TargetSame DEF Closed
    <3>2. Closed(serving[k])
      BY <2>1, <2>3, <3>1, TargetSame DEF Closed
    <3> QED BY <1>1, <2>1, <2>3, <3>2 DEF OperationInv, Barred
  <2> QED BY <2>2, <2>3
<1>6. ImageKnown'
  BY <1>1, ImageStays
<1> QED BY <1>3, <1>4, <1>5, <1>6 DEF TargetParts

LEMMA WriteReceiptKeeps == ASSUME OperationInv, NEW c \in Call, WriteReceipt(c) PROVE TargetParts'
<1>1. /\ TargetStep /\ at[c] = "receipt" /\ reply' = [reply EXCEPT ![c] = "acknowledged"]
      /\ at' = [at EXCEPT ![c] = "out"]
      /\ UNCHANGED <<fence, began, done, image, onDisk, step>>
  BY DEF WriteReceipt, L!WriteReceipt, L!Leave, Answer, journals, files, TargetStep
<1>2. /\ kind[c] = "run" /\ reply[c] = "none" /\ serving[c] = Last
      /\ \A k \in Call : kind[k] = "run" /\ serving[k] = Last => k = c
  BY <1>1, InsideRun DEF Inside
<1>3. serving[c] \in done
  BY <1>1 DEF OperationInv, LedgerInv, StageRecords
<1> QED BY <1>1, <1>2, <1>3, DefiniteKeeps DEF Definite

LEMMA StartFenceKeeps == ASSUME OperationInv, NEW c \in Call, StartFence(c) PROVE TargetParts'
<1>1. /\ TargetStep /\ owner = {} /\ at[c] = "out" /\ kind[c] = "fence" /\ reply[c] = "none"
      /\ at' = [at EXCEPT ![c] = "fence"] /\ fence' = [fence EXCEPT ![serving[c]] = "torn"]
      /\ fence[serving[c]] = "none"
      /\ UNCHANGED <<reply, began, done, image, onDisk, step>>
  BY DEF StartFence, L!BeginFence, L!Enter, L!Untouched, Pending, calls, journals, files,
         TargetStep
<1>2. \A k \in Call : at[k] = "out" /\ at'[k] = (IF k = c THEN "fence" ELSE "out")
  BY <1>1, Typed, Alone
<1>3. \A n \in Attempt : fence[n] # "none" => fence'[n] = fence[n]
  BY <1>1, Typed
<1>4. CallsMade'
  BY <1>1, <1>2, Typed, CallsKept
<1>5. Answers'
  BY <1>1, <1>2, TargetSame DEF OperationInv, Answers
<1>6. Barred'
  <2>1. \A k \in Call : kind[k] = "run" /\ reply'[k] = "none" /\ Closed(serving[k]) =>
          reply[k] = "none" /\ at'[k] = at[k] /\ fence'[serving[k]] = fence[serving[k]]
    BY <1>1, <1>2, <1>3, Typed DEF OperationInv, Barred, L!Readable
  <2> QED BY <1>1, <2>1, BarredStays
<1>7. ImageKnown'
  BY <1>1, <1>2, ImageStays
<1> QED BY <1>4, <1>5, <1>6, <1>7 DEF TargetParts

LEMMA WriteFenceKeeps == ASSUME OperationInv, NEW c \in Call, WriteFence(c) PROVE TargetParts'
<1>1. /\ TargetStep /\ at[c] = "fence" /\ reply' = [reply EXCEPT ![c] = "fenced-not-started"]
      /\ at' = [at EXCEPT ![c] = "out"] /\ fence' = [fence EXCEPT ![serving[c]] = "whole"]
      /\ UNCHANGED <<began, done, image, onDisk, step>>
  BY DEF WriteFence, L!WriteFence, L!Leave, Answer, journals, files, TargetStep
<1>2. /\ kind[c] # "none" /\ reply[c] = "none" /\ serving[c] \in Attempt
      /\ \A k \in Call : k # c => at[k] = "out"
  BY <1>1, Typed, Alone
<1>3. began[serving[c]] = 0
  BY <1>1, <1>2 DEF OperationInv, LedgerInv, StageRecords, RecordOrder
<1>4. /\ fence'[serving[c]] \in L!Readable
      /\ \A n \in Attempt : n # serving[c] => fence'[n] = fence[n]
  BY <1>1, <1>2, Typed DEF L!Readable
<1> QED BY <1>1, <1>2, <1>3, <1>4, DefiniteKeeps DEF Definite

LEMMA ReportFenceKeeps == ASSUME OperationInv, NEW c \in Call, ReportFence(c) PROVE TargetParts'
<1>1. /\ TargetStep /\ owner = {} /\ at[c] = "out" /\ kind[c] = "fence" /\ reply[c] = "none"
      /\ UNCHANGED <<at, fence, began, done, image, onDisk, step>>
      /\ \/ L!Fenced(serving[c]) /\ reply' = [reply EXCEPT ![c] = "fenced-not-started"]
         \/ L!Completed(serving[c]) /\ reply' = [reply EXCEPT ![c] = "completed"]
         \/ reply' = [reply EXCEPT ![c] = "incomplete"]
  BY DEF ReportFence, Pending, Answer, ledger, journals, files, TargetStep
<1>2. /\ \A k \in Call : at[k] = "out"
      /\ at' = [at EXCEPT ![c] = "out"] /\ serving[c] \in Attempt
  BY <1>1, Typed, Alone
<1>3. CASE L!Fenced(serving[c]) /\ reply' = [reply EXCEPT ![c] = "fenced-not-started"]
  <2>1. began[serving[c]] = 0 /\ fence[serving[c]] \in L!Readable
    BY <1>2, <1>3 DEF L!Fenced, OperationInv, LedgerInv, RecordOrder
  <2> QED BY <1>1, <1>2, <1>3, <2>1, DefiniteKeeps DEF Definite
<1>4. CASE L!Completed(serving[c]) /\ reply' = [reply EXCEPT ![c] = "completed"]
  <2>1. serving[c] \in done
    BY <1>2, <1>4 DEF L!Completed, L!Readable, OperationInv, LedgerInv, RecordOrder
  <2>2. \A k \in Call : ~ (kind[k] = "run" /\ reply[k] = "none" /\ serving[k] = serving[c])
    BY <1>2, <2>1 DEF OperationInv, Answers
  <2> QED BY <1>1, <1>2, <1>4, <2>1, <2>2, DefiniteKeeps DEF Definite
<1>5. CASE reply' = [reply EXCEPT ![c] = "incomplete"]
  <2>1. \A k \in Call : reply'[k] = (IF k = c THEN "incomplete" ELSE reply[k])
    BY <1>5, Typed
  <2>2. reply' \in [Call -> Reply]
    BY <1>5, Typed DEF Reply
  <2>3. CallsMade'
    BY <1>1, <1>2, <2>1, <2>2, Typed, CallsKept
  <2>4. Answers'
    BY <1>1, <1>2, <2>1, TargetSame DEF OperationInv, Answers
  <2>5. Barred'
    BY <1>1, <1>2, <2>1, BarredStays DEF Definite
  <2>6. ImageKnown'
    BY <1>1, <1>2, ImageStays
  <2> QED BY <2>3, <2>4, <2>5, <2>6 DEF TargetParts
<1> QED BY <1>1, <1>3, <1>4, <1>5

(* Inside the effect of the last attempt only the files move.              *)
LEMMA EffectKeeps ==
  ASSUME OperationInv, NEW c \in Call, at[c] = "effect", TargetStep,
         UNCHANGED <<reply, at, fence, began, done>>,
         step' \in {"moved", "synced"} => image' = Target(attempts[Last].direction),
         step' = "synced" => onDisk' = image'
  PROVE TargetParts'
<1>1. /\ kind[c] = "run" /\ reply[c] = "none" /\ serving[c] = Last
      /\ Last \in 1..Last /\ Last > 0 /\ Unresolved(Last)
      /\ \A k \in Call : at[k] # "out" => k = c
  BY InsideRun DEF Inside
<1>2. began[Last] # 0 /\ Last \notin done
  BY <1>1 DEF OperationInv, Answers
<1>3. CallsMade'
  BY Typed, CallsKept
<1>4. Answers'
  BY TargetSame DEF OperationInv, Answers
<1>5. Barred'
  BY BarredStays
<1>6. ImageKnown'
  <2>1. Target(attempts[Last].direction)' = Target(attempts[Last].direction)
    BY TargetSame DEF Target
  <2>2. Previous' \in Direction /\ Last' = Last /\ Unresolved(Last)'
    BY <1>1, TargetSame DEF OperationInv, ImageKnown
  <2> QED BY <1>1, <1>2, <2>1, <2>2, TargetSame DEF ImageKnown
<1> QED BY <1>3, <1>4, <1>5, <1>6 DEF TargetParts

LEMMA FilesKeep ==
  ASSUME OperationInv, NEW c \in Call, Stage(c) \/ Publish(c) \/ Remove(c) \/ Sync(c)
  PROVE TargetParts'
<1>1. /\ at[c] = "effect" /\ TargetStep /\ UNCHANGED <<reply, at, fence, began, done>>
      /\ step' # "synced" \/ (step = "moved" /\ onDisk' = image /\ image' = image)
      /\ step' = "moved" => image' = Target(attempts[serving[c]].direction)
      /\ step' \in {"moved", "synced", "staged"}
  BY DEF Stage, Publish, Remove, Sync, Effecting, Target, ledger, calls, journals, TargetStep
<1>2. serving[c] = Last
  BY <1>1, InsideRun DEF Inside
<1>3. step = "moved" => image = Target(attempts[Last].direction)
  BY <1>1, <1>2 DEF OperationInv, ImageKnown
<1> QED BY <1>1, <1>2, <1>3, EffectKeeps

(* A power loss answers every call and loses at most an unsynced change.   *)
LEMMA PowerLossKeeps == ASSUME OperationInv, TargetPowerLoss PROVE TargetParts'
<1>1. /\ TargetStep /\ step' = "begin" /\ at' = [c \in Call |-> "out"]
      /\ UNCHANGED <<began, done>> /\ image' \in {image, onDisk} /\ onDisk' = image'
      /\ reply' = [c \in Call |-> IF c <= sent /\ reply[c] = "none" THEN "error" ELSE reply[c]]
  BY DEF TargetPowerLoss, L!PowerLoss, journals, TargetStep
<1>2. \A c \in Call : /\ reply'[c] = "none" => kind[c] = "none"
                      /\ reply'[c] = reply[c] \/ (reply'[c] = "error" /\ kind[c] # "none")
                      /\ at'[c] = "out"
  BY <1>1 DEF OperationInv, CallsMade
<1>3. CallsMade'
  <2>1. reply' \in [Call -> Reply]
    BY <1>1, Typed DEF Reply
  <2> QED BY <1>1, <1>2, <2>1, Typed, CallsKept
<1>4. Answers'
  BY <1>1, <1>2, TargetSame DEF OperationInv, Answers
<1>5. Barred'
  BY <1>1, <1>2, TargetSame DEF Barred
<1>6. ImageKnown'
  <2>1. \A x : Lies(x) => Lies(x)'
    BY <1>1 DEF Lies
  <2>2. Last \in Nat /\ (Last > 0 => Last \in 1..Last)
    BY LastEvent DEF OperationInv
  <2>3. Target(attempts[Last].direction)' = Target(attempts[Last].direction)
    BY <1>1, TargetSame DEF Target
  <2>4. /\ Previous' \in Direction
        /\ Last' > 0 /\ Unresolved(Last)' /\ began'[Last'] = 0 => Lies(Target(Previous))'
        /\ Last' > 0 /\ Last' \in done' => Lies(Target(attempts[Last].direction))'
        /\ Last' = 0 \/ ~ Unresolved(Last)' => Lies(Target(Previous))'
    BY <1>1, <2>2, <2>3, TargetSame DEF OperationInv, ImageKnown, Lies
  <2> QED BY <1>2, <2>4 DEF ImageKnown
<1> QED BY <1>3, <1>4, <1>5, <1>6 DEF TargetParts

LEMMA InitOperation == Init => OperationInv
<1> SUFFICES ASSUME Init PROVE OperationInv
  OBVIOUS
<1>1. Counted /\ LedgerInv
  BY InitCounted, InitLedger, InitLedgerInv
<1>2. Last = 0 /\ Previous = "restore"
  BY DEF Init, Last, Previous, Taken
<1>3. CallsMade
  <2>1. 1..Last = {}
    BY <1>2
  <2>2. \A c \in Call : ~ (c <= sent)
    BY BoundAssumption DEF Init, Call
  <2> QED BY <1>2, <2>1, <2>2 DEF Init, CallsMade, Reply
<1>4. Answers /\ Barred
  BY DEF Init, Answers, Barred
<1>6. Sides
  BY DEF Init, Sides
<1>5. ImageKnown
  BY <1>2 DEF Init, ImageKnown, Lies, Target, Direction
<1> QED BY <1>1, <1>3, <1>4, <1>5, <1>6 DEF OperationInv

LEMMA SidesKept == Sides /\ [Next]_vars => Sides'
<1> SUFFICES ASSUME Sides, [Next]_vars PROVE Sides'
  OBVIOUS
<1>1. CASE Host \/ UNCHANGED vars
  BY <1>1
  DEF Host, Dispatch, SendCall, Acknowledged, GaveUp, Reconcile, Resolved, NotResolved,
      HostCrash, vars, files, Sides
<1>2. CASE TargetPowerLoss
  BY <1>2 DEF TargetPowerLoss, Sides
<1>3. ASSUME NEW c \in Call, TargetWork(c) PROVE Sides'
  BY <1>3
  DEF TargetWork, StartRun, WriteIntent, Stage, Publish, Remove, Sync, EffectReturns,
      EffectRaises, WriteReceipt, StartFence, WriteFence, ReportFence, Refuse, Kill, files, Sides
<1> QED BY <1>1, <1>2, <1>3 DEF Next

LEMMA StepOperation == OperationInv /\ [Next]_vars => OperationInv'
<1> SUFFICES ASSUME OperationInv, [Next]_vars PROVE OperationInv'
  OBVIOUS
<1>1. Counted' /\ LedgerInv' /\ Sides'
  BY StepCounted, StepLedger, StepLedgerInv, SidesKept DEF OperationInv
<1>2. CASE Host
  <2>1. CASE NotResolved \/ HostCrash
    BY <1>1, <2>1, StoppedKeeps DEF NotResolved, HostCrash, OperationInv
  <2> QED
    BY <1>1, <1>2, <2>1, DispatchKeeps, AcknowledgedKeeps, GaveUpKeeps, ReconcileKeeps,
       ResolvedKeeps DEF Host, OperationInv
<1>3. CASE TargetPowerLoss
  BY <1>1, <1>3, PowerLossKeeps DEF OperationInv, TargetParts
<1>4. ASSUME NEW c \in Call, TargetWork(c) PROVE OperationInv'
  BY <1>1, <1>4, StartRunKeeps, WriteIntentKeeps, FilesKeep, EffectReturnsKeeps, RaisesKeep,
     WriteReceiptKeeps, StartFenceKeeps, WriteFenceKeeps, ReportFenceKeeps, RefuseKeeps, KillKeeps
  DEF TargetWork, OperationInv, TargetParts
<1>5. CASE UNCHANGED vars
  <2>1. /\ UNCHANGED <<ledger, calls, attempts, files>> /\ UNCHANGED host
    BY <1>5 DEF vars, journals
  <2>2. /\ Last' = Last /\ Previous' = Previous
        /\ \A n \in 1..Last : Unresolved(n)' <=> Unresolved(n)
    BY <2>1, HistoryKept
  <2>3. TargetStep /\ UNCHANGED <<reply, at, fence, began, done, step, image, onDisk>>
    BY <2>1 DEF TargetStep, ledger, calls, files
  <2>4. CallsMade'
    BY <2>3, Typed, CallsKept
  <2>5. Answers'
    BY <2>3, TargetSame DEF OperationInv, Answers
  <2>6. Barred'
    BY <2>3, BarredStays
  <2>7. ImageKnown'
    BY <2>3, ImageStays
  <2> QED BY <1>1, <2>4, <2>5, <2>6, <2>7 DEF OperationInv
<1> QED BY <1>2, <1>3, <1>4, <1>5 DEF Next

(* What the owner has open, as the refinement mapping says it.             *)
Open == IF Last > 0 /\ Unresolved(Last) THEN attempts[Last].direction ELSE "none"

LEMMA OpenKnown ==
  ASSUME OperationInv
  PROVE /\ Open # "none" <=> Last > 0 /\ Unresolved(Last)
        /\ Last > 0 => attempts[Last].direction \in Direction
<1>1. Last > 0 => attempts[Last].direction \in Direction
  BY LastEvent DEF OperationInv, Event
<1> QED BY <1>1 DEF Open, Direction

LEMMA Moves == \A d \in Direction : Register!Outcome(d) = Target(d)
  BY DEF Register!Outcome, Target

LEMMA InitRegister == Init => Register!Init
  BY DEF Init, Register!Init, Last, Previous, Taken, Target

(* The image moves only under an open attempt, and unsynced at that.       *)
LEMMA ImageMoves ==
  ASSUME OperationInv, TargetStep, image' \in {"absent", "present"},
         image' = image \/ (Last > 0 /\ Unresolved(Last))
  PROVE Register!Next \/ UNCHANGED Register!vars
<1>1. Target(Previous)' = Target(Previous) /\ Open' = Open
  <2>1. Last > 0 => Last \in 1..Last
    BY LastEvent DEF OperationInv
  <2> QED BY <2>1, TargetSame DEF Open
<1>2. CASE image' = image
  BY <1>1, <1>2 DEF Register!vars, Open
<1>3. CASE Last > 0 /\ Unresolved(Last)
  BY <1>1, <1>3, OpenKnown DEF Register!Next, Register!Change, Open
<1> QED BY <1>2, <1>3

LEMMA StepRegister == OperationInv /\ [Next]_vars => [Register!Next]_(Register!vars)
<1> SUFFICES ASSUME OperationInv, [Next]_vars PROVE Register!Next \/ UNCHANGED Register!vars
  OBVIOUS
<1>0. image \in {"absent", "present"} /\ onDisk \in {"absent", "present"}
  BY DEF OperationInv, Sides
<1>1. ASSUME NEW d \in Direction, Dispatch(d) PROVE Register!Next
  <2> DEFINE e == [direction |-> d, outcome |-> "open", resolution |-> "none"]
  <2>1. AllResolved /\ Previous # d /\ attempts' = Append(attempts, e) /\ image' = image
    BY <1>1 DEF Dispatch, SendCall, files
  <2>2. /\ e \in Event /\ e.direction = d /\ e.outcome = "open" /\ e.resolution = "none"
        /\ attempts \in Seq(Event) /\ Last \in Nat /\ DOMAIN attempts = 1..Last
        /\ Previous \in Direction
    BY LastEvent DEF Event, Outcome, Resolution, OperationInv, Counted, ImageKnown
  <2> HIDE DEF e
  <2>3. /\ Last' = Last + 1 /\ Last' > 0 /\ DOMAIN attempts' = (1..Last) \cup {Last'}
        /\ Last' \notin 1..Last
        /\ attempts'[Last'] = e /\ \A n \in 1..Last : attempts'[n] = attempts[n]
    BY <2>1, <2>2 DEF Last
  <2>4. Open = "none" /\ Open' = d
    <3>1. Last > 0 => Last \in DOMAIN attempts
      BY <2>2
    <3> QED BY <2>1, <2>2, <2>3, <3>1 DEF Open, AllResolved, Unresolved
  <2>5. Previous' = Previous
    <3>1. Taken' = Taken
      BY <2>2, <2>3 DEF Taken, Took
    <3> QED BY <2>2, <2>3, <3>1, PreviousKept
  <2>6. Register!Outcome(d) # Target(Previous)
    BY <2>1, <2>2 DEF Register!Outcome, Target, Direction
  <2>7. Target(Previous)' = Target(Previous)
    BY <2>5 DEF Target
  <2>8. d \in {"apply", "restore"}
    BY DEF Direction
  <2>9. Register!Start(d)
    BY <2>1, <2>4, <2>6, <2>7 DEF Register!Start, Open
  <2> QED BY <2>8, <2>9 DEF Register!Next
<1>2. CASE Acknowledged
  <2>1. Last > 0 /\ Unresolved(Last) /\ Last \in done /\ Last \in 1..Last
    BY <1>2, Waiting DEF Acknowledged
  <2>2. Previous' = attempts[Last].direction /\ ~ Unresolved(Last)' /\ Last' = Last /\ image' = image
    BY <1>2, <2>1, AcknowledgedSettles DEF Acknowledged, files, OperationInv
  <2>3. image = Target(attempts[Last].direction)
    BY <2>1 DEF OperationInv, ImageKnown, Lies
  <2>4. Open = attempts[Last].direction /\ Open \in Direction /\ Open' = "none"
        /\ Target(Previous)' = Target(attempts[Last].direction)
    BY <2>1, <2>2, OpenKnown DEF Open, Target
  <2>5. Register!Close
    BY <2>2, <2>3, <2>4, Moves, OpenKnown DEF Register!Close, Open, Direction
  <2> QED BY <2>5 DEF Register!Next
<1>3. CASE Resolved
  <2> DEFINE r == reply[sent]
  <2>1. /\ Last > 0 /\ Unresolved(Last) /\ Last \in 1..Last
        /\ r = "completed" => Last \in done
        /\ r = "fenced-not-started" => began[Last] = 0
        /\ r \in {"fenced-not-started", "completed"}
        /\ attempts' = [attempts EXCEPT ![Last].resolution = r] /\ image' = image
    BY <1>3, Waiting DEF Resolved, files
  <2> HIDE DEF r
  <2>2. /\ Previous' = (IF r = "completed" THEN attempts[Last].direction ELSE Previous)
        /\ ~ Unresolved(Last)' /\ Last' = Last
    BY <2>1, ResolutionSettles DEF OperationInv
  <2>3. Open = attempts[Last].direction /\ Open \in Direction /\ Open' = "none"
    BY <2>1, <2>2, OpenKnown DEF Open
  <2>4. CASE r = "completed"
    <3>1. image = Target(attempts[Last].direction)
      BY <2>1, <2>4 DEF OperationInv, ImageKnown, Lies
    <3>2. Target(Previous)' = Target(attempts[Last].direction)
      BY <2>2, <2>4 DEF Target
    <3>3. Register!Close
      BY <2>1, <2>3, <3>1, <3>2, Moves, OpenKnown DEF Register!Close, Open, Direction
    <3> QED BY <3>3 DEF Register!Next
  <2>5. CASE r = "fenced-not-started"
    <3>1. image = Target(Previous)
      BY <2>1, <2>5 DEF OperationInv, ImageKnown, Lies
    <3>2. Target(Previous)' = Target(Previous)
      BY <2>2, <2>5 DEF Target
    <3>3. Register!Cancel
      BY <2>1, <2>3, <3>1, <3>2, OpenKnown DEF Register!Cancel, Open, Direction
    <3> QED BY <3>3 DEF Register!Next
  <2> QED BY <2>1, <2>4, <2>5
<1>4. CASE GaveUp \/ Reconcile
  <2>1. Last > 0 /\ Last \in 1..Last /\ Unresolved(Last) /\ Record("uncertain") /\ image' = image
    BY <1>4, Waiting, LastEvent DEF GaveUp, Reconcile, SendCall, files, OperationInv
  <2>2. Last' = Last /\ Previous' = Previous /\ Unresolved(Last)'
        /\ attempts'[Last].direction = attempts[Last].direction
    BY <2>1, UncertainKeeps DEF OperationInv
  <2> QED BY <2>1, <2>2 DEF Register!vars, Open, Target
<1>5. CASE NotResolved \/ HostCrash \/ UNCHANGED vars
  <2>1. attempts' = attempts /\ image' = image
    BY <1>5 DEF NotResolved, HostCrash, vars, journals, files
  <2>2. Last' = Last /\ Previous' = Previous /\ (Last > 0 => (Unresolved(Last)' <=> Unresolved(Last)))
    BY <2>1, HistoryKept, LastEvent DEF OperationInv
  <2> QED BY <2>1, <2>2 DEF Register!vars, Target
<1>6. CASE TargetPowerLoss
  <2>1. TargetStep /\ image' \in {image, onDisk}
    BY <1>6 DEF TargetPowerLoss, L!PowerLoss, journals, TargetStep
  <2>2. image # onDisk => Last > 0 /\ Unresolved(Last)
    <3>1. Last \in Nat
      BY LastEvent DEF OperationInv
    <3> QED BY <3>1 DEF OperationInv, ImageKnown, Lies
  <2> QED BY <1>0, <2>1, <2>2, ImageMoves
<1>7. ASSUME NEW c \in Call, Publish(c) \/ Remove(c) PROVE Register!Next \/ UNCHANGED Register!vars
  <2>1. at[c] = "effect" /\ TargetStep /\ image' \in {"absent", "present"}
    BY <1>7 DEF Publish, Remove, Effecting, ledger, calls, journals, TargetStep
  <2>2. Last > 0 /\ Unresolved(Last)
    <3>1. Last \in 1..Last /\ Unresolved(Last)
      BY <2>1, InsideRun DEF Inside
    <3> QED BY <3>1
  <2> QED BY <2>1, <2>2, ImageMoves
<1>8. ASSUME NEW c \in Call, TargetWork(c), UNCHANGED image
      PROVE Register!Next \/ UNCHANGED Register!vars
  <2>1. TargetStep
    BY <1>8
    DEF TargetWork, StartRun, WriteIntent, Stage, Publish, Remove, Sync, EffectReturns,
        EffectRaises, WriteReceipt, StartFence, WriteFence, ReportFence, Refuse, Kill, Answer,
        ledger, calls, journals, TargetStep,
        L!BeginRun, L!Enter, L!WriteIntent, L!EffectReturns, L!EffectRaises, L!Leave,
        L!WriteReceipt, L!BeginFence, L!WriteFence, L!Kill
  <2> QED BY <1>0, <1>8, <2>1, ImageMoves
<1>9. ASSUME NEW c \in Call, TargetWork(c), ~ UNCHANGED image PROVE Publish(c) \/ Remove(c)
  BY <1>9
  DEF TargetWork, StartRun, WriteIntent, Stage, Publish, Remove, Sync, EffectReturns,
      EffectRaises, WriteReceipt, StartFence, WriteFence, ReportFence, Refuse, Kill, files
<1> QED
  BY <1>1, <1>2, <1>3, <1>4, <1>5, <1>6, <1>7, <1>8, <1>9 DEF Next, Host

(* No interleaving of host, workers, fences, crashes and power losses      *)
(* shows the owner anything but a register with one open attempt.          *)
THEOREM RegisterRefined == Spec => ImplementsRegister
  BY InitOperation, StepOperation, InitRegister, StepRegister, PTL
  DEF Spec, ImplementsRegister, Register!Spec

-----------------------------------------------------------------------------
(***************************************************************************)
(* The target file transition, for a plan of any number of files.          *)
(***************************************************************************)
\* Everything is as direction d wants it, or as somebody else left it, on disk too.
Applied(d, f) == dest[f] \in {F!Want(d, f), Other} /\ durable[f] = dest[f]
Whole(d) == \A f \in F!File : Applied(d, f)

FileShape ==
  /\ DOMAIN last = {"direction", "state"} /\ last.direction \in F!Direction
  /\ DOMAIN asked = F!Call /\ \A c \in F!Call : asked[c] \in F!Direction \cup {"none"}
  /\ DOMAIN answer = F!Call
  /\ DOMAIN dest = F!File /\ DOMAIN durable = F!File
  /\ worker \in {0} \cup F!Call /\ pos \in F!File /\ waiting \in BOOLEAN

\* Calls are made one after the other; an unanswered one is awaited or at work.
FileCalls ==
  /\ \A c, k \in F!Call : F!Sent(c) /\ k < c => F!Sent(k)
  /\ \A c \in F!Call : answer[c] # "none" => F!Sent(c)
  /\ worker # 0 => F!Sent(worker) /\ answer[worker] = "none"
  /\ \A c \in F!Call : F!Sent(c) /\ answer[c] = "none" /\ c # worker => waiting /\ F!Current(c)

\* The worker has done every file before the one it is at.
FileWork == worker # 0 => \A f \in F!File : f < pos => Applied(F!dir, f)

\* A call that was done left every file done, and nobody at work.
FileAnswers ==
  /\ waiting => last.state # "acknowledged"
  /\ \A c \in F!Call : waiting /\ F!Current(c) =>
       /\ asked[c] = last.direction
       /\ answer[c] = "done" => worker = 0 /\ Whole(last.direction)
  /\ last.state = "acknowledged" => worker = 0 /\ Whole(last.direction)

FilesInv == FileShape /\ FileCalls /\ FileWork /\ FileAnswers

LEMMA FileOrder ==
  /\ 1 \in F!File /\ \A f \in F!File : ~ (f < 1)
  /\ \A f, g \in F!File : f < g => f # g
  /\ \A g \in F!File :
       /\ g < Count => g + 1 \in F!File /\ \A f \in F!File : f < g + 1 => f < g \/ f = g
       /\ ~ (g < Count) => \A f \in F!File : f < g \/ f = g
<1>1. Count \in Nat \ {0}
  BY FilesAssumption DEF F!PlanAssumption
<1> QED BY <1>1 DEF F!File

LEMMA DispatchOrder ==
  /\ 0 \notin F!Call
  /\ \A c, k \in F!Call : (k <= c <=> k < c \/ k = c) /\ (k < c \/ k = c \/ c < k)
  /\ \A c, k \in F!Call : k < c => ~ (c < k) /\ c # k
<1>1. MaxDispatches \in Nat \ {0}
  BY FilesAssumption DEF F!PlanAssumption
<1> QED BY <1>1 DEF F!Call

LEMMA OneCurrent ==
  ASSUME NEW c \in F!Call, NEW k \in F!Call, F!Current(c), F!Current(k) PROVE c = k
  BY DispatchOrder DEF F!Current

(* The first call not made is made: it is the current one.                 *)
LEMMA Dispatched == ASSUME FilesInv, NEW d \in F!Direction, F!Dispatch(d) PROVE FilesInv'
<1>1. PICK c \in F!Call : /\ ~ F!Sent(c) /\ \A k \in F!Call : k < c => F!Sent(k)
                          /\ asked' = [asked EXCEPT ![c] = d]
  BY DEF F!Dispatch
<1>2. UNCHANGED <<events, answer, worker, pos, stage, dest, durable, marks>> /\ waiting' = TRUE
  BY DEF F!Dispatch, F!worker, F!files
<1>3. last' = [direction |-> d, state |-> "dispatch"] /\ ~ waiting
  BY DEF F!Dispatch
<1>4. d # "none" /\ \A k \in F!Call : asked'[k] = IF k = c THEN d ELSE asked[k]
  BY <1>1 DEF FilesInv, FileShape, F!Direction
<1>5. FileShape'
  BY <1>1, <1>2, <1>3, <1>4 DEF FilesInv, FileShape, F!Direction
<1>6. \A k \in F!Call : F!Sent(k)' <=> F!Sent(k) \/ k = c
  BY <1>4 DEF F!Sent
<1>7. \A k \in F!Call : F!Sent(k) => k < c
  BY <1>1, DispatchOrder DEF FilesInv, FileCalls
<1>8. F!Current(c)' /\ \A k \in F!Call : F!Current(k)' => k = c
  BY <1>6, <1>7, DispatchOrder DEF F!Current
<1>9. FileCalls'
  <2>1. \A k, j \in F!Call : F!Sent(k)' /\ j < k => F!Sent(j)'
    BY <1>1, <1>6 DEF FilesInv, FileCalls
  <2>2. worker' # 0 => F!Sent(worker)' /\ answer'[worker'] = "none"
    BY <1>2, <1>6 DEF FilesInv, FileCalls, FileShape, F!Sent
  <2>3. \A k \in F!Call : F!Sent(k)' /\ answer'[k] = "none" /\ k # worker' => k = c
    BY <1>2, <1>3, <1>6 DEF FilesInv, FileCalls
  <2>4. \A k \in F!Call : answer'[k] # "none" => F!Sent(k)'
    BY <1>2, <1>6 DEF FilesInv, FileCalls
  <2> QED BY <1>2, <1>8, <2>1, <2>2, <2>3, <2>4 DEF FileCalls
<1>10. worker' # 0 => F!dir' = F!dir
  BY <1>1, <1>2, <1>4 DEF F!dir, FilesInv, FileCalls, FileShape
<1>11. FileWork'
  BY <1>2, <1>10 DEF FilesInv, FileWork, Applied
<1>12. answer'[c] # "done"
  BY <1>1, <1>2 DEF FilesInv, FileCalls
<1>13. FileAnswers'
  BY <1>1, <1>2, <1>3, <1>4, <1>8, <1>12 DEF FileAnswers
<1> QED BY <1>5, <1>9, <1>11, <1>13 DEF FilesInv

(* Nothing but the file the worker is at is touched.                       *)
LEMMA Worked ==
  ASSUME FilesInv, worker # 0, UNCHANGED <<last, waiting, asked, answer, worker, pos>>,
         DOMAIN dest' = F!File, DOMAIN durable' = F!File,
         \A f \in F!File : f # pos => dest'[f] = dest[f] /\ durable'[f] = durable[f]
  PROVE FilesInv'
<1>1. FileShape'
  BY DEF FilesInv, FileShape
<1>2. FileCalls' /\ F!dir' = F!dir
  BY DEF FilesInv, FileCalls, F!Sent, F!Current, F!dir
<1>3. FileWork'
  BY <1>2, FileOrder DEF FilesInv, FileWork, FileShape, Applied
<1>4. FileAnswers'
  BY DEF FilesInv, FileAnswers, F!Current, F!Sent
<1> QED BY <1>1, <1>2, <1>3, <1>4 DEF FilesInv

(* A file that was done on the disk too is followed by the next, or it was *)
(* the last one and the call is answered.                                  *)
LEMMA Advanced ==
  ASSUME FilesInv, worker # 0, F!Persist, F!Advance, dest[pos] = F!Want(F!dir, pos),
         UNCHANGED <<last, waiting, dest>>
  PROVE FilesInv'
<1>1. /\ asked' = asked /\ DOMAIN durable' = F!File
      /\ \A f \in F!File : durable'[f] = IF f = pos THEN dest[f] ELSE durable[f]
  BY DEF F!Advance, F!calls, F!Persist, FilesInv, FileShape
<1>2. \A f \in F!File : f < pos \/ f = pos =>
        dest[f] \in {F!Want(F!dir, f), Other} /\ durable'[f] = dest[f]
  BY <1>1 DEF FilesInv, FileWork, Applied
<1>3. CASE pos < Count
  <2>1. UNCHANGED <<worker, asked, answer, last, waiting, dest>> /\ pos' = pos + 1
    BY <1>3 DEF F!Advance, F!calls
  <2>2. FileShape'
    BY <1>1, <1>3, <2>1, FileOrder DEF FilesInv, FileShape
  <2>3. FileCalls' /\ F!dir' = F!dir
    BY <2>1 DEF FilesInv, FileCalls, F!Sent, F!Current, F!dir
  <2>4. FileWork'
    <3>1. \A f \in F!File : f < pos' => f < pos \/ f = pos
      BY <1>3, <2>1, FileOrder DEF FilesInv, FileShape
    <3> QED BY <1>2, <2>1, <2>3, <3>1 DEF FileWork, Applied
  <2>5. FileAnswers'
    BY <2>1 DEF FilesInv, FileAnswers, F!Current, F!Sent
  <2> QED BY <2>2, <2>3, <2>4, <2>5 DEF FilesInv
<1>4. CASE ~ (pos < Count)
  <2>1. /\ worker' = 0 /\ pos' = 1 /\ answer' = [answer EXCEPT ![worker] = "done"]
        /\ UNCHANGED <<asked, last, waiting, dest>>
    BY <1>4 DEF F!Advance
  <2>2. FileShape'
    BY <1>1, <2>1, FileOrder DEF FilesInv, FileShape
  <2>3. \A k \in F!Call : answer'[k] = IF k = worker THEN "done" ELSE answer[k]
    BY <2>1 DEF FilesInv, FileShape
  <2>4. FileCalls'
    BY <2>1, <2>3, DispatchOrder DEF FilesInv, FileCalls, FileShape, F!Sent, F!Current
  <2>5. \A f \in F!File : dest[f] \in {F!Want(F!dir, f), Other} /\ durable'[f] = dest[f]
    BY <1>2, <1>4, FileOrder DEF FilesInv, FileShape
  <2>6. FileAnswers'
    <3>1. ASSUME NEW c \in F!Call, waiting, F!Current(c)
          PROVE asked[c] = last.direction /\ (answer'[c] = "done" => Whole(last.direction)')
      <4>1. c = worker => Whole(last.direction)'
        BY <2>1, <2>5, <3>1 DEF Whole, Applied, F!dir, FilesInv, FileAnswers, F!Want
      <4>2. c # worker => answer'[c] # "done"
        BY <2>3, <3>1 DEF FilesInv, FileAnswers
      <4> QED BY <3>1, <4>1, <4>2 DEF FilesInv, FileAnswers
    <3>2. last.state # "acknowledged"
      BY DEF FilesInv, FileAnswers
    <3> QED BY <2>1, <3>1, <3>2 DEF FileAnswers, F!Current, F!Sent, FilesInv
  <2>7. FileWork'
    BY <2>1 DEF FileWork
  <2> QED BY <2>2, <2>4, <2>6, <2>7 DEF FilesInv
<1> QED BY <1>3, <1>4

(* A worker that ends without an answer, or a power loss.                  *)
LEMMA Ended ==
  ASSUME FilesInv, UNCHANGED <<last, waiting, asked>>, worker' = 0, pos' = 1,
         DOMAIN dest' = F!File, DOMAIN durable' = F!File, DOMAIN answer' = F!Call,
         \A f \in F!File : durable[f] = dest[f] => dest'[f] = dest[f] /\ durable'[f] = dest[f],
         \A c \in F!Call : answer'[c] # answer[c] =>
                             F!Sent(c) /\ answer[c] = "none" /\ answer'[c] = "error",
         worker # 0 => answer'[worker] # "none"
  PROVE FilesInv'
<1>1. FileShape'
  BY FileOrder DEF FilesInv, FileShape
<1>2. FileCalls'
  BY DispatchOrder DEF FilesInv, FileCalls, FileShape, F!Sent, F!Current
<1>3. \A d \in F!Direction : Whole(d) => Whole(d)'
  BY DEF Whole, Applied, F!Want
<1>4. FileAnswers'
  <2>1. \A c \in F!Call : answer'[c] = "done" => answer[c] = "done"
    OBVIOUS
  <2> QED BY <1>3, <2>1 DEF FilesInv, FileAnswers, FileShape, F!Current, F!Sent
<1>5. FileWork'
  BY DEF FileWork
<1> QED BY <1>1, <1>2, <1>4, <1>5 DEF FilesInv

LEMMA FilesStart == F!Init => FilesInv
<1> SUFFICES ASSUME F!Init PROVE FilesInv
  OBVIOUS
<1>1. FileShape
  BY FileOrder DEF F!Init, FileShape, F!Direction
<1>2. FileCalls /\ FileWork
  BY DEF F!Init, FileCalls, FileWork, F!Sent
<1>3. FileAnswers
  BY DEF F!Init, FileAnswers, Whole, Applied, F!Want
<1> QED BY <1>1, <1>2, <1>3 DEF FilesInv

LEMMA FilesStep == FilesInv /\ [F!Next]_(F!vars) => FilesInv'
<1> SUFFICES ASSUME FilesInv, [F!Next]_(F!vars) PROVE FilesInv'
  OBVIOUS
<1> USE DEF F!host, F!calls, F!worker, F!files
<1>1. CASE F!Acknowledged
  <2>1. PICK c \in F!Call : F!Current(c) /\ answer[c] = "done"
    BY <1>1 DEF F!Acknowledged
  <2>2. /\ worker = 0 /\ Whole(last.direction) /\ waiting
        /\ last' = [last EXCEPT !.state = "acknowledged"] /\ waiting' = FALSE
        /\ UNCHANGED <<asked, answer, worker, pos, stage, dest, durable>>
    BY <1>1, <2>1 DEF F!Acknowledged, FilesInv, FileAnswers
  <2>3. last'.direction = last.direction /\ FileShape'
    BY <2>2 DEF FilesInv, FileShape
  <2>4. Whole(last.direction)'
    BY <2>2, <2>3 DEF Whole, Applied, F!Want
  <2>5. \A k \in F!Call : ~ (F!Sent(k) /\ answer[k] = "none")
    BY <2>1, <2>2, OneCurrent, DispatchOrder DEF FilesInv, FileCalls
  <2>6. FileCalls'
    BY <2>2, <2>5 DEF FilesInv, FileCalls, F!Sent
  <2> QED BY <2>2, <2>3, <2>4, <2>6 DEF FilesInv, FileAnswers, FileWork
<1>2. CASE F!GaveUp
  <2>1. /\ last' \in {last, [last EXCEPT !.state = "uncertain"]} /\ waiting /\ waiting' = FALSE
        /\ UNCHANGED <<asked, worker, pos, stage, dest, durable>>
        /\ DOMAIN answer' = F!Call
        /\ \A c \in F!Call : answer'[c] =
              IF F!Current(c) /\ F!Pending(c) THEN "error" ELSE answer[c]
    BY <1>2 DEF F!GaveUp
  <2>2. last'.direction = last.direction /\ last'.state # "acknowledged"
    BY <2>1 DEF FilesInv, FileShape, FileAnswers
  <2>3. FileShape'
    BY <2>1, <2>2 DEF FilesInv, FileShape
  <2>4. FileCalls'
    BY <2>1, DispatchOrder DEF FilesInv, FileCalls, FileShape, F!Sent, F!Pending
  <2>5. FileWork'
    BY <2>1 DEF FilesInv, FileWork, Applied, F!dir, F!Want
  <2> QED BY <2>1, <2>2, <2>3, <2>4, <2>5 DEF FilesInv, FileAnswers
<1>3. ASSUME NEW c \in F!Call, F!Begin(c) PROVE FilesInv'
  <2>1. /\ worker = 0 /\ worker' = c /\ pos' = 1 /\ F!Sent(c) /\ answer[c] = "none"
        /\ UNCHANGED <<last, waiting, asked, answer, dest, durable>>
    BY <1>3 DEF F!Begin, F!Pending
  <2>2. waiting /\ F!Current(c) /\ \A k \in F!Call : F!Current(k) => k = c
    BY <2>1, OneCurrent, DispatchOrder DEF FilesInv, FileCalls
  <2>3. FileShape'
    BY <2>1, FileOrder DEF FilesInv, FileShape
  <2>4. FileCalls'
    BY <2>1, <2>2, DispatchOrder DEF FilesInv, FileCalls, F!Sent, F!Current
  <2>5. FileWork'
    BY <2>1, FileOrder DEF FileWork
  <2>6. FileAnswers'
    BY <2>1, <2>2 DEF FilesInv, FileAnswers, F!Current, F!Sent
  <2> QED BY <2>3, <2>4, <2>5, <2>6 DEF FilesInv
<1>4. ASSUME NEW c \in F!Call, F!Refused(c) PROVE FilesInv'
  <2>1. /\ UNCHANGED <<last, waiting, asked, worker, pos, dest, durable>>
        /\ F!Sent(c) /\ answer[c] = "none" /\ c # worker /\ DOMAIN answer' = F!Call
        /\ \A k \in F!Call : answer'[k] = IF k = c THEN "error" ELSE answer[k]
    BY <1>4 DEF F!Refused, F!Pending, FilesInv, FileShape
  <2>2. FileShape'
    BY <2>1 DEF FilesInv, FileShape
  <2>3. FileCalls'
    BY <2>1, DispatchOrder DEF FilesInv, FileCalls, FileShape, F!Sent, F!Current
  <2>4. FileWork'
    BY <2>1 DEF FilesInv, FileWork, Applied, F!dir, F!Want
  <2>5. FileAnswers'
    <3>1. \A k \in F!Call : answer'[k] = "done" => answer[k] = "done"
      BY <2>1
    <3>2. Whole(last.direction) => Whole(last.direction)'
      BY <2>1 DEF Whole, Applied, F!Want
    <3> QED BY <2>1, <3>1, <3>2 DEF FilesInv, FileAnswers, F!Current, F!Sent
  <2> QED BY <2>2, <2>3, <2>4, <2>5 DEF FilesInv
<1>5. CASE F!Recover \/ F!StageFile \/ F!FillStage \/ F!Remove \/ F!Create \/ F!UnlinkStage
           \/ F!Replace
  <2>1. worker # 0 /\ UNCHANGED <<last, waiting, asked, answer, worker, pos>>
    BY <1>5
    DEF F!Recover, F!StageFile, F!FillStage, F!Remove, F!Create, F!UnlinkStage, F!Replace,
        F!GoOn, F!Working, F!Ready
  <2>2. \/ UNCHANGED <<dest, durable>>
        \/ UNCHANGED dest /\ F!Persist
        \/ UNCHANGED durable /\ \E b : dest' = [dest EXCEPT ![pos] = b]
    BY <1>5
    DEF F!Recover, F!StageFile, F!FillStage, F!Remove, F!Create, F!UnlinkStage, F!Replace
  <2>3. /\ DOMAIN dest' = F!File /\ DOMAIN durable' = F!File
        /\ \A f \in F!File : f # pos => dest'[f] = dest[f] /\ durable'[f] = durable[f]
    BY <2>2 DEF F!Persist, FilesInv, FileShape
  <2> QED BY <2>1, <2>3, Worked
<1>6. CASE F!AlreadyApplied \/ F!Finish
  BY <1>6, Advanced DEF F!AlreadyApplied, F!Finish, F!Working
<1>7. CASE F!Raised \/ F!Killed
  <2>1. /\ UNCHANGED <<last, waiting, asked, dest, durable>> /\ worker # 0
        /\ worker' = 0 /\ pos' = 1 /\ answer' = [answer EXCEPT ![worker] = "error"]
    BY <1>7 DEF F!Raised, F!Killed, F!Released
  <2> QED BY <2>1, Ended DEF FilesInv, FileShape, FileCalls
<1>8. CASE F!PowerLoss
  <2>1. /\ UNCHANGED <<last, waiting, asked>> /\ worker' = 0 /\ pos' = 1 /\ durable' = dest'
        /\ answer' = [c \in F!Call |-> IF F!Sent(c) /\ answer[c] = "none" THEN "error" ELSE answer[c]]
    BY <1>8 DEF F!PowerLoss, F!Released
  <2>2. PICK back \in SUBSET F!File :
          dest' = [f \in F!File |-> IF f \in back THEN durable[f] ELSE dest[f]]
    BY <1>8 DEF F!PowerLoss
  <2> QED BY <2>1, <2>2, Ended DEF FilesInv, FileShape, FileCalls
<1>9. ASSUME NEW f \in Edited, F!Edit(f) PROVE FilesInv'
  <2>1. f \in F!File
    BY FilesAssumption DEF F!PlanAssumption
  <2>2. /\ UNCHANGED <<last, waiting, asked, answer, worker, pos>>
        /\ DOMAIN dest' = F!File /\ DOMAIN durable' = F!File
        /\ \A g \in F!File : <<dest'[g], durable'[g]>> \in {<<dest[g], durable[g]>>, <<Other, Other>>}
    <3>1. /\ dest' = [dest EXCEPT ![f] = Other] /\ durable' = [durable EXCEPT ![f] = Other]
          /\ UNCHANGED <<last, waiting, asked, answer, worker, pos>>
      BY <1>9 DEF F!Edit
    <3>2. DOMAIN dest = F!File /\ DOMAIN durable = F!File
      BY DEF FilesInv, FileShape
    <3>3. /\ DOMAIN dest' = F!File /\ \A g \in F!File : dest'[g] = IF g = f THEN Other ELSE dest[g]
          /\ DOMAIN durable' = F!File
          /\ \A g \in F!File : durable'[g] = IF g = f THEN Other ELSE durable[g]
      BY <2>1, <3>1, <3>2
    <3> QED BY <3>1, <3>3
  <2>3. FileShape' /\ FileCalls' /\ F!dir' = F!dir
    BY <2>2 DEF FilesInv, FileShape, FileCalls, F!Sent, F!Current, F!dir
  <2>4. FileWork'
    BY <2>2, <2>3 DEF FilesInv, FileWork, Applied
  <2>5. Whole(last.direction) => Whole(last.direction)'
    BY <2>2 DEF Whole, Applied, F!Want
  <2>6. FileAnswers'
    BY <2>2, <2>5 DEF FilesInv, FileAnswers, F!Current, F!Sent
  <2> QED BY <2>3, <2>4, <2>6 DEF FilesInv
<1>10. CASE UNCHANGED F!vars
  BY <1>10
  DEF F!vars, FilesInv, FileShape, FileCalls, FileWork, FileAnswers, F!Sent, F!Current, F!dir,
      Whole, Applied, F!Want
<1> QED BY <1>1, <1>2, <1>3, <1>4, <1>5, <1>6, <1>7, <1>8, <1>9, <1>10, Dispatched
        DEF F!Next, F!Work

(* For any plan, number of dispatches and edits of others: what the last   *)
(* acknowledged direction says of the files is so, whatever timed out,     *)
(* died, lost power or was sent again before.                              *)
THEOREM FilesStayAsAcknowledged == F!Spec => []FilesAsAcknowledged
<1>1. FilesInv => FilesAsAcknowledged
  BY DEF FilesInv, FileAnswers, Whole, Applied, FilesAsAcknowledged, F!FilesAsAcknowledged
<1> QED BY <1>1, FilesStart, FilesStep, PTL DEF F!Spec

-----------------------------------------------------------------------------
(***************************************************************************)
(* The guest's script, for any group of processes.                         *)
(***************************************************************************)
\* Nothing of a script runs, and its supervisor has said so or never began.
Quiet == members = {} /\ supervisor \in {"none", "done"}

\* The operation's own transactions; the last three are about a running script.
Launched == {"launch", "poll", "cancel"}
GuestOperation ==
  /\ running \in BOOLEAN /\ latch \in BOOLEAN /\ doing \in G!Transactions \cup {"idle"}
  /\ op # "job" => doing \notin Launched \cup {"mkdir", "cleanup"}
  /\ doing = "remount" => op = "stop"

\* An uncertain channel is never used again; a certain one holds at most the line
\* of the transaction that is waited for.
GuestChannel ==
  /\ latch => doing = "idle" /\ ~ running /\ verdict = "uncertain"
  /\ ~ latch => verdict # "uncertain"
  /\ running => doing # "idle" /\ (shell = <<>> \/ (shell = <<doing>> /\ line = None))
  /\ ~ latch /\ ~ running => shell = <<>>
  /\ latch => shell = <<>> \/ \E x : shell = <<x>>

\* Before its launch a job has no result, afterwards the script is gone once a
\* result was found, and found only by a census nothing was created after.
GuestGroup ==
  /\ supervisor \in {"stopping", "killed"} => reason \in G!Statuses
  /\ seen # None => supervisor \in {"stopping", "killed"} /\ members \subseteq seen
  /\ vm # "on" => Quiet /\ seen = None /\ shell = <<>>
  /\ shell = <<"launch">> => Quiet
  /\ ~ latch =>
       /\ doing \notin Launched => Quiet
       /\ doing = "launch" /\ (running => shell # <<>>) => Quiet
       /\ op = "job" /\ doing \in {"mkdir", "probe", "create", "install", "remove"} => result = None
       /\ doing = "launch" /\ (running => shell # <<>>) => result = None
       /\ result \in G!Statuses => Quiet
       /\ running /\ doing = "poll" /\ line # None /\ line.result \in G!Statuses => Quiet

GuestInv == GuestOperation /\ GuestChannel /\ GuestGroup

LEMMA NoneApart == None \notin G!Statuses /\ None # "uncertain"
  BY GuestAssumption DEF G!GuestJobAssumption

LEMMA OneLine ==
  ASSUME NEW x
  PROVE Append(<<>>, x) = <<x>> /\ Head(<<x>>) = x /\ Tail(<<x>>) = <<>> /\ <<x>> # <<>>
  OBVIOUS

\* How the host goes on when it knows what became of a transaction.
Stepped ==
  /\ running' = FALSE /\ verdict' # "uncertain" /\ ~ latch /\ shell = <<>>
  /\ UNCHANGED <<op, latch, vm, shell, supervisor, reason, seen, members, result>>
  /\ doing' \in G!Transactions \cup {"idle"}
  /\ \/ doing \notin Launched /\ doing' \notin Launched /\ doing' # "remount"
        /\ (op # "job" => doing' \notin {"mkdir", "cleanup"})
        /\ (doing' \in {"mkdir", "probe", "create", "install", "remove"} =>
              doing \in {"mkdir", "probe", "create", "install", "remove"})
     \/ doing' = "launch" /\ doing = "remove" /\ op = "job"
     \/ doing' = "cleanup" /\ op = "job" /\ doing = "launch" /\ ~ running
     \/ /\ doing' = "cleanup" /\ op = "job" /\ doing = "poll" /\ running
        /\ line # None /\ line.result \in G!Statuses
     \/ doing \in Launched /\ doing' \in {"poll", "cancel"}

LEMMA HostSteps ==
  ASSUME GuestInv, G!ObserveCancel \/ G!CannotConnect \/ G!Acknowledged
  PROVE Stepped \/ G!Uncertain
<1>0. ~ latch /\ doing # "idle" /\ shell = <<>>
  BY DEF GuestInv, GuestOperation, GuestChannel, G!ObserveCancel, G!Observed, G!CannotConnect,
      G!Acknowledged
<1>1. /\ verdict # "uncertain" /\ doing \in G!Transactions
      /\ (op # "job" => doing \notin Launched \cup {"mkdir", "cleanup"})
  BY <1>0 DEF GuestInv, GuestChannel, GuestOperation, G!Transactions
<1> DEFINE Told(next, v) ==
      /\ running' = FALSE /\ verdict' = v /\ doing' = next
      /\ UNCHANGED <<op, latch, vm, shell, supervisor, reason, seen, members, result>>
<1>2. ASSUME NEW next, NEW v, G!Move(next, v) PROVE Told(next, v)
  BY <1>2 DEF G!Move, G!channel, G!guest, G!files, G!supervisor, G!group
<1> HIDE DEF Told
<1>3. CASE G!ObserveCancel
  <2>1. \/ doing \in {"mkdir", "probe"} /\ Told("idle", "not launched")
        \/ doing = "probe" /\ op = "job" /\ Told("cleanup", "not launched")
        \/ doing \in {"create", "install"} /\ Told("remove", "not launched")
        \/ doing = "launch" /\ ~ running /\ Told("cleanup", "not launched")
        \/ doing = "poll" /\ Told("cancel", verdict)
    BY <1>2, <1>3 DEF G!ObserveCancel, G!Observed, G!Finally
  <2> QED BY <1>0, <1>1, <2>1 DEF Told, Stepped, Launched, G!Transactions
<1>4. CASE G!Removed
  <2>1. /\ doing = "remove"
        /\ \/ op = "job" /\ Told("cleanup", verdict)
           \/ op = "job" /\ Told("launch", None)
           \/ Told("idle", verdict) \/ Told("probe", None) \/ Told("idle", "completed")
    BY <1>2, <1>4 DEF G!Removed, G!Finally
  <2> QED BY <1>0, <1>1, <2>1, NoneApart DEF Told, Stepped, Launched, G!Transactions
<1>5. CASE G!Fails /\ doing # "remove"
  <2>1. \/ doing \in {"mkdir", "remount", "probe", "cleanup"} /\ Told("idle", "failed")
        \/ doing = "probe" /\ op = "job" /\ Told("cleanup", "failed")
        \/ doing \in {"create", "install"} /\ Told("remove", "failed")
        \/ G!Uncertain
    <3>1. doing \in {"mkdir", "remount"} => Told("idle", "failed")
      BY <1>2, <1>5 DEF G!Fails
    <3>2. doing = "probe" => G!Move(G!Finally, "failed")
      BY <1>5 DEF G!Fails
    <3>3. doing \in {"create", "install"} => G!Move("remove", "failed")
      BY <1>5 DEF G!Fails
    <3>4. doing = "cleanup" => G!Move("idle", "failed")
      BY <1>5 DEF G!Fails
    <3>5. doing \in {"launch", "cancel", "poll"} => G!Uncertain
      BY <1>5 DEF G!Fails
    <3> QED BY <1>1, <1>2, <3>1, <3>2, <3>3, <1>5, <3>4, <3>5 DEF G!Transactions, G!Finally
  <2> QED BY <1>0, <1>1, <2>1 DEF Told, Stepped, Launched, G!Transactions
<1>6. CASE G!Succeeds /\ running /\ line # None /\ doing # "remove"
  <2>1. /\ doing = "mkdir" => G!Move("probe", None)
        /\ doing = "probe" => G!Move("create", None)
        /\ doing = "create" => G!Move("install", None)
        /\ doing = "install" => G!Move("remove", None)
        /\ doing = "launch" => G!Move("poll", None)
        /\ doing = "cleanup" => G!Move("idle", verdict)
        /\ doing # "remount"
    BY <1>6 DEF G!Succeeds
  <2>3. doing = "cancel" => Told("poll", verdict)
    BY <1>6 DEF G!Succeeds, Told, G!channel, G!guest, G!files, G!supervisor, G!group
  <2>4. doing = "poll" => \/ G!Move("poll", None) \/ G!Uncertain
                          \/ line.result \in G!Statuses /\ G!Move("cleanup", line.result)
    BY <1>6 DEF G!Succeeds
  <2>2. "uncertain" \notin G!Statuses
    BY DEF G!Statuses
  <2>5. \/ \E y \in {"probe", "create", "install", "remove"} :
             Told(y, None) /\ doing \in {"mkdir", "probe", "create", "install"}
        \/ doing \in {"launch", "poll"} /\ Told("poll", None)
        \/ doing = "cancel" /\ Told("poll", verdict)
        \/ doing = "poll" /\ line.result \in G!Statuses /\ Told("cleanup", line.result)
        \/ doing = "cleanup" /\ Told("idle", verdict)
        \/ G!Uncertain
    BY <1>1, <1>2, <1>6, <2>1, <2>3, <2>4 DEF G!Transactions
  <2> QED BY <1>0, <1>1, <1>6, <2>2, <2>5, NoneApart DEF Told, Stepped, Launched, G!Transactions
<1> QED BY <1>3, <1>4, <1>5, <1>6 DEF G!CannotConnect, G!Acknowledged

LEMMA SteppedKeeps == ASSUME GuestInv, Stepped PROVE GuestInv'
<1>1. GuestOperation'
  BY DEF GuestInv, GuestOperation, Stepped, Launched
<1>2. GuestChannel'
  BY DEF GuestInv, GuestChannel, Stepped
<1>3. GuestGroup'
  BY DEF GuestInv, GuestGroup, GuestOperation, Stepped, Launched, Quiet, G!Statuses
<1> QED BY <1>1, <1>2, <1>3 DEF GuestInv

LEMMA GivenUpKeeps == ASSUME GuestInv, G!Uncertain PROVE GuestInv'
<1>0. /\ doing' = "idle" /\ running' = FALSE /\ verdict' = "uncertain" /\ latch' = TRUE
      /\ UNCHANGED <<op, vm, shell, supervisor, reason, seen, members, result>>
  BY DEF G!Uncertain, G!channel, G!guest, G!files, G!supervisor, G!group
<1>1. GuestOperation'
  BY <1>0 DEF GuestInv, GuestOperation, Launched
<1>2. GuestChannel'
  <2>1. shell = <<>> \/ \E x : shell = <<x>>
    BY DEF GuestInv, GuestChannel, GuestOperation
  <2> QED BY <1>0, <2>1 DEF GuestChannel
<1>3. GuestGroup'
  BY <1>0 DEF GuestInv, GuestGroup, Quiet, G!Statuses
<1> QED BY <1>1, <1>2, <1>3 DEF GuestInv

LEMMA SendKeeps == ASSUME GuestInv, G!Send PROVE GuestInv'
<1>0. /\ ~ running /\ doing # "idle" /\ ~ latch /\ shell = <<>>
      /\ shell' = <<doing>> /\ line' = None /\ running' = TRUE
      /\ UNCHANGED <<doing, verdict, op, latch, vm, supervisor, reason, seen, members, result>>
  BY OneLine
  DEF GuestInv, GuestOperation, GuestChannel, G!Send, G!guest, G!files, G!supervisor, G!group
<1>1. GuestOperation'
  BY <1>0 DEF GuestInv, GuestOperation
<1>2. GuestChannel'
  BY <1>0 DEF GuestInv, GuestChannel
<1>3. GuestGroup'
  <2>1. shell' = <<"launch">> => doing = "launch"
    BY <1>0, OneLine
  <2>2. vm = "on"
    BY DEF G!Send
  <2>3. shell' # <<>>
    BY <1>0, OneLine
  <2> QED BY <1>0, <2>1, <2>2, <2>3 DEF GuestInv, GuestGroup, Quiet
<1> QED BY <1>1, <1>2, <1>3 DEF GuestInv

(* The shell runs the line that is waited for, or one given up long ago.   *)
LEMMA ShellKeeps == ASSUME GuestInv, G!ShellRuns PROVE GuestInv'
<1>1. PICK x, ok :
        /\ shell = <<x>> /\ shell' = <<>> /\ G!Effect(x, ok)
        /\ line' = IF running /\ doing = x THEN [ok |-> ok, result |-> result] ELSE line
  <2>1. PICK x : shell = <<x>>
    BY DEF GuestInv, GuestChannel, GuestOperation, G!ShellRuns
  <2>2. PICK ok \in BOOLEAN : /\ G!Effect(Head(shell), ok)
                            /\ line' = IF running /\ doing = Head(shell)
                                         THEN [ok |-> ok, result |-> result] ELSE line
    BY DEF G!ShellRuns
  <2>3. shell' = Tail(shell)
    BY DEF G!ShellRuns
  <2>4. Head(shell) = x /\ shell' = <<>>
    BY <2>1, <2>3, OneLine
  <2>5. G!Effect(x, ok)
    BY <2>2, <2>4
  <2>6. line' = IF running /\ doing = x THEN [ok |-> ok, result |-> result] ELSE line
    BY <2>2, <2>4
  <2> QED BY <2>1, <2>4, <2>5, <2>6
<1>2. /\ UNCHANGED <<op, doing, running, verdict, latch, vm>>
      /\ ~ latch => running /\ doing = x
      /\ latch => doing = "idle" /\ ~ running
  BY <1>1, OneLine DEF GuestInv, GuestChannel, GuestOperation, G!ShellRuns, G!host
<1>3. /\ UNCHANGED <<reason, seen, result>>
      /\ members' # members \/ supervisor' # supervisor => x = "launch" /\ supervisor' = "watching"
  BY <1>1 DEF G!Effect, G!guest, G!files, G!supervisor, G!group
<1>4. GuestOperation'
  BY <1>2 DEF GuestInv, GuestOperation
<1>5. GuestChannel'
  <2>1. shell' = <<>>
    BY <1>1
  <2>2. /\ latch \in BOOLEAN /\ running \in BOOLEAN /\ UNCHANGED <<latch, running, doing, verdict>>
        /\ latch => doing = "idle" /\ ~ running /\ verdict = "uncertain"
        /\ ~ latch => verdict # "uncertain"
        /\ running => doing # "idle"
    BY <1>2 DEF GuestInv, GuestOperation, GuestChannel
  <2> QED BY <2>1, <2>2 DEF GuestChannel
<1>6. GuestGroup'
  <2>1. vm = "on" /\ (x = "launch" => Quiet /\ seen = None)
    BY <1>1, OneLine DEF GuestInv, GuestGroup, Quiet
  <2>2. /\ supervisor' \in {"stopping", "killed"} => reason' \in G!Statuses
        /\ seen' # None => supervisor' \in {"stopping", "killed"} /\ members' \subseteq seen'
    BY <1>3, <2>1 DEF GuestInv, GuestGroup
  <2>3. shell' # <<"launch">> /\ vm' = "on"
    BY <1>1, <1>2, <2>1, OneLine
  <2>4. CASE latch
    BY <1>2, <2>2, <2>3, <2>4 DEF GuestGroup
  <2>5. CASE ~ latch
    <3>1. doing = x /\ running /\ shell # <<>>
      BY <1>1, <1>2, <2>5, OneLine
    <3>2. doing # "launch" => (Quiet => Quiet')
      BY <1>3, <3>1 DEF Quiet
    <3>3. doing = "launch" => result \notin G!Statuses
      BY <2>5, <3>1, NoneApart DEF GuestInv, GuestGroup
    <3>4. doing # "launch" /\ line' # None /\ line'.result \in G!Statuses => Quiet
      BY <1>1, <2>5, <3>1 DEF GuestInv, GuestGroup
    <3> QED BY <1>1, <1>2, <1>3, <2>2, <2>3, <2>5, <3>1, <3>2, <3>3, <3>4
            DEF GuestInv, GuestGroup, Launched
  <2> QED BY <2>4, <2>5 DEF GuestInv, GuestOperation
<1> QED BY <1>4, <1>5, <1>6 DEF GuestInv

LEMMA GuestOperationKept == GuestInv /\ G!Next => GuestOperation'
<1> SUFFICES ASSUME GuestInv, G!Next PROVE GuestOperation'
  OBVIOUS
<1> USE NoneApart DEF GuestInv, GuestChannel, GuestGroup, GuestOperation, G!host, G!channel,
      G!files, G!supervisor, G!group, G!guest
<1>1. CASE G!StartJob
  BY <1>1 DEF G!StartJob, G!Begin, G!MayOperate, G!Transactions, Launched, G!Statuses, Quiet
<1>2. CASE G!StartUpload
  BY <1>2 DEF G!StartUpload, G!Begin, G!MayOperate, G!Transactions, Launched, G!Statuses, Quiet
<1>3. CASE G!StartStop
  BY <1>3 DEF G!StartStop, G!Begin, G!MayOperate, G!Transactions, Launched, G!Statuses, Quiet
<1>4. CASE G!Send
  BY <1>4, SendKeeps DEF GuestInv
<1>5. CASE G!ObserveCancel
  BY <1>5, HostSteps, SteppedKeeps, GivenUpKeeps DEF GuestInv
<1>6. CASE G!CannotConnect
  BY <1>6, HostSteps, SteppedKeeps, GivenUpKeeps DEF GuestInv
<1>7. CASE G!Acknowledged
  BY <1>7, HostSteps, SteppedKeeps, GivenUpKeeps DEF GuestInv
<1>8. CASE G!GiveUp
  BY <1>8, GivenUpKeeps DEF GuestInv, G!GiveUp, G!SupervisorDeadline
<1>9. CASE G!SupervisorDeadline
  BY <1>9, GivenUpKeeps DEF GuestInv, G!GiveUp, G!SupervisorDeadline
<1>10. CASE G!Quit
  BY <1>10 DEF G!Quit, G!NobodyLeft, G!Transactions, Launched, G!Statuses, Quiet
<1>11. CASE UNCHANGED <<doing, latch, op, running>>
  BY <1>11 DEF G!Transactions, Launched
<1> HIDE DEF GuestInv, GuestChannel, GuestGroup, GuestOperation
<1> QED BY <1>1, <1>2, <1>3, <1>4, <1>5, <1>6, <1>7, <1>8, <1>9, <1>10, <1>11
      DEF G!Next, G!Host, G!Worker, G!Cancel, G!ForcedStop, G!ShellRuns, G!Decide, G!List,
          G!Census, G!KillGroup, G!GroupStays, G!SupervisorDies, G!Fork, G!Exit, G!host,
          G!channel, G!guest, G!files, G!group, G!supervisor

LEMMA GuestChannelKept == GuestInv /\ G!Next => GuestChannel'
<1> SUFFICES ASSUME GuestInv, G!Next PROVE GuestChannel'
  OBVIOUS
<1> USE NoneApart DEF GuestInv, GuestChannel, GuestGroup, GuestOperation, G!host, G!channel,
      G!files, G!supervisor, G!group, G!guest
<1>1. CASE G!StartJob
  BY <1>1 DEF G!StartJob, G!Begin, G!MayOperate, G!Transactions, Launched, G!Statuses, Quiet
<1>2. CASE G!StartUpload
  BY <1>2 DEF G!StartUpload, G!Begin, G!MayOperate, G!Transactions, Launched, G!Statuses, Quiet
<1>3. CASE G!StartStop
  BY <1>3 DEF G!StartStop, G!Begin, G!MayOperate, G!Transactions, Launched, G!Statuses, Quiet
<1>4. CASE G!Send
  BY <1>4, SendKeeps DEF GuestInv
<1>5. CASE G!ObserveCancel
  BY <1>5, HostSteps, SteppedKeeps, GivenUpKeeps DEF GuestInv
<1>6. CASE G!CannotConnect
  BY <1>6, HostSteps, SteppedKeeps, GivenUpKeeps DEF GuestInv
<1>7. CASE G!Acknowledged
  BY <1>7, HostSteps, SteppedKeeps, GivenUpKeeps DEF GuestInv
<1>8. CASE G!GiveUp
  BY <1>8, GivenUpKeeps DEF GuestInv, G!GiveUp, G!SupervisorDeadline
<1>9. CASE G!SupervisorDeadline
  BY <1>9, GivenUpKeeps DEF GuestInv, G!GiveUp, G!SupervisorDeadline
<1>10. CASE G!Quit
  BY <1>10 DEF G!Quit, G!NobodyLeft, G!Transactions, Launched, G!Statuses, Quiet
<1>11. CASE G!ForcedStop
  BY <1>11 DEF G!ForcedStop, G!NobodyLeft, G!Transactions, Launched, G!Statuses, Quiet
<1>12. CASE G!ShellRuns
  BY <1>12, ShellKeeps DEF GuestInv
<1>13. CASE UNCHANGED <<doing, latch, line, running, shell, verdict>>
  BY <1>13
<1> HIDE DEF GuestInv, GuestChannel, GuestGroup, GuestOperation
<1> QED BY <1>1, <1>2, <1>3, <1>4, <1>5, <1>6, <1>7, <1>8, <1>9, <1>10, <1>11, <1>12, <1>13
      DEF G!Next, G!Host, G!Worker, G!Cancel, G!Decide, G!List, G!Census, G!KillGroup,
          G!GroupStays, G!SupervisorDies, G!Fork, G!Exit, G!host, G!channel, G!guest, G!files,
          G!group, G!supervisor

LEMMA GuestGroupKept == GuestInv /\ G!Next => GuestGroup'
<1> SUFFICES ASSUME GuestInv, G!Next PROVE GuestGroup'
  OBVIOUS
<1> USE NoneApart DEF GuestInv, GuestChannel, GuestGroup, GuestOperation, G!host, G!channel,
      G!files, G!supervisor, G!group, G!guest
<1>1. CASE G!StartJob
  BY <1>1 DEF G!StartJob, G!Begin, G!MayOperate, G!Statuses, Launched, Quiet, G!Transactions
<1>2. CASE G!StartUpload
  BY <1>2 DEF G!StartUpload, G!Begin, G!MayOperate, G!Statuses, Launched, Quiet, G!Transactions
<1>3. CASE G!StartStop
  BY <1>3 DEF G!StartStop, G!Begin, G!MayOperate, G!Statuses, Launched, Quiet, G!Transactions
<1>4. CASE G!Send
  BY <1>4, SendKeeps DEF GuestInv
<1>5. CASE G!ObserveCancel
  BY <1>5, HostSteps, SteppedKeeps, GivenUpKeeps DEF GuestInv
<1>6. CASE G!CannotConnect
  BY <1>6, HostSteps, SteppedKeeps, GivenUpKeeps DEF GuestInv
<1>7. CASE G!Acknowledged
  BY <1>7, HostSteps, SteppedKeeps, GivenUpKeeps DEF GuestInv
<1>8. CASE G!GiveUp
  BY <1>8, GivenUpKeeps DEF GuestInv, G!GiveUp, G!SupervisorDeadline
<1>9. CASE G!SupervisorDeadline
  BY <1>9, GivenUpKeeps DEF GuestInv, G!GiveUp, G!SupervisorDeadline
<1>10. CASE G!Quit
  BY <1>10 DEF G!Quit, G!NobodyLeft, G!Statuses, Launched, Quiet, G!Transactions
<1>11. CASE G!ForcedStop
  BY <1>11 DEF G!ForcedStop, G!NobodyLeft, G!Statuses, Launched, Quiet, G!Transactions
<1>12. CASE G!ShellRuns
  BY <1>12, ShellKeeps DEF GuestInv
<1>13. CASE G!Decide
  BY <1>13 DEF G!Decide, G!Statuses, Launched, Quiet, G!Transactions
<1>14. CASE G!List
  BY <1>14 DEF G!List, G!Statuses, Launched, Quiet, G!Transactions
<1>15. CASE G!Census
  BY <1>15 DEF G!Census, G!AllGone, G!Statuses, Launched, Quiet, G!Transactions
<1>16. CASE G!KillGroup
  BY <1>16 DEF G!KillGroup, G!Statuses, Launched, Quiet, G!Transactions
<1>17. CASE G!GroupStays
  BY <1>17 DEF G!GroupStays, G!Statuses, Launched, Quiet, G!Transactions
<1>18. CASE G!SupervisorDies
  BY <1>18 DEF G!SupervisorDies, G!Statuses, Launched, Quiet, G!Transactions
<1>19. ASSUME NEW m \in G!Process, G!Fork(m) PROVE GuestGroup'
  BY <1>19 DEF G!Fork, G!Statuses, Launched, Quiet, G!Transactions
<1>20. ASSUME NEW m \in G!Process, G!Exit(m) PROVE GuestGroup'
  BY <1>20 DEF G!Exit, G!Statuses, Launched, Quiet, G!Transactions
<1>21. CASE UNCHANGED <<doing, latch, line, members, op, reason, result, running, seen, shell,
    supervisor, vm>>
  BY <1>21 DEF G!Statuses, Launched, Quiet
<1> HIDE DEF GuestInv, GuestChannel, GuestGroup, GuestOperation
<1> QED BY <1>1, <1>2, <1>3, <1>4, <1>5, <1>6, <1>7, <1>8, <1>9, <1>10, <1>11, <1>12, <1>13,
      <1>14, <1>15, <1>16, <1>17, <1>18, <1>19, <1>20, <1>21
      DEF G!Next, G!Host, G!Worker, G!Cancel, G!host, G!channel, G!guest

LEMMA GuestStart == G!Init => GuestInv
<1> SUFFICES ASSUME G!Init PROVE GuestInv
  OBVIOUS
<1>1. GuestOperation
  BY DEF G!Init, GuestOperation, Launched
<1>2. GuestChannel
  BY NoneApart DEF G!Init, GuestChannel
<1>3. GuestGroup
  BY NoneApart, OneLine DEF G!Init, GuestGroup, Quiet, G!Statuses, Launched
<1> QED BY <1>1, <1>2, <1>3 DEF GuestInv

LEMMA GuestStep == GuestInv /\ [G!Next]_(G!vars) => GuestInv'
<1> SUFFICES ASSUME GuestInv, [G!Next]_(G!vars) PROVE GuestInv'
  OBVIOUS
<1>1. CASE G!Next
  BY <1>1, GuestOperationKept, GuestChannelKept, GuestGroupKept DEF GuestInv
<1>2. CASE UNCHANGED G!vars
  BY <1>2
  DEF G!vars, G!host, G!channel, G!guest, G!files, G!supervisor, G!group, GuestInv,
      GuestOperation, GuestChannel, GuestGroup, Quiet
<1> QED BY <1>1, <1>2

(* For any script, cancellation, death or give-up and any number of        *)
(* operations: the console never holds two lines, and an answer other than *)
(* "uncertain" means that nothing of the operation runs any more.          *)
THEOREM GuestAnswersMeanQuiet == G!Spec => []OneLineAtATime
<1>1. GuestInv => OneLineAtATime
  <2> SUFFICES ASSUME GuestInv PROVE G!OneLineAtATime
    BY DEF OneLineAtATime
  <2>1. Len(<<>>) = 0 /\ \A x : Len(<<x>>) = 1
    OBVIOUS
  <2>2. Len(shell) <= 1
    <3>1. shell = <<>> \/ \E x : shell = <<x>>
      BY DEF GuestInv, GuestChannel, GuestOperation
    <3>2. ASSUME NEW x, shell = <<x>> PROVE Len(shell) <= 1
      BY <3>2
    <3> QED BY <2>1, <3>1, <3>2
  <2>3. doing = "idle" /\ verdict \notin {None, "uncertain"} => ~ latch /\ ~ running
    BY DEF GuestInv, GuestChannel, GuestOperation
  <2>4. ~ latch /\ doing = "idle" => Quiet
    BY DEF GuestInv, GuestGroup, Launched
  <2> QED BY <2>2, <2>3, <2>4 DEF G!OneLineAtATime, Quiet, GuestInv, GuestChannel
<1> QED BY <1>1, GuestStart, GuestStep, PTL DEF G!Spec
=============================================================================
