--------------------------- MODULE AttemptLedger ---------------------------
(***************************************************************************)
(* The target-side attempt ledger of tools/forge_recovery_ledger.py: one   *)
(* private directory per plan, holding for each attempt nonce at most an   *)
(* intent, a receipt and a fence record.  `run` executes an effect between *)
(* a durable intent and a durable receipt; `fence` refuses a request that  *)
(* has not started.  Both take the directory's flock without waiting and   *)
(* hold it to the end.  The flock dies with its process, the records do    *)
(* not: a killed worker leaves whatever it had written.                    *)
(*                                                                         *)
(* write_record creates the file exclusively, writes it, and fsyncs file   *)
(* and directory.  A record is "torn" while it is listed and read_record   *)
(* would raise on it, "loose" when it reads back but was never fsynced (a  *)
(* worker killed inside write_record leaves either), "whole" when it is    *)
(* durable.  A power loss takes loose and torn records with it, or not.    *)
(***************************************************************************)
EXTENDS Naturals

CONSTANTS
  Nonce,      \* attempt nonces (uuid4 hex; never two requests with one nonce)
  Worker      \* processes on the target that open the ledger

VARIABLES
  intent, receipt, fence,  \* the records: [Nonce -> Mark]
  owner,                   \* who holds the directory's flock: nobody or one worker
  at,                      \* where each worker is inside run or fence
  serving,                 \* the nonce each worker was asked for
  began,                   \* history: how often the effect of a nonce began
  done                     \* history: nonces whose effect returned normally

records == <<intent, receipt, fence>>
vars == <<records, owner, at, serving, began, done>>

Mark == {"none", "torn", "loose", "whole"}
Readable == {"loose", "whole"}
Stage == {"out", "intent", "effect", "receipt", "fence"}

TypeOK ==
  /\ intent \in [Nonce -> Mark]
  /\ receipt \in [Nonce -> Mark]
  /\ fence \in [Nonce -> Mark]
  /\ owner \in SUBSET Worker
  /\ at \in [Worker -> Stage]
  /\ serving \in [Worker -> Nonce]
  /\ began \in [Nonce -> Nat]
  /\ done \subseteq Nonce

-----------------------------------------------------------------------------
(* What the records of a nonce say; everything else makes both functions   *)
(* raise, and a nonce in such a state blocks the ledger for good.          *)

Untouched(n)  == fence[n] = "none"  /\ intent[n] = "none"  /\ receipt[n] = "none"
Fenced(n)     == fence[n] \in Readable /\ intent[n] = "none" /\ receipt[n] = "none"
Incomplete(n) == fence[n] = "none" /\ intent[n] \in Readable /\ receipt[n] = "none"
Completed(n)  == fence[n] = "none" /\ intent[n] \in Readable /\ receipt[n] \in Readable

(* The scan over the other records in `run`: no torn record, no attempt    *)
(* without its receipt.                                                    *)
Settled(n) == Untouched(n) \/ Fenced(n) \/ Completed(n)

MayStart(n) == Untouched(n) /\ \A m \in Nonce \ {n} : Settled(m)

-----------------------------------------------------------------------------
Init ==
  /\ intent = [n \in Nonce |-> "none"]
  /\ receipt = [n \in Nonce |-> "none"]
  /\ fence = [n \in Nonce |-> "none"]
  /\ owner = {}
  /\ at = [w \in Worker |-> "out"]
  /\ serving \in [Worker -> Nonce]
  /\ began = [n \in Nonce |-> 0]
  /\ done = {}

(* The packet of a worker arrives, and with it the nonce it is about.      *)
Ask(w, n) ==
  /\ at[w] = "out"
  /\ serving' = [serving EXCEPT ![w] = n]
  /\ UNCHANGED <<records, owner, at, began, done>>

(* flock(LOCK_EX | LOCK_NB) succeeds.                                      *)
Enter(w, stage) ==
  /\ owner = {}
  /\ at[w] = "out"
  /\ owner' = {w}
  /\ at' = [at EXCEPT ![w] = stage]
  /\ UNCHANGED serving

(* os.close(fd) in the finally clause, or the death of the process.        *)
Leave(w) ==
  /\ owner' = {}
  /\ at' = [at EXCEPT ![w] = "out"]
  /\ UNCHANGED serving

(* run(): every check passed, the intent file has just been created.       *)
BeginRun(w) ==
  /\ MayStart(serving[w])
  /\ Enter(w, "intent")
  /\ intent' = [intent EXCEPT ![serving[w]] = "torn"]
  /\ UNCHANGED <<receipt, fence, began, done>>

(* The intent is durable; only now does the effect begin.                  *)
WriteIntent(w) ==
  LET n == serving[w] IN
  /\ at[w] = "intent"
  /\ intent' = [intent EXCEPT ![n] = "whole"]
  /\ at' = [at EXCEPT ![w] = "effect"]
  /\ began' = [began EXCEPT ![n] = @ + 1]
  /\ UNCHANGED <<receipt, fence, owner, serving, done>>

(* The effect returned a result and the receipt file has been created.     *)
EffectReturns(w) ==
  LET n == serving[w] IN
  /\ at[w] = "effect"
  /\ done' = done \cup {n}
  /\ receipt' = [receipt EXCEPT ![n] = "torn"]
  /\ at' = [at EXCEPT ![w] = "receipt"]
  /\ UNCHANGED <<intent, fence, owner, serving, began>>

(* The effect raised: the intent stays behind without a receipt.           *)
EffectRaises(w) ==
  /\ at[w] = "effect"
  /\ Leave(w)
  /\ UNCHANGED <<records, began, done>>

WriteReceipt(w) ==
  /\ at[w] = "receipt"
  /\ receipt' = [receipt EXCEPT ![serving[w]] = "whole"]
  /\ Leave(w)
  /\ UNCHANGED <<intent, fence, began, done>>

(* fence(): nothing is recorded for the nonce, its marker was just created.*)
BeginFence(w) ==
  /\ Untouched(serving[w])
  /\ Enter(w, "fence")
  /\ fence' = [fence EXCEPT ![serving[w]] = "torn"]
  /\ UNCHANGED <<intent, receipt, began, done>>

WriteFence(w) ==
  /\ at[w] = "fence"
  /\ fence' = [fence EXCEPT ![serving[w]] = "whole"]
  /\ Leave(w)
  /\ UNCHANGED <<intent, receipt, began, done>>

(* The record the worker is writing, as the death of the worker leaves it. *)
LeftBehind(mark) == IF mark = "torn" THEN {"torn", "loose"} ELSE {mark}

(* SIGKILL, a lost SSH session or a write error in the middle of run or    *)
(* fence: the flock is released, the records stay.                         *)
Kill(w) ==
  LET n == serving[w] IN
  /\ at[w] # "out"
  /\ Leave(w)
  /\ \E mark \in LeftBehind(intent[n]) : intent' = [intent EXCEPT ![n] = mark]
  /\ \E mark \in LeftBehind(receipt[n]) : receipt' = [receipt EXCEPT ![n] = mark]
  /\ \E mark \in LeftBehind(fence[n]) : fence' = [fence EXCEPT ![n] = mark]
  /\ UNCHANGED <<began, done>>

(* What a record can be after the target lost power.                       *)
Survives == [none  |-> {"none"},
             torn  |-> {"none", "torn"},
             loose |-> {"none", "torn", "whole"},
             whole |-> {"whole"}]

AfterPowerLoss(file) == {f \in [Nonce -> Mark] : \A n \in Nonce : f[n] \in Survives[file[n]]}

PowerLoss ==
  /\ intent' \in AfterPowerLoss(intent)
  /\ receipt' \in AfterPowerLoss(receipt)
  /\ fence' \in AfterPowerLoss(fence)
  /\ owner' = {}
  /\ at' = [w \in Worker |-> "out"]
  /\ UNCHANGED <<serving, began, done>>

Work(w) ==
  \/ \E n \in Nonce : Ask(w, n)
  \/ BeginRun(w) \/ BeginFence(w)
  \/ WriteIntent(w) \/ EffectReturns(w) \/ EffectRaises(w) \/ WriteReceipt(w)
  \/ WriteFence(w) \/ Kill(w)

Next == PowerLoss \/ \E w \in Worker : Work(w)

Spec == Init /\ [][Next]_vars

-----------------------------------------------------------------------------
(* "Execute once or return the durable receipt; never repeat partial       *)
(* work": however often a request is delivered, by however many workers,   *)
(* and wherever one is killed, its effect begins at most once.             *)
ExecuteOnce == \A n \in Nonce : began[n] <= 1

(* A request that was fenced never runs: no order of a delayed run and a   *)
(* fence on the same nonce, and no kill between the two writes of the      *)
(* fence, leaves both a fence and an effect.                               *)
FencedNeverRuns == \A n \in Nonce : fence[n] # "none" => began[n] = 0

(* What `run` replays and `fence` reports as completed did complete: a     *)
(* receipt file, even a torn one, stands for an effect that returned.      *)
ReceiptIsProof == \A n \in Nonce : receipt[n] # "none" => n \in done

(* Effects are serialised across crashes: at most one attempt has begun    *)
(* without returning, so none starts on top of one whose outcome is open.  *)
OneOpenEffect ==
  \A m, n \in Nonce :
    /\ began[m] > 0 /\ m \notin done
    /\ began[n] > 0 /\ n \notin done
    => m = n

(* "Another target attempt is incomplete": when an effect begins, every    *)
(* other attempt of the directory has a receipt that reads back, and the   *)
(* check made before the intent was written still holds.                   *)
BeginsAlone ==
  [][\A m \in Nonce : began'[m] # began[m] =>
       \A n \in Nonce \ {m} : intent[n] = "none" \/ receipt[n] \in Readable]_vars
=============================================================================
