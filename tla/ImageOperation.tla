--------------------------- MODULE ImageOperation ---------------------------
(***************************************************************************)
(* Publishing and removing the private recovery image: the owner's journal *)
(* on the host (tools/forge_recovery_journal.py), the SSH worker on the    *)
(* target (tools/forge_recovery_ssh.py), its attempt ledger                *)
(* (AttemptLedger) and the image primitives (tools/forge_recovery_image.py)*)
(*                                                                         *)
(* The host dispatches one attempt at a time and waits for the answer.  It *)
(* may time out, crash or lose the connection while the worker is still on *)
(* its way to the target; the attempt is then uncertain, and only          *)
(* `reconcile`, which fences its nonce on the target, can settle it.       *)
(* Nonces are numbered in the order the host draws them.                   *)
(***************************************************************************)
EXTENDS Naturals, Sequences

CONSTANTS MaxAttempts, MaxCalls  \* bounds: dispatches and SSH calls in one history

ASSUME BoundAssumption == MaxAttempts \in Nat \ {0} /\ MaxCalls \in Nat

Attempt == 1..MaxAttempts
Call == 1..MaxCalls
Direction == {"apply", "restore"}

VARIABLES
  intent, receipt, fence, owner, at, serving, began, done,  \* the target's ledger
  kind,      \* what each SSH call asks for: nothing yet, a run or a fence
  reply,     \* the answer that came back for a call
  sent,      \* calls made so far; the host waits for the last one only
  attempts,  \* the host's event history, one record per dispatch event
  journal,   \* "blocked" once an event or a resolution cannot be read back
  host,      \* where the host is: idle, or waiting for an answer
  step,      \* progress of the effect the lock holder runs
  image,     \* the destination on the target's boot partition
  onDisk,    \* what of the destination survives a power loss
  scratch    \* .forge-image-<token> exists

ledger == <<intent, receipt, fence, owner, at, serving, began, done>>
calls == <<kind, reply, sent>>
journals == <<attempts, journal, host>>
files == <<step, image, onDisk, scratch>>
vars == <<ledger, calls, journals, files>>

L == INSTANCE AttemptLedger
       WITH Nonce <- Attempt, Worker <- Call

Outcome == {"open", "acknowledged", "uncertain"}
Resolution == {"none", "fenced-not-started", "completed"}
Reply == {"none", "acknowledged", "fenced-not-started", "completed", "incomplete", "error"}

Event == [direction : Direction, outcome : Outcome, resolution : Resolution]

TypeOK ==
  /\ L!TypeOK
  /\ kind \in [Call -> {"none", "run", "fence"}]
  /\ reply \in [Call -> Reply]
  /\ sent \in 0..MaxCalls
  /\ attempts \in Seq(Event)
  /\ Len(attempts) <= MaxAttempts
  /\ journal \in {"sound", "blocked"}
  /\ host \in {"idle", "run", "fence"}
  /\ step \in {"begin", "staged", "moved", "synced"}
  /\ image \in {"absent", "present"} /\ onDisk \in {"absent", "present"}
  /\ scratch \in BOOLEAN

-----------------------------------------------------------------------------
(* history_checked: what the history says of attempt n and of the image.   *)

TookIfAcknowledged(n) == attempts[n].outcome = "acknowledged"
Took(n) == attempts[n].outcome = "acknowledged" \/ attempts[n].resolution = "completed"
Unresolved(n) == attempts[n].outcome # "acknowledged" /\ attempts[n].resolution = "none"
AllResolved == \A n \in DOMAIN attempts : ~ Unresolved(n)

Taken == {n \in DOMAIN attempts : Took(n)}
Previous ==
  IF Taken = {} THEN "restore"
  ELSE attempts[CHOOSE n \in Taken : \A m \in Taken : m <= n].direction

Last == Len(attempts)
Target(direction) == IF direction = "apply" THEN "present" ELSE "absent"

Init ==
  /\ intent = [n \in Attempt |-> "none"]
  /\ receipt = [n \in Attempt |-> "none"]
  /\ fence = [n \in Attempt |-> "none"]
  /\ owner = {} /\ at = [c \in Call |-> "out"] /\ serving = [c \in Call |-> 1]
  /\ began = [n \in Attempt |-> 0] /\ done = {}
  /\ kind = [c \in Call |-> "none"] /\ reply = [c \in Call |-> "none"] /\ sent = 0
  /\ attempts = <<>> /\ journal = "sound" /\ host = "idle"
  /\ step = "begin" /\ image = "absent" /\ onDisk = "absent" /\ scratch = FALSE

-----------------------------------------------------------------------------
(* The host.                                                               *)

(* subprocess.run(['ssh', ...]) starts the next call, for nonce n.         *)
SendCall(k, n) ==
  /\ sent < MaxCalls
  /\ sent' = sent + 1
  /\ kind' = [kind EXCEPT ![sent + 1] = k]
  /\ L!Ask(sent + 1, n)
  /\ UNCHANGED <<reply, files>>

(* dispatch() up to the transport: the dispatch event is durable before    *)
(* the worker is sent.                                                     *)
Dispatch(d) ==
  /\ host = "idle" /\ journal = "sound"
  /\ AllResolved /\ Previous # d
  /\ Last < MaxAttempts
  /\ attempts' = Append(attempts, [direction |-> d, outcome |-> "open", resolution |-> "none"])
  /\ host' = "run"
  /\ SendCall("run", Last + 1)
  /\ UNCHANGED journal

(* append_event of the outcome of the last attempt.                        *)
Record(outcome) ==
  /\ attempts' = [attempts EXCEPT ![Last].outcome = outcome]
  /\ UNCHANGED journal

(* The answer equals acknowledgement(plan, direction, nonce, digest).      *)
Acknowledged ==
  /\ host = "run" /\ reply[sent] = "acknowledged"
  /\ Record("acknowledged")
  /\ host' = "idle"
  /\ UNCHANGED <<ledger, calls, files>>

(* except BaseException: an error answer, a lost connection, the 180 s     *)
(* timeout or an interrupt.  The worker may still be on its way.           *)
GaveUp ==
  /\ host = "run"
  /\ Record("uncertain")
  /\ host' = "idle"
  /\ UNCHANGED <<ledger, calls, files>>

(* reconcile() up to the transport: an unacknowledged dispatch becomes an  *)
(* uncertain one, then the fence is sent for its nonce.                    *)
Reconcile ==
  /\ host = "idle" /\ journal = "sound"
  /\ Last > 0 /\ Unresolved(Last)
  /\ Record("uncertain")
  /\ host' = "fence"
  /\ SendCall("fence", Last)

(* A fence receipt: "incomplete" leaves the attempt uncertain.             *)
Resolved ==
  /\ host = "fence"
  /\ reply[sent] \in {"fenced-not-started", "completed"}
  /\ attempts' = [attempts EXCEPT ![Last].resolution = reply[sent]]
  /\ host' = "idle"
  /\ UNCHANGED <<ledger, calls, journal, files>>

NotResolved ==
  /\ host = "fence"
  /\ host' = "idle"
  /\ UNCHANGED <<ledger, calls, attempts, journal, files>>

(* The owner's process dies, between two writes or inside one: an event or *)
(* resolution that does not read back blocks the plan.                     *)
HostCrash ==
  /\ host # "idle" \/ (journal = "sound" /\ sent < MaxCalls)
  /\ host' = "idle"
  /\ journal' \in {journal, "blocked"}
  /\ UNCHANGED <<ledger, calls, attempts, files>>

-----------------------------------------------------------------------------
(* The target.  A call that has not been answered may start at any time;   *)
(* target_lock and the ledger's flock are taken without waiting, the       *)
(* ledger's inside the other, so one owner stands for both.                *)

Pending(c) == c <= sent /\ reply[c] = "none" /\ at[c] = "out"
Answer(c, r) == reply' = [reply EXCEPT ![c] = r] /\ UNCHANGED <<kind, sent>>

(* target_policy and every ledger check passed; the intent is being written*)
StartRun(c) ==
  /\ Pending(c) /\ kind[c] = "run"
  /\ L!BeginRun(c)
  /\ UNCHANGED <<calls, journals, files>>

WriteIntent(c) ==
  /\ L!WriteIntent(c)
  /\ step' = "begin"
  /\ UNCHANGED <<calls, journals, image, onDisk, scratch>>

Effecting(c, d, s) == at[c] = "effect" /\ attempts[serving[c]].direction = d /\ step = s

(* publish(): destination absent, scratch created exclusively and filled.  *)
Stage(c) ==
  /\ Effecting(c, "apply", "begin")
  /\ image = "absent" /\ ~ scratch
  /\ scratch' = TRUE /\ step' = "staged"
  /\ UNCHANGED <<ledger, calls, journals, image, onDisk>>

(* publish_absent: the scratch takes the destination's name.               *)
Publish(c) ==
  /\ Effecting(c, "apply", "staged")
  /\ image' = "present" /\ scratch' = FALSE /\ step' = "moved"
  /\ UNCHANGED <<ledger, calls, journals, onDisk>>

(* remove(): the matching image is unlinked.                               *)
Remove(c) ==
  /\ Effecting(c, "restore", "begin")
  /\ image = "present"
  /\ image' = "absent" /\ step' = "moved"
  /\ UNCHANGED <<ledger, calls, journals, onDisk, scratch>>

(* os.fsync(parent).                                                       *)
Sync(c) ==
  /\ at[c] = "effect" /\ step = "moved"
  /\ onDisk' = image /\ step' = "synced"
  /\ UNCHANGED <<ledger, calls, journals, image, scratch>>

(* The effect returns only after its fsync and a second target_policy.     *)
EffectReturns(c) ==
  /\ step = "synced"
  /\ L!EffectReturns(c)
  /\ UNCHANGED <<calls, journals, files>>

(* Any check of the effect may raise, before or after the change.          *)
EffectRaises(c) ==
  /\ L!EffectRaises(c)
  /\ Answer(c, "error")
  /\ UNCHANGED <<journals, files>>

WriteReceipt(c) ==
  /\ L!WriteReceipt(c)
  /\ Answer(c, "acknowledged")
  /\ UNCHANGED <<journals, files>>

(* The fence direction of perform(): a new marker, or what is recorded.    *)
StartFence(c) ==
  /\ Pending(c) /\ kind[c] = "fence"
  /\ L!BeginFence(c)
  /\ UNCHANGED <<calls, journals, files>>

WriteFence(c) ==
  /\ L!WriteFence(c)
  /\ Answer(c, "fenced-not-started")
  /\ UNCHANGED <<journals, files>>

ReportFenceClearing(c) ==
  /\ Pending(c) /\ kind[c] = "fence" /\ owner = {}
  /\ L!Incomplete(serving[c])
  /\ intent' = [intent EXCEPT ![serving[c]] = "none"]
  /\ Answer(c, "fenced-not-started")
  /\ UNCHANGED <<receipt, fence, owner, at, serving, began, done, journals, files>>

ReportFence(c) ==
  /\ Pending(c) /\ kind[c] = "fence" /\ owner = {}
  /\ \/ L!Fenced(serving[c]) /\ Answer(c, "fenced-not-started")
     \/ L!Completed(serving[c]) /\ Answer(c, "completed")
     \/ L!Incomplete(serving[c]) /\ Answer(c, "incomplete")
  /\ UNCHANGED <<ledger, journals, files>>

(* Refused before anything was written: a busy lock, the target policy, a  *)
(* ledger entry; or the connection never came up.                          *)
Refuse(c) ==
  /\ Pending(c)
  /\ Answer(c, "error")
  /\ UNCHANGED <<ledger, journals, files>>

Kill(c) ==
  /\ L!Kill(c)
  /\ Answer(c, "error")
  /\ UNCHANGED <<journals, files>>

(* The target loses power.  Its workers are gone, and so are the calls     *)
(* still connecting: ConnectTimeout is shorter than a boot.                *)
TargetPowerLoss ==
  /\ L!PowerLoss
  /\ reply' = [c \in Call |-> IF c <= sent /\ reply[c] = "none" THEN "error" ELSE reply[c]]
  /\ image' \in {image, onDisk} /\ onDisk' = image'
  /\ scratch' \in (IF image' = image THEN {scratch, FALSE} ELSE BOOLEAN)
  /\ step' = "begin"
  /\ UNCHANGED <<kind, sent, journals>>

Host ==
  \/ \E d \in Direction : Dispatch(d)
  \/ Acknowledged \/ GaveUp \/ Reconcile \/ Resolved \/ NotResolved \/ HostCrash

TargetWork(c) ==
  \/ StartRun(c) \/ WriteIntent(c) \/ Stage(c) \/ Publish(c) \/ Remove(c) \/ Sync(c)
  \/ EffectReturns(c) \/ EffectRaises(c) \/ WriteReceipt(c)
  \/ StartFence(c) \/ WriteFence(c) \/ ReportFence(c) \/ Refuse(c) \/ Kill(c)

Next == Host \/ TargetPowerLoss \/ \E c \in Call : TargetWork(c)

Spec == Init /\ [][Next]_vars

-----------------------------------------------------------------------------
(* The target's side is the ledger of AttemptLedger, to which the host's   *)
(* calls, timeouts and crashes are just packets that arrive: what is proved*)
(* there of every history of the ledger holds of this one.                 *)
ImplementsLedger == L!Spec

-----------------------------------------------------------------------------
Register == INSTANCE ImageRegister
  WITH believed <- Target(Previous),
       open <- IF Last > 0 /\ Unresolved(Last) THEN attempts[Last].direction ELSE "none"

(* The operation implements a register with at most one open attempt that  *)
(* is closed only by agreeing on what is on the target: no interleaving of *)
(* host, workers, fences and crashes shows its owner anything else.        *)
ImplementsRegister == Register!Spec
=============================================================================
