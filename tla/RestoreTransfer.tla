--------------------------- MODULE RestoreTransfer ---------------------------
(***************************************************************************)
(* The restoration of the root partition from the recovery system: the     *)
(* host's half of the stream (forge_recovery_restore_dispatch, _exchange,  *)
(* _host_protocol, _process), the worker in the RAM of the target that     *)
(* claims the partition and writes it chunk by chunk (_worker, _executor,  *)
(* _protocol, _io, _claim, _chunks, _ledger, _identity) and the            *)
(* reconciliation of an uncertain attempt (_reconcile_host, _reconcile,    *)
(* _observe).  A plan (_plan) has one attempt and is good for one boot.    *)
(*                                                                         *)
(* A pipe is a sequence of message types: it neither loses nor reorders.   *)
(* Lease budgets are not counted: a renewal may be asked for wherever the  *)
(* code may ask, and any check may fail.                                   *)
(***************************************************************************)
EXTENDS Naturals, Sequences

CONSTANTS
  Plans,     \* restore and deployment plans
  Chunks,    \* how many chunks the root has
  Old,       \* what they hold at first
  Source,    \* what each plan's source archive holds
  MaxBoots   \* bound on resets

ASSUME PlanAssumption ==
  /\ Chunks \in Nat \ {0} /\ MaxBoots \in Nat
  /\ DOMAIN Old = 1..Chunks /\ Source \in [Plans -> [1..Chunks -> STRING]]

VARIABLES
  plan,      \* what plan.json pins of the target
  phase,     \* the host's protocol
  pending,   \* the control challenge it has to answer
  approved,  \* the owner approvals in its journal
  intended,  \* the chunk intents in its journal
  sent, chunks,  \* the chunks sent and acknowledged
  finished,  \* the source and the readback that are through
  accepted,  \* acceptance.json; an uncertain one tells no more than none
  up, down,  \* the pipes to the host and to the worker
  worker,    \* how far the worker is
  asking,    \* it waits for a renewal
  got,       \* chunks it has verified
  ledger,    \* the boot-wide ledger in the RAM of the target
  root,      \* the chunks as read
  dirty,     \* those that may not be on the card yet
  writer,    \* whose attempt last wrote one
  guarded,   \* the state of the protected ranges and of the held files
  mounts,    \* the attempts whose read-only boot mount exists
  fenced,    \* what a reconciliation's fence found
  verdict,   \* and what it reported in the end
  boot

proto == <<phase, pending, approved, intended, sent, chunks, finished, accepted>>
pipes == <<up, down>>
work == <<worker, asking, got>>
card == <<root, dirty, writer>>
target == <<ledger, guarded, mounts>>
recon == <<fenced, verdict>>
vars == <<plan, proto, pipes, work, card, target, recon, boot>>

Index == 1..Chunks
NoPlan == [boot |-> MaxBoots + 1, before |-> Old, guard |-> "none"]

(* Holding the target lock; of these, the claim of the root partition.     *)
Streaming == {"receiving", "holding", "writing", "written", "reading"}
Claiming == {"guarding", "inspect", "mounted", "unmounted", "write", "leaving"} \cup Streaming
Locking == {"locked", "acquire", "closing", "finished"} \cup Claiming

Locked == \E p \in Plans : worker[p] \in Locking
Claimed == \E p \in Plans : worker[p] \in Claiming
(* The ledger's lock is taken with the intent.                             *)
InLedger == \E p \in Plans : worker[p] \in Locking \ {"locked"}

Controls == {"acquire", "inspect", "write", "renew"}
Up == Controls \cup {"unmounted", "chunk", "readback", "close-input", "complete"}
Down == {"reply", "chunk", "source-complete"}

TypeOK ==
  /\ plan \in [Plans -> [boot : 0..MaxBoots + 1, before : [Index -> STRING], guard : STRING]]
  /\ phase \in [Plans -> {"none", "initial", "acquired", "inspecting", "unmounted", "streaming",
                          "input-closed", "complete", "over"}]
  /\ pending \in [Plans -> Controls \cup {"none"}]
  /\ approved \in [Plans -> SUBSET Controls]
  /\ intended \in [Plans -> 0..Chunks]
  /\ \A p \in Plans : chunks[p] <= sent[p] /\ sent[p] <= intended[p] /\ intended[p] <= chunks[p] + 1
  /\ finished \in [Plans -> SUBSET {"source", "readback"}]
  /\ accepted \in [Plans -> {"none", "acknowledged"}]
  /\ up \in [Plans -> Seq(Up)] /\ down \in [Plans -> Seq(Down)]
  /\ worker \in [Plans -> {"none", "starting", "done", "dead"} \cup Locking]
  /\ \A p, q \in Plans : worker[p] \in Locking /\ worker[q] \in Locking => p = q
  /\ asking \in [Plans -> BOOLEAN] /\ got \in [Plans -> 0..Chunks]
  /\ ledger \in [Plans -> {"none", "intent", "receipt", "fence"}]
  /\ root \in [Index -> STRING] /\ dirty \subseteq Index /\ writer \in Plans \cup {"nobody"}
  /\ guarded \in {"same", "changed"} /\ mounts \subseteq Plans
  /\ fenced \in [Plans -> {"none", "not-started", "incomplete", "completed", "previous-boot"}]
  /\ verdict \in [Plans -> {"none", "conflict", "verified", "source", "before", "partial"}]
  /\ boot \in 0..MaxBoots

Init ==
  /\ plan = [p \in Plans |-> NoPlan]
  /\ phase = [p \in Plans |-> "none"] /\ pending = [p \in Plans |-> "none"]
  /\ approved = [p \in Plans |-> {}] /\ intended = [p \in Plans |-> 0]
  /\ sent = [p \in Plans |-> 0] /\ chunks = [p \in Plans |-> 0]
  /\ finished = [p \in Plans |-> {}] /\ accepted = [p \in Plans |-> "none"]
  /\ up = [p \in Plans |-> <<>>] /\ down = [p \in Plans |-> <<>>]
  /\ worker = [p \in Plans |-> "none"] /\ asking = [p \in Plans |-> FALSE]
  /\ got = [p \in Plans |-> 0]
  /\ ledger = [p \in Plans |-> "none"] /\ mounts = {} /\ guarded = "same"
  /\ root = Old /\ dirty = {} /\ writer = "nobody"
  /\ fenced = [p \in Plans |-> "none"] /\ verdict = [p \in Plans |-> "none"]
  /\ boot = 0

-----------------------------------------------------------------------------
(* The host.                                                               *)

(* The card is hashed through an exclusive descriptor, the held files are  *)
(* inspected, and both are pinned for this boot.                           *)
Prepare(p) ==
  /\ plan[p] = NoPlan /\ ~ Claimed /\ mounts = {}
  /\ plan' = [plan EXCEPT ![p] = [boot |-> boot, before |-> root, guard |-> guarded]]
  /\ UNCHANGED <<proto, pipes, work, card, target, recon, boot>>

(* The attempt directory is made once and for all, then the packet leaves. *)
Dispatch(p) ==
  /\ phase[p] = "none" /\ plan[p].boot = boot
  /\ phase' = [phase EXCEPT ![p] = "initial"]
  /\ worker' = [worker EXCEPT ![p] = "starting"]
  /\ UNCHANGED <<plan, pending, approved, intended, sent, chunks, finished, accepted, pipes,
                 asking, got, card, target, recon, boot>>

Active(p) == phase[p] \notin {"none", "over"}
Reads(p, m) ==
  /\ Active(p) /\ pending[p] = "none" /\ up[p] # <<>> /\ Head(up[p]) = m
  /\ up' = [up EXCEPT ![p] = Tail(@)]
Answers(p, m) == down' = IF worker[p] = "dead" THEN down ELSE [down EXCEPT ![p] = Append(@, m)]

Expected(p) ==
  CASE phase[p] = "initial" -> {"acquire"}
    [] phase[p] = "acquired" -> {"inspect", "renew"}
    [] phase[p] = "unmounted" -> {"write", "renew"}
    [] phase[p] = "streaming" -> {"renew"}
    [] OTHER -> {}

Challenged(p) ==
  \E m \in Expected(p) :
    /\ Reads(p, m) /\ pending' = [pending EXCEPT ![p] = m]
    /\ UNCHANGED <<plan, phase, approved, intended, sent, chunks, finished, accepted, down,
                   work, card, target, recon, boot>>

(* The owner's approval reaches the journal first.                         *)
Approve(p) ==
  /\ Active(p) /\ pending[p] \in Controls \ ({"renew"} \cup approved[p])
  /\ approved' = [approved EXCEPT ![p] = @ \cup {pending[p]}]
  /\ UNCHANGED <<plan, phase, pending, intended, sent, chunks, finished, accepted, pipes,
                 work, card, target, recon, boot>>

MayReply(p) == pending[p] \in approved[p] \cup {"renew"}

(* The lease is renewed and its receipt sent.                              *)
Reply(p) ==
  /\ Active(p) /\ MayReply(p) /\ boot = plan[p].boot
  /\ phase' = [phase EXCEPT ![p] =
       CASE pending[p] = "acquire" -> "acquired" [] pending[p] = "inspect" -> "inspecting"
         [] pending[p] = "write" -> "streaming" [] OTHER -> @]
  /\ pending' = [pending EXCEPT ![p] = "none"]
  /\ Answers(p, "reply")
  /\ UNCHANGED <<plan, approved, intended, sent, chunks, finished, accepted, up, work, card,
                 target, recon, boot>>

NoteUnmounted(p) ==
  /\ Reads(p, "unmounted") /\ phase[p] = "inspecting"
  /\ phase' = [phase EXCEPT ![p] = "unmounted"]
  /\ UNCHANGED <<plan, pending, approved, intended, sent, chunks, finished, accepted, down,
                 work, card, target, recon, boot>>

(* One chunk at a time: the intent is durable, then the bytes leave.       *)
IntendChunk(p) ==
  /\ phase[p] = "streaming" /\ pending[p] = "none"
  /\ intended[p] = chunks[p] /\ intended[p] < Chunks
  /\ intended' = [intended EXCEPT ![p] = @ + 1]
  /\ UNCHANGED <<plan, phase, pending, approved, sent, chunks, finished, accepted, pipes,
                 work, card, target, recon, boot>>

SendChunk(p) ==
  /\ phase[p] = "streaming" /\ sent[p] < intended[p]
  /\ sent' = [sent EXCEPT ![p] = @ + 1] /\ Answers(p, "chunk")
  /\ UNCHANGED <<plan, phase, pending, approved, intended, chunks, finished, accepted, up,
                 work, card, target, recon, boot>>

NoteChunk(p) ==
  /\ phase[p] = "streaming" /\ chunks[p] < sent[p] /\ Reads(p, "chunk")
  /\ chunks' = [chunks EXCEPT ![p] = @ + 1]
  /\ UNCHANGED <<plan, phase, pending, approved, intended, sent, finished, accepted, down,
                 work, card, target, recon, boot>>

FinishSource(p) ==
  /\ phase[p] = "streaming" /\ pending[p] = "none"
  /\ chunks[p] = Chunks /\ "source" \notin finished[p]
  /\ finished' = [finished EXCEPT ![p] = @ \cup {"source"}] /\ Answers(p, "source-complete")
  /\ UNCHANGED <<plan, phase, pending, approved, intended, sent, chunks, accepted, up, work,
                 card, target, recon, boot>>

NoteReadback(p) ==
  /\ Reads(p, "readback") /\ phase[p] = "streaming" /\ "source" \in finished[p]
  /\ finished' = [finished EXCEPT ![p] = @ \cup {"readback"}]
  /\ UNCHANGED <<plan, phase, pending, approved, intended, sent, chunks, accepted, down, work,
                 card, target, recon, boot>>

CloseInput(p) ==
  /\ Reads(p, "close-input") /\ phase[p] = "streaming" /\ finished[p] = {"source", "readback"}
  /\ phase' = [phase EXCEPT ![p] = "input-closed"]
  /\ UNCHANGED <<plan, pending, approved, intended, sent, chunks, finished, accepted, down,
                 work, card, target, recon, boot>>

NoteComplete(p) ==
  /\ Reads(p, "complete") /\ phase[p] = "input-closed"
  /\ phase' = [phase EXCEPT ![p] = "complete"]
  /\ UNCHANGED <<plan, pending, approved, intended, sent, chunks, finished, accepted, down,
                 work, card, target, recon, boot>>

(* A clean exit and a last look at the recovery session.                   *)
Accept(p) ==
  /\ phase[p] = "complete" /\ worker[p] = "done" /\ boot = plan[p].boot
  /\ phase' = [phase EXCEPT ![p] = "over"]
  /\ accepted' = [accepted EXCEPT ![p] = "acknowledged"]
  /\ UNCHANGED <<plan, pending, approved, intended, sent, chunks, finished, pipes, work, card,
                 target, recon, boot>>

(* A deadline, a bad message, a refusing owner, a full disk, a dead host.  *)
HostFails(p) ==
  /\ Active(p)
  /\ phase' = [phase EXCEPT ![p] = "over"]
  /\ up' = [up EXCEPT ![p] = <<>>]
  /\ UNCHANGED <<plan, pending, approved, intended, sent, chunks, finished, accepted, down,
                 work, card, target, recon, boot>>

-----------------------------------------------------------------------------
(* The worker.                                                             *)

At(p, s) == worker[p] = s /\ ~ asking[p]
Go(p, s) == worker' = [worker EXCEPT ![p] = s]
Tell(p, m) == up' = IF phase[p] = "over" THEN up ELSE [up EXCEPT ![p] = Append(@, m)]
Hears(p, m) ==
  /\ down[p] # <<>> /\ Head(down[p]) = m
  /\ down' = [down EXCEPT ![p] = Tail(@)]
Recovery == mounts = {}
LockFree == ~ Locked
(* Boot, layout and recovery system are the plan's, nothing is mounted.    *)
Identity(p) == boot = plan[p].boot /\ Recovery

Start(p) ==
  /\ At(p, "starting") /\ Identity(p) /\ LockFree
  /\ Go(p, "locked")
  /\ UNCHANGED <<plan, proto, pipes, asking, got, card, target, recon, boot>>

Refused(p) ==
  /\ At(p, "starting") /\ ~ (Identity(p) /\ LockFree)
  /\ Go(p, "dead") /\ down' = [down EXCEPT ![p] = <<>>]
  /\ UNCHANGED <<plan, proto, up, asking, got, card, target, recon, boot>>

PermittedAlone(p) == ledger[p] = "none"
Permitted(p) == ledger[p] = "none" /\ \A q \in Plans : ledger[q] # "intent"

Begin(p) ==
  /\ At(p, "locked") /\ Permitted(p)
  /\ ledger' = [ledger EXCEPT ![p] = "intent"]
  /\ Go(p, "acquire") /\ Tell(p, "acquire")
  /\ UNCHANGED <<plan, proto, down, asking, got, card, guarded, mounts, recon, boot>>

Acquire(p) ==
  /\ At(p, "acquire") /\ Hears(p, "reply") /\ Identity(p)
  /\ Go(p, "guarding")
  /\ UNCHANGED <<plan, proto, up, asking, got, card, target, recon, boot>>

PrefixHolds(p) == guarded = plan[p].guard
GuardsHold(p) == root = plan[p].before /\ guarded = plan[p].guard

(* The claim is held and the whole card is what the plan was made for.     *)
Guard(p) ==
  /\ At(p, "guarding") /\ GuardsHold(p)
  /\ Go(p, "inspect") /\ Tell(p, "inspect")
  /\ UNCHANGED <<plan, proto, down, asking, got, card, target, recon, boot>>

Mount(p) ==
  /\ At(p, "inspect") /\ Hears(p, "reply") /\ Identity(p)
  /\ Go(p, "mounted") /\ mounts' = mounts \cup {p}
  /\ UNCHANGED <<plan, proto, up, asking, got, card, ledger, guarded, recon, boot>>

(* The held files are the plan's; the boot partition is unmounted again.   *)
Unmount(p) ==
  /\ At(p, "mounted") /\ PrefixHolds(p)
  /\ Go(p, "unmounted") /\ mounts' = mounts \ {p} /\ Tell(p, "unmounted")
  /\ UNCHANGED <<plan, proto, down, asking, got, card, ledger, guarded, recon, boot>>

AskToWrite(p) ==
  /\ At(p, "unmounted") /\ Identity(p) /\ PrefixHolds(p)
  /\ Go(p, "write") /\ Tell(p, "write")
  /\ UNCHANGED <<plan, proto, down, asking, got, card, target, recon, boot>>

MayWrite(p) ==
  /\ At(p, "write") /\ Hears(p, "reply") /\ Identity(p)
  /\ Go(p, "receiving")
  /\ UNCHANGED <<plan, proto, up, asking, got, card, target, recon, boot>>

TakeChunk(p) ==
  /\ At(p, "receiving") /\ got[p] < Chunks /\ Hears(p, "chunk")
  /\ Go(p, "holding")
  /\ UNCHANGED <<plan, proto, up, asking, got, card, target, recon, boot>>

(* A chunk that is there already is only synchronized.  *)
WriteChunk(p) ==
  LET i == got[p] + 1 IN
  /\ At(p, "holding") /\ Identity(p)
  /\ IF root[i] = Source[p][i]
       THEN Go(p, "written") /\ UNCHANGED card
       ELSE /\ Go(p, "writing")
            /\ root' = [root EXCEPT ![i] = "torn"]
            /\ dirty' = dirty \cup {i} /\ writer' = p
  /\ UNCHANGED <<plan, proto, pipes, asking, got, target, recon, boot>>

SyncedNot(i) == UNCHANGED dirty
Synced(i) == dirty' = dirty \ {i}

AckBuffered(p) == UNCHANGED up
Acknowledge(p) == Tell(p, "chunk")

FinishChunk(p) ==
  LET i == got[p] + 1 IN
  /\ At(p, "writing") /\ Go(p, "written")
  /\ root' = [root EXCEPT ![i] = Source[p][i]]
  /\ UNCHANGED <<plan, proto, pipes, asking, got, dirty, writer, target, recon, boot>>

(* Synchronized and read again.                                            *)
VerifyChunk(p) ==
  LET i == got[p] + 1 IN
  /\ At(p, "written") /\ Synced(i)
  /\ got' = [got EXCEPT ![p] = i]
  /\ Go(p, "receiving") /\ Acknowledge(p)
  /\ UNCHANGED <<plan, proto, down, asking, root, writer, target, recon, boot>>

TakeEnd(p) ==
  /\ At(p, "receiving") /\ got[p] = Chunks /\ Hears(p, "source-complete")
  /\ Go(p, "reading")
  /\ UNCHANGED <<plan, proto, up, asking, got, card, target, recon, boot>>

Readback(p) ==
  /\ At(p, "reading") /\ root = Source[p]
  /\ Go(p, "leaving") /\ Tell(p, "readback")
  /\ UNCHANGED <<plan, proto, down, asking, got, card, target, recon, boot>>

(* The protected ranges once more; the claim ends before the input.        *)
Leave(p) ==
  /\ At(p, "leaving") /\ Identity(p) /\ PrefixHolds(p)
  /\ Go(p, "closing") /\ Tell(p, "close-input")
  /\ UNCHANGED <<plan, proto, down, asking, got, card, target, recon, boot>>

(* A host that died looks like one that closed its side.                   *)
SeeEnd(p) ==
  /\ At(p, "closing") /\ down[p] = <<>> /\ phase[p] \in {"input-closed", "complete", "over"}
  /\ Go(p, "finished")
  /\ UNCHANGED <<plan, proto, pipes, asking, got, card, target, recon, boot>>

(* The receipt is in the ledger before the answer, which may get lost.     *)
Complete(p) ==
  /\ At(p, "finished") /\ Identity(p)
  /\ ledger' = [ledger EXCEPT ![p] = "receipt"]
  /\ Go(p, "done")
  /\ Tell(p, "complete") \/ UNCHANGED up
  /\ UNCHANGED <<plan, proto, down, asking, got, card, guarded, mounts, recon, boot>>

(* Long hashes and the chunks in between: the lease must be renewed, but   *)
(* not while the boot partition is mounted.                                *)
Renew(p) ==
  /\ worker[p] \in {"guarding", "unmounted", "holding", "reading", "leaving"} /\ ~ asking[p]
  /\ asking' = [asking EXCEPT ![p] = TRUE] /\ Tell(p, "renew")
  /\ UNCHANGED <<plan, proto, down, worker, got, card, target, recon, boot>>

Renewed(p) ==
  /\ asking[p] /\ Hears(p, "reply")
  /\ asking' = [asking EXCEPT ![p] = FALSE]
  /\ UNCHANGED <<plan, proto, up, worker, got, card, target, recon, boot>>

(* Any check or deadline raises, the pipe breaks, or the process is        *)
(* killed; then its mount stays.                                           *)
Dies(p) ==
  /\ worker[p] \in Locking
  /\ Go(p, "dead") /\ asking' = [asking EXCEPT ![p] = FALSE]
  /\ mounts' \in {mounts, mounts \ {p}} /\ down' = [down EXCEPT ![p] = <<>>]
  /\ UNCHANGED <<plan, proto, up, got, card, ledger, guarded, recon, boot>>

-----------------------------------------------------------------------------
(* Reconciliation.                                                         *)

Fenceable(p) == phase[p] = "over" /\ fenced[p] = "none"
Barred(p) == [ledger EXCEPT ![p] = IF @ = "none" THEN "fence" ELSE @]

MayFence(p) == IF boot = plan[p].boot THEN ~ InLedger ELSE TRUE

(* The fence, and the exact stale mount of the attempt goes.               *)
Fence(p) ==
  /\ Fenceable(p) /\ mounts \subseteq {p} /\ MayFence(p) /\ LockFree
  /\ ledger' = IF boot = plan[p].boot THEN Barred(p) ELSE ledger
  /\ mounts' = mounts \ {p}
  /\ fenced' = [fenced EXCEPT ![p] =
       IF boot # plan[p].boot THEN "previous-boot"
       ELSE CASE ledger[p] \in {"none", "fence"} -> "not-started"
              [] ledger[p] = "intent" -> "incomplete"
              [] ledger[p] = "receipt" -> "completed"]
  /\ UNCHANGED <<plan, proto, pipes, work, card, guarded, verdict, boot>>

(* The fence is set, but the lock is taken or the answer is lost.          *)
FenceFails(p) ==
  /\ Fenceable(p) /\ mounts \subseteq {p} /\ boot = plan[p].boot /\ ~ InLedger
  /\ ledger' = Barred(p)
  /\ UNCHANGED <<plan, proto, pipes, work, card, guarded, mounts, recon, boot>>

Conflict(p) ==
  \/ guarded # plan[p].guard
  \/ fenced[p] = "completed" /\ root # Source[p]
  \/ fenced[p] = "not-started" /\ root # plan[p].before

(* Inspection and hashes of the whole card, classified against the fence.  *)
Classify(p) ==
  /\ fenced[p] # "none" /\ LockFree /\ Recovery
  /\ verdict' = [verdict EXCEPT ![p] =
       CASE Conflict(p) -> "conflict"
         [] ~ Conflict(p) /\ fenced[p] = "completed" -> "verified"
         [] ~ Conflict(p) /\ fenced[p] # "completed" /\ root = Source[p] -> "source"
         [] ~ Conflict(p) /\ root # Source[p] /\ root = plan[p].before -> "before"
         [] OTHER -> "partial"]
  /\ fenced' = [fenced EXCEPT ![p] = "none"]
  /\ UNCHANGED <<plan, proto, pipes, work, card, target, boot>>

ReconcileFails(p) ==
  /\ fenced[p] # "none" /\ fenced' = [fenced EXCEPT ![p] = "none"]
  /\ UNCHANGED <<plan, proto, pipes, work, card, target, verdict, boot>>

-----------------------------------------------------------------------------
(* A boot commit under the target lock changes the boot partition.         *)
Drift ==
  /\ LockFree /\ guarded = "same" /\ guarded' = "changed"
  /\ UNCHANGED <<plan, proto, pipes, work, card, ledger, mounts, recon, boot>>

(* The lease ends or the power fails: RAM and what was not written go.     *)
Reset ==
  /\ boot < MaxBoots /\ boot' = boot + 1
  /\ worker' = [p \in Plans |-> IF worker[p] \in Locking THEN "dead" ELSE worker[p]]
  /\ asking' = [p \in Plans |-> FALSE]
  /\ ledger' = [p \in Plans |-> "none"] /\ mounts' = {}
  /\ fenced' = [p \in Plans |-> "none"]
  /\ \E lost \in SUBSET dirty : root' = [i \in Index |-> IF i \in lost THEN "torn" ELSE root[i]]
  /\ dirty' = {}
  /\ down' = [p \in Plans |-> IF worker[p] \in Locking THEN <<>> ELSE down[p]]
  /\ UNCHANGED <<plan, proto, up, got, writer, guarded, verdict>>

Host(p) ==
  \/ Prepare(p) \/ Dispatch(p) \/ Challenged(p) \/ Approve(p) \/ Reply(p) \/ NoteUnmounted(p)
  \/ IntendChunk(p) \/ SendChunk(p) \/ NoteChunk(p) \/ FinishSource(p) \/ NoteReadback(p)
  \/ CloseInput(p) \/ NoteComplete(p) \/ Accept(p) \/ HostFails(p)
Guest(p) ==
  \/ Start(p) \/ Refused(p) \/ Begin(p) \/ Acquire(p) \/ Guard(p) \/ Mount(p) \/ Unmount(p)
  \/ AskToWrite(p) \/ MayWrite(p) \/ TakeChunk(p) \/ WriteChunk(p) \/ FinishChunk(p)
  \/ VerifyChunk(p)
  \/ TakeEnd(p) \/ Readback(p) \/ Leave(p) \/ SeeEnd(p) \/ Complete(p)
  \/ Renew(p) \/ Renewed(p) \/ Dies(p)
Reconciliation(p) == Fence(p) \/ FenceFails(p) \/ Classify(p) \/ ReconcileFails(p)

Next == (\E p \in Plans : Host(p) \/ Guest(p) \/ Reconciliation(p)) \/ Drift \/ Reset

Spec == Init /\ [][Next]_vars

-----------------------------------------------------------------------------
(* "acknowledged", and a reconciliation that verified the completion,      *)
(* stand for a worker that finished, and any complete reconciliation for   *)
(* one that neither runs nor begins any more; and while nobody else has    *)
(* written since, every chunk is the source's and survives every reset.    *)
CompletionIsDurable ==
  /\ \A p \in Plans :
       /\ accepted[p] = "acknowledged" \/ verdict[p] = "verified" => worker[p] = "done"
       /\ verdict[p] # "none" => worker[p] \notin Locking \ {"locked"}
  /\ \A p \in Plans : worker[p] = "done" /\ writer = p => root = Source[p] /\ dirty = {}

(* An attempt writes its first chunk on the card the owner approved it     *)
(* for, with no drift of the boot files and no other restoration in        *)
(* between; and never on a root another one left in part in that boot.     *)
WritesAsApproved ==
  [][writer' # writer =>
       /\ root = plan[writer'].before /\ guarded = plan[writer'].guard
       /\ writer # "nobody" /\ root # Source[writer] =>
            plan[writer'].boot > plan[writer].boot]_vars

(* One channel carries chunks, challenges and answers in turns: while a    *)
(* call is alive at both ends, one of the two speaks or has been spoken to.*)
HostWaits(p) ==
  /\ Active(p) /\ pending[p] = "none" /\ up[p] = <<>>
  /\ phase[p] = "streaming" => chunks[p] < sent[p] \/ "source" \in finished[p]
  /\ phase[p] # "complete"
WorkerWaits(p) ==
  /\ down[p] = <<>>
  /\ \/ asking[p]
     \/ worker[p] \in {"acquire", "inspect", "write", "receiving"}
     \/ worker[p] = "closing" /\ phase[p] # "input-closed"
NeverBothWait == \A p \in Plans : ~ (HostWaits(p) /\ WorkerWaits(p))
=============================================================================
