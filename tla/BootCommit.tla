----------------------------- MODULE BootCommit -----------------------------
(***************************************************************************)
(* The guarded change of the boot selector config.txt from the recovery    *)
(* system: the host's two-phase channel (forge_recovery_commit_transport   *)
(* and _protocol), the RAM worker that mounts the boot partition for it    *)
(* (_commit_worker, _bootcommit, _commit_liveness, _commit_ledger, _claim) *)
(* and the reconciliation of an uncertain commit (_commit_reconcile and    *)
(* _commit_inspect).                                                       *)
(*                                                                         *)
(* Time runs in units of 10 seconds: left is what remains of the recovery  *)
(* lease, whose end resets the target.  There is one attempt per plan.     *)
(***************************************************************************)
EXTENDS Naturals

CONSTANTS
  Longest,    \* the longest lease
  Budget,     \* what must be left of it before the mount
  Check,      \* what the last layout check before it takes
  Window,     \* the alarm of the mounted phase
  Unmounting, \* the timeout of an unmount after the alarm
  Approval,   \* how long the worker waits for the host
  MaxBoots    \* bound on resets

ASSUME TimeAssumption ==
  /\ Longest \in Nat /\ Budget \in 1..Longest /\ MaxBoots \in Nat
  /\ Check \in Nat /\ Window \in Nat /\ Unmounting \in Nat /\ Approval \in Nat
  /\ Check + Window + Unmounting < Budget

VARIABLES
  host,       \* the phase of the channel
  intent,     \* commit-intent.json is on the host's disk
  accepted,   \* acceptance.json: the host's record of the attempt
  sent,       \* the approval is on its way or has arrived
  said,       \* what the worker has told
  fenced,     \* a reconciliation has the outcome of the fence, "none" before
  verdict,    \* what the last complete reconciliation found
  worker,     \* how far the worker is
  waited,     \* units since it waits or has mounted
  ledger,     \* the attempt in the ledger of the present boot
  mount,      \* the boot partition: "none", "rw"
  config,     \* the selector as read through the mount or from the card
  scratch,    \* its journaled scratch name
  dirty,      \* something of it may not be on the card yet
  left, boot

hostVars == <<host, intent, accepted, sent, fenced, verdict>>
card == <<mount, config, scratch, dirty>>
clock == <<left, waited>>
vars == <<hostVars, said, worker, ledger, card, clock, boot>>

Mounted == {"mounted", "staged", "replaced"}
Writing == Mounted \cup {"unmounting"}
Holding == {"hashing", "prepared", "approved", "unmounted"} \cup Writing

TypeOK ==
  /\ host \in {"idle", "hashing", "prepared", "committing", "checking", "over"}
  /\ intent \in BOOLEAN /\ sent \in BOOLEAN /\ dirty \in BOOLEAN
  /\ accepted \in {"none", "uncertain", "acknowledged"}
  /\ said \subseteq {"prepared", "unmounted", "complete"}
  /\ fenced \in {"none", "not-started", "incomplete", "completed", "previous-boot"}
  /\ verdict \in {"none", "before", "after", "conflict"}
  /\ worker \in {"none", "sent", "dead"} \cup Holding
  /\ waited \in 0..(Approval + Check + Window + Unmounting)
  /\ ledger \in {"none", "intent", "receipt", "fence"}
  /\ mount \in {"none", "rw"} /\ (worker \in Writing => mount = "rw")
  /\ config \in {"before", "after", "conflict"}
  /\ scratch \in {"absent", "present"}
  /\ left \in 0..Longest /\ boot \in 0..MaxBoots

Init ==
  /\ host = "idle" /\ intent = FALSE /\ accepted = "none" /\ sent = FALSE /\ said = {}
  /\ fenced = "none" /\ verdict = "none"
  /\ worker = "none" /\ waited = 0 /\ ledger = "none"
  /\ mount = "none" /\ config = "before" /\ scratch = "absent" /\ dirty = FALSE
  /\ left = Longest /\ boot = 0

-----------------------------------------------------------------------------
(* The host's channel.                                                     *)

(* The attempt directory is made once and for all.                         *)
Dispatch ==
  /\ host = "idle" /\ boot = 0
  /\ host' = "hashing" /\ worker' = "sent"
  /\ UNCHANGED <<intent, accepted, sent, fenced, verdict, said, ledger, card, clock, boot>>

MayRenew == host \in {"hashing", "checking"}
Renewed == left' \in left..Longest

Heartbeat ==
  /\ MayRenew /\ boot = 0 /\ left > 0 /\ Renewed
  /\ UNCHANGED <<hostVars, said, worker, ledger, card, waited, boot>>

(* The prepared reply is complete: the owner's gates, then a last renewal. *)
Authorize ==
  /\ host = "hashing" /\ "prepared" \in said /\ boot = 0 /\ left > 0
  /\ Renewed /\ host' = "prepared"
  /\ UNCHANGED <<intent, accepted, sent, fenced, verdict, said, worker, ledger, card, waited, boot>>

(* commit-intent.json is durable before the approval leaves.               *)
Commit ==
  /\ host = "prepared"
  /\ \/ ~ intent /\ intent' = TRUE /\ UNCHANGED <<sent, host>>
     \/ intent /\ sent' = TRUE /\ host' = "committing" /\ UNCHANGED intent
  /\ UNCHANGED <<accepted, fenced, verdict, said, worker, ledger, card, clock, boot>>

NoteUnmounted ==
  /\ host = "committing" /\ "unmounted" \in said
  /\ host' = "checking"
  /\ UNCHANGED <<intent, accepted, sent, fenced, verdict, said, worker, ledger, card, clock, boot>>

(* The receipt, and a last look at the recovery session.                   *)
Accept ==
  /\ host = "checking" /\ "complete" \in said /\ boot = 0
  /\ host' = "over" /\ accepted' = "acknowledged"
  /\ UNCHANGED <<intent, sent, fenced, verdict, said, worker, ledger, card, clock, boot>>

(* A timeout, a lost channel, a bad reply, a refusing owner, a dead host.  *)
HostFails ==
  /\ host \notin {"idle", "over"}
  /\ host' = "over" /\ accepted' \in {"none", "uncertain"}
  /\ UNCHANGED <<intent, sent, fenced, verdict, said, worker, ledger, card, clock, boot>>

-----------------------------------------------------------------------------
(* The worker.                                                             *)

At(s) == worker = s
Say(m) == said' = said \cup {m}
Go(s) == worker' = s

(* Right boot, attempt neither fenced nor begun; its intent is durable.    *)
Start ==
  /\ At("sent") /\ boot = 0 /\ ledger = "none"
  /\ ledger' = "intent" /\ Go("hashing")
  /\ UNCHANGED <<hostVars, said, card, clock, boot>>

Refused ==
  /\ At("sent") /\ (boot # 0 \/ ledger # "none")
  /\ Go("dead")
  /\ UNCHANGED <<hostVars, said, ledger, card, clock, boot>>

(* The root partition is claimed and the protected ranges are hashed.      *)
Prepared ==
  /\ At("hashing")
  /\ Say("prepared") /\ Go("prepared") /\ waited' = 0
  /\ UNCHANGED <<hostVars, ledger, card, left, boot>>

EnoughForTheWindow == left > Window
EnoughBudget == left >= Budget

(* The approval, with the receipt of the lease that is still in force.     *)
Approved ==
  /\ At("prepared") /\ sent /\ EnoughBudget
  /\ Go("approved") /\ waited' = 0
  /\ UNCHANGED <<hostVars, said, ledger, card, left, boot>>

Mount ==
  /\ At("approved") /\ mount = "none" /\ config = "before"
  /\ mount' = "rw" /\ Go("mounted") /\ waited' = 0
  /\ UNCHANGED <<hostVars, said, ledger, config, scratch, dirty, left, boot>>

Stage ==
  /\ At("mounted")
  /\ scratch' = "present" /\ dirty' = TRUE /\ Go("staged")
  /\ UNCHANGED <<hostVars, said, ledger, mount, config, clock, boot>>

Replace ==
  /\ At("staged")
  /\ config' = "after" /\ scratch' = "absent" /\ Go("replaced")
  /\ UNCHANGED <<hostVars, said, ledger, mount, dirty, clock, boot>>

Unmounts == mount' = "none" /\ dirty' = FALSE

Unmount ==
  /\ At("replaced")
  /\ Unmounts /\ Say("unmounted") /\ Go("unmounted")
  /\ UNCHANGED <<hostVars, ledger, config, scratch, clock, boot>>

(* The guards once more, then the receipt in the ledger and the answer.    *)
Complete ==
  /\ At("unmounted")
  /\ ledger' = "receipt" /\ Go("dead")
  /\ said' \in {said, said \cup {"complete"}}
  /\ UNCHANGED <<hostVars, card, clock, boot>>

(* Any check, a hangup, the alarm or the approval deadline raises.  In the *)
(* mounted phase the scratch name is removed if that works, and then the   *)
(* partition unmounted if that works.                                      *)
Raised ==
  /\ worker \in Holding \ Writing
  /\ Go("dead")
  /\ UNCHANGED <<hostVars, said, ledger, card, clock, boot>>

RaisedMounted ==
  /\ worker \in Mounted
  /\ scratch' \in {scratch, "absent"}
  /\ Go("unmounting") /\ waited' = 0
  /\ UNCHANGED <<hostVars, said, ledger, mount, config, dirty, left, boot>>

GaveUpMounted ==
  /\ At("unmounting") /\ Go("dead")
  /\ Unmounts \/ UNCHANGED <<mount, dirty>>
  /\ UNCHANGED <<hostVars, said, ledger, config, scratch, clock, boot>>

Killed ==
  /\ worker \in Holding \cup {"sent"}
  /\ Go("dead")
  /\ UNCHANGED <<hostVars, said, ledger, card, clock, boot>>

-----------------------------------------------------------------------------
(* Reconciliation: fence, then inspection, both bound to the same boot.    *)

(* A worker that lives holds the lock of the ledger.                       *)
MayFence == worker \notin Holding

(* An attempt that did not begin never will.                               *)
Barred == IF ledger = "none" THEN "fence" ELSE ledger

(* cleanup(): the ledger of this boot tells what became of the attempt, an *)
(* earlier boot's is gone with its worker; a stale mount goes.             *)
Fence ==
  /\ host = "over" /\ fenced = "none" /\ MayFence
  /\ IF boot # 0
       THEN UNCHANGED ledger /\ fenced' = "previous-boot"
       ELSE /\ ledger' = Barred
            /\ fenced' = (CASE ledger \in {"none", "fence"} -> "not-started"
                            [] ledger = "intent" -> "incomplete"
                            [] ledger = "receipt" -> "completed")
  /\ Unmounts
  /\ UNCHANGED <<host, intent, accepted, sent, verdict, said, worker, config, scratch, clock, boot>>

(* The fence is set but its answer, or the unmount, fails.                 *)
FenceFails ==
  /\ host = "over" /\ fenced = "none" /\ MayFence /\ boot = 0
  /\ ledger' = Barred
  /\ UNCHANGED <<hostVars, said, worker, card, clock, boot>>

FoundSelector == config
Found == IF scratch = "absent" THEN config ELSE "conflict"

(* A read-only look, compared with what the fence told.                    *)
Inspect ==
  /\ fenced # "none" /\ left > 0
  /\ verdict' = IF \/ fenced = "completed" /\ Found # "after"
                   \/ fenced = "not-started" /\ Found # "before"
                  THEN "conflict" ELSE Found
  /\ fenced' = "none"
  /\ Renewed
  /\ UNCHANGED <<host, intent, accepted, sent, said, worker, ledger, card, waited, boot>>

ReconcileFails ==
  /\ fenced # "none" /\ fenced' = "none"
  /\ UNCHANGED <<host, intent, accepted, sent, verdict, said, worker, ledger, card, clock, boot>>

-----------------------------------------------------------------------------
(* The worker is scheduled: its alarm and its deadlines work in time.      *)
Tick ==
  /\ left > 0 /\ left' = left - 1
  /\ worker = "prepared" => waited < Approval
  /\ worker = "approved" => waited < Check
  /\ worker \in Mounted => waited < Window
  /\ worker = "unmounting" => waited < Unmounting
  /\ waited' = IF worker \in {"prepared", "approved"} \cup Writing THEN waited + 1 ELSE 0
  /\ UNCHANGED <<hostVars, said, worker, ledger, card, boot>>

(* The lease ends or the power fails: RAM and what was not written go.     *)
Reset ==
  /\ boot < MaxBoots /\ boot' = boot + 1
  /\ worker' = IF worker \in Holding THEN "dead" ELSE worker
  /\ ledger' = "none" /\ mount' = "none" /\ dirty' = FALSE
  /\ IF dirty
       THEN config' \in {"before", config, "conflict"} /\ scratch' \in {"absent", "present"}
       ELSE UNCHANGED <<config, scratch>>
  /\ fenced' = "none" /\ left' = Longest /\ waited' = 0
  /\ UNCHANGED <<host, intent, accepted, sent, verdict, said>>

Host == Dispatch \/ Heartbeat \/ Authorize \/ Commit \/ NoteUnmounted \/ Accept \/ HostFails
Guest ==
  \/ Start \/ Refused \/ Prepared \/ Approved \/ Mount \/ Stage \/ Replace
  \/ Unmount \/ Complete \/ Raised \/ RaisedMounted \/ GaveUpMounted \/ Killed
Reconciliation == Fence \/ FenceFails \/ Inspect \/ ReconcileFails

Next == Host \/ Guest \/ Reconciliation \/ Tick \/ Reset

Spec == Init /\ [][Next]_vars

-----------------------------------------------------------------------------

(* What a complete reconciliation reports is what is on the card.          *)
VerdictIsTrue ==
  verdict \in {"before", "after"} => config = verdict /\ scratch = "absent"

(* "bounded-commit-with-live-watchdog": the lease never ends while a live  *)
(* worker has the partition mounted, although nobody renews it then.       *)
LeaseOutlivesMount == worker \in Writing => left > 0
=============================================================================
