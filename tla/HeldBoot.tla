------------------------------ MODULE HeldBoot ------------------------------
(***************************************************************************)
(* Which boot the target is in, and what the host may say about it: the    *)
(* enrollment of a recovery boot (forge_session_enrollment, with the       *)
(* identity checks of forge_ram_transport, _identity, _boot_observation),  *)
(* the plans of the boot selector prepared and dispatched as jobs          *)
(* (forge_recovery_bootplan, _hold, _hold_jobs), the one reboot into the   *)
(* held recovery (forge_held_reboot) and the one back to the normal        *)
(* system (forge_normal_return).                                           *)
(*                                                                         *)
(* Boots are numbered in the order they happen; the host sees only that    *)
(* two boots differ.  The commit of a selector is BootCommit; here it is   *)
(* a worker under the target's locks.  The lease is the number of the last *)
(* renewal of the present boot; that it may run out is a reset.            *)
(***************************************************************************)
EXTENDS Naturals, FiniteSets

CONSTANTS
  Plans,      \* plans of the boot selector
  Owner,      \* the owner's own enrollment, not a plan
  MaxBoots    \* bound on boots

(* Plans are told apart from no plan and from the owner; a normal boot is. *)
PlansAssumption == 0 \notin Plans /\ Owner \notin Plans /\ MaxBoots \in Nat \ {0}

Boots == 1..MaxBoots
Recovery == {"trial", "held"}

VARIABLES
  boot,       \* the present one; 1 is the normal boot that was staged
  kind,       \* of every boot: "normal", "trial" (tryboot), "held" (config.txt)
  by,         \* what ended the boot before it: a plan's worker, or anything else
  selector,   \* config.txt: "normal" or "held"
  lock,       \* the plan whose worker holds the target lock and the root claim
  renewed,    \* renewals granted in the present boot
  tried,      \* tryboot-attempt.json
  claimed,    \* session-enrollment-<boot>.json in the staging directory
  enrolled,   \* of every boot: "no", or as what its acceptance enrolls it
  unresolved, \* boots whose host session has a renewal without an answer
  enr,        \* the enrollments under way
  op,         \* of a plan: "none", "install-hold", "release-hold"
  of,         \* the boot a plan is bound to
  commit,     \* "none", "sent", "acknowledged", "uncertain"
  flow,       \* how far the host's reboot operation with a plan is
  asked,      \* its held-reboot-attempt or normal-reboot-attempt record
  ticket,     \* the renewal a plan's reboot request carries
  writer,     \* the worker of a plan's commit
  worker,     \* the worker of a plan's reboot
  seen,       \* the boot of its first look at the normal system
  proof       \* the boot its acceptance names, 0 before

target == <<boot, kind, by, selector, lock, renewed>>
records == <<tried, claimed, enrolled, unresolved>>
plan == <<op, of, commit>>
reboots == <<flow, asked, ticket, seen>>
workers == <<writer, worker>>
vars == <<target, records, enr, plan, reboots, workers, proof>>

Enrollers == Plans \cup {Owner}
NoBody == [step |-> "none", boot |-> 0, as |-> "trial"]
After(o) == IF o = "install-hold" THEN "held" ELSE "normal"
Before(o) == IF o = "install-hold" THEN "normal" ELSE "held"

TypeOK ==
  /\ boot \in Boots /\ selector \in {"normal", "held"} /\ lock \in Plans \cup {0}
  /\ kind \in [Boots -> {"normal", "trial", "held"}] /\ by \in [Boots -> Plans \cup {0}]
  /\ renewed \in Nat /\ tried \in BOOLEAN /\ claimed \subseteq Boots /\ unresolved \subseteq Boots
  /\ enrolled \in [Boots -> {"no"} \cup Recovery]
  /\ enr \in [Enrollers -> [step: {"none", "discover", "claim", "inspect", "select", "again"},
                            boot: Boots \cup {0}, as: Recovery]]
  /\ op \in [Plans -> {"none", "install-hold", "release-hold"}] /\ of \in [Plans -> Boots \cup {0}]
  /\ commit \in [Plans -> {"none", "sent", "acknowledged", "uncertain"}]
  /\ flow \in [Plans -> {"idle", "locked", "claimed", "renewed", "sent", "watching",
                         "normal", "enrolling", "over"}]
  /\ asked \in [Plans -> BOOLEAN] /\ ticket \in [Plans -> Nat]
  /\ writer \in [Plans -> {"none", "sent", "locked", "written", "done", "dead"}]
  /\ worker \in [Plans -> {"none", "sent", "locked", "inspected", "dead"}]
  /\ seen \in [Plans -> Boots \cup {0}] /\ proof \in [Plans -> Boots \cup {0}]

Init ==
  /\ boot = 1 /\ kind = [b \in Boots |-> "normal"] /\ by = [b \in Boots |-> 0]
  /\ selector = "normal" /\ lock = 0 /\ renewed = 0
  /\ tried = FALSE /\ claimed = {} /\ enrolled = [b \in Boots |-> "no"] /\ unresolved = {}
  /\ enr = [e \in Enrollers |-> NoBody]
  /\ op = [p \in Plans |-> "none"] /\ of = [p \in Plans |-> 0] /\ commit = [p \in Plans |-> "none"]
  /\ flow = [p \in Plans |-> "idle"] /\ asked = [p \in Plans |-> FALSE] /\ ticket = [p \in Plans |-> 0]
  /\ writer = [p \in Plans |-> "none"] /\ worker = [p \in Plans |-> "none"]
  /\ seen = [p \in Plans |-> 0] /\ proof = [p \in Plans |-> 0]

-----------------------------------------------------------------------------
(* The target boots: every process of the boot before is gone.             *)

Alive(w) == w \notin {"none", "dead"}

BootsAs(k, cause) ==
  /\ boot < MaxBoots /\ boot' = boot + 1
  /\ kind' = [kind EXCEPT ![boot + 1] = k] /\ by' = [by EXCEPT ![boot + 1] = cause]
  /\ lock' = 0 /\ renewed' = 0 /\ UNCHANGED selector
  /\ writer' = [p \in Plans |-> IF Alive(writer[p]) THEN "dead" ELSE writer[p]]
  /\ worker' = [p \in Plans |-> IF Alive(worker[p]) THEN "dead" ELSE worker[p]]

(* Power, the watchdog after a lease, an owner at the device.              *)
Reset == BootsAs(selector, 0) /\ UNCHANGED <<records, enr, plan, reboots, proof>>

(* The one tryboot of a staging, from its normal boot.                     *)
Tryboot ==
  /\ boot = 1 /\ ~ tried /\ tried' = TRUE
  /\ BootsAs("trial", 0)
  /\ UNCHANGED <<claimed, enrolled, unresolved, enr, plan, reboots, proof>>

-----------------------------------------------------------------------------
(* What the pinned probe can see: a RAM recovery with the staged nonce.    *)

Visible == kind[boot] \in Recovery
(* inspect(expected_boot_id).                                              *)
SameBoot(b) == Visible /\ boot = b
(* capture: the firmware's own tryboot cell, of the same boot.             *)
SelectedAnyCell(b, as) == SameBoot(b)
Selected(b, as) == SameBoot(b) /\ kind[boot] = as

Busy(e) == enr[e].step # "none"
EnrollTo(e, v) == enr' = [enr EXCEPT ![e] = v]

(* The owner enrolls a boot whose id is known, or the one that answers.    *)
OwnerEnrolls(as) ==
  /\ ~ Busy(Owner)
  /\ \/ EnrollTo(Owner, [step |-> "discover", boot |-> 0, as |-> as])
     \/ \E b \in 2..boot : EnrollTo(Owner, [step |-> "claim", boot |-> b, as |-> as])
  /\ UNCHANGED <<target, records, plan, reboots, workers, proof>>

Discover(e) ==
  /\ enr[e].step = "discover" /\ Visible
  /\ EnrollTo(e, [enr[e] EXCEPT !.step = "claim", !.boot = boot])
  /\ UNCHANGED <<target, records, plan, reboots, workers, proof>>

(* The record is made with O_EXCL: one enrollment of a boot, ever.         *)
Claim(e) ==
  /\ enr[e].step = "claim" /\ enr[e].boot \notin claimed
  /\ claimed' = claimed \cup {enr[e].boot}
  /\ EnrollTo(e, [enr[e] EXCEPT !.step = "inspect"])
  /\ UNCHANGED <<target, tried, enrolled, unresolved, plan, reboots, workers, proof>>

InspectBoot(e) ==
  /\ enr[e].step = "inspect" /\ SameBoot(enr[e].boot)
  /\ EnrollTo(e, [enr[e] EXCEPT !.step = "select"])
  /\ UNCHANGED <<target, records, plan, reboots, workers, proof>>

CaptureSelection(e) ==
  /\ enr[e].step = "select" /\ Selected(enr[e].boot, enr[e].as)
  /\ EnrollTo(e, [enr[e] EXCEPT !.step = "again"])
  /\ UNCHANGED <<target, records, plan, reboots, workers, proof>>

(* The closing inspection, the session's binding, the acceptance.          *)
Enroll(e) ==
  /\ enr[e].step = "again" /\ SameBoot(enr[e].boot)
  /\ enrolled' = [enrolled EXCEPT ![enr[e].boot] = enr[e].as]
  /\ EnrollTo(e, NoBody)
  /\ IF e = Owner THEN UNCHANGED <<flow, proof>>
     ELSE /\ flow' = [flow EXCEPT ![e] = "over"]
          /\ proof' = [proof EXCEPT ![e] = enr[e].boot]
  /\ UNCHANGED <<target, tried, claimed, unresolved, plan, asked, ticket, seen, workers>>

(* A refused or unanswered observation, a taken claim, the end of the host *)
EnrollFails(e) ==
  /\ Busy(e) /\ EnrollTo(e, NoBody)
  /\ IF e = Owner THEN UNCHANGED flow ELSE flow' = [flow EXCEPT ![e] = "over"]
  /\ UNCHANGED <<target, records, plan, asked, ticket, seen, workers, proof>>

-----------------------------------------------------------------------------
(* Plans of the selector, and their commit as a job of an enrolled boot.   *)

Sessions == {"locked", "claimed", "renewed", "sent", "watching", "normal", "enrolling"}
(* The host session of a boot is locked by one operation at a time.        *)
SessionFree(b) == \A q \in Plans : of[q] = b => commit[q] # "sent" /\ flow[q] \notin Sessions

Prepare(p, o) ==
  /\ op[p] = "none"
  /\ \E b \in Boots : enrolled[b] # "no" /\ of' = [of EXCEPT ![p] = b]
  /\ op' = [op EXCEPT ![p] = o]
  /\ UNCHANGED <<target, records, enr, commit, reboots, workers, proof>>

(* load refuses a second commit-attempt; the first call is a renewal.      *)
ExecuteCommit(p) ==
  /\ op[p] # "none" /\ commit[p] = "none"
  /\ SessionFree(of[p]) /\ of[p] \notin unresolved /\ SameBoot(of[p])
  /\ renewed' = renewed + 1
  /\ commit' = [commit EXCEPT ![p] = "sent"] /\ writer' = [writer EXCEPT ![p] = "sent"]
  /\ UNCHANGED <<boot, kind, by, selector, lock, records, enr, op, of, reboots, worker, proof>>

WriterLocks(p) ==
  /\ writer[p] = "sent" /\ lock = 0 /\ of[p] = boot /\ selector = Before(op[p])
  /\ lock' = p /\ writer' = [writer EXCEPT ![p] = "locked"]
  /\ UNCHANGED <<boot, kind, by, selector, renewed, records, enr, plan, reboots, worker, proof>>

WriterReplaces(p) ==
  /\ writer[p] = "locked"
  /\ selector' = After(op[p]) /\ writer' = [writer EXCEPT ![p] = "written"]
  /\ UNCHANGED <<boot, kind, by, lock, renewed, records, enr, plan, reboots, worker, proof>>

WriterEnds(p) ==
  /\ writer[p] = "written" /\ lock' = 0 /\ writer' = [writer EXCEPT ![p] = "done"]
  /\ UNCHANGED <<boot, kind, by, selector, renewed, records, enr, plan, reboots, worker, proof>>

WriterDies(p) ==
  /\ writer[p] \in {"sent", "locked", "written"}
  /\ writer' = [writer EXCEPT ![p] = "dead"] /\ lock' = IF lock = p THEN 0 ELSE lock
  /\ UNCHANGED <<boot, kind, by, selector, renewed, records, enr, plan, reboots, worker, proof>>

(* The receipt and a last look at the session, or an attempt left open.    *)
CommitEnds(p) ==
  /\ commit[p] = "sent"
  /\ \/ writer[p] = "done" /\ SameBoot(of[p]) /\ commit' = [commit EXCEPT ![p] = "acknowledged"]
     \/ commit' = [commit EXCEPT ![p] = "uncertain"]
  /\ UNCHANGED <<target, records, enr, op, of, reboots, workers, proof>>

-----------------------------------------------------------------------------
(* The host's reboot with a plan: held_reboot, or normal_return with       *)
(* reboot=True.                                                            *)

(* reviewed / inputs: an acknowledged plan of an enrolled boot, and no     *)
(* attempt before; asked again under the locks of plan and session.        *)
Reviewed(p) ==
  commit[p] = "acknowledged" /\ enrolled[of[p]] # "no" /\ ~ asked[p]

Step(p, f) == flow' = [flow EXCEPT ![p] = f]

Begin(p) ==
  /\ flow[p] \in {"idle", "over"} /\ Reviewed(p) /\ SessionFree(of[p]) /\ of[p] \notin unresolved
  /\ Step(p, "locked")
  /\ UNCHANGED <<target, records, enr, plan, asked, ticket, seen, workers, proof>>

ClaimReboot(p) ==
  /\ flow[p] = "locked" /\ Step(p, "claimed") /\ asked' = [asked EXCEPT ![p] = TRUE]
  /\ UNCHANGED <<target, records, enr, plan, ticket, seen, workers, proof>>

(* inspect and renew; a renewal without an answer stays with the session.  *)
RenewForReboot(p) ==
  /\ flow[p] = "claimed" /\ SameBoot(of[p]) /\ renewed' = renewed + 1
  /\ \/ Step(p, "renewed") /\ ticket' = [ticket EXCEPT ![p] = renewed + 1] /\ UNCHANGED unresolved
     \/ Step(p, "over") /\ unresolved' = unresolved \cup {of[p]} /\ UNCHANGED ticket
  /\ UNCHANGED <<boot, kind, by, selector, lock, tried, claimed, enrolled, enr, plan, asked, seen, workers, proof>>

(* reboot-intent.json, then the one request.                               *)
SendReboot(p) ==
  /\ flow[p] = "renewed" /\ Step(p, "sent") /\ worker' = [worker EXCEPT ![p] = "sent"]
  /\ UNCHANGED <<target, records, enr, plan, asked, ticket, seen, writer, proof>>

(* The channel closed or timed out: neither says that the target rebooted. *)
TransportEnds(p) ==
  /\ flow[p] = "sent" /\ Step(p, "watching")
  /\ UNCHANGED <<target, records, enr, plan, asked, ticket, seen, workers, proof>>

(* held_reboot: another recovery boot answers; it is enrolled as held.     *)
SeeRecovery(p) ==
  /\ flow[p] = "watching" /\ op[p] = "install-hold" /\ Visible /\ boot # of[p]
  /\ EnrollTo(p, [step |-> "claim", boot |-> boot, as |-> "held"]) /\ Step(p, "enrolling")
  /\ UNCHANGED <<target, records, plan, asked, ticket, seen, workers, proof>>

NormalBoot(p) == kind[boot] = "normal" /\ boot # of[p] /\ boot # 1

(* normal_return without a reboot: only observation of a released target.  *)
VerifyOnly(p) ==
  /\ flow[p] \in {"idle", "over"} /\ op[p] = "release-hold" /\ commit[p] = "acknowledged"
  /\ enrolled[of[p]] # "no" /\ SessionFree(of[p]) /\ Step(p, "watching")
  /\ UNCHANGED <<target, records, enr, plan, asked, ticket, seen, workers, proof>>

(* observe: two looks at the same normal boot around its native identity.  *)
SeeNormal(p) ==
  /\ op[p] = "release-hold"
  /\ \/ flow[p] = "watching" /\ NormalBoot(p) /\ Step(p, "normal")
        /\ seen' = [seen EXCEPT ![p] = boot] /\ UNCHANGED proof
     \/ flow[p] = "normal" /\ NormalBoot(p) /\ boot = seen[p] /\ Step(p, "over")
        /\ proof' = [proof EXCEPT ![p] = boot] /\ UNCHANGED seen
     \/ flow[p] = "normal" /\ Step(p, "watching") /\ UNCHANGED <<proof, seen>>
  /\ UNCHANGED <<target, records, enr, plan, asked, ticket, workers>>

(* The deadline, a refusal, the end of the host.                           *)
FlowFails(p) ==
  /\ flow[p] \in Sessions \ {"enrolling"} /\ Step(p, "over")
  /\ UNCHANGED <<target, records, enr, plan, asked, ticket, seen, workers, proof>>

-----------------------------------------------------------------------------
(* The worker on the target (forge_held_reboot_worker), at any time.       *)

(* layout and budget: this boot, and no renewal after the one it carries.  *)
Funded(p) == of[p] = boot /\ ticket[p] = renewed

WorkerLocks(p) ==
  /\ worker[p] = "sent" /\ of[p] = boot /\ lock = 0
  /\ lock' = p /\ worker' = [worker EXCEPT ![p] = "locked"]
  /\ UNCHANGED <<boot, kind, by, selector, renewed, records, enr, plan, reboots, writer, proof>>

WorkerInspectsLayout(p) ==
  /\ worker[p] = "locked" /\ Funded(p)
  /\ worker' = [worker EXCEPT ![p] = "inspected"]
  /\ UNCHANGED <<target, records, enr, plan, reboots, writer, proof>>
WorkerInspects(p) ==
  /\ worker[p] = "locked" /\ Funded(p) /\ selector = After(op[p])
  /\ worker' = [worker EXCEPT ![p] = "inspected"]
  /\ UNCHANGED <<target, records, enr, plan, reboots, writer, proof>>

WorkerReboots(p) ==
  /\ worker[p] = "inspected" /\ Funded(p)
  /\ BootsAs(selector, p)
  /\ UNCHANGED <<records, enr, plan, reboots, proof>>

(* A refused budget or inspection, the alarm, a kill.                      *)
WorkerDies(p) ==
  /\ worker[p] \in {"sent", "locked", "inspected"}
  /\ worker' = [worker EXCEPT ![p] = "dead"] /\ lock' = IF lock = p THEN 0 ELSE lock
  /\ UNCHANGED <<boot, kind, by, selector, renewed, records, enr, plan, reboots, writer, proof>>

Next ==
  \/ Reset \/ Tryboot
  \/ \E as \in Recovery : OwnerEnrolls(as)
  \/ \E e \in Enrollers : Discover(e) \/ Claim(e) \/ InspectBoot(e) \/ CaptureSelection(e)
                          \/ Enroll(e) \/ EnrollFails(e)
  \/ \E p \in Plans :
       \/ \E o \in {"install-hold", "release-hold"} : Prepare(p, o)
       \/ ExecuteCommit(p) \/ WriterLocks(p) \/ WriterReplaces(p) \/ WriterEnds(p) \/ WriterDies(p)
       \/ CommitEnds(p) \/ Begin(p) \/ ClaimReboot(p) \/ RenewForReboot(p) \/ SendReboot(p)
       \/ TransportEnds(p) \/ SeeRecovery(p) \/ VerifyOnly(p) \/ SeeNormal(p) \/ FlowFails(p)
       \/ WorkerLocks(p) \/ WorkerInspects(p) \/ WorkerReboots(p) \/ WorkerDies(p)

Spec == Init /\ [][Next]_vars

-----------------------------------------------------------------------------
(* A reboot asked for with a plan ends the boot the plan is bound to, at   *)
(* most once, and lands where the plan's selector points, whatever other   *)
(* plans were committed in that boot and however late the worker starts.   *)
RebootsWhereApproved ==
  /\ \A b \in Boots : by[b] # 0 => kind[b] = After(op[by[b]]) /\ b = of[by[b]] + 1
  /\ \A b, c \in Boots : by[b] # 0 /\ by[b] = by[c] => b = c

(* What the host has written down about a boot is true of that boot: it    *)
(* is enrolled as what the firmware selected, a held reboot is accepted    *)
(* with a later held boot, a normal return with a later normal one, and a  *)
(* target that was rebooted by a plan was asked to under its one record.   *)
EvidenceIsTrue ==
  /\ \A b \in Boots : enrolled[b] # "no" => kind[b] = enrolled[b] /\ b <= boot /\ b \in claimed
  /\ \A p \in Plans : proof[p] # 0 =>
       /\ kind[proof[p]] = After(op[p]) /\ of[p] < proof[p]
       /\ commit[p] = "acknowledged"
  /\ \A b \in Boots : by[b] # 0 => asked[by[b]] /\ commit[by[b]] = "acknowledged"
=============================================================================
