------------------------------- MODULE Panels -------------------------------
(***************************************************************************)
(* The owner's two panels of the desktop window: physical recovery          *)
(* (forge_recovery_gui.py) and SSH targets (forge_target_gui.py with        *)
(* forge_recovery_stage_gui.py).  A panel has at most one job; it is         *)
(* submitted to the controller after a modal confirmation and polled by a   *)
(* timer.  While a dialog is open nobody can use the panels, but timers,    *)
(* agents, jobs and other programs that write the reviewed files go on.     *)
(* What a policy or a plan says is a number, its content; the panels and    *)
(* the controller know it by its SHA-256, which stands for the content.     *)
(***************************************************************************)
EXTENDS Naturals, FiniteSets

CONSTANTS MaxContent,   \* bound: contents a reviewed file ever has
          MaxBoots      \* bound: boots of the target that jobs of the panel cause

VARIABLES
  used,      \* the panels the owner opens in this behaviour
  files,     \* the content of the owner's policy file and of the target plan
  registry,  \* controller.recovery_jobs and controller.targets, by content
  job,       \* per panel, and for the agents: the job last submitted
  pending,   \* per panel: the content under review, 0 for None
  ready,     \* enrollment_ready of the recovery panel
  build,     \* build_candidate is set
  dialog,    \* the action suspended in a modal dialog
  target,    \* the machine: how often it booted, and into what
  consented, \* history: contents the owner approved while they were displayed
  executed   \* history: contents whose actions were executed on the machine

vars == <<used, files, registry, job, pending, ready, build, dialog, target, consented, executed>>

Panel == {"recovery", "target"}
File == [recovery |-> "policy", target |-> "plan"]
Contents == 1 .. MaxContent
Reboots == {"tryboot", "held", "normal", "private"}
Kinds == {"evidence", "discover", "draft", "enroll", "tryboot", "held", "normal", "verify",
          "private", "run", "prepare", "authorize", "transition", "observe"}
NoJob == [kind |-> "", status |-> "none", content |-> 0]
NoReady == [boot |-> 0, opened |-> FALSE]
NoDialog == [panel |-> "", kind |-> "", seen |-> 0]

TypeOK ==
  /\ used \subseteq Panel
  /\ files \in [{"policy", "plan"} -> Contents]
  /\ registry \in [Panel -> SUBSET Contents]
  /\ job \in [Panel \cup {"agent"} ->
       [kind : Kinds \cup {""},
        status : {"none", "queued", "running", "completed", "failed"}, content : Nat]]
  /\ pending \in [Panel -> 0 .. MaxContent]
  /\ ready \in [boot : 0 .. MaxBoots, opened : BOOLEAN]
  /\ build \in BOOLEAN
  /\ dialog.panel \in Panel \cup {""} /\ dialog.seen \in 0 .. MaxContent
  /\ target \in [boot : 1 .. MaxBoots, mode : {"normal", "recovery"}]
  /\ consented \subseteq Panel \X Contents /\ executed \subseteq Panel \X Contents

Init ==
  /\ used \in {{p} : p \in Panel}
  /\ files = [f \in {"policy", "plan"} |-> 1]
  /\ registry = [p \in Panel |-> {}]
  /\ job = [p \in Panel \cup {"agent"} |-> NoJob]
  /\ pending = [p \in Panel |-> 0]
  /\ ready = NoReady /\ build = FALSE
  /\ dialog = NoDialog
  /\ target = [boot |-> 1, mode |-> "normal"]
  /\ consented = {} /\ executed = {}

machine == <<target, executed>>
review == <<registry, consented>>

Busy == \E q \in DOMAIN job : job[q].status \in {"queued", "running"}
Idle(p) == job[p].status = "none"
MayUse(p) == p \in used /\ dialog = NoDialog /\ Idle(p)

-----------------------------------------------------------------------------
(* Dialogs.  An action leads up to the question: nothing has happened yet.   *)
(* "evidence" is every job whose result the panel only shows.                *)

Ask(p, kind, c) ==
  /\ MayUse(p)
  /\ dialog' = [panel |-> p, kind |-> kind, seen |-> c]
  /\ UNCHANGED <<used, files, review, job, pending, ready, build, machine>>

\* Without a review under way; drafts and held reboots need an enrollment.
AskRecovery(kind) == pending["recovery"] = 0 /\ Ask("recovery", kind, 0)
AskEnrolled(kind) == ready # NoReady /\ AskRecovery(kind)

DiscoverDialog == AskRecovery("discover")
BuildDialog == build /\ AskRecovery("evidence")
PublicationDialog == AskRecovery("evidence")
PublishDialog == AskRecovery("evidence")
PrivacyPrepareDialog == AskRecovery("evidence")
PrivacyApplyDialog == AskRecovery("evidence")
PrivacyVerifyDialog == \E kind \in {"evidence", "private"} : AskRecovery(kind)
PrepareDialog == AskRecovery("evidence")
EnrollDialog == \E kind \in {"enroll", "tryboot"} : AskRecovery(kind)
BackupDialog == AskEnrolled("draft")          \* and the current-card hash
HoldDialog == AskEnrolled("draft")
HeldRebootDialog == AskEnrolled("held")
ReconcileDialog == AskEnrolled("draft")
RootDialog == AskEnrolled("draft")            \* deployment and restoration
ReleaseDialog == AskEnrolled("draft")
NormalReturnDialog == \E kind \in {"normal", "verify"} : AskRecovery(kind)
CleanupDialog == AskRecovery("evidence")
PrivacyRestoreDialog == AskRecovery("evidence")
OriginalMountDialog == \E kind \in {"evidence", "private"} : AskRecovery(kind)
SourceDialog == AskRecovery("evidence")       \* and the check of its filesystems
DerivativeDialog == AskRecovery("evidence")
ExportHealthDialog == AskRecovery("evidence")

\* A job of the approved recovery policy.
RunDialog ==
  /\ pending["recovery"] = 0
  /\ \E c \in registry["recovery"] : Ask("recovery", "run", c)

\* Files or a service of the target: backed up and planned, later approved.
TargetPrepareDialog == Ask("target", "prepare", 0)

\* What plan_summary shows of an approved plan is read from its journal.
Summaries == registry["target"] \cap {files["plan"]}
TransitionDialog == \E c \in Summaries : Ask("target", "transition", c)
ReconcileStagingDialog == \E c \in Summaries : Ask("target", "observe", c)

\* A prepared service plan, read again under its pin before the question.
ServiceApprovalDialog ==
  /\ pending["target"] # 0 /\ files["plan"] = pending["target"]
  /\ Ask("target", "authorize", pending["target"])

Dialogs ==
  \/ DiscoverDialog \/ BuildDialog \/ PublicationDialog \/ PublishDialog
  \/ PrivacyPrepareDialog \/ PrivacyApplyDialog \/ PrivacyVerifyDialog \/ PrepareDialog
  \/ EnrollDialog \/ BackupDialog \/ HoldDialog \/ HeldRebootDialog \/ ReconcileDialog
  \/ RootDialog \/ ReleaseDialog \/ NormalReturnDialog \/ CleanupDialog
  \/ PrivacyRestoreDialog \/ OriginalMountDialog \/ SourceDialog \/ DerivativeDialog
  \/ ExportHealthDialog \/ RunDialog
  \/ TargetPrepareDialog \/ TransitionDialog \/ ReconcileStagingDialog \/ ServiceApprovalDialog

Decline ==
  /\ dialog # NoDialog
  /\ dialog' = NoDialog
  /\ UNCHANGED <<used, files, review, job, pending, ready, build, machine>>

KeptOnSubmit(kind) ==
  IF kind \in {"enroll", "tryboot", "held", "normal"} THEN NoReady ELSE ready

\* What is read again after the question still says what was shown.
Unchanged(d) ==
  CASE d.kind = "run"        -> d.seen \in registry["recovery"]
    [] d.kind \in {"transition", "observe"} -> d.seen \in Summaries
    [] OTHER                 -> TRUE

\* Yes: the controller takes the job, or refuses because another one is live.
Submit ==
  LET p == dialog.panel IN
  /\ dialog # NoDialog /\ dialog.kind # "approve"
  /\ dialog' = NoDialog
  /\ IF Unchanged(dialog) /\ ~Busy /\ Idle(p) /\ (p = "recovery" => pending[p] = 0)
     THEN /\ job' = [job EXCEPT ![p] = [kind |-> dialog.kind, status |-> "queued", content |-> dialog.seen]]
          /\ ready' = KeptOnSubmit(dialog.kind)
          /\ pending' = IF dialog.kind = "prepare" THEN [pending EXCEPT ![p] = 0] ELSE pending
     ELSE UNCHANGED <<job, ready, pending>>
  /\ consented' = IF dialog.kind = "authorize" THEN consented \cup {<<p, dialog.seen>>} ELSE consented
  /\ UNCHANGED <<used, files, registry, build, machine>>

\* A connection test and the inspection of prerequisites ask nothing.
Observe ==
  /\ MayUse("target") /\ ~Busy
  /\ job' = [job EXCEPT !["target"] = [kind |-> "observe", status |-> "queued", content |-> 0]]
  /\ UNCHANGED <<used, files, review, pending, ready, build, dialog, machine>>

\* A retained enrollment is opened offline, whatever boot it is of.
OpenEnrollment ==
  /\ MayUse("recovery") /\ pending["recovery"] = 0
  /\ \E b \in 1 .. target.boot : ready' = [boot |-> b, opened |-> TRUE]
  /\ UNCHANGED <<used, files, review, job, pending, build, dialog, machine>>

-----------------------------------------------------------------------------
(* Review and approval. *)

\* The content load_recovery_policy accepts under a pin, if any.
LoadPolicyUnpinned(pin) == {files["policy"]}   \* mutant: the pin is not compared
LoadPolicy(pin) == {pin} \cap {files["policy"]}

\* load_policy: pinned, parsed and displayed; replaces an earlier review.
Review ==
  /\ MayUse("recovery")
  /\ pending' = [pending EXCEPT !["recovery"] = files["policy"]]
  /\ UNCHANGED <<used, files, review, job, ready, build, dialog, machine>>

\* Sealed staging is read under the pin the owner types.
ReviewStaging ==
  /\ MayUse("target")
  /\ pending' = [pending EXCEPT !["target"] = files["plan"]]
  /\ UNCHANGED <<used, files, review, job, ready, build, dialog, machine>>

AskApproval(p) ==
  /\ MayUse(p) /\ pending[p] # 0
  /\ p = "target" => files["plan"] = pending[p]
  /\ dialog' = [panel |-> p, kind |-> "approve", seen |-> pending[p]]
  /\ UNCHANGED <<used, files, review, job, pending, ready, build, machine>>

\* approve_recovery_policy replaces the jobs; refused while any job is live.
ApproveRecovery ==
  /\ dialog.panel = "recovery" /\ dialog.kind = "approve"
  /\ dialog' = NoDialog
  /\ consented' = consented \cup {<<"recovery", dialog.seen>>}
  /\ LET loaded == LoadPolicy(dialog.seen) IN
     IF loaded # {} /\ ~Busy
     THEN registry' = [registry EXCEPT !["recovery"] = loaded]
          /\ pending' = [pending EXCEPT !["recovery"] = 0]
     ELSE UNCHANGED <<registry, pending>>
  /\ UNCHANGED <<used, files, job, ready, build, machine>>

\* A target plan is added to those approved before.
ApproveTarget(accepted) ==
  /\ dialog.panel = "target" /\ dialog.kind = "approve"
  /\ dialog' = NoDialog
  /\ consented' = consented \cup {<<"target", dialog.seen>>}
  /\ IF accepted /\ ~Busy
     THEN registry' = [registry EXCEPT !["target"] = @ \cup {dialog.seen}]
          /\ pending' = [pending EXCEPT !["target"] = 0]
     ELSE UNCHANGED <<registry, pending>>
  /\ UNCHANGED <<used, files, job, ready, build, machine>>

\* Sealed staging is loaded again after the question, a file plan is not.
ApproveFiles == ApproveTarget(TRUE)
ApproveStaging == ApproveTarget(files["plan"] = dialog.seen)

-----------------------------------------------------------------------------
(* The controller's workers and the agents. *)

Ended(q, how) ==
  job' = [job EXCEPT ![q] = IF q = "agent" /\ how # "running" THEN NoJob ELSE [@ EXCEPT !.status = how]]

Start(q) ==
  /\ job[q].status = "queued"
  /\ \/ Ended(q, "running")
     \/ Ended(q, "failed")                    \* cancelled before it ran
  /\ UNCHANGED <<used, files, review, pending, ready, build, dialog, machine>>

\* The machine boots once for a job that may; the job's end is another step.
Reboot(q) ==
  /\ job[q].status = "running" /\ job[q].content = 0 /\ target.boot < MaxBoots
  /\ \/ job[q].kind = "tryboot" /\ target.mode = "normal"
     \/ job[q].kind = "private" /\ target.mode = "normal"
     \/ job[q].kind = "held" /\ target.mode = "recovery"
     \/ job[q].kind = "normal" /\ target.mode = "recovery"
  /\ target' = [boot |-> target.boot + 1,
                mode |-> IF job[q].kind \in {"tryboot", "held"} THEN "recovery" ELSE "normal"]
  /\ job' = [job EXCEPT ![q].content = target.boot + 1]
  /\ UNCHANGED <<used, files, review, pending, ready, build, dialog, executed>>

\* The owner boots the recovery system by hand before enrolling it.  With an
\* enrollment in hand nobody boots the machine but jobs of the panel: this is
\* a bound: the code does not see such boots, later jobs revalidate them.
BootByHand ==
  /\ target.mode = "normal" /\ target.boot < MaxBoots /\ ready = NoReady
  /\ ~Busy /\ dialog = NoDialog
  /\ target' = [boot |-> target.boot + 1, mode |-> "recovery"]
  /\ UNCHANGED <<used, files, review, job, pending, ready, build, dialog, executed>>

\* Success needs the machine the job was for and the content it is pinned to.
Succeed(q) ==
  LET k == job[q].kind IN
  /\ job[q].status = "running"
  /\ k = "enroll" => target.mode = "recovery"
  /\ k \in Reboots => job[q].content # 0
  /\ k = "transition" => files["plan"] = job[q].content
  /\ k = "authorize" => files["plan"] = job[q].content
  /\ k = "verify" => target.mode = "normal"
  /\ IF k = "enroll"
     THEN job' = [job EXCEPT ![q].status = "completed", ![q].content = target.boot]
     ELSE Ended(q, "completed")
  /\ files' \in IF k = "draft" THEN {[files EXCEPT !["policy"] = c] : c \in Contents}
                ELSE IF k = "prepare" THEN {[files EXCEPT !["plan"] = c] : c \in Contents}
                ELSE {files}
  /\ executed' = executed \cup
       (IF k = "run" THEN {<<"recovery", job[q].content>>}
        ELSE IF k = "transition" THEN {<<"target", job[q].content>>} ELSE {})
  /\ UNCHANGED <<used, review, pending, ready, build, dialog, target>>

\* A failure leaves effects as they are; part of a run may have been done.
Fail(q) ==
  /\ job[q].status = "running"
  /\ Ended(q, "failed")
  /\ executed' \in {executed} \cup
       (IF job[q].kind = "run" THEN {executed \cup {<<"recovery", job[q].content>>}}
        ELSE IF job[q].kind = "transition" /\ files["plan"] = job[q].content
             THEN {executed \cup {<<"target", job[q].content>>}} ELSE {})
  /\ UNCHANGED <<used, files, review, pending, ready, build, dialog, target>>

\* An agent with the grant selects approved work; nothing else is open to it.
AgentSubmits ==
  /\ ~Busy
  /\ \E p \in Panel, c \in Contents :
       /\ c \in registry[p]
       /\ job' = [job EXCEPT !["agent"] =
            [kind |-> IF p = "recovery" THEN "run" ELSE "transition", status |-> "queued", content |-> c]]
  /\ UNCHANGED <<used, files, review, pending, ready, build, dialog, machine>>

\* Another program replaces a reviewed file.
Rewrite ==
  /\ \E f \in DOMAIN files, c \in Contents : files' = [files EXCEPT ![f] = c]
  /\ UNCHANGED <<used, review, job, pending, ready, build, dialog, machine>>

-----------------------------------------------------------------------------
(* poll and the end of a panel.  The timer polls, and goes on while a dialog *)
(* is open; after a status that could not be read the job is kept until the  *)
(* owner's Recheck, so a poll may come arbitrarily late.                     *)

\* Terminal results of the recovery panel, by kind.  A finished reboot and
\* enrollment yields the enrollment of the boot it saw; a verified normal
\* return drops it.
HandleRecovery(k, ok, content) ==
  /\ ready' = IF ok /\ k \in {"enroll", "tryboot", "held"} THEN [boot |-> content, opened |-> FALSE]
              ELSE IF ok /\ k \in {"normal", "verify"} THEN NoReady
              ELSE ready
  /\ build' = (build \/ (ok /\ k = "discover"))

\* A finished draft or preparation is put up for review, unless the draft was
\* exchanged meanwhile.
HandleReview(p, k, ok) ==
  \/ ok /\ k \in {"draft", "prepare"} /\ pending' = [pending EXCEPT ![p] = files[File[p]]]
  \/ (ok => k # "prepare") /\ UNCHANGED pending

\* An authorized service is added to the approved plans, unless a job is live.
Install(ok, content) ==
  IF ok /\ ~Busy
  THEN registry' = [registry EXCEPT !["target"] = @ \cup {content}]
       /\ pending' = [pending EXCEPT !["target"] = 0]
  ELSE UNCHANGED <<registry, pending>>

Poll(p) ==
  /\ job[p].status \in {"completed", "failed"}
  /\ job' = [job EXCEPT ![p] = NoJob]
  /\ LET k == job[p].kind  ok == job[p].status = "completed" IN
     /\ HandleRecovery(k, ok, job[p].content)
     /\ IF k = "authorize" THEN Install(ok, job[p].content)
        ELSE HandleReview(p, k, ok) /\ UNCHANGED registry
  /\ UNCHANGED <<used, files, consented, dialog, machine>>

\* close, refused with a job; the panel opened next starts anew.
Close(p) ==
  /\ MayUse(p)
  /\ pending' = [pending EXCEPT ![p] = 0]
  /\ ready' = IF p = "recovery" THEN NoReady ELSE ready
  /\ build' = (build /\ p # "recovery")
  /\ UNCHANGED <<used, files, review, job, dialog, machine>>

Next ==
  \/ Dialogs \/ Observe \/ Decline \/ Submit \/ OpenEnrollment \/ Review \/ ReviewStaging
  \/ \E p \in Panel : AskApproval(p) \/ Poll(p) \/ Close(p)
  \/ ApproveRecovery \/ ApproveFiles \/ ApproveStaging
  \/ \E q \in Panel \cup {"agent"} : Start(q) \/ Reboot(q) \/ Succeed(q) \/ Fail(q)
  \/ BootByHand \/ AgentSubmits \/ Rewrite

Spec == Init /\ [][Next]_vars

-----------------------------------------------------------------------------
(* Properties. *)

\* Whatever runs on the machine, for the owner or for an agent, was displayed
\* to the owner who then approved it, although the reviewed file may be
\* rewritten at any moment between review, question, approval and execution
\* ("Approve exactly the displayed policy?", forge_recovery_gui.py:1262).
ExecutedWasReviewed == executed \subseteq consented

=============================================================================
