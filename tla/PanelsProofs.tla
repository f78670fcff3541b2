--------------------------- MODULE PanelsProofs ---------------------------
(***************************************************************************)
(* Whatever the panels' bounds: nothing is executed that the owner did not *)
(* approve while it was displayed.  ExecutedWasReviewed is not inductive:  *)
(* consent is given in a dialog, and passes through the registry of the    *)
(* controller, a second dialog and a job before anything is executed.  The *)
(* invariant says that each of these carries approved contents only.       *)
(*                                                                         *)
(* Then what the window, its attachment and its setup promise, for any     *)
(* number of machines, agents, calls, slots, starts and deaths: each has   *)
(* an inductive invariant of its own, WindowInv, AttachmentInv, SetupInv.  *)
(***************************************************************************)
EXTENDS MCWorkbench, Integers, Sequences, FiniteSetTheorems, TLAPS

Actors == Panel \cup {"agent"}
Fields == {"kind", "status", "content"}

(* The shapes that the argument needs; no bound matters.                   *)
Types ==
  /\ DOMAIN registry = Panel
  /\ DOMAIN job = Actors
  /\ \A q \in Actors : DOMAIN job[q] = Fields
  /\ dialog # NoDialog => dialog.panel \in Panel

(* What a job of this kind executes, or adds to the registry, is approved.  *)
Backed(kind, content, seen) ==
  /\ kind = "run" => <<"recovery", content>> \in seen
  /\ kind \in {"transition", "authorize"} => <<"target", content>> \in seen

(* The controller's registries hold approved contents.                     *)
RegistryApproved == \A p \in Panel : \A c \in registry[p] : <<p, c>> \in consented

(* So do the jobs, in every status; no reboot changes what a run is of.    *)
JobsApproved == \A q \in Actors : Backed(job[q].kind, job[q].content, consented)

(* A dialog asks for work on approved contents, but for the service plan   *)
(* whose approval it is itself.                                            *)
DialogApproved ==
  /\ dialog.kind = "authorize" => dialog.panel = "target"
  /\ dialog.kind # "authorize" => Backed(dialog.kind, dialog.seen, consented)

IInv == Types /\ RegistryApproved /\ JobsApproved /\ DialogApproved /\ ExecutedWasReviewed

-----------------------------------------------------------------------------
LEMMA InitIInv == Init => IInv
<1> SUFFICES ASSUME Init PROVE IInv
  OBVIOUS
<1>1. /\ registry = [p \in Panel |-> {}]
      /\ job = [q \in Actors |-> [kind |-> "", status |-> "none", content |-> 0]]
      /\ dialog = [panel |-> "", kind |-> "", seen |-> 0]
      /\ executed = {}
      /\ files = [f \in {"policy", "plan"} |-> 1] /\ pending = [p \in Panel |-> 0]
      /\ target = [boot |-> 1, mode |-> "normal"]
  BY DEF Init, NoJob, NoDialog, Actors
<1>2. Types
  BY <1>1 DEF Types, Fields, NoDialog
<1>3. RegistryApproved
  BY <1>1 DEF RegistryApproved
<1>4. JobsApproved
  BY <1>1 DEF JobsApproved, Backed
<1>5. DialogApproved /\ ExecutedWasReviewed
  BY <1>1 DEF DialogApproved, ExecutedWasReviewed, Backed
<1> QED BY <1>2, <1>3, <1>4, <1>5 DEF IInv

(* Every question but the owner's approvals is one of Ask.                 *)
LEMMA AskKeeps ==
  ASSUME IInv, NEW p \in Panel, NEW kind, NEW c, Ask(p, kind, c),
         kind = "authorize" => p = "target",
         kind # "authorize" => Backed(kind, c, consented)
  PROVE  IInv'
  BY DEF Ask, review, machine, IInv, Types, Backed, RegistryApproved, JobsApproved,
         DialogApproved, ExecutedWasReviewed

LEMMA DialogsKeep == IInv /\ Dialogs => IInv'
<1> SUFFICES ASSUME IInv, Dialogs PROVE IInv'
  OBVIOUS
<1> DEFINE Plain == {"evidence", "discover", "draft", "enroll", "tryboot", "held", "normal",
                     "verify", "private", "prepare", "observe"}
<1>1. ASSUME NEW p \in Panel, NEW c, NEW kind \in Plain, Ask(p, kind, c) PROVE IInv'
  BY <1>1, AskKeeps DEF Backed
<1>2. ASSUME NEW kind \in Plain, AskRecovery(kind) PROVE IInv'
  BY <1>1, <1>2 DEF AskRecovery, Panel
<1>3. ASSUME NEW kind \in Plain, AskEnrolled(kind) PROVE IInv'
  BY <1>2, <1>3 DEF AskEnrolled
<1>4. CASE RunDialog
  <2>1. PICK c \in registry["recovery"] : Ask("recovery", "run", c)
    BY <1>4 DEF RunDialog
  <2>2. Backed("run", c, consented)
    BY <2>1 DEF IInv, RegistryApproved, Backed, Panel
  <2> QED BY <2>1, <2>2, AskKeeps DEF Panel
<1>5. CASE TransitionDialog
  <2>1. PICK c \in registry["target"] : Ask("target", "transition", c)
    BY <1>5 DEF TransitionDialog, Summaries
  <2>2. Backed("transition", c, consented)
    BY <2>1 DEF IInv, RegistryApproved, Backed, Panel
  <2> QED BY <2>1, <2>2, AskKeeps DEF Panel
<1>6. CASE ServiceApprovalDialog
  BY <1>6, AskKeeps DEF ServiceApprovalDialog, Panel
<1>7. CASE EnrollDialog
  BY <1>7, <1>2 DEF EnrollDialog
<1>8. CASE PrivacyVerifyDialog \/ OriginalMountDialog \/ NormalReturnDialog
  BY <1>8, <1>2 DEF PrivacyVerifyDialog, OriginalMountDialog, NormalReturnDialog
<1>9. CASE TargetPrepareDialog \/ ReconcileStagingDialog
  BY <1>9, <1>1 DEF TargetPrepareDialog, ReconcileStagingDialog, Summaries, Panel
<1>10. CASE HeldRebootDialog \/ BackupDialog \/ HoldDialog \/ ReconcileDialog \/ RootDialog \/ ReleaseDialog
  BY <1>10, <1>3 DEF HeldRebootDialog, BackupDialog, HoldDialog, ReconcileDialog, RootDialog, ReleaseDialog
<1>11. CASE DiscoverDialog
  BY <1>11, <1>2 DEF DiscoverDialog
<1>12. ASSUME AskRecovery("evidence") PROVE IInv'
  BY <1>12, <1>2
<1>13. QED
  BY <1>4, <1>5, <1>6, <1>7, <1>8, <1>9, <1>10, <1>11, <1>12
     DEF Dialogs, BuildDialog, PublicationDialog, PublishDialog, PrivacyPrepareDialog,
         PrivacyApplyDialog, PrepareDialog, CleanupDialog, PrivacyRestoreDialog, SourceDialog,
         DerivativeDialog, ExportHealthDialog

-----------------------------------------------------------------------------
(* What the actors' jobs become when one of them gets the kind k and the   *)
(* content c, or keeps both: a step of the panels does nothing else.       *)
LEMMA OneJobChanges ==
  ASSUME JobsApproved, consented \subseteq consented',
         \A q \in Actors : \/ job'[q].kind = job[q].kind /\ job'[q].content = job[q].content
                           \/ job'[q].kind \notin {"run", "transition", "authorize"}
                           \/ Backed(job'[q].kind, job'[q].content, consented')
  PROVE  JobsApproved'
<1> SUFFICES ASSUME NEW q \in Actors PROVE Backed(job'[q].kind, job'[q].content, consented')
  BY DEF JobsApproved
<1>1. CASE job'[q].kind = job[q].kind /\ job'[q].content = job[q].content
  <2>1. Backed(job'[q].kind, job'[q].content, consented)
    BY <1>1 DEF JobsApproved
  <2> QED BY <2>1 DEF Backed
<1>2. CASE job'[q].kind \notin {"run", "transition", "authorize"}
  BY <1>2 DEF Backed
<1> QED BY <1>1, <1>2

LEMMA TypesKept == IInv /\ Next => Types'
<1> SUFFICES ASSUME IInv, Next PROVE Types'
  OBVIOUS
<1>0. Types
  BY DEF IInv
<1>1. ASSUME UNCHANGED job, UNCHANGED <<registry, dialog>> PROVE Types'
  BY <1>0, <1>1 DEF Types
<1>2. ASSUME NEW q \in Actors, NEW j, job' = [job EXCEPT ![q] = j], DOMAIN j = Fields
      PROVE  DOMAIN job' = Actors /\ \A r \in Actors : DOMAIN job'[r] = Fields
  BY <1>0, <1>2 DEF Types
<1>3. ASSUME NEW q \in Actors, NEW how, Ended(q, how)
      PROVE  DOMAIN job' = Actors /\ \A r \in Actors : DOMAIN job'[r] = Fields
  <2> DEFINE j == IF q = "agent" /\ how # "running" THEN NoJob ELSE [job[q] EXCEPT !.status = how]
  <2>1. job' = [job EXCEPT ![q] = j]
    BY <1>3 DEF Ended
  <2>2. DOMAIN j = Fields
    BY <1>0 DEF NoJob, Types, Fields
  <2> HIDE DEF j
  <2> QED BY <2>1, <2>2, <1>2
<1>4. CASE Dialogs
  BY <1>4, DialogsKeep DEF IInv
<1>5. CASE Observe
  BY <1>5, <1>0, <1>2 DEF Observe, Types, Actors, Panel, Fields, review
<1>6. CASE Decline
  BY <1>6, <1>0 DEF Decline, Types, review
<1>7. CASE Submit
  <2>1. dialog' = NoDialog /\ registry' = registry
    BY <1>7 DEF Submit, review
  <2>2. CASE job' = job
    BY <2>1, <2>2, <1>0 DEF Types
  <2>3. CASE job' # job
    <3> DEFINE j == [kind |-> dialog.kind, status |-> "queued", content |-> dialog.seen]
    <3>1. job' = [job EXCEPT ![dialog.panel] = j]
      BY <1>7, <2>3 DEF Submit
    <3>2. dialog.panel \in Actors
      BY <1>7, <1>0 DEF Submit, Types, Actors
    <3>3. DOMAIN j = Fields
      BY DEF Fields
    <3> HIDE DEF j
    <3>4. DOMAIN job' = Actors /\ \A r \in Actors : DOMAIN job'[r] = Fields
      BY <3>1, <3>2, <3>3, <1>2
    <3> QED BY <2>1, <3>4, <1>0 DEF Types
  <2> QED BY <2>2, <2>3
<1>8. CASE OpenEnrollment \/ Review \/ ReviewStaging
  BY <1>8, <1>1 DEF OpenEnrollment, Review, ReviewStaging, review
<1>9. ASSUME NEW p \in Panel, AskApproval(p) PROVE Types'
  BY <1>9, <1>0 DEF AskApproval, Types, review
<1>10. ASSUME NEW p \in Panel, Poll(p) PROVE Types'
  <2>1. job' = [job EXCEPT ![p] = NoJob] /\ dialog' = dialog
    BY <1>10 DEF Poll
  <2>2. DOMAIN NoJob = Fields
    BY DEF NoJob, Fields
  <2>3. DOMAIN job' = Actors /\ \A r \in Actors : DOMAIN job'[r] = Fields
    BY <2>1, <2>2, <1>2 DEF Actors
  <2>4. registry' = registry \/ registry' = [registry EXCEPT !["target"] = @ \cup {job[p].content}]
    BY <1>10 DEF Poll, Install
  <2>5. DOMAIN registry' = Panel
    BY <2>4, <1>0 DEF Types
  <2> QED BY <2>1, <2>3, <2>5, <1>0 DEF Types
<1>11. ASSUME NEW p \in Panel, Close(p) PROVE Types'
  BY <1>11, <1>1 DEF Close, review
<1>12. CASE ApproveRecovery
  <2>1. registry' = registry \/ registry' = [registry EXCEPT !["recovery"] = LoadPolicy(dialog.seen)]
    BY <1>12 DEF ApproveRecovery
  <2>2. job' = job /\ dialog' = NoDialog
    BY <1>12 DEF ApproveRecovery
  <2> QED BY <2>1, <2>2, <1>0 DEF Types
<1>13. ASSUME NEW accepted, ApproveTarget(accepted) PROVE Types'
  <2>1. registry' = registry \/ registry' = [registry EXCEPT !["target"] = @ \cup {dialog.seen}]
    BY <1>13 DEF ApproveTarget
  <2>2. job' = job /\ dialog' = NoDialog
    BY <1>13 DEF ApproveTarget
  <2> QED BY <2>1, <2>2, <1>0 DEF Types
<1>14. ASSUME NEW q \in Actors, Start(q) \/ Fail(q) PROVE Types'
  <2>1. DOMAIN job' = Actors /\ \A r \in Actors : DOMAIN job'[r] = Fields
    BY <1>14, <1>3 DEF Start, Fail
  <2> QED BY <1>14, <2>1, <1>0 DEF Start, Fail, Types, review
<1>15. ASSUME NEW q \in Actors, Reboot(q) PROVE Types'
  <2> DEFINE j == [job[q] EXCEPT !.content = target.boot + 1]
  <2>1. job' = [job EXCEPT ![q] = j]
    BY <1>15 DEF Reboot
  <2>2. DOMAIN j = Fields
    BY <1>0 DEF Types
  <2> HIDE DEF j
  <2>3. DOMAIN job' = Actors /\ \A r \in Actors : DOMAIN job'[r] = Fields
    BY <2>1, <2>2, <1>2
  <2> QED BY <1>15, <2>3, <1>0 DEF Reboot, Types, review
<1>16. ASSUME NEW q \in Actors, Succeed(q) PROVE Types'
  <2>1. CASE job[q].kind = "enroll"
    <3> DEFINE j == [job[q] EXCEPT !.status = "completed", !.content = target.boot]
    <3>1. job' = [job EXCEPT ![q] = j]
      BY <1>16, <2>1, <1>0 DEF Succeed, Types
    <3>2. DOMAIN j = Fields
      BY <1>0 DEF Types
    <3> HIDE DEF j
    <3>3. DOMAIN job' = Actors /\ \A r \in Actors : DOMAIN job'[r] = Fields
      BY <3>1, <3>2, <1>2
    <3> QED BY <1>16, <3>3, <1>0 DEF Succeed, Types, review
  <2>2. CASE job[q].kind # "enroll"
    <3>1. DOMAIN job' = Actors /\ \A r \in Actors : DOMAIN job'[r] = Fields
      BY <1>16, <2>2, <1>3 DEF Succeed
    <3> QED BY <1>16, <3>1, <1>0 DEF Succeed, Types, review
  <2> QED BY <2>1, <2>2
<1>17. CASE BootByHand \/ Rewrite
  BY <1>17, <1>1 DEF BootByHand, Rewrite, review
<1>18. CASE AgentSubmits
  <2>1. PICK kind, c : job' = [job EXCEPT !["agent"] = [kind |-> kind, status |-> "queued", content |-> c]]
    BY <1>18 DEF AgentSubmits
  <2> DEFINE j == [kind |-> kind, status |-> "queued", content |-> c]
  <2>2. DOMAIN j = Fields
    BY DEF Fields
  <2>3. job' = [job EXCEPT !["agent"] = j]
    BY <2>1
  <2> HIDE DEF j
  <2>4. DOMAIN job' = Actors /\ \A r \in Actors : DOMAIN job'[r] = Fields
    BY <2>2, <2>3, <1>2 DEF Actors
  <2> QED BY <1>18, <2>4, <1>0 DEF AgentSubmits, Types, review
<1> QED
  BY <1>4, <1>5, <1>6, <1>7, <1>8, <1>9, <1>10, <1>11, <1>12, <1>13, <1>14, <1>15, <1>16, <1>17, <1>18
     DEF Next, ApproveFiles, ApproveStaging, Actors

(* Approvals are never taken back.                                         *)
LEMMA ConsentGrows == Next => consented \subseteq consented'
<1> SUFFICES ASSUME Next PROVE consented \subseteq consented'
  OBVIOUS
<1> USE DEF review, machine
<1>1. CASE Dialogs
  BY <1>1 DEF Dialogs, DiscoverDialog, BuildDialog, PublicationDialog, PublishDialog,
     PrivacyPrepareDialog, PrivacyApplyDialog, PrivacyVerifyDialog, PrepareDialog, EnrollDialog,
     BackupDialog, HoldDialog, HeldRebootDialog, ReconcileDialog, RootDialog, ReleaseDialog,
     NormalReturnDialog, CleanupDialog, PrivacyRestoreDialog, OriginalMountDialog, SourceDialog,
     DerivativeDialog, ExportHealthDialog, RunDialog, TargetPrepareDialog, TransitionDialog,
     ReconcileStagingDialog, ServiceApprovalDialog, AskRecovery, AskEnrolled, Ask
<1>2. CASE Observe \/ Decline \/ Submit \/ OpenEnrollment \/ Review \/ ReviewStaging
  BY <1>2 DEF Observe, Decline, Submit, OpenEnrollment, Review, ReviewStaging
<1>3. ASSUME NEW p \in Panel, AskApproval(p) \/ Poll(p) \/ Close(p)
      PROVE  consented \subseteq consented'
  BY <1>3 DEF AskApproval, Poll, Close
<1>4. CASE ApproveRecovery \/ ApproveFiles \/ ApproveStaging
  BY <1>4 DEF ApproveRecovery, ApproveFiles, ApproveStaging, ApproveTarget
<1>5. ASSUME NEW q \in Actors, Start(q) \/ Reboot(q) \/ Succeed(q) \/ Fail(q)
      PROVE  consented \subseteq consented'
  BY <1>5 DEF Start, Reboot, Succeed, Fail
<1>6. CASE BootByHand \/ AgentSubmits \/ Rewrite
  BY <1>6 DEF BootByHand, AgentSubmits, Rewrite
<1> QED BY <1>1, <1>2, <1>3, <1>4, <1>5, <1>6 DEF Next, Actors

(* A registry gets contents from an approval that is being given, or from  *)
(* a service authorization that was.                                       *)
LEMMA RegistryKept == IInv /\ Next => RegistryApproved'
<1> SUFFICES ASSUME IInv, Next PROVE RegistryApproved'
  OBVIOUS
<1>0. RegistryApproved /\ JobsApproved /\ Types /\ consented \subseteq consented'
  BY ConsentGrows DEF IInv
<1>1. ASSUME UNCHANGED registry PROVE RegistryApproved'
  BY <1>0, <1>1 DEF RegistryApproved
<1>2. ASSUME NEW p \in Panel, NEW C, registry' = [registry EXCEPT ![p] = C],
             \A c \in C : c \in registry[p] \/ <<p, c>> \in consented'
      PROVE  RegistryApproved'
  <2> SUFFICES ASSUME NEW r \in Panel, NEW c \in registry'[r] PROVE <<r, c>> \in consented'
    BY DEF RegistryApproved
  <2>1. CASE r = p
    BY <2>1, <1>2, <1>0 DEF RegistryApproved, Types
  <2>2. CASE r # p
    BY <2>2, <1>2, <1>0 DEF RegistryApproved, Types
  <2> QED BY <2>1, <2>2
<1>3. CASE Dialogs
  BY <1>3, DialogsKeep DEF IInv
<1>4. CASE Observe \/ Decline \/ Submit \/ OpenEnrollment \/ Review \/ ReviewStaging
  BY <1>4, <1>1 DEF Observe, Decline, Submit, OpenEnrollment, Review, ReviewStaging, review
<1>5. ASSUME NEW p \in Panel, AskApproval(p) \/ Close(p) PROVE RegistryApproved'
  BY <1>5, <1>1 DEF AskApproval, Close, review
<1>6. ASSUME NEW p \in Panel, Poll(p) PROVE RegistryApproved'
  <2>1. CASE job[p].kind = "authorize" /\ registry' # registry
    <3>1. registry' = [registry EXCEPT !["target"] = @ \cup {job[p].content}]
      BY <1>6, <2>1 DEF Poll, Install
    <3>2. <<"target", job[p].content>> \in consented
      BY <2>1, <1>0 DEF JobsApproved, Backed, Actors
    <3>3. registry' = [registry EXCEPT !["target"] = registry["target"] \cup {job[p].content}]
      BY <3>1
    <3>4. \A c \in registry["target"] \cup {job[p].content} :
            c \in registry["target"] \/ <<"target", c>> \in consented'
      BY <3>2, <1>0
    <3> QED BY <3>3, <3>4, <1>2 DEF Panel
  <2>2. CASE job[p].kind # "authorize"
    BY <1>6, <2>2, <1>1 DEF Poll
  <2> QED BY <2>1, <2>2, <1>1
<1>7. CASE ApproveRecovery
  <2>1. CASE registry' # registry
    <3>1. registry' = [registry EXCEPT !["recovery"] = LoadPolicy(dialog.seen)]
      BY <1>7, <2>1 DEF ApproveRecovery
    <3>2. \A c \in LoadPolicy(dialog.seen) : <<"recovery", c>> \in consented'
      BY <1>7 DEF ApproveRecovery, LoadPolicy
    <3> QED BY <3>1, <3>2, <1>2 DEF Panel
  <2> QED BY <2>1, <1>1
<1>8. ASSUME NEW accepted, ApproveTarget(accepted) PROVE RegistryApproved'
  <2>1. CASE registry' # registry
    <3>1. registry' = [registry EXCEPT !["target"] = @ \cup {dialog.seen}]
      BY <1>8, <2>1 DEF ApproveTarget
    <3>2. <<"target", dialog.seen>> \in consented'
      BY <1>8 DEF ApproveTarget
    <3>3. registry' = [registry EXCEPT !["target"] = registry["target"] \cup {dialog.seen}]
      BY <3>1
    <3>4. \A c \in registry["target"] \cup {dialog.seen} :
            c \in registry["target"] \/ <<"target", c>> \in consented'
      BY <3>2, <1>0
    <3> QED BY <3>3, <3>4, <1>2 DEF Panel
  <2> QED BY <2>1, <1>1
<1>9. ASSUME NEW q \in Actors, Start(q) \/ Reboot(q) \/ Succeed(q) \/ Fail(q) PROVE RegistryApproved'
  BY <1>9, <1>1 DEF Start, Reboot, Succeed, Fail, review
<1>10. CASE BootByHand \/ AgentSubmits \/ Rewrite
  BY <1>10, <1>1 DEF BootByHand, AgentSubmits, Rewrite, review
<1> QED
  BY <1>3, <1>4, <1>5, <1>6, <1>7, <1>8, <1>9, <1>10 DEF Next, ApproveFiles, ApproveStaging, Actors

(* A job gets approved contents from the dialog that it was confirmed in,  *)
(* or from a registry.                                                     *)
LEMMA JobsKept == IInv /\ Next => JobsApproved'
<1> SUFFICES ASSUME IInv, Next PROVE JobsApproved'
  OBVIOUS
<1>0. JobsApproved /\ RegistryApproved /\ DialogApproved /\ Types /\ consented \subseteq consented'
  BY ConsentGrows DEF IInv
<1>1. ASSUME UNCHANGED job PROVE JobsApproved'
  BY <1>0, <1>1, OneJobChanges
<1>2. ASSUME NEW q \in Actors, NEW j, job' = [job EXCEPT ![q] = j],
             \/ j.kind = job[q].kind /\ j.content = job[q].content
             \/ j.kind \notin {"run", "transition", "authorize"}
             \/ Backed(j.kind, j.content, consented')
      PROVE  JobsApproved'
  <2>1. \A r \in Actors : \/ r = q /\ job'[r] = j
                          \/ job'[r] = job[r]
    BY <1>0, <1>2 DEF Types
  <2>2. ASSUME NEW r \in Actors
        PROVE  \/ job'[r].kind = job[r].kind /\ job'[r].content = job[r].content
               \/ job'[r].kind \notin {"run", "transition", "authorize"}
               \/ Backed(job'[r].kind, job'[r].content, consented')
    BY <2>1, <2>2, <1>2 DEF Backed
  <2> QED BY <2>2, <1>0, OneJobChanges
<1>3. ASSUME NEW q \in Actors, NEW how, Ended(q, how) PROVE JobsApproved'
  <2> DEFINE j == IF q = "agent" /\ how # "running" THEN NoJob ELSE [job[q] EXCEPT !.status = how]
  <2>1. job' = [job EXCEPT ![q] = j]
    BY <1>3 DEF Ended
  <2>2. CASE q = "agent" /\ how # "running"
    BY <2>1, <2>2, <1>2 DEF NoJob
  <2>3. CASE ~(q = "agent" /\ how # "running")
    <3>1. [job[q] EXCEPT !.status = how].kind = job[q].kind
      BY <1>0 DEF Types, Fields
    <3>2. [job[q] EXCEPT !.status = how].content = job[q].content
      BY <1>0 DEF Types, Fields
    <3> QED BY <2>1, <2>3, <3>1, <3>2, <1>2
  <2> QED BY <2>2, <2>3
<1>4. CASE Dialogs
  BY <1>4, DialogsKeep DEF IInv
<1>5. CASE Observe
  <2>1. job' = [job EXCEPT !["target"] = [kind |-> "observe", status |-> "queued", content |-> 0]]
    BY <1>5 DEF Observe
  <2> QED BY <2>1, <1>2 DEF Actors, Panel
<1>6. CASE Submit
  <2> DEFINE j == [kind |-> dialog.kind, status |-> "queued", content |-> dialog.seen]
  <2>1. CASE job' # job
    <3>1. job' = [job EXCEPT ![dialog.panel] = j]
      BY <1>6, <2>1 DEF Submit
    <3>2. dialog.panel \in Actors
      BY <1>6, <2>1, <1>0 DEF Submit, Types, Actors, Panel, NoDialog
    <3>3. Backed(dialog.kind, dialog.seen, consented')
      <4>1. CASE dialog.kind = "authorize"
        <5>1. <<"target", dialog.seen>> \in consented'
          BY <1>6, <4>1, <1>0 DEF Submit, DialogApproved
        <5> QED BY <4>1, <5>1 DEF Backed
      <4>2. CASE dialog.kind # "authorize"
        <5>1. Backed(dialog.kind, dialog.seen, consented)
          BY <4>2, <1>0 DEF DialogApproved
        <5> QED BY <5>1, <1>0 DEF Backed
      <4> QED BY <4>1, <4>2
    <3> QED BY <3>1, <3>2, <3>3, <1>2
  <2> QED BY <2>1, <1>1
<1>7. CASE Decline \/ OpenEnrollment \/ Review \/ ReviewStaging
  BY <1>7, <1>1 DEF Decline, OpenEnrollment, Review, ReviewStaging
<1>8. ASSUME NEW p \in Panel, AskApproval(p) \/ Close(p) PROVE JobsApproved'
  BY <1>8, <1>1 DEF AskApproval, Close
<1>9. ASSUME NEW p \in Panel, Poll(p) PROVE JobsApproved'
  <2>1. job' = [job EXCEPT ![p] = NoJob]
    BY <1>9 DEF Poll
  <2>2. NoJob.kind \notin {"run", "transition", "authorize"}
    BY DEF NoJob
  <2> QED BY <2>1, <2>2, <1>2 DEF Actors
<1>10. CASE ApproveRecovery \/ ApproveFiles \/ ApproveStaging
  BY <1>10, <1>1 DEF ApproveRecovery, ApproveFiles, ApproveStaging, ApproveTarget
<1>11. ASSUME NEW q \in Actors, Start(q) \/ Fail(q) PROVE JobsApproved'
  BY <1>11, <1>3 DEF Start, Fail
<1>12. ASSUME NEW q \in Actors, Reboot(q) PROVE JobsApproved'
  <2> DEFINE j == [job[q] EXCEPT !.content = target.boot + 1]
  <2>1. job' = [job EXCEPT ![q] = j]
    BY <1>12 DEF Reboot
  <2>2. j.kind = job[q].kind
    BY <1>0 DEF Types
  <2>3. job[q].kind \in {"tryboot", "private", "held", "normal"}
    BY <1>12 DEF Reboot
  <2> HIDE DEF j
  <2> QED BY <2>1, <2>2, <2>3, <1>2
<1>13. ASSUME NEW q \in Actors, Succeed(q) PROVE JobsApproved'
  <2>1. CASE job[q].kind = "enroll"
    <3> DEFINE j == [job[q] EXCEPT !.status = "completed", !.content = target.boot]
    <3>1. job' = [job EXCEPT ![q] = j]
      BY <1>13, <2>1, <1>0 DEF Succeed, Types
    <3>2. j.kind = "enroll"
      BY <2>1, <1>0 DEF Types
    <3> HIDE DEF j
    <3> QED BY <3>1, <3>2, <1>2
  <2>2. CASE job[q].kind # "enroll"
    BY <1>13, <2>2, <1>3 DEF Succeed
  <2> QED BY <2>1, <2>2
<1>14. CASE BootByHand \/ Rewrite
  BY <1>14, <1>1 DEF BootByHand, Rewrite
<1>15. CASE AgentSubmits
  <2>1. PICK p \in Panel, c \in Contents :
          /\ c \in registry[p]
          /\ job' = [job EXCEPT !["agent"] =
               [kind |-> IF p = "recovery" THEN "run" ELSE "transition", status |-> "queued", content |-> c]]
    BY <1>15 DEF AgentSubmits
  <2>2. <<p, c>> \in consented'
    BY <2>1, <1>0 DEF RegistryApproved
  <2>3. Backed(IF p = "recovery" THEN "run" ELSE "transition", c, consented')
    BY <2>2 DEF Backed, Panel
  <2> QED BY <2>1, <2>3, <1>2 DEF Actors
<1> QED
  BY <1>4, <1>5, <1>6, <1>7, <1>8, <1>9, <1>10, <1>11, <1>12, <1>13, <1>14, <1>15 DEF Next, Actors

(* A dialog is closed, or opened by an action that asks for approved work. *)
LEMMA DialogKept == IInv /\ Next => DialogApproved'
<1> SUFFICES ASSUME IInv, Next PROVE DialogApproved'
  OBVIOUS
<1>0. DialogApproved /\ consented \subseteq consented'
  BY ConsentGrows DEF IInv
<1>1. ASSUME UNCHANGED dialog PROVE DialogApproved'
  BY <1>0, <1>1 DEF DialogApproved, Backed
<1>2. ASSUME dialog'.kind \in {"", "approve"} PROVE DialogApproved'
  BY <1>2 DEF DialogApproved, Backed
<1>3. CASE Dialogs
  BY <1>3, DialogsKeep DEF IInv
<1>4. CASE Observe \/ OpenEnrollment \/ Review \/ ReviewStaging
  BY <1>4, <1>1 DEF Observe, OpenEnrollment, Review, ReviewStaging
<1>5. CASE Decline \/ Submit \/ ApproveRecovery \/ ApproveFiles \/ ApproveStaging
  <2>1. dialog' = NoDialog
    BY <1>5 DEF Decline, Submit, ApproveRecovery, ApproveFiles, ApproveStaging, ApproveTarget
  <2> QED BY <2>1, <1>2 DEF NoDialog
<1>6. ASSUME NEW p \in Panel, Poll(p) \/ Close(p) PROVE DialogApproved'
  BY <1>6, <1>1 DEF Poll, Close
<1>7. ASSUME NEW p \in Panel, AskApproval(p) PROVE DialogApproved'
  BY <1>7, <1>2 DEF AskApproval
<1>8. ASSUME NEW q \in Actors, Start(q) \/ Reboot(q) \/ Succeed(q) \/ Fail(q) PROVE DialogApproved'
  BY <1>8, <1>1 DEF Start, Reboot, Succeed, Fail
<1>9. CASE BootByHand \/ AgentSubmits \/ Rewrite
  BY <1>9, <1>1 DEF BootByHand, AgentSubmits, Rewrite
<1> QED BY <1>3, <1>4, <1>5, <1>6, <1>7, <1>8, <1>9 DEF Next, Actors

(* Only a running job executes anything, and only what it is of.           *)
LEMMA ExecutedKept == IInv /\ Next => ExecutedWasReviewed'
<1> SUFFICES ASSUME IInv, Next PROVE ExecutedWasReviewed'
  OBVIOUS
<1>0. ExecutedWasReviewed /\ JobsApproved /\ consented \subseteq consented'
  BY ConsentGrows DEF IInv
<1>1. ASSUME UNCHANGED executed PROVE ExecutedWasReviewed'
  BY <1>0, <1>1 DEF ExecutedWasReviewed
<1>2. CASE Dialogs
  BY <1>2, DialogsKeep DEF IInv
<1>3. CASE Observe \/ Decline \/ Submit \/ OpenEnrollment \/ Review \/ ReviewStaging
  BY <1>3, <1>1 DEF Observe, Decline, Submit, OpenEnrollment, Review, ReviewStaging, machine
<1>4. ASSUME NEW p \in Panel, AskApproval(p) \/ Poll(p) \/ Close(p) PROVE ExecutedWasReviewed'
  BY <1>4, <1>1 DEF AskApproval, Poll, Close, machine
<1>5. CASE ApproveRecovery \/ ApproveFiles \/ ApproveStaging
  BY <1>5, <1>1 DEF ApproveRecovery, ApproveFiles, ApproveStaging, ApproveTarget, machine
<1>6. ASSUME NEW q \in Actors, Start(q) \/ Reboot(q) PROVE ExecutedWasReviewed'
  BY <1>6, <1>1 DEF Start, Reboot, machine
<1>7. ASSUME NEW q \in Actors, Succeed(q) PROVE ExecutedWasReviewed'
  <2>1. Backed(job[q].kind, job[q].content, consented)
    BY <1>0 DEF JobsApproved
  <2> QED BY <1>7, <2>1, <1>0 DEF Succeed, Backed, ExecutedWasReviewed
<1>8. ASSUME NEW q \in Actors, Fail(q) PROVE ExecutedWasReviewed'
  <2>1. Backed(job[q].kind, job[q].content, consented)
    BY <1>0 DEF JobsApproved
  <2> QED BY <1>8, <2>1, <1>0 DEF Fail, Backed, ExecutedWasReviewed
<1>9. CASE BootByHand \/ AgentSubmits \/ Rewrite
  BY <1>9, <1>1 DEF BootByHand, AgentSubmits, Rewrite, machine
<1> QED BY <1>2, <1>3, <1>4, <1>5, <1>6, <1>7, <1>8, <1>9 DEF Next, Actors

LEMMA StepIInv == IInv /\ [Next]_vars => IInv'
<1>1. IInv /\ Next => IInv'
  BY TypesKept, RegistryKept, JobsKept, DialogKept, ExecutedKept DEF IInv
<1>2. IInv /\ UNCHANGED vars => IInv'
  BY DEF IInv, vars, Types, RegistryApproved, JobsApproved, DialogApproved, Backed, ExecutedWasReviewed
<1> QED BY <1>1, <1>2

-----------------------------------------------------------------------------
(* For any contents and any number of boots: whatever is executed on the   *)
(* machine was displayed to the owner who approved it.                     *)
THEOREM ReviewedFirst == Spec => []ExecutedWasReviewed
<1>1. IInv => ExecutedWasReviewed
  BY DEF IInv
<1> QED BY InitIInv, StepIInv, <1>1, PTL DEF Spec

(* Nothing but approved contents stands in the registries that the         *)
(* controller shows to agents, and no job is queued with anything else.    *)
THEOREM RegisteredWasReviewed == Spec => [](RegistryApproved /\ JobsApproved)
<1>1. IInv => RegistryApproved /\ JobsApproved
  BY DEF IInv
<1> QED BY InitIInv, StepIInv, <1>1, PTL DEF Spec
-----------------------------------------------------------------------------
(* The window (Workbench).                                                 *)

Machine == W!VMs \cup {0}

WorkKeys == {"op", "by", "step", "on", "cancel"}

WindowShape ==
  /\ DOMAIN field = W!Fields /\ DOMAIN vm = W!VMs
  /\ DOMAIN future = Calls /\ DOMAIN told = Calls
  /\ owned \in Machine /\ runtime \in Machine /\ serial \in Machine
  /\ DOMAIN work = WorkKeys /\ work.on \in Machine
  /\ work = W!NoJob <=> work.step = "none"
  /\ work.step # "none" => work.by \in W!Fields

(* Who has the workspace's job has not polled it yet; a job that uses the  *)
(* console has closed the window's own connection, and the window makes no *)
(* new one.                                                                *)
WorkAwaited ==
  work.step # "none" =>
    /\ field[work.by] = "live"
    /\ work.op \in W!ConsoleOps => work.by \in {"agent", "guest"} /\ serial = 0
    /\ work.op = "boot" => work.by \in {"agent", "boot"}
    /\ work.step = "console" => work.op \in W!ConsoleOps /\ work.on # 0
    /\ work.step \in {"spawning", "booting"} => work.op = "boot"

(* While the owner's boot goes on the window has no machine and agents     *)
(* have no job.                                                            *)
BootsAlone == field["boot"] # "none" => runtime = 0 /\ field["agent"] = "none"

(* A machine that an agent booted while the window still held a dead one   *)
(* is adopted before the owner can act again.                              *)
Stale == W!Alive(owned) /\ runtime \notin {0, owned}
StaleIsPolled ==
  Stale => \/ stage \in {"drain", "jobs", "serial", "exit"}
           \/ \E f \in {"agent", "replay", "guest", "power", "control"} : field[f] # "none"

MachinesOwned ==
  /\ W!LiveIsOwned
  /\ life = "closed" => work.step = "none"

WindowInv ==
  /\ WindowShape /\ WorkAwaited /\ BootsAlone /\ StaleIsPolled /\ MachinesOwned
  /\ NothingMeansNothing

(* What the controller's job becomes.                                      *)
LEMMA Working ==
  /\ W!NoJob.step = "none" /\ W!NoJob.on = 0 /\ DOMAIN W!NoJob = WorkKeys
  /\ \A f, op : W!Submit(f, op) =>
       /\ work = W!NoJob /\ field' = [field EXCEPT ![f] = "live"]
       /\ work'.op = op /\ work'.by = f /\ work'.step = "queued" /\ work'.on = 0
       /\ work' # W!NoJob /\ DOMAIN work' = WorkKeys
  /\ \A s, v : W!ThenStep(s, v) /\ DOMAIN work = WorkKeys =>
       /\ UNCHANGED field /\ DOMAIN work' = WorkKeys
       /\ work'.step = s /\ work'.on = v /\ work'.op = work.op /\ work'.by = work.by
       /\ s # "none" => work' # W!NoJob
  /\ W!JobDone => work' = W!NoJob /\ field' = [field EXCEPT ![work.by] = "done"]
<1>1. W!NoJob.step = "none" /\ W!NoJob.on = 0 /\ DOMAIN W!NoJob = WorkKeys
  BY DEF WorkKeys, W!NoJob
<1>2. ASSUME NEW f, NEW op, W!Submit(f, op)
      PROVE  /\ work = W!NoJob /\ field' = [field EXCEPT ![f] = "live"]
             /\ work'.op = op /\ work'.by = f /\ work'.step = "queued" /\ work'.on = 0
             /\ work' # W!NoJob /\ DOMAIN work' = WorkKeys
  <2>1. work'.op = op /\ work'.by = f /\ work'.step = "queued" /\ work'.on = 0
        /\ DOMAIN work' = WorkKeys
    BY <1>2 DEF WorkKeys, W!Submit
  <2> QED BY <1>1, <1>2, <2>1 DEF W!Submit
<1>3. ASSUME NEW s, NEW v, W!ThenStep(s, v), DOMAIN work = WorkKeys
      PROVE  /\ UNCHANGED field /\ DOMAIN work' = WorkKeys
             /\ work'.step = s /\ work'.on = v /\ work'.op = work.op /\ work'.by = work.by
             /\ s # "none" => work' # W!NoJob
  <2>1. UNCHANGED field /\ DOMAIN work' = WorkKeys /\ work'.step = s /\ work'.on = v
        /\ work'.op = work.op /\ work'.by = work.by
    BY <1>3 DEF WorkKeys, W!ThenStep
  <2> QED BY <1>1, <2>1
<1>4. W!JobDone => work' = W!NoJob /\ field' = [field EXCEPT ![work.by] = "done"]
  BY DEF W!JobDone
<1> QED BY <1>1, <1>2, <1>3, <1>4

LEMMA Cancelling ==
  ASSUME W!Cancel \/ W!CancelReplay, ~ W!JobDone, WindowShape
  PROVE  UNCHANGED work \/
         /\ DOMAIN work' = WorkKeys /\ work' # W!NoJob /\ work.step # "none"
         /\ work'.step = work.step /\ work'.on = work.on /\ work'.op = work.op
            /\ work'.by = work.by
<1>1. W!NoJob.by # "replay" /\ W!NoJob.step = "none"
  BY DEF W!NoJob
<1>2. UNCHANGED work \/ (work # W!NoJob /\ work' = [work EXCEPT !.cancel = TRUE])
  BY <1>1 DEF W!Cancel, W!CancelReplay
<1> QED BY <1>1, <1>2 DEF WindowShape, WorkKeys

LEMMA WindowShapeKept == WindowInv /\ W!Next => WindowShape'
<1> SUFFICES ASSUME WindowInv, W!Next PROVE WindowShape'
  OBVIOUS
<1> USE Working DEF WindowInv, WindowShape, W!window, W!calls, W!machines
<1>1. CASE W!launch_locked
  BY <1>1 DEF W!launch_locked, W!AtRest, W!SubmitOrRefused, W!check_startable, W!NonePending,
      Machine, W!Fields, W!VMs
<1>2. CASE W!control
  BY <1>2 DEF W!control, W!AtRest, W!SubmitOrRefused, W!require_no_replay, W!NonePending,
      Machine, W!Fields, W!VMs
<1>3. CASE W!live_power
  BY <1>3 DEF W!live_power, W!Alive, W!AtRest, W!SubmitOrRefused, W!require_no_replay,
      W!NonePending, Machine, W!Fields, W!VMs
<1>4. CASE W!start_guest_command
  BY <1>4 DEF W!start_guest_command, W!Alive, W!AtRest, W!SubmitOrRefused, W!release_serial,
      W!require_guest_idle, W!require_no_replay, W!NonePending, Machine, W!Fields, W!VMs
<1>5. CASE W!poweroff
  BY <1>5 DEF W!poweroff, W!AtRest, W!SubmitOrRefused, W!release_serial, W!require_guest_idle,
      W!require_no_replay, W!NonePending, Machine, W!Fields, W!VMs
<1>6. CASE W!start_host_task
  BY <1>6 DEF W!start_host_task, W!AtRest, W!NonePending, W!SubmitOrRefused,
      W!require_guest_idle, W!require_no_replay, Machine, W!Fields, W!VMs
<1>7. CASE W!start_lifecycle
  BY <1>7 DEF W!start_lifecycle, W!AtRest, W!NonePending, W!SubmitOrRefused, Machine, W!Fields,
      W!VMs
<1>8. CASE W!PanelSubmit
  BY <1>8 DEF W!PanelSubmit, W!AtRest, Machine, W!Fields, W!VMs
<1>9. CASE W!PanelPoll
  BY <1>9 DEF W!PanelPoll, W!Polling, Machine, W!Fields, W!VMs
<1>10. CASE W!ReplayChosen
  BY <1>10 DEF W!ReplayChosen, W!Polling, W!SubmitOrRefused, Machine, W!Fields, W!VMs
<1>11. CASE W!Cancel
  <2>0. UNCHANGED <<W!machines, W!window, W!calls>>
    BY <1>11 DEF W!Cancel
  <2>1. CASE W!JobDone
    BY <2>0, <2>1 DEF Machine
  <2>2. CASE ~ W!JobDone
    BY <1>11, <2>2, Cancelling DEF W!Cancel
  <2> QED BY <2>1, <2>2
<1>12. CASE W!CloseDiscards
  BY <1>12 DEF W!CloseDiscards, W!CloseAttachment, W!Polling, Machine, W!Fields, W!VMs
<1>13. CASE W!CloseStops
  BY <1>13 DEF W!CloseStops, W!Alive, W!CloseAttachment, W!Polling, W!release, Machine,
      W!Fields, W!VMs
<1>14. CASE W!CloseEnds
  BY <1>14 DEF W!CloseEnds, W!Alive, Machine, W!Fields, W!VMs
<1>15. CASE W!Start
  BY <1>15 DEF W!Start, Machine, W!Fields, W!VMs
<1>16. CASE W!WorkEnds
  BY <1>16 DEF W!WorkEnds, Machine, W!Fields, W!VMs
<1>17. CASE W!BootChecks
  BY <1>17 DEF W!BootChecks, W!MayBoot, W!Alive, Machine, W!Fields, W!VMs
<1>18. CASE W!BootSpawns
  BY <1>18 DEF W!BootSpawns, W!VMs, Machine, W!Fields
<1>19. CASE W!BootEnds
  BY <1>19 DEF W!BootEnds, Machine, W!Fields, W!VMs
<1>20. CASE W!ConsoleOpens
  BY <1>20 DEF W!ConsoleOpens, W!Alive, W!ConsoleOps, Machine, W!Fields, W!VMs
<1>21. CASE W!ConsoleEnds
  BY <1>21 DEF W!ConsoleEnds, Machine, W!Fields, W!VMs
<1>22. CASE W!ForcedStop
  BY <1>22 DEF W!ForcedStop, W!Alive, Machine, W!Fields, W!VMs
<1>23. CASE W!PollAgent
  BY <1>23 DEF W!PollAgent, W!Polling, Machine, W!Fields, W!VMs
<1>24. CASE W!DrainTakes
  BY <1>24 DEF W!DrainTakes, W!MayRun, W!Polling, Machine, W!Fields, W!VMs
<1>25. CASE W!DrainRuns
  BY <1>25 DEF W!DrainRuns, W!Polling, W!agent_operation, W!ConsoleOps, W!Permitted,
      W!SubmitOrRefused, W!NonePending, W!require_guest_idle, W!require_no_replay, Machine,
      W!Fields, W!VMs
<1>26. CASE W!PollJobs
  BY <1>26 DEF W!PollJobs, W!Fields, W!Polling, Machine, W!VMs
<1>27. CASE W!PollSerial
  BY <1>27 DEF W!PollSerial, W!Alive, W!MayConnect, W!Polling, W!NonePending, Machine, W!Fields,
      W!VMs
<1>28. CASE W!PollExit
  <2>1. W!CancelReplay \/ UNCHANGED work
    BY <1>28 DEF W!PollExit
  <2>2. UNCHANGED field /\ owned' \in {owned, 0} /\ runtime' \in {runtime, 0}
        /\ serial' \in {serial, 0}
    BY <1>28 DEF W!PollExit, W!release
  <2>3. CASE W!JobDone
    BY <1>28, <2>1, <2>2, <2>3 DEF W!PollExit, Machine, W!VMs
  <2>4. CASE ~ W!JobDone
    BY <1>28, <2>1, <2>2, <2>4, Cancelling DEF W!PollExit, Machine, W!VMs
  <2> QED BY <2>3, <2>4
<1>29. ASSUME NEW v \in W!VMs, W!VMExits(v) PROVE WindowShape'
  BY <1>29 DEF W!VMExits, W!Alive, Machine, W!Fields, W!VMs
<1>30. ASSUME NEW c \in Calls, W!Timeout(c) PROVE WindowShape'
  BY <1>30 DEF W!Timeout, W!Answer, Machine, W!Fields, W!VMs
<1>31. ASSUME NEW c \in Calls, NEW op \in W!AgentOps, W!Request(c, op) PROVE WindowShape'
  BY <1>31 DEF W!Request, W!Answer, Machine, W!Fields, W!VMs
<1>32. CASE UNCHANGED <<field, future, owned, runtime, serial, told, vm, work>>
  BY <1>32 DEF Machine, W!Fields, W!VMs
<1> HIDE DEF WindowInv, WindowShape
<1> QED BY <1>1, <1>2, <1>3, <1>4, <1>5, <1>6, <1>7, <1>8, <1>9, <1>10, <1>11, <1>12, <1>13,
      <1>14, <1>15, <1>16, <1>17, <1>18, <1>19, <1>20, <1>21, <1>22, <1>23, <1>24, <1>25, <1>26,
      <1>27, <1>28, <1>29, <1>30, <1>31, <1>32
      DEF W!Next, W!Owner, W!Worker, W!Poll, W!start_replay, W!DialogDismissed, W!CloseAsks,
          W!DrainEnds, W!machines, W!calls

LEMMA WorkAwaitedKept == WindowInv /\ W!Next => WorkAwaited'
<1> SUFFICES ASSUME WindowInv, W!Next PROVE WorkAwaited'
  OBVIOUS
<1> USE Working DEF WindowInv, WindowShape, WorkAwaited, W!window, W!calls, W!machines
<1>1. CASE W!launch_locked
  BY <1>1 DEF W!launch_locked, W!AtRest, W!SubmitOrRefused, W!check_startable, W!NonePending,
      W!ConsoleOps, Machine, W!Fields, W!VMs
<1>2. CASE W!control
  BY <1>2 DEF W!control, W!AtRest, W!SubmitOrRefused, W!require_no_replay, W!NonePending,
      W!ConsoleOps, Machine, W!Fields, W!VMs
<1>3. CASE W!live_power
  BY <1>3 DEF W!live_power, W!Alive, W!AtRest, W!SubmitOrRefused, W!require_no_replay,
      W!NonePending, W!ConsoleOps, Machine, W!Fields, W!VMs
<1>4. CASE W!start_guest_command
  BY <1>4 DEF W!start_guest_command, W!Alive, W!AtRest, W!SubmitOrRefused, W!release_serial,
      W!require_guest_idle, W!require_no_replay, W!NonePending, W!ConsoleOps, Machine, W!Fields,
      W!VMs
<1>5. CASE W!poweroff
  BY <1>5 DEF W!poweroff, W!AtRest, W!SubmitOrRefused, W!release_serial, W!require_guest_idle,
      W!require_no_replay, W!NonePending, W!ConsoleOps, Machine, W!Fields, W!VMs
<1>6. CASE W!start_host_task
  BY <1>6 DEF W!start_host_task, W!AtRest, W!NonePending, W!SubmitOrRefused,
      W!require_guest_idle, W!require_no_replay, W!ConsoleOps, Machine, W!Fields, W!VMs
<1>7. CASE W!start_lifecycle
  BY <1>7 DEF W!start_lifecycle, W!AtRest, W!NonePending, W!SubmitOrRefused, W!ConsoleOps,
      Machine, W!Fields, W!VMs
<1>8. CASE W!PanelSubmit
  BY <1>8 DEF W!PanelSubmit, W!AtRest, W!ConsoleOps, Machine, W!Fields, W!VMs
<1>9. CASE W!PanelPoll
  BY <1>9 DEF W!PanelPoll, W!Polling, W!ConsoleOps, Machine, W!Fields, W!VMs
<1>10. CASE W!ReplayChosen
  BY <1>10 DEF W!ReplayChosen, W!Polling, W!SubmitOrRefused, W!ConsoleOps, Machine, W!Fields,
      W!VMs
<1>11. CASE W!Cancel
  <2>0. UNCHANGED <<W!machines, W!window, W!calls>>
    BY <1>11 DEF W!Cancel
  <2>1. CASE W!JobDone
    BY <2>0, <2>1 DEF Machine
  <2>2. CASE ~ W!JobDone
    BY <1>11, <2>2, Cancelling DEF W!Cancel
  <2> QED BY <2>1, <2>2
<1>12. CASE W!CloseStops
  BY <1>12 DEF W!CloseStops, W!Alive, W!CloseAttachment, W!Polling, W!release, W!ConsoleOps,
      Machine, W!Fields, W!VMs
<1>13. CASE W!CloseEnds
  BY <1>13 DEF W!CloseEnds, W!Alive, W!ConsoleOps, Machine, W!Fields, W!VMs
<1>14. CASE W!Start
  BY <1>14 DEF W!Start, W!ConsoleOps, Machine, W!Fields, W!VMs
<1>15. CASE W!WorkEnds
  BY <1>15 DEF W!WorkEnds, W!ConsoleOps, Machine, W!Fields, W!VMs
<1>16. CASE W!BootChecks
  BY <1>16 DEF W!BootChecks, W!MayBoot, W!Alive, W!ConsoleOps, Machine, W!Fields, W!VMs
<1>17. CASE W!BootSpawns
  BY <1>17 DEF W!BootSpawns, W!VMs, W!ConsoleOps, Machine, W!Fields
<1>18. CASE W!BootEnds
  BY <1>18 DEF W!BootEnds, W!ConsoleOps, Machine, W!Fields, W!VMs
<1>19. CASE W!ConsoleOpens
  BY <1>19 DEF W!ConsoleOpens, W!Alive, W!ConsoleOps, Machine, W!Fields, W!VMs
<1>20. CASE W!ConsoleEnds
  BY <1>20 DEF W!ConsoleEnds, W!ConsoleOps, Machine, W!Fields, W!VMs
<1>21. CASE W!ForcedStop
  BY <1>21 DEF W!ForcedStop, W!Alive, W!ConsoleOps, Machine, W!Fields, W!VMs
<1>22. CASE W!PollAgent
  BY <1>22 DEF W!PollAgent, W!Polling, W!ConsoleOps, Machine, W!Fields, W!VMs
<1>23. CASE W!DrainRuns
  BY <1>23 DEF W!DrainRuns, W!Polling, W!agent_operation, W!ConsoleOps, W!Permitted,
      W!SubmitOrRefused, W!NonePending, W!require_guest_idle, W!require_no_replay, Machine,
      W!Fields, W!VMs
<1>24. CASE W!PollJobs
  BY <1>24 DEF W!PollJobs, W!Fields, W!Polling, W!ConsoleOps, Machine, W!VMs
<1>25. CASE W!PollSerial
  BY <1>25 DEF W!PollSerial, W!Alive, W!MayConnect, W!Polling, W!NonePending, W!ConsoleOps,
      Machine, W!Fields, W!VMs
<1>26. CASE W!PollExit
  <2>1. W!CancelReplay \/ UNCHANGED work
    BY <1>26 DEF W!PollExit
  <2>2. UNCHANGED field /\ owned' \in {owned, 0} /\ runtime' \in {runtime, 0}
        /\ serial' \in {serial, 0}
    BY <1>26 DEF W!PollExit, W!release
  <2>3. CASE W!JobDone
    BY <1>26, <2>1, <2>2, <2>3 DEF W!PollExit, Machine, W!VMs
  <2>4. CASE ~ W!JobDone
    BY <1>26, <2>1, <2>2, <2>4, Cancelling DEF W!PollExit, Machine, W!VMs
  <2> QED BY <2>3, <2>4
<1>27. CASE UNCHANGED <<field, serial, work>>
  BY <1>27 DEF W!ConsoleOps
<1> HIDE DEF WindowInv, WindowShape, WorkAwaited
<1> QED BY <1>1, <1>2, <1>3, <1>4, <1>5, <1>6, <1>7, <1>8, <1>9, <1>10, <1>11, <1>12, <1>13,
      <1>14, <1>15, <1>16, <1>17, <1>18, <1>19, <1>20, <1>21, <1>22, <1>23, <1>24, <1>25, <1>26,
      <1>27
      DEF W!Next, W!Owner, W!Worker, W!Poll, W!start_replay, W!DialogDismissed, W!CloseAsks,
          W!CloseDiscards, W!DrainTakes, W!DrainEnds, W!VMExits, W!Timeout, W!Request,
          W!machines, W!calls, W!window

LEMMA BootsAloneKept == WindowInv /\ W!Next => BootsAlone'
<1> SUFFICES ASSUME WindowInv, W!Next PROVE BootsAlone'
  OBVIOUS
<1> USE Working DEF WindowInv, BootsAlone, WindowShape, WorkAwaited, W!window, W!calls,
W!machines
<1>1. CASE W!launch_locked
  BY <1>1 DEF W!launch_locked, W!AtRest, W!SubmitOrRefused, W!check_startable, W!NonePending,
      Machine, W!Fields, W!VMs, W!ConsoleOps
<1>2. CASE W!control
  BY <1>2 DEF W!control, W!AtRest, W!SubmitOrRefused, W!require_no_replay, W!NonePending,
      Machine, W!Fields, W!VMs, W!ConsoleOps
<1>3. CASE W!live_power
  BY <1>3 DEF W!live_power, W!Alive, W!AtRest, W!SubmitOrRefused, W!require_no_replay,
      W!NonePending, Machine, W!Fields, W!VMs, W!ConsoleOps
<1>4. CASE W!start_guest_command
  BY <1>4 DEF W!start_guest_command, W!Alive, W!AtRest, W!SubmitOrRefused, W!release_serial,
      W!require_guest_idle, W!require_no_replay, W!NonePending, Machine, W!Fields, W!VMs,
      W!ConsoleOps
<1>5. CASE W!poweroff
  BY <1>5 DEF W!poweroff, W!AtRest, W!SubmitOrRefused, W!release_serial, W!require_guest_idle,
      W!require_no_replay, W!NonePending, Machine, W!Fields, W!VMs, W!ConsoleOps
<1>6. CASE W!start_host_task
  BY <1>6 DEF W!start_host_task, W!AtRest, W!NonePending, W!SubmitOrRefused,
      W!require_guest_idle, W!require_no_replay, Machine, W!Fields, W!VMs, W!ConsoleOps
<1>7. CASE W!start_lifecycle
  BY <1>7 DEF W!start_lifecycle, W!AtRest, W!NonePending, W!SubmitOrRefused, Machine, W!Fields,
      W!VMs, W!ConsoleOps
<1>8. CASE W!PanelSubmit
  BY <1>8 DEF W!PanelSubmit, W!AtRest, Machine, W!Fields, W!VMs, W!ConsoleOps
<1>9. CASE W!PanelPoll
  BY <1>9 DEF W!PanelPoll, W!Polling, Machine, W!Fields, W!VMs, W!ConsoleOps
<1>10. CASE W!ReplayChosen
  BY <1>10 DEF W!ReplayChosen, W!Polling, W!SubmitOrRefused, Machine, W!Fields, W!VMs,
      W!ConsoleOps
<1>11. CASE W!Cancel
  BY <1>11 DEF W!Cancel, Machine, W!Fields, W!VMs, W!ConsoleOps
<1>12. CASE W!CloseStops
  BY <1>12 DEF W!CloseStops, W!Alive, W!CloseAttachment, W!Polling, W!release, Machine,
      W!Fields, W!VMs, W!ConsoleOps
<1>13. CASE W!Start
  BY <1>13 DEF W!Start, Machine, W!Fields, W!VMs, W!ConsoleOps
<1>14. CASE W!WorkEnds
  BY <1>14 DEF W!WorkEnds, Machine, W!Fields, W!VMs, W!ConsoleOps
<1>15. CASE W!BootChecks
  BY <1>15 DEF W!BootChecks, W!MayBoot, W!Alive, Machine, W!Fields, W!VMs, W!ConsoleOps
<1>16. CASE W!BootSpawns
  BY <1>16 DEF W!BootSpawns, W!VMs, Machine, W!Fields, W!ConsoleOps
<1>17. CASE W!BootEnds
  BY <1>17 DEF W!BootEnds, Machine, W!Fields, W!VMs, W!ConsoleOps
<1>18. CASE W!ConsoleOpens
  BY <1>18 DEF W!ConsoleOpens, W!Alive, W!ConsoleOps, Machine, W!Fields, W!VMs
<1>19. CASE W!ConsoleEnds
  BY <1>19 DEF W!ConsoleEnds, Machine, W!Fields, W!VMs, W!ConsoleOps
<1>20. CASE W!ForcedStop
  BY <1>20 DEF W!ForcedStop, W!Alive, Machine, W!Fields, W!VMs, W!ConsoleOps
<1>21. CASE W!PollAgent
  BY <1>21 DEF W!PollAgent, W!Polling, Machine, W!Fields, W!VMs, W!ConsoleOps
<1>22. CASE W!DrainRuns
  BY <1>22 DEF W!DrainRuns, W!Polling, W!agent_operation, W!ConsoleOps, W!Permitted,
      W!SubmitOrRefused, W!NonePending, W!require_guest_idle, W!require_no_replay, Machine,
      W!Fields, W!VMs
<1>23. CASE W!PollJobs
  BY <1>23 DEF W!PollJobs, W!Fields, W!Polling, Machine, W!VMs, W!ConsoleOps
<1>24. CASE W!PollExit
  BY <1>24 DEF W!PollExit, W!Alive, W!CancelReplay, W!NonePending, W!Polling, W!release,
      Machine, W!Fields, W!VMs, W!ConsoleOps
<1>25. CASE UNCHANGED <<field, runtime>>
  BY <1>25
<1> HIDE DEF WindowInv, BootsAlone, WindowShape, WorkAwaited
<1> QED BY <1>1, <1>2, <1>3, <1>4, <1>5, <1>6, <1>7, <1>8, <1>9, <1>10, <1>11, <1>12, <1>13,
      <1>14, <1>15, <1>16, <1>17, <1>18, <1>19, <1>20, <1>21, <1>22, <1>23, <1>24, <1>25
      DEF W!Next, W!Owner, W!Worker, W!Poll, W!start_replay, W!DialogDismissed, W!CloseAsks,
          W!CloseDiscards, W!CloseEnds, W!DrainTakes, W!DrainEnds, W!PollSerial, W!VMExits,
          W!Timeout, W!Request, W!machines, W!calls, W!window

LEMMA StaleIsPolledKept == WindowInv /\ W!Next => StaleIsPolled'
<1> SUFFICES ASSUME WindowInv, W!Next PROVE StaleIsPolled'
  OBVIOUS
<1> USE Working DEF WindowInv, BootsAlone, MachinesOwned, StaleIsPolled, WindowShape,
WorkAwaited,
      W!window, W!calls, W!machines
<1>1. CASE W!launch_locked
  BY <1>1 DEF W!launch_locked, W!AtRest, W!SubmitOrRefused, W!check_startable, W!NonePending,
      Stale, W!Alive, Machine, W!Fields, W!VMs, W!ConsoleOps, W!LiveIsOwned
<1>2. CASE W!control
  BY <1>2 DEF W!control, W!AtRest, W!SubmitOrRefused, W!require_no_replay, W!NonePending, Stale,
      W!Alive, Machine, W!Fields, W!VMs, W!ConsoleOps, W!LiveIsOwned
<1>3. CASE W!live_power
  BY <1>3 DEF W!live_power, W!Alive, W!AtRest, W!SubmitOrRefused, W!require_no_replay,
      W!NonePending, Stale, Machine, W!Fields, W!VMs, W!ConsoleOps, W!LiveIsOwned
<1>4. CASE W!start_guest_command
  BY <1>4 DEF W!start_guest_command, W!Alive, W!AtRest, W!SubmitOrRefused, W!release_serial,
      W!require_guest_idle, W!require_no_replay, W!NonePending, Stale, Machine, W!Fields, W!VMs,
      W!ConsoleOps, W!LiveIsOwned
<1>5. CASE W!poweroff
  BY <1>5 DEF W!poweroff, W!AtRest, W!SubmitOrRefused, W!release_serial, W!require_guest_idle,
      W!require_no_replay, W!NonePending, Stale, W!Alive, Machine, W!Fields, W!VMs,
      W!ConsoleOps, W!LiveIsOwned
<1>6. CASE W!start_host_task
  BY <1>6 DEF W!start_host_task, W!AtRest, W!NonePending, W!SubmitOrRefused,
      W!require_guest_idle, W!require_no_replay, Stale, W!Alive, Machine, W!Fields, W!VMs,
      W!ConsoleOps, W!LiveIsOwned
<1>7. CASE W!start_lifecycle
  BY <1>7 DEF W!start_lifecycle, W!AtRest, W!NonePending, W!SubmitOrRefused, Stale, W!Alive,
      Machine, W!Fields, W!VMs, W!ConsoleOps, W!LiveIsOwned
<1>8. CASE W!PanelSubmit
  BY <1>8 DEF W!PanelSubmit, W!AtRest, Stale, W!Alive, Machine, W!Fields, W!VMs, W!ConsoleOps,
      W!LiveIsOwned
<1>9. CASE W!PanelPoll
  BY <1>9 DEF W!PanelPoll, W!Polling, Stale, W!Alive, Machine, W!Fields, W!VMs, W!ConsoleOps,
      W!LiveIsOwned
<1>10. CASE W!ReplayChosen
  BY <1>10 DEF W!ReplayChosen, W!Polling, W!SubmitOrRefused, Stale, W!Alive, Machine, W!Fields,
      W!VMs, W!ConsoleOps, W!LiveIsOwned
<1>11. CASE W!Cancel
  BY <1>11 DEF W!Cancel, Stale, W!Alive, Machine, W!Fields, W!VMs, W!ConsoleOps, W!LiveIsOwned
<1>12. CASE W!CloseStops
  BY <1>12 DEF W!CloseStops, W!Alive, W!CloseAttachment, W!Polling, W!release, Stale, Machine,
      W!Fields, W!VMs, W!ConsoleOps, W!LiveIsOwned
<1>13. CASE W!CloseEnds
  BY <1>13 DEF W!CloseEnds, W!Alive, Stale, Machine, W!Fields, W!VMs, W!ConsoleOps,
      W!LiveIsOwned
<1>14. CASE W!Start
  BY <1>14 DEF W!Start, Stale, W!Alive, Machine, W!Fields, W!VMs, W!ConsoleOps, W!LiveIsOwned
<1>15. CASE W!WorkEnds
  BY <1>15 DEF W!WorkEnds, Stale, W!Alive, Machine, W!Fields, W!VMs, W!ConsoleOps, W!LiveIsOwned
<1>16. CASE W!BootChecks
  BY <1>16 DEF W!BootChecks, W!MayBoot, W!Alive, Stale, Machine, W!Fields, W!VMs, W!ConsoleOps,
      W!LiveIsOwned
<1>17. CASE W!BootSpawns
  BY <1>17 DEF W!BootSpawns, W!VMs, Stale, W!Alive, Machine, W!Fields, W!ConsoleOps,
      W!LiveIsOwned
<1>18. CASE W!BootEnds
  BY <1>18 DEF W!BootEnds, Stale, W!Alive, Machine, W!Fields, W!VMs, W!ConsoleOps, W!LiveIsOwned
<1>19. CASE W!ConsoleOpens
  BY <1>19 DEF W!ConsoleOpens, W!Alive, W!ConsoleOps, Stale, Machine, W!Fields, W!VMs,
      W!LiveIsOwned
<1>20. CASE W!ConsoleEnds
  BY <1>20 DEF W!ConsoleEnds, Stale, W!Alive, Machine, W!Fields, W!VMs, W!ConsoleOps,
      W!LiveIsOwned
<1>21. CASE W!ForcedStop
  BY <1>21 DEF W!ForcedStop, W!Alive, Stale, Machine, W!Fields, W!VMs, W!ConsoleOps,
      W!LiveIsOwned
<1>22. CASE W!PollAgent
  BY <1>22 DEF W!PollAgent, W!Polling, Stale, W!Alive, Machine, W!Fields, W!VMs, W!ConsoleOps,
      W!LiveIsOwned
<1>23. CASE W!DrainRuns
  BY <1>23 DEF W!DrainRuns, W!Polling, W!agent_operation, W!ConsoleOps, W!Permitted,
      W!SubmitOrRefused, W!NonePending, W!require_guest_idle, W!require_no_replay, Stale,
      W!Alive, Machine, W!Fields, W!VMs, W!LiveIsOwned
<1>24. CASE W!DrainEnds
  BY <1>24 DEF W!DrainEnds, W!Polling, Stale, W!Alive, Machine, W!Fields, W!VMs, W!ConsoleOps,
      W!LiveIsOwned
<1>25. CASE W!PollJobs
  BY <1>25 DEF W!PollJobs, W!Fields, W!Polling, Stale, W!Alive, Machine, W!VMs, W!ConsoleOps,
      W!LiveIsOwned
<1>26. CASE W!PollSerial
  BY <1>26 DEF W!PollSerial, W!Alive, W!MayConnect, W!Polling, W!NonePending, Stale, Machine,
      W!Fields, W!VMs, W!ConsoleOps, W!LiveIsOwned
<1>27. CASE W!PollExit
  BY <1>27 DEF W!PollExit, W!Alive, W!CancelReplay, W!NonePending, W!Polling, W!release, Stale,
      Machine, W!Fields, W!VMs, W!ConsoleOps, W!LiveIsOwned
<1>28. ASSUME NEW v \in W!VMs, W!VMExits(v) PROVE StaleIsPolled'
  BY <1>28 DEF W!VMExits, W!Alive, Stale, Machine, W!Fields, W!VMs, W!ConsoleOps, W!LiveIsOwned
<1>29. CASE UNCHANGED <<field, owned, runtime, stage, vm>>
  BY <1>29 DEF Stale, W!Alive
<1> HIDE DEF WindowInv, BootsAlone, MachinesOwned, StaleIsPolled, WindowShape, WorkAwaited
<1> QED BY <1>1, <1>2, <1>3, <1>4, <1>5, <1>6, <1>7, <1>8, <1>9, <1>10, <1>11, <1>12, <1>13,
      <1>14, <1>15, <1>16, <1>17, <1>18, <1>19, <1>20, <1>21, <1>22, <1>23, <1>24, <1>25, <1>26,
      <1>27, <1>28, <1>29
      DEF W!Next, W!Owner, W!Worker, W!Poll, W!start_replay, W!DialogDismissed, W!CloseAsks,
          W!CloseDiscards, W!DrainTakes, W!Timeout, W!Request, W!machines, W!calls, W!window

LEMMA MachinesOwnedKept == WindowInv /\ W!Next => MachinesOwned'
<1> SUFFICES ASSUME WindowInv, W!Next PROVE MachinesOwned'
  OBVIOUS
<1> USE Working DEF WindowInv, BootsAlone, MachinesOwned, StaleIsPolled, WindowShape,
WorkAwaited,
      W!window, W!calls, W!machines
<1>1. CASE W!launch_locked
  BY <1>1 DEF W!launch_locked, W!AtRest, W!SubmitOrRefused, W!check_startable, W!NonePending,
      W!LiveIsOwned, W!Alive, W!VMs, Machine, W!Fields, W!ConsoleOps, Stale
<1>2. CASE W!control
  BY <1>2 DEF W!control, W!AtRest, W!SubmitOrRefused, W!require_no_replay, W!NonePending,
      W!LiveIsOwned, W!Alive, W!VMs, Machine, W!Fields, W!ConsoleOps, Stale
<1>3. CASE W!live_power
  BY <1>3 DEF W!live_power, W!Alive, W!AtRest, W!SubmitOrRefused, W!require_no_replay,
      W!NonePending, W!LiveIsOwned, W!VMs, Machine, W!Fields, W!ConsoleOps, Stale
<1>4. CASE W!start_guest_command
  BY <1>4 DEF W!start_guest_command, W!Alive, W!AtRest, W!SubmitOrRefused, W!release_serial,
      W!require_guest_idle, W!require_no_replay, W!NonePending, W!LiveIsOwned, W!VMs, Machine,
      W!Fields, W!ConsoleOps, Stale
<1>5. CASE W!poweroff
  BY <1>5 DEF W!poweroff, W!AtRest, W!SubmitOrRefused, W!release_serial, W!require_guest_idle,
      W!require_no_replay, W!NonePending, W!LiveIsOwned, W!Alive, W!VMs, Machine, W!Fields,
      W!ConsoleOps, Stale
<1>6. CASE W!start_host_task
  BY <1>6 DEF W!start_host_task, W!AtRest, W!NonePending, W!SubmitOrRefused,
      W!require_guest_idle, W!require_no_replay, W!LiveIsOwned, W!Alive, W!VMs, Machine,
      W!Fields, W!ConsoleOps, Stale
<1>7. CASE W!start_lifecycle
  BY <1>7 DEF W!start_lifecycle, W!AtRest, W!NonePending, W!SubmitOrRefused, W!LiveIsOwned,
      W!Alive, W!VMs, Machine, W!Fields, W!ConsoleOps, Stale
<1>8. CASE W!PanelSubmit
  BY <1>8 DEF W!PanelSubmit, W!AtRest, W!LiveIsOwned, W!Alive, W!VMs, Machine, W!Fields,
      W!ConsoleOps, Stale
<1>9. CASE W!ReplayChosen
  BY <1>9 DEF W!ReplayChosen, W!Polling, W!SubmitOrRefused, W!LiveIsOwned, W!Alive, W!VMs,
      Machine, W!Fields, W!ConsoleOps, Stale
<1>10. CASE W!Cancel
  BY <1>10 DEF W!Cancel, W!LiveIsOwned, W!Alive, W!VMs, Machine, W!Fields, W!ConsoleOps, Stale
<1>11. CASE W!CloseDiscards
  BY <1>11 DEF W!CloseDiscards, W!CloseAttachment, W!Polling, W!LiveIsOwned, W!Alive, W!VMs,
      Machine, W!Fields, W!ConsoleOps, Stale
<1>12. CASE W!CloseStops
  <2>1. UNCHANGED <<disowned, work>> /\ life # "closed" /\ life' # "closed"
    BY <1>12 DEF W!CloseStops, W!Polling, W!CloseAttachment
  <2>2. CASE W!Alive(runtime)
    <3>1. runtime \in W!VMs /\ vm' = [vm EXCEPT ![runtime] = "exited"]
      BY <1>12, <2>2 DEF W!CloseStops, W!Alive, Machine
    <3>2. owned' = owned \/ owned = runtime
      BY <1>12, <2>2 DEF W!CloseStops, W!release
    <3>3. \A v \in W!VMs : W!Alive(v)' => W!Alive(v) /\ v # runtime
      BY <3>1 DEF W!Alive
    <3> QED BY <2>1, <2>2, <3>2, <3>3 DEF W!LiveIsOwned
  <2>3. CASE UNCHANGED <<vm, owned>>
    BY <2>1, <2>3 DEF W!LiveIsOwned, W!Alive
  <2> QED BY <1>12, <2>2, <2>3 DEF W!CloseStops
<1>13. CASE W!CloseEnds
  BY <1>13 DEF W!CloseEnds, W!Alive, W!LiveIsOwned, W!VMs, Machine, W!Fields, W!ConsoleOps,
      Stale
<1>14. CASE W!Start
  BY <1>14 DEF W!Start, W!LiveIsOwned, W!Alive, W!VMs, Machine, W!Fields, W!ConsoleOps, Stale
<1>15. CASE W!WorkEnds
  BY <1>15 DEF W!WorkEnds, W!LiveIsOwned, W!Alive, W!VMs, Machine, W!Fields, W!ConsoleOps, Stale
<1>16. CASE W!BootChecks
  BY <1>16 DEF W!BootChecks, W!MayBoot, W!Alive, W!LiveIsOwned, W!VMs, Machine, W!Fields,
      W!ConsoleOps, Stale
<1>17. CASE W!BootSpawns
  <2>1. CASE UNCHANGED <<vm, owned>> /\ W!JobDone
    BY <1>17, <2>1 DEF W!BootSpawns, W!LiveIsOwned, W!Alive
  <2>2. ASSUME NEW v \in W!VMs, \A u \in W!VMs : vm[u] # "alive",
               vm' = [vm EXCEPT ![v] = "alive"],
               owned' = v, W!ThenStep("booting", v)
        PROVE  MachinesOwned'
    <3>1. \A u \in W!VMs : W!Alive(u)' => u = v
      BY <2>2 DEF W!Alive
    <3>2. life # "closed" /\ UNCHANGED <<life, disowned>>
      BY <1>17 DEF W!BootSpawns
    <3> QED BY <2>2, <3>1, <3>2 DEF W!LiveIsOwned
  <2> QED BY <1>17, <2>1, <2>2 DEF W!BootSpawns
<1>18. CASE W!BootEnds
  BY <1>18 DEF W!BootEnds, W!LiveIsOwned, W!Alive, W!VMs, Machine, W!Fields, W!ConsoleOps, Stale
<1>19. CASE W!ConsoleOpens
  BY <1>19 DEF W!ConsoleOpens, W!Alive, W!ConsoleOps, W!LiveIsOwned, W!VMs, Machine, W!Fields,
      Stale
<1>20. CASE W!ConsoleEnds
  <2>1. UNCHANGED <<disowned, owned, life>> /\ work' = W!NoJob
    BY <1>20 DEF W!ConsoleEnds
  <2>2. \A v \in W!VMs : W!Alive(v)' => W!Alive(v)
    BY <1>20 DEF W!ConsoleEnds, W!Alive
  <2> QED BY <2>1, <2>2 DEF W!LiveIsOwned
<1>21. CASE W!ForcedStop
  BY <1>21 DEF W!ForcedStop, W!Alive, W!LiveIsOwned, W!VMs, Machine, W!Fields, W!ConsoleOps,
      Stale
<1>22. CASE W!DrainRuns
  BY <1>22 DEF W!DrainRuns, W!Polling, W!agent_operation, W!ConsoleOps, W!Permitted,
      W!SubmitOrRefused, W!NonePending, W!require_guest_idle, W!require_no_replay,
      W!LiveIsOwned, W!Alive, W!VMs, Machine, W!Fields, Stale
<1>23. CASE W!PollExit
  BY <1>23 DEF W!PollExit, W!Alive, W!CancelReplay, W!NonePending, W!Polling, W!release,
      W!LiveIsOwned, W!VMs, Machine, W!Fields, W!ConsoleOps, Stale
<1>24. ASSUME NEW v \in W!VMs, W!VMExits(v) PROVE MachinesOwned'
  BY <1>24 DEF W!VMExits, W!Alive, W!LiveIsOwned, W!VMs, Machine, W!Fields, W!ConsoleOps, Stale
<1>25. CASE UNCHANGED <<disowned, life, owned, vm, work>>
  BY <1>25 DEF W!LiveIsOwned, W!Alive, W!VMs
<1> HIDE DEF WindowInv, BootsAlone, MachinesOwned, StaleIsPolled, WindowShape, WorkAwaited
<1> QED BY <1>1, <1>2, <1>3, <1>4, <1>5, <1>6, <1>7, <1>8, <1>9, <1>10, <1>11, <1>12, <1>13,
      <1>14, <1>15, <1>16, <1>17, <1>18, <1>19, <1>20, <1>21, <1>22, <1>23, <1>24, <1>25
      DEF W!Next, W!Owner, W!Worker, W!Poll, W!PanelPoll, W!start_replay, W!DialogDismissed,
          W!CloseAsks, W!PollAgent, W!DrainTakes, W!DrainEnds, W!PollJobs, W!PollSerial,
          W!Timeout, W!Request, W!machines, W!window, W!calls

LEMMA NothingMeansNothingKept == WindowInv /\ W!Next => NothingMeansNothing'
<1> SUFFICES ASSUME WindowInv, W!Next PROVE NothingMeansNothing'
  OBVIOUS
<1> USE Working DEF WindowInv, NothingMeansNothing, WindowShape, W!window, W!calls, W!machines
<1>1. CASE W!CloseDiscards
  <2>1. CASE UNCHANGED <<future, told>>
    BY <2>1 DEF W!NothingMeansNothing
  <2>2. CASE W!CloseAttachment
    BY <2>2 DEF W!CloseAttachment, W!NothingMeansNothing
  <2> QED BY <1>1, <2>1, <2>2 DEF W!CloseDiscards
<1>2. CASE W!CloseStops
  <2>1. CASE UNCHANGED <<future, told>>
    BY <2>1 DEF W!NothingMeansNothing
  <2>2. CASE W!CloseAttachment
    BY <2>2 DEF W!CloseAttachment, W!NothingMeansNothing
  <2> QED BY <1>2, <2>1, <2>2 DEF W!CloseStops
<1>3. CASE W!Start
  BY <1>3 DEF W!Start, W!NothingMeansNothing, Machine, W!Fields, W!VMs
<1>4. CASE W!DrainTakes
  BY ZenonT(60), <1>4 DEF W!DrainTakes, W!MayRun, W!Polling, W!NothingMeansNothing, Machine,
       W!Fields, W!VMs
<1>5. CASE W!DrainRuns
  <2> DEFINE h == Head(queue).call
  <2>1. future[h] = "running" /\ future' = [future EXCEPT ![h] = "finished"]
    BY <1>5 DEF W!DrainRuns
  <2>2. \E x \in {"job", "refused"} : told' = [told EXCEPT ![h] = x]
    BY <1>5 DEF W!DrainRuns, W!agent_operation
  <2> HIDE DEF h
  <2> QED BY <2>1, <2>2 DEF W!NothingMeansNothing
<1>6. ASSUME NEW c \in Calls, W!Timeout(c) PROVE NothingMeansNothing'
  BY <1>6 DEF W!Timeout, W!Answer, W!NothingMeansNothing, Machine, W!Fields, W!VMs
<1>7. ASSUME NEW c \in Calls, NEW op \in W!AgentOps, W!Request(c, op) PROVE NothingMeansNothing'
  BY <1>7 DEF W!Request, W!Answer, W!NothingMeansNothing, Machine, W!Fields, W!VMs
<1>8. CASE UNCHANGED <<future, told>>
  BY <1>8 DEF W!NothingMeansNothing
<1> HIDE DEF WindowInv, NothingMeansNothing, WindowShape
<1> QED BY <1>1, <1>2, <1>3, <1>4, <1>5, <1>6, <1>7, <1>8
      DEF W!Next, W!Owner, W!Worker, W!Poll, W!launch_locked, W!control, W!live_power,
          W!start_guest_command, W!poweroff, W!start_host_task, W!start_lifecycle,
          W!PanelSubmit, W!PanelPoll, W!start_replay, W!ReplayChosen, W!DialogDismissed,
          W!Cancel, W!CloseAsks, W!CloseEnds, W!WorkEnds, W!BootChecks, W!BootSpawns,
          W!BootEnds, W!ConsoleOpens, W!ConsoleEnds, W!ForcedStop, W!PollAgent, W!DrainEnds,
          W!PollJobs, W!PollSerial, W!PollExit, W!VMExits, W!machines, W!calls, W!window


LEMMA WindowInvBegins == W!Init => WindowInv
<1> SUFFICES ASSUME W!Init PROVE WindowInv
  OBVIOUS
<1>1. WindowShape /\ WorkAwaited /\ BootsAlone /\ NothingMeansNothing
  BY Working DEF W!Init, WindowShape, WorkAwaited, BootsAlone, NothingMeansNothing,
     W!NothingMeansNothing, Machine, W!Fields
<1>2. MachinesOwned /\ StaleIsPolled
  BY Working DEF W!Init, MachinesOwned, StaleIsPolled, Stale, W!LiveIsOwned, W!Alive
<1> QED BY <1>1, <1>2 DEF WindowInv

LEMMA WindowInvKept == WindowInv /\ [W!Next]_(W!vars) => WindowInv'
<1> SUFFICES ASSUME WindowInv, [W!Next]_(W!vars) PROVE WindowInv'
  OBVIOUS
<1>1. CASE W!Next
  BY <1>1, WindowShapeKept, WorkAwaitedKept, BootsAloneKept, StaleIsPolledKept,
       MachinesOwnedKept,
     NothingMeansNothingKept DEF WindowInv
<1>2. CASE UNCHANGED W!vars
  BY <1>2 DEF WindowInv, WindowShape, WorkAwaited, BootsAlone, StaleIsPolled, Stale,
       MachinesOwned,
       NothingMeansNothing, W!NothingMeansNothing, W!LiveIsOwned, W!Alive, W!vars
<1> QED BY <1>1, <1>2

THEOREM WindowInvHolds == W!Spec => []WindowInv
  BY WindowInvBegins, WindowInvKept, PTL DEF W!Spec

(* While a worker's transaction runs on a console, the window is not       *)
(* connected to it, for any number of machines, agents and calls.          *)
THEOREM OneReader == W!Spec => []ConsoleExclusive
<1>1. WindowInv => ConsoleExclusive
  BY DEF WindowInv, WindowShape, WorkAwaited, ConsoleExclusive, W!ConsoleExclusive
<1> QED BY <1>1, WindowInvHolds, PTL

(* "Nothing started" stays true of the call it was told of.                *)
THEOREM NothingStaysNothing == W!Spec => []NothingMeansNothing
<1>1. WindowInv => NothingMeansNothing
  BY DEF WindowInv
<1> QED BY <1>1, WindowInvHolds, PTL

(* Every live machine is the controller's, or was left behind by a replay  *)
(* schedule that was chosen while the window held a dead one.              *)
THEOREM MachinesAreOwned == W!Spec => []LiveIsOwned
<1>1. WindowInv => LiveIsOwned
  BY DEF WindowInv, MachinesOwned, LiveIsOwned
<1> QED BY <1>1, WindowInvHolds, PTL

-----------------------------------------------------------------------------
(* The attachment (Attachment).                                            *)

Holding == {c \in Clients : conn[c] \in {"accepted", "serving", "ending"}}

SlotsHeld ==
  /\ DOMAIN conn = Clients
  /\ \A c \in Clients : conn[c] \in {"none", "backlog", "accepted", "serving", "ending", "over"}
  /\ slots \in Nat /\ IsFiniteSet(Holding)
  /\ slots + Cardinality(Holding) = MaxClients

(* One connection at a time is between the accept thread and its worker;   *)
(* a worker is known as long as it serves.                                 *)
AcceptsInTurn ==
  /\ \A c, d \in Clients : conn[c] = "accepted" /\ conn[d] = "accepted" => c = d
  /\ accepting = "ended" => \A c \in Clients : conn[c] # "accepted"
  /\ accepting \in {"alive", "stalled", "ended"} /\ (accepting = "stalled" => stalled)
  /\ workers = {c \in Clients : conn[c] \in {"serving", "ending"}}

(* From the closing of the queue on no call waits for the window, and from *)
(* the shutdown of the listener on nobody waits to be accepted.            *)
ClosesInOrder ==
  /\ DOMAIN call = Clients /\ joined \subseteq Clients
  /\ closing \notin {"no", "queue"} => ~ queueOpen /\ \A c \in Clients : call[c] # "pending"
  /\ A!Stopped => \A c \in Clients : conn[c] # "backlog"
  /\ closing # "stuck"
  /\ closing \in {"joined", "closed"} /\ ~ stalled => accepting = "ended"
     /\ workers \subseteq joined
  /\ closing = "closed" /\ ~ stalled => workers = {}

AttachmentInv == SlotsHeld /\ AcceptsInTurn /\ ClosesInOrder

(* A connection takes a slot, keeps it, or gives it back.                  *)
Connected == {"none", "backlog", "accepted", "serving", "ending", "over"}
Held == {"accepted", "serving", "ending"}

LEMMA SlotTaken ==
  ASSUME SlotsHeld, NEW c \in Clients, conn[c] \notin Held, NEW p \in Held, A!Goto(c, p),
         slots > 0, slots' = slots - 1
  PROVE  SlotsHeld'
<1>1. Holding' = Holding \cup {c} /\ c \notin Holding
  BY DEF SlotsHeld, Holding, Held, A!Goto
<1>2. IsFiniteSet(Holding') /\ Cardinality(Holding') = Cardinality(Holding) + 1
  BY <1>1, FS_AddElement DEF SlotsHeld
<1>3. Cardinality(Holding) \in Nat /\ slots' \in Nat
  BY FS_CardinalityType DEF SlotsHeld
<1>4. slots' + Cardinality(Holding') = MaxClients
  BY <1>2, <1>3 DEF SlotsHeld
<1> QED BY <1>2, <1>3, <1>4 DEF SlotsHeld, A!Goto, Held

LEMMA SlotGiven ==
  ASSUME SlotsHeld, NEW c \in Clients, conn[c] \in Held, NEW p \in Connected \ Held, A!Goto(c,
         p),
         slots' = slots + 1
  PROVE  SlotsHeld'
<1>1. Holding' = Holding \ {c} /\ c \in Holding
  BY DEF SlotsHeld, Holding, Held, A!Goto
<1>2. IsFiniteSet(Holding') /\ Cardinality(Holding') = Cardinality(Holding) - 1
  BY <1>1, FS_RemoveElement DEF SlotsHeld
<1>3. Cardinality(Holding) \in Nat /\ slots' \in Nat
  BY FS_CardinalityType DEF SlotsHeld
<1>4. slots' + Cardinality(Holding') = MaxClients
  BY <1>2, <1>3 DEF SlotsHeld
<1> QED BY <1>2, <1>3, <1>4 DEF SlotsHeld, A!Goto, Held, Connected

LEMMA SlotKept ==
  ASSUME SlotsHeld, NEW c \in Clients, NEW p \in Connected, A!Goto(c, p),
         conn[c] \in Held <=> p \in Held, UNCHANGED slots
  PROVE  SlotsHeld'
<1>1. Holding' = Holding
  BY DEF SlotsHeld, Holding, Held, A!Goto
<1> QED BY <1>1 DEF SlotsHeld, A!Goto, Connected

LEMMA SlotsHeldKept == AttachmentInv /\ A!Next => SlotsHeld'
<1> SUFFICES ASSUME AttachmentInv, A!Next PROVE SlotsHeld'
  OBVIOUS
<1> USE DEF AttachmentInv, SlotsHeld, A!thread, A!listener, A!owner
<1>1. ASSUME NEW c \in Clients, A!Connect(c) PROVE SlotsHeld'
  <2> HIDE DEF SlotsHeld
  <2> QED BY <1>1, SlotKept DEF A!Connect, A!Reading, Held, Connected
<1>2. ASSUME NEW c \in Clients, A!Accept(c) PROVE SlotsHeld'
  <2>1. CASE slots > 0
    BY <1>2, <2>1, SlotTaken DEF A!Accept, Held
  <2>2. CASE ~ (slots > 0)
    BY <1>2, <2>2, SlotKept DEF A!Accept, Held, Connected
  <2> QED BY <2>1, <2>2
<1>3. ASSUME NEW c \in Clients, A!StartWorker(c) PROVE SlotsHeld'
  <2>1. CASE A!Goto(c, "serving") /\ UNCHANGED slots
    BY <1>3, <2>1, SlotKept DEF A!StartWorker, Held, Connected
  <2>2. CASE A!Goto(c, "over") /\ slots' = slots + 1
    BY <1>3, <2>2, SlotGiven DEF A!StartWorker, Held, Connected
  <2> QED BY <1>3, <2>1, <2>2 DEF A!StartWorker
<1>4. ASSUME NEW c \in Clients, A!Reply(c) PROVE SlotsHeld'
  <2>1. CASE UNCHANGED conn
    BY <1>4, <2>1 DEF A!Reply, Holding
  <2>2. CASE A!Goto(c, "ending")
    BY <1>4, <2>2, SlotKept DEF A!Reply, Held, Connected
  <2> QED BY <1>4, <2>1, <2>2 DEF A!Reply
<1>5. ASSUME NEW c \in Clients, A!Disconnected(c) PROVE SlotsHeld'
  <2> HIDE DEF SlotsHeld
  <2> QED BY <1>5, SlotKept DEF A!Disconnected, A!Reading, Held, Connected
<1>6. ASSUME NEW c \in Clients, A!EndServing(c) PROVE SlotsHeld'
  <2> HIDE DEF SlotsHeld
  <2> QED BY <1>6, SlotGiven DEF A!EndServing, A!Reading, Held, Connected
<1>7. CASE A!StopListening
  <2>1. Holding' = Holding
    BY <1>7 DEF A!StopListening, Holding
  <2> QED BY <1>7, <2>1 DEF A!StopListening
<1>8. CASE UNCHANGED <<conn, slots>>
  BY <1>8 DEF Holding
<1> HIDE DEF AttachmentInv, SlotsHeld
<1> QED BY <1>1, <1>2, <1>3, <1>4, <1>5, <1>6, <1>7, <1>8
      DEF A!Next, A!Serve, A!Close, A!Initialize, A!Initialized, A!CallTool, A!OwnerRuns,
          A!CallTimesOut, A!AcceptStops, A!AcceptStalls, A!AcceptResumes, A!BeginClose,
          A!CloseQueue, A!JoinAccept, A!JoinWorkers, A!listener, A!owner, A!thread

LEMMA AcceptsInTurnKept == AttachmentInv /\ A!Next => AcceptsInTurn'
<1> SUFFICES ASSUME AttachmentInv, A!Next PROVE AcceptsInTurn'
  OBVIOUS
<1> USE DEF AttachmentInv, AcceptsInTurn, SlotsHeld, A!thread, A!listener, A!owner
<1>1. ASSUME NEW c \in Clients, A!Connect(c) PROVE AcceptsInTurn'
  BY <1>1 DEF A!Connect, A!Goto, A!Stopped, Holding
<1>2. ASSUME NEW c \in Clients, A!Accept(c) PROVE AcceptsInTurn'
  BY <1>2 DEF A!Accept, A!Goto, Holding
<1>3. ASSUME NEW c \in Clients, A!StartWorker(c) PROVE AcceptsInTurn'
  BY <1>3 DEF A!StartWorker, A!Goto, Holding
<1>4. ASSUME NEW c \in Clients, A!Reply(c) PROVE AcceptsInTurn'
  BY <1>4 DEF A!Reply, A!Goto, Holding
<1>5. ASSUME NEW c \in Clients, A!Disconnected(c) PROVE AcceptsInTurn'
  BY <1>5 DEF A!Disconnected, A!Goto, A!Reading, Holding
<1>6. ASSUME NEW c \in Clients, A!EndServing(c) PROVE AcceptsInTurn'
  BY <1>6 DEF A!EndServing, A!Goto, Holding
<1>7. CASE A!AcceptStops
  BY <1>7 DEF A!AcceptStops, A!Stopped, Holding
<1>8. CASE A!AcceptStalls
  BY <1>8 DEF A!AcceptStalls, Holding
<1>9. CASE A!AcceptResumes
  BY <1>9 DEF A!AcceptResumes, Holding
<1>10. CASE A!StopListening
  BY <1>10 DEF A!StopListening, Holding
<1>11. CASE UNCHANGED <<accepting, conn, stalled, workers>>
  BY <1>11
<1> HIDE DEF AttachmentInv, AcceptsInTurn, SlotsHeld
<1> QED BY <1>1, <1>2, <1>3, <1>4, <1>5, <1>6, <1>7, <1>8, <1>9, <1>10, <1>11
      DEF A!Next, A!Serve, A!Close, A!Initialize, A!Initialized, A!CallTool, A!OwnerRuns,
          A!CallTimesOut, A!BeginClose, A!CloseQueue, A!JoinAccept, A!JoinWorkers, A!listener,
          A!owner, A!thread

LEMMA ClosesInOrderKept == AttachmentInv /\ A!Next => ClosesInOrder'
<1> SUFFICES ASSUME AttachmentInv, A!Next PROVE ClosesInOrder'
  OBVIOUS
<1> USE DEF AttachmentInv, AcceptsInTurn, ClosesInOrder, SlotsHeld, A!thread, A!listener,
      A!owner
<1>1. ASSUME NEW c \in Clients, A!Connect(c) PROVE ClosesInOrder'
  BY <1>1 DEF A!Connect, A!Goto, A!Stopped, Holding
<1>2. ASSUME NEW c \in Clients, A!Accept(c) PROVE ClosesInOrder'
  BY <1>2 DEF A!Accept, A!Goto, A!Stopped, Holding
<1>3. ASSUME NEW c \in Clients, A!StartWorker(c) PROVE ClosesInOrder'
  BY <1>3 DEF A!StartWorker, A!Goto, A!Stopped, Holding
<1>4. ASSUME NEW c \in Clients, A!CallTool(c) PROVE ClosesInOrder'
  BY <1>4 DEF A!CallTool, A!Reading, A!Stopped, Holding
<1>5. ASSUME NEW c \in Clients, A!OwnerRuns(c) PROVE ClosesInOrder'
  BY <1>5 DEF A!OwnerRuns, A!Stopped, Holding
<1>6. ASSUME NEW c \in Clients, A!CallTimesOut(c) PROVE ClosesInOrder'
  BY <1>6 DEF A!CallTimesOut, A!Stopped, Holding
<1>7. ASSUME NEW c \in Clients, A!Reply(c) PROVE ClosesInOrder'
  BY <1>7 DEF A!Reply, A!Goto, A!Stopped, Holding
<1>8. ASSUME NEW c \in Clients, A!Disconnected(c) PROVE ClosesInOrder'
  BY <1>8 DEF A!Disconnected, A!Goto, A!Reading, A!Stopped, Holding
<1>9. ASSUME NEW c \in Clients, A!EndServing(c) PROVE ClosesInOrder'
  BY <1>9 DEF A!EndServing, A!Goto, A!Stopped, Holding
<1>10. CASE A!AcceptStops
  BY <1>10 DEF A!AcceptStops, A!Stopped, Holding
<1>11. CASE A!AcceptStalls
  BY <1>11 DEF A!AcceptStalls, A!Stopped, Holding
<1>12. CASE A!AcceptResumes
  BY <1>12 DEF A!AcceptResumes, A!Stopped, Holding
<1>13. CASE A!BeginClose
  BY <1>13 DEF A!BeginClose, A!Stopped, Holding
<1>14. CASE A!CloseQueue
  BY <1>14 DEF A!CloseQueue, A!Stopped, Holding
<1>15. CASE A!StopListening
  BY <1>15 DEF A!StopListening, A!Stopped, Holding
<1>16. CASE A!JoinAccept
  BY <1>16 DEF A!JoinAccept, A!Stopped, Holding
<1>17. CASE A!JoinWorkers
  <2>1. A!Stopped /\ \A c \in Clients : call[c] # "pending"
    BY <1>17 DEF A!JoinWorkers, A!Stopped
  <2>2. \A c \in joined : c \in Clients => conn[c] = "over"
    BY <1>17, <2>1 DEF A!JoinWorkers, A!Stuck
  <2>3. closing = "joined"
        /\ UNCHANGED <<conn, call, workers, accepting, stalled, joined, queueOpen>>
    BY <1>17 DEF A!JoinWorkers
  <2>4. ~ stalled => accepting = "ended" /\ workers = {}
    <3> SUFFICES ASSUME ~ stalled, NEW c \in workers PROVE FALSE
      BY <2>3
    <3>1. c \in joined /\ c \in Clients /\ conn[c] \in {"serving", "ending"}
      BY <2>3
    <3> QED BY <2>2, <3>1
  <2>5. closing' \in {"late", "closed"} \/ (closing' = "stuck" /\ \E c \in joined : A!Stuck(c))
    BY <1>17 DEF A!JoinWorkers
  <2>6. ~ \E c \in joined : A!Stuck(c)
    BY <2>1 DEF A!Stuck
  <2> QED BY <2>1, <2>3, <2>4, <2>5, <2>6 DEF A!Stopped
<1>18. CASE UNCHANGED <<accepting, call, closing, conn, joined, queueOpen, stalled, workers>>
  BY <1>18 DEF A!Stopped
<1> HIDE DEF AttachmentInv, AcceptsInTurn, ClosesInOrder, SlotsHeld
<1> QED BY <1>1, <1>2, <1>3, <1>4, <1>5, <1>6, <1>7, <1>8, <1>9, <1>10, <1>11, <1>12, <1>13,
      <1>14, <1>15, <1>16, <1>17, <1>18
      DEF A!Next, A!Serve, A!Close, A!Initialize, A!Initialized, A!listener, A!owner


LEMMA AttachmentInvBegins == A!Init => AttachmentInv
<1> SUFFICES ASSUME A!Init PROVE AttachmentInv
  OBVIOUS
<1>1. Holding = {}
  BY DEF A!Init, Holding
<1>2. IsFiniteSet(Holding) /\ Cardinality(Holding) = 0
  BY <1>1, FS_EmptySet
<1>3. SlotsHeld
  BY <1>2, AttachmentAssumption DEF A!Init, SlotsHeld, A!ListenerAssumption
<1>4. AcceptsInTurn /\ ClosesInOrder
  BY DEF A!Init, AcceptsInTurn, ClosesInOrder, A!Stopped
<1> QED BY <1>3, <1>4 DEF AttachmentInv

LEMMA AttachmentInvKept == AttachmentInv /\ [A!Next]_(A!vars) => AttachmentInv'
<1> SUFFICES ASSUME AttachmentInv, [A!Next]_(A!vars) PROVE AttachmentInv'
  OBVIOUS
<1>1. CASE A!Next
  BY <1>1, SlotsHeldKept, AcceptsInTurnKept, ClosesInOrderKept DEF AttachmentInv
<1>2. CASE UNCHANGED A!vars
  BY <1>2 DEF AttachmentInv, SlotsHeld, Holding, AcceptsInTurn, ClosesInOrder, A!Stopped, A!vars
<1> QED BY <1>1, <1>2

(* For any number of agents and slots: whatever cannot start, disconnects, *)
(* idles out or is closed, no slot is lost, closing never waits for the    *)
(* window itself, and it leaves nobody connected.                          *)
THEOREM ConnectionsAlwaysEnd == A!Spec => []ConnectionsEnd
<1>1. AttachmentInv => ConnectionsEnd
  <2> SUFFICES ASSUME AttachmentInv PROVE A!SlotsConserved /\ A!CloseIsClean
    BY DEF ConnectionsEnd, A!ConnectionsEnd
  <2>1. A!SlotsConserved
    <3>1. slots + Cardinality(Holding) = MaxClients
      BY DEF AttachmentInv, SlotsHeld
    <3>2. \A S : A!Cardinality(S) = Cardinality(S)
      BY DEF A!Cardinality, Cardinality
    <3> QED BY <3>1, <3>2, Zenon DEF Holding, A!SlotsConserved
  <2>2. ASSUME closing = "closed", ~ stalled PROVE workers = {}
               /\ \A c \in Clients : conn[c] \in {"none", "over"}
    <3>1. workers = {} /\ accepting = "ended" /\ A!Stopped
      BY <2>2 DEF AttachmentInv, ClosesInOrder, A!Stopped
    <3>2. \A c \in Clients : conn[c] \notin {"accepted", "serving", "ending", "backlog"}
      BY <3>1 DEF AttachmentInv, AcceptsInTurn, ClosesInOrder
    <3> QED BY <3>1, <3>2 DEF AttachmentInv, SlotsHeld
  <2> QED BY <2>1, <2>2 DEF AttachmentInv, ClosesInOrder, A!CloseIsClean
<1> QED BY <1>1, AttachmentInvBegins, AttachmentInvKept, PTL DEF A!Spec

-----------------------------------------------------------------------------
(* The setup (Startup).                                                    *)

WorkerSet == 1 .. MaxKills + 1
Doing(w, role) == procs[w].role = role
Beyond(w, role) == procs[w].role = role /\ procs[w].at \in {2, 3, 4}

SetupShape ==
  /\ DOMAIN procs = WorkerSet
  /\ \A w \in WorkerSet : DOMAIN procs[w] = {"role", "at", "owned", "opt"}
     /\ procs[w].at \in Nat
  /\ DOMAIN ws = {"base", "overlay", "json"}
     /\ ws.json \in {"none", "part", "prepared", "desktop"}
  /\ DOMAIN flow = {"active", "cancelled", "custom", "job"}
  /\ flow.job \in {"", "import", "desktop", "boot"}
  /\ DOMAIN child = {"role", "state"} /\ DOMAIN host = {"missing", "built"}

(* One import fills the directory, machine.json last.                      *)
ImportSteps ==
  /\ \A v, w \in WorkerSet : Beyond(v, "import") /\ Beyond(w, "import") => v = w
  /\ \A w \in WorkerSet : Beyond(w, "import") =>
       /\ ws.base # "none"
       /\ ws.json = IF procs[w].at = 4 THEN "part" ELSE "none"
       /\ procs[w].at # 2 => ws.base = "whole"
       /\ procs[w].at = 4 => ws.overlay # "none"

(* One desktop is configured at a time, in a prepared workspace.           *)
DesktopSteps ==
  /\ \A v, w \in WorkerSet : Beyond(v, "desktop") /\ Beyond(w, "desktop") => v = w
  /\ \A w \in WorkerSet : Doing(w, "desktop") => ws.json \in {"prepared", "desktop"}
  /\ \A w \in WorkerSet : Beyond(w, "desktop") =>
       /\ ws.json = "prepared" /\ guest # "boot"
       /\ procs[w].at # 2 => ws.overlay = "desktop"

(* The window waits for one thing: a process, or a job of an active run.   *)
WaitsForOne ==
  /\ \A w \in WorkerSet : procs[w].owned /\ Doing(w, "download") =>
       child.role = "download" /\ child.state = "running"
  /\ \A v, w \in WorkerSet : /\ procs[v].owned /\ Doing(v, "download")
                            /\ procs[w].owned /\ Doing(w, "download") => v = w
  /\ flow.cancelled \/ flow.job # "" => flow.active
  /\ flow.job # "" =>
       /\ child = U!NoProcess /\ host.built /\ {"packages", "emulator"} \subseteq passed
       /\ flow.job = "import" => flow.custom \/ "image" \in passed
  /\ flow.job = "boot" => ws.json = "desktop"
  /\ flow.job = "desktop" => ws.json \in {"prepared", "desktop"}

SetupInv ==
  SetupShape /\ ImportSteps /\ DesktopSteps /\ WaitsForOne /\ PreparedIsWhole


(* What one step does to the workers: one begins, goes on, or ends.        *)
Rest(w) == /\ DOMAIN procs' = DOMAIN procs
           /\ \A v \in DOMAIN procs \ {w} : procs'[v] = procs[v]
           /\ DOMAIN procs'[w] = {"role", "at", "owned", "opt"} /\ procs'[w].at \in Nat
Begun(role) ==
  \E w \in WorkerSet :
    Rest(w) /\ procs[w].role = "" /\ procs'[w].role = role /\ procs'[w].at = 1
Gone(w) ==
  /\ Rest(w) /\ procs'[w].role = procs[w].role /\ procs'[w].owned = procs[w].owned
  /\ procs'[w].at = procs[w].at + 1 /\ UNCHANGED child
Over(w) ==
  /\ Rest(w) /\ procs'[w].role = "" /\ DOMAIN child' = {"role", "state"}
  /\ (procs[w].owned /\ Doing(w, "download")) \/ UNCHANGED child

LEMMA Workings ==
  /\ U!NoProcess.state = "" /\ DOMAIN U!NoProcess = {"role", "state"}
  /\ U!NoFlow.job = "" /\ U!NoFlow.active = FALSE /\ U!NoFlow.cancelled = FALSE
  /\ DOMAIN U!NoFlow = {"active", "cancelled", "custom", "job"}
  /\ \A role, opt : SetupShape /\ U!Begins(role, opt) => Begun(role)
  /\ \A w \in WorkerSet : SetupShape /\ U!Goes(w) => Gone(w)
  /\ \A s : \A w \in WorkerSet : SetupShape /\ U!Ended(w, s) => Over(w)
     /\ child'.state \in {s, child.state}
<1>1. U!NoProcess.state = "" /\ DOMAIN U!NoProcess = {"role", "state"}
  BY DEF U!NoProcess
<1>2. /\ U!NoFlow.job = "" /\ U!NoFlow.active = FALSE /\ U!NoFlow.cancelled = FALSE
      /\ DOMAIN U!NoFlow = {"active", "cancelled", "custom", "job"}
  BY DEF U!NoFlow
<1>0. /\ U!NoWorker.role = "" /\ U!NoWorker.at = 0
      /\ DOMAIN U!NoWorker = {"role", "at", "owned", "opt"}
  BY DEF U!NoWorker
<1>3. ASSUME NEW role, NEW opt, SetupShape, U!Begins(role, opt) PROVE Begun(role)
  <2>1. PICK w \in DOMAIN procs :
          /\ procs[w] = U!NoWorker
          /\ procs' = [procs EXCEPT ![w] = [role |-> role, at |-> 1, owned |-> TRUE,
             opt |-> opt]]
    BY <1>3 DEF U!Begins
  <2>2. procs[w].role = ""
    BY <2>1, <1>0
  <2>3. procs'[w] = [role |-> role, at |-> 1, owned |-> TRUE, opt |-> opt]
    BY <2>1
  <2>4. \A v \in DOMAIN procs \ {w} : procs'[v] = procs[v]
    BY <2>1
  <2>5. DOMAIN procs'[w] = {"role", "at", "owned", "opt"} /\ procs'[w].at = 1
        /\ procs'[w].role = role
    BY <2>3
  <2>6. w \in WorkerSet /\ DOMAIN procs' = DOMAIN procs
    BY <1>3, <2>1 DEF SetupShape
  <2>7. Rest(w)
    BY <2>4, <2>5, <2>6 DEF Rest
  <2> QED BY <2>2, <2>5, <2>6, <2>7 DEF Begun
<1>4. ASSUME NEW w \in WorkerSet, SetupShape, U!Goes(w) PROVE Gone(w)
  <2>1. procs' = [procs EXCEPT ![w].at = procs[w].at + 1] /\ UNCHANGED child
    BY <1>4 DEF U!Goes
  <2>2. /\ w \in DOMAIN procs /\ DOMAIN procs[w] = {"role", "at", "owned", "opt"}
        /\ procs[w].at \in Nat
    BY <1>4 DEF SetupShape
  <2>3. procs'[w] = [procs[w] EXCEPT !.at = procs[w].at + 1]
    BY <2>1, <2>2
  <2> QED BY <2>1, <2>2, <2>3 DEF Gone, Rest
<1>5. ASSUME NEW w \in WorkerSet, NEW s, SetupShape, U!Ended(w, s)
      PROVE  Over(w) /\ child'.state \in {s, child.state}
  <2>1. w \in DOMAIN procs /\ DOMAIN child = {"role", "state"}
    BY <1>5 DEF SetupShape
  <2>2. procs' = [procs EXCEPT ![w] = U!NoWorker]
    BY <1>5 DEF U!Ended
  <2>3. child' = child \/ (procs[w].owned /\ Doing(w, "download")
        /\ child' = [child EXCEPT !.state = s])
    BY <1>5 DEF U!Ended, Doing
  <2>4. DOMAIN child' = {"role", "state"} /\ child'.state \in {s, child.state}
    BY <2>1, <2>3
  <2>5. procs'[w].role = "" /\ procs'[w].at = 0
        /\ DOMAIN procs'[w] = {"role", "at", "owned", "opt"}
    BY <2>1, <2>2, <1>0
  <2>6. DOMAIN procs' = DOMAIN procs /\ \A v \in DOMAIN procs \ {w} : procs'[v] = procs[v]
    BY <2>2
  <2>7. 0 \in Nat
    OBVIOUS
  <2>8. Rest(w)
    BY <2>5, <2>6, <2>7, Zenon DEF Rest
  <2> QED BY <2>3, <2>4, <2>5, <2>8 DEF Over
<1> QED BY <1>1, <1>2, <1>3, <1>4, <1>5

(* What a callback of the window leaves: nothing, a process of its own, a  *)
(* download, or a job for which everything is there.                       *)
Rested == flow' = U!NoFlow /\ child' = U!NoProcess /\ UNCHANGED procs
Launched == flow.job = "" /\ UNCHANGED <<flow, procs>> /\ U!Launch(child'.role)
/\ child'.role # "download"
Downloads == flow.job = "" /\ UNCHANGED flow /\ U!Launch("download") /\ Begun("download")
Submitted ==
  /\ DOMAIN flow' = DOMAIN flow
  /\ flow'.active = flow.active /\ flow'.cancelled = flow.cancelled
     /\ flow'.custom = flow.custom
  /\ child' = U!NoProcess
  /\ host.built /\ {"packages", "emulator"} \subseteq passed'
  /\ \/ flow'.job = "import" /\ ws.json = "none" /\ (flow.custom \/ "image" \in passed')
        /\ Begun("import")
     \/ flow'.job = "desktop" /\ ws.json = "prepared" /\ Begun("desktop")
     \/ flow'.job = "boot" /\ ws.json = "desktop" /\ UNCHANGED procs
Turned == Rested \/ (~ flow.cancelled /\ (Launched \/ Downloads \/ (Submitted /\ flow.active)))

LEMMA Advances ==
  ASSUME SetupShape, NEW has, U!Advance(has), flow.active, flow.job = ""
         \/ {"packages", "emulator"} \subseteq has,
         flow.job # "" => host.built /\ (flow.job = "import" => flow.custom \/ "image" \in has)
                          /\ (flow.job \in {"desktop", "boot"} => ws.json # "none")
  PROVE  Turned /\ passed' = has
<1>0. passed' = has
  BY DEF U!Advance
<1>1. CASE flow.cancelled \/ U!NextStage(has) = "error"
  BY <1>0, <1>1 DEF U!Advance, U!Finish, Turned, Rested
<1> DEFINE s == U!NextStage(has)
<1>2. CASE ~ flow.cancelled /\ s \in {"check", "build", "probe"}
  <2>1. U!Launch(s) /\ UNCHANGED <<flow, procs>>
    BY <1>2 DEF U!Advance, U!Jobs
  <2>2. flow.job = ""
    BY <1>2 DEF U!NextStage
  <2> QED BY <1>0, <1>2, <2>1, <2>2 DEF Turned, Launched, U!Launch
<1>3. CASE ~ flow.cancelled /\ s = "download"
  <2>1. U!DownloadDefault
    BY <1>3 DEF U!Advance, U!Jobs
  <2>2. flow.job = ""
    BY <1>3 DEF U!NextStage, SetupShape
  <2>3. \A opt : U!Begins("download", opt) => Begun("download")
    BY Workings
  <2> QED BY <1>0, <1>3, <2>1, <2>2, <2>3 DEF Turned, Rested, Downloads, U!DownloadDefault,
       U!Finish
<1>4. CASE ~ flow.cancelled /\ s \in U!Jobs
  <2>1. U!Submit(s) \/ U!Finish
    BY <1>4 DEF U!Advance, U!Jobs
  <2>2. /\ {"packages", "emulator"} \subseteq has /\ host.built
        /\ s = "import" => ws.json = "none" /\ (flow.custom \/ "image" \in has)
        /\ s = "desktop" => ws.json = "prepared"
        /\ s = "boot" => ws.json = "desktop"
    BY <1>4 DEF U!NextStage, U!Jobs, SetupShape
  <2>3. CASE U!Finish
    BY <1>0, <2>3 DEF U!Finish, Turned, Rested
  <2>4. CASE U!Submit(s)
    <3>1. flow' = [flow EXCEPT !.job = s] /\ child' = U!NoProcess
      BY <2>4 DEF U!Submit
    <3>2. /\ DOMAIN flow' = DOMAIN flow /\ flow'.active = flow.active
             /\ flow'.custom = flow.custom
          /\ flow'.cancelled = flow.cancelled /\ flow'.job = s
      BY <3>1 DEF SetupShape
    <3>3. IF s = "boot" THEN UNCHANGED procs ELSE Begun(s)
      BY <2>4, Workings DEF U!Submit
    <3>4. s \in {"import", "desktop", "boot"}
      BY <1>4 DEF U!Jobs
    <3> HIDE DEF s
    <3>5. Submitted
      BY <1>0, <1>4, <2>2, <3>1, <3>2, <3>3, <3>4 DEF Submitted
    <3> QED BY <1>0, <1>4, <3>5 DEF Turned
  <2> QED BY <2>1, <2>3, <2>4
<1>5. s \in {"error", "check", "build", "probe", "download"} \cup U!Jobs
  BY DEF U!NextStage, U!Jobs
<1> QED BY <1>1, <1>2, <1>3, <1>4, <1>5

LEMMA Turns ==
  /\ SetupInv /\ U!Poll => Turned /\ UNCHANGED <<host, ws, guest>>
  /\ SetupInv /\ U!PollJob => Turned /\ UNCHANGED <<host, ws, guest>>
<1> USE Workings DEF SetupInv
<1>1. ASSUME SetupInv, U!Poll PROVE Turned /\ UNCHANGED <<host, ws, guest>>
  <2>1. flow.job = "" /\ UNCHANGED <<host, ws, guest>>
    BY <1>1 DEF U!Poll, WaitsForOne
  <2>2. CASE U!GiveUp
    BY <2>1, <2>2 DEF U!GiveUp, U!Finish, Turned, Rested
  <2>3. ASSUME ~ U!GiveUp PROVE ~ flow.cancelled
    BY <1>1, <2>3 DEF U!Poll, U!Stopping
  <2>4. CASE ~ flow.cancelled /\ U!InstallPackages
    BY <2>1, <2>4 DEF U!InstallPackages, U!Launch, Turned, Launched
  <2>5. ASSUME ~ flow.cancelled, NEW has, flow.active, U!Advance(has) PROVE Turned
    BY <1>1, <2>1, <2>5, Advances
  <2>6. ASSUME ~ flow.cancelled, NEW role, role # "download", U!Launch(role), UNCHANGED <<flow,
               procs>> PROVE Turned
    BY <2>1, <2>6 DEF U!Launch, Turned, Launched
  <2> QED BY <1>1, <2>1, <2>2, <2>3, <2>4, <2>5, <2>6 DEF U!Poll, U!NothingMissing
<1>2. ASSUME SetupInv, U!PollJob PROVE Turned /\ UNCHANGED <<host, ws, guest>>
  <2>1. flow.active /\ UNCHANGED <<host, ws, guest>>
    BY <1>2 DEF U!PollJob, WaitsForOne
  <2>2. CASE U!GiveUp
    BY <2>1, <2>2 DEF U!GiveUp, U!Finish, Turned, Rested
  <2>3. CASE U!Advance(passed) /\ flow.job # "boot"
    <3>1. flow.job = "desktop" => ws.json # "none"
      BY <1>2 DEF WaitsForOne
    <3> QED BY <1>2, <2>1, <2>3, <3>1, Advances DEF WaitsForOne
  <2> QED BY <1>2, <2>1, <2>2, <2>3 DEF U!PollJob
<1> QED BY <1>1, <1>2

LEMMA TurnShape ==
  SetupShape /\ Turned =>
    /\ DOMAIN flow' = {"active", "cancelled", "custom", "job"}
    /\ flow'.job \in {"", "import", "desktop", "boot"} /\ DOMAIN child' = {"role", "state"}
    /\ UNCHANGED procs \/ \E role : Begun(role)
<1> SUFFICES ASSUME SetupShape, Turned
             PROVE  /\ DOMAIN flow' = {"active", "cancelled", "custom", "job"}
                    /\ flow'.job \in {"", "import", "desktop", "boot"}
                       /\ DOMAIN child' = {"role", "state"}
                    /\ UNCHANGED procs \/ \E role : Begun(role)
  OBVIOUS
<1>1. CASE Rested
  BY <1>1, Workings DEF Rested
<1>2. CASE Launched
  BY <1>2 DEF Launched, U!Launch, SetupShape
<1>3. CASE Downloads
  BY <1>3 DEF Downloads, U!Launch, SetupShape
<1>4. CASE Submitted
  BY <1>4, Workings DEF Submitted, SetupShape
<1> QED BY <1>1, <1>2, <1>3, <1>4 DEF Turned

(* A start, by any button, and the death of the window.                    *)
LEMMA Starting ==
  ASSUME U!StartButton \/ U!WizardFinish \/ U!RequestBuild
  PROVE  /\ child = U!NoProcess /\ ~ flow.active
         /\ UNCHANGED <<procs, ws, guest, host>> /\ DOMAIN child' = {"role", "state"}
         /\ \/ UNCHANGED flow
            \/ /\ DOMAIN flow' = {"active", "cancelled", "custom", "job"}
               /\ flow'.job = "" /\ flow'.active = TRUE /\ flow'.cancelled = FALSE
<1>1. ASSUME NEW given, U!Begin(given)
      PROVE  /\ child = U!NoProcess /\ ~ flow.active
             /\ UNCHANGED <<procs, ws, guest, host>> /\ DOMAIN child' = {"role", "state"}
             /\ DOMAIN flow' = {"active", "cancelled", "custom", "job"}
             /\ flow'.job = "" /\ flow'.active = TRUE /\ flow'.cancelled = FALSE
  <2>1. child = U!NoProcess /\ ~ flow.active /\ UNCHANGED <<procs, ws, guest, host>>
    BY <1>1 DEF U!Begin, U!Startable, U!places
  <2>2. DOMAIN child' = {"role", "state"}
    BY <1>1 DEF U!Begin, U!Launch
  <2>3. PICK custom \in BOOLEAN :
          flow' = [active |-> TRUE, cancelled |-> FALSE, custom |-> custom, job |-> ""]
    BY <1>1 DEF U!Begin
  <2>4. /\ DOMAIN flow' = {"active", "cancelled", "custom", "job"}
        /\ flow'.job = "" /\ flow'.active = TRUE /\ flow'.cancelled = FALSE
    BY <2>3
  <2> QED BY <2>1, <2>2, <2>4
<1>2. CASE U!RequestBuild
  BY <1>2 DEF U!RequestBuild, U!Launch, U!places
<1> QED BY <1>1, <1>2 DEF U!StartButton, U!WizardFinish

LEMMA Dying ==
  ASSUME SetupShape, U!WindowDies
  PROVE  /\ flow' = U!NoFlow /\ child' = U!NoProcess /\ UNCHANGED <<ws, guest, host>>
         /\ DOMAIN procs' = DOMAIN procs
         /\ \A w \in WorkerSet :
              /\ DOMAIN procs'[w] = {"role", "at", "owned", "opt"} /\ procs'[w].owned = FALSE
              /\ procs'[w].role = procs[w].role /\ procs'[w].at = procs[w].at
<1>1. flow' = U!NoFlow /\ child' = U!NoProcess /\ UNCHANGED <<ws, guest, host>>
  BY DEF U!WindowDies
<1>2. procs' = [w \in WorkerSet |-> [procs[w] EXCEPT !.owned = FALSE]]
  BY DEF U!WindowDies, SetupShape
<1>3. ASSUME NEW w \in WorkerSet
      PROVE  /\ DOMAIN procs'[w] = {"role", "at", "owned", "opt"} /\ procs'[w].owned = FALSE
             /\ procs'[w].role = procs[w].role /\ procs'[w].at = procs[w].at
  <2>1. procs'[w] = [procs[w] EXCEPT !.owned = FALSE]
    BY <1>2
  <2>2. DOMAIN procs[w] = {"role", "at", "owned", "opt"}
    BY DEF SetupShape
  <2> QED BY <2>1, <2>2
<1> QED BY <1>1, <1>2, <1>3 DEF SetupShape

(* What a step of a worker does, beside its own place: what it was, what    *)
(* the workspace becomes, and who has QEMU.                                *)
Moves(w, role, at, to) ==
  /\ procs[w].role = role /\ procs[w].at = at /\ procs'[w].role = role /\ procs'[w].at = to
  /\ procs'[w].owned = procs[w].owned /\ UNCHANGED child
Ends(w, role, at) ==
  /\ procs[w].role = role /\ procs[w].at = at
     /\ procs'[w].role \notin {"download", "import", "desktop"}
  /\ (procs[w].owned /\ role = "download") \/ UNCHANGED child
Other(w) ==
  /\ \A v \in WorkerSet : v # w => procs'[v] = procs[v]
  /\ UNCHANGED <<flow, passed, host>>
Files(base, overlay, json) == ws'.base = base /\ ws'.overlay = overlay /\ ws'.json = json

LEMMA Goings ==
  /\ \A w \in WorkerSet : SetupShape /\ U!Goes(w) =>
       /\ procs'[w].role = procs[w].role /\ procs'[w].at = procs[w].at + 1
       /\ procs'[w].owned = procs[w].owned /\ UNCHANGED child
       /\ \A v \in WorkerSet : v # w => procs'[v] = procs[v]
  /\ \A s : \A w \in WorkerSet : SetupShape /\ U!Ended(w, s) =>
       /\ procs'[w].role \notin {"download", "import", "desktop"}
       /\ ((procs[w].owned /\ procs[w].role = "download") \/ UNCHANGED child)
       /\ \A v \in WorkerSet : v # w => procs'[v] = procs[v]
<1>1. ASSUME NEW w \in WorkerSet, SetupShape, Rest(w)
      PROVE  \A v \in WorkerSet : v # w => procs'[v] = procs[v]
  BY <1>1 DEF Rest, SetupShape
<1>2. "" \notin {"download", "import", "desktop"}
  OBVIOUS
<1> QED BY <1>1, <1>2, Workings DEF Gone, Over, Doing

LEMMA Worked ==
  ASSUME SetupShape, NEW w \in WorkerSet
  PROVE
    /\ U!Fetch(w) => Moves(w, "download", 2, 3) /\ Other(w) /\ UNCHANGED ws /\ UNCHANGED guest
    /\ U!VerifyFetched(w) =>
         Ends(w, "download", 3) /\ Other(w) /\ UNCHANGED ws /\ UNCHANGED guest
    /\ U!MakeWorkspace(w) =>
         Moves(w, "import", 1, 2) /\ Other(w) /\ ws.base = "none" /\ ws.overlay = "none"
         /\ ws.json = "none" /\ Files("part", ws.overlay, ws.json) /\ UNCHANGED guest
    /\ U!CopyBase(w) =>
         Moves(w, "import", 2, 3) /\ Other(w) /\ Files("whole", ws.overlay, ws.json)
         /\ UNCHANGED guest
    /\ U!CreateOverlay(w) =>
         Moves(w, "import", 3, 4) /\ Other(w) /\ Files(ws.base, "plain", "part")
         /\ UNCHANGED guest
    /\ U!WriteMachine(w) =>
         Ends(w, "import", 4) /\ Other(w) /\ Files(ws.base, ws.overlay, "prepared")
         /\ UNCHANGED guest
    /\ U!RunSetup(w) =>
         Moves(w, "desktop", 2, 3) /\ Other(w) /\ guest = "setup"
         /\ Files(ws.base, "desktop", ws.json) /\ UNCHANGED guest
    /\ U!QuitSetup(w) =>
         Moves(w, "desktop", 3, 4) /\ Other(w) /\ guest = "setup" /\ UNCHANGED ws
         /\ guest' # "boot"
    /\ U!RecordDesktop(w) =>
         Ends(w, "desktop", 4) /\ Other(w) /\ Files(ws.base, ws.overlay, "desktop")
         /\ UNCHANGED guest
    /\ U!OpenCache(w) =>
         (Moves(w, "download", 1, 2) \/ Ends(w, "download", 1)) /\ Other(w)
         /\ UNCHANGED <<ws, guest>>
    /\ U!LockDesktop(w) =>
         /\ Other(w) /\ guest # "boot" /\ \A v \in WorkerSet : v # w => ~ Beyond(v, "desktop")
         /\ \/ Ends(w, "desktop", 1) /\ UNCHANGED <<ws, guest>> /\ ws.json = "desktop"
            \/ Moves(w, "desktop", 1, 2) /\ guest' = "setup"
               /\ Files(ws.base, "half", ws.json) /\ ws.json # "desktop"
    /\ U!WorkerDies(w) =>
         /\ Other(w) /\ procs'[w].role \notin {"download", "import", "desktop"}
         /\ UNCHANGED ws /\ (guest' = "boot" => guest = "boot")
         /\ ((procs[w].owned /\ procs[w].role = "download") \/ UNCHANGED child)
<1>1. ASSUME U!Fetch(w)
      PROVE  Moves(w, "download", 2, 3) /\ Other(w) /\ UNCHANGED ws /\ UNCHANGED guest
  <2>1. U!At(w, "download", 2) /\ U!Goes(w)
        /\ UNCHANGED <<flow, passed, host>>
    BY <1>1 DEF U!Fetch, U!Others
  <2>2. UNCHANGED ws /\ UNCHANGED guest
    BY <1>1 DEF U!Fetch, U!Others, Files, SetupShape
  <2>3. procs[w].at = 2 /\ procs'[w].at = procs[w].at + 1
    BY <2>1, Goings DEF U!At
  <2>4. procs'[w].at = 2 + 1
    BY <2>3
  <2>5. procs'[w].at = 3
    BY <2>4
  <2> QED BY <2>1, <2>2, <2>5, Goings DEF U!At, Moves, Other
<1>2. ASSUME U!VerifyFetched(w)
      PROVE  Ends(w, "download", 3) /\ Other(w) /\ UNCHANGED ws /\ UNCHANGED guest
  <2>1. U!At(w, "download", 3) /\ (U!Ended(w, "done") \/ U!Ended(w, "failed"))
        /\ UNCHANGED <<flow, passed, host>>
    BY <1>2 DEF U!VerifyFetched, U!Others
  <2>2. UNCHANGED ws /\ UNCHANGED guest
    BY <1>2 DEF U!VerifyFetched, U!Others, Files, SetupShape
  <2> QED BY <2>1, <2>2, Goings DEF U!At, Ends, Other
<1>3. ASSUME U!MakeWorkspace(w)
      PROVE  Moves(w, "import", 1, 2) /\ Other(w) /\ ws.base = "none" /\ ws.overlay = "none"
             /\ ws.json = "none" /\ Files("part", ws.overlay, ws.json) /\ UNCHANGED guest
  <2>1. U!At(w, "import", 1) /\ U!Goes(w)
        /\ UNCHANGED <<flow, passed, host>>
    BY <1>3 DEF U!MakeWorkspace, U!Others
  <2>2. ws.base = "none" /\ ws.overlay = "none" /\ ws.json = "none"
        /\ Files("part", ws.overlay, ws.json) /\ UNCHANGED guest
    BY <1>3 DEF U!MakeWorkspace, U!Others, Files, SetupShape, U!Absent
  <2>3. procs[w].at = 1 /\ procs'[w].at = procs[w].at + 1
    BY <2>1, Goings DEF U!At
  <2>4. procs'[w].at = 1 + 1
    BY <2>3
  <2>5. procs'[w].at = 2
    BY <2>4
  <2> QED BY <2>1, <2>2, <2>5, Goings DEF U!At, Moves, Other
<1>4. ASSUME U!CopyBase(w)
      PROVE  Moves(w, "import", 2, 3) /\ Other(w) /\ Files("whole", ws.overlay, ws.json)
             /\ UNCHANGED guest
  <2>1. U!At(w, "import", 2) /\ U!Goes(w)
        /\ UNCHANGED <<flow, passed, host>>
    BY <1>4 DEF U!CopyBase, U!Others
  <2>2. Files("whole", ws.overlay, ws.json) /\ UNCHANGED guest
    BY <1>4 DEF U!CopyBase, U!Others, Files, SetupShape
  <2>3. procs[w].at = 2 /\ procs'[w].at = procs[w].at + 1
    BY <2>1, Goings DEF U!At
  <2>4. procs'[w].at = 2 + 1
    BY <2>3
  <2>5. procs'[w].at = 3
    BY <2>4
  <2> QED BY <2>1, <2>2, <2>5, Goings DEF U!At, Moves, Other
<1>5. ASSUME U!CreateOverlay(w)
      PROVE  Moves(w, "import", 3, 4) /\ Other(w) /\ Files(ws.base, "plain", "part")
             /\ UNCHANGED guest
  <2>1. U!At(w, "import", 3) /\ U!Goes(w)
        /\ UNCHANGED <<flow, passed, host>>
    BY <1>5 DEF U!CreateOverlay, U!Others
  <2>2. Files(ws.base, "plain", "part") /\ UNCHANGED guest
    BY <1>5 DEF U!CreateOverlay, U!Others, Files, SetupShape
  <2>3. procs[w].at = 3 /\ procs'[w].at = procs[w].at + 1
    BY <2>1, Goings DEF U!At
  <2>4. procs'[w].at = 3 + 1
    BY <2>3
  <2>5. procs'[w].at = 4
    BY <2>4
  <2> QED BY <2>1, <2>2, <2>5, Goings DEF U!At, Moves, Other
<1>6. ASSUME U!WriteMachine(w)
      PROVE  Ends(w, "import", 4) /\ Other(w) /\ Files(ws.base, ws.overlay, "prepared")
             /\ UNCHANGED guest
  <2>1. U!At(w, "import", 4) /\ (U!Ended(w, "done") \/ U!Ended(w, "failed"))
        /\ UNCHANGED <<flow, passed, host>>
    BY <1>6 DEF U!WriteMachine, U!Others
  <2>2. Files(ws.base, ws.overlay, "prepared") /\ UNCHANGED guest
    BY <1>6 DEF U!WriteMachine, U!Others, Files, SetupShape
  <2> QED BY <2>1, <2>2, Goings DEF U!At, Ends, Other
<1>7. ASSUME U!RunSetup(w)
      PROVE  Moves(w, "desktop", 2, 3) /\ Other(w) /\ guest = "setup"
             /\ Files(ws.base, "desktop", ws.json) /\ UNCHANGED guest
  <2>1. U!At(w, "desktop", 2) /\ U!Goes(w)
        /\ UNCHANGED <<flow, passed, host>>
    BY <1>7 DEF U!RunSetup, U!Others
  <2>2. guest = "setup" /\ Files(ws.base, "desktop", ws.json) /\ UNCHANGED guest
    BY <1>7 DEF U!RunSetup, U!Others, Files, SetupShape
  <2>3. procs[w].at = 2 /\ procs'[w].at = procs[w].at + 1
    BY <2>1, Goings DEF U!At
  <2>4. procs'[w].at = 2 + 1
    BY <2>3
  <2>5. procs'[w].at = 3
    BY <2>4
  <2> QED BY <2>1, <2>2, <2>5, Goings DEF U!At, Moves, Other
<1>8. ASSUME U!QuitSetup(w)
      PROVE  Moves(w, "desktop", 3, 4) /\ Other(w) /\ guest = "setup" /\ UNCHANGED ws
             /\ guest' # "boot"
  <2>1. U!At(w, "desktop", 3) /\ U!Goes(w)
        /\ UNCHANGED <<flow, passed, host>>
    BY <1>8 DEF U!QuitSetup, U!Others
  <2>2. guest = "setup" /\ UNCHANGED ws /\ guest' # "boot"
    BY <1>8 DEF U!QuitSetup, U!Others, Files, SetupShape
  <2>3. procs[w].at = 3 /\ procs'[w].at = procs[w].at + 1
    BY <2>1, Goings DEF U!At
  <2>4. procs'[w].at = 3 + 1
    BY <2>3
  <2>5. procs'[w].at = 4
    BY <2>4
  <2> QED BY <2>1, <2>2, <2>5, Goings DEF U!At, Moves, Other
<1>9. ASSUME U!RecordDesktop(w)
      PROVE  Ends(w, "desktop", 4) /\ Other(w) /\ Files(ws.base, ws.overlay, "desktop")
             /\ UNCHANGED guest
  <2>1. U!At(w, "desktop", 4) /\ (U!Ended(w, "done") \/ U!Ended(w, "failed"))
        /\ UNCHANGED <<flow, passed, host>>
    BY <1>9 DEF U!RecordDesktop, U!Others
  <2>2. Files(ws.base, ws.overlay, "desktop") /\ UNCHANGED guest
    BY <1>9 DEF U!RecordDesktop, U!Others, Files, SetupShape
  <2> QED BY <2>1, <2>2, Goings DEF U!At, Ends, Other
<1>10. ASSUME U!OpenCache(w)
      PROVE  (Moves(w, "download", 1, 2) \/ Ends(w, "download", 1)) /\ Other(w)
             /\ UNCHANGED <<ws, guest>>
  <2>1. U!At(w, "download", 1) /\ UNCHANGED <<flow, passed, host, ws, guest>>
    BY <1>10 DEF U!OpenCache, U!Others
  <2>2. U!Goes(w) \/ U!Ended(w, "done") \/ U!Ended(w, "failed")
    BY <1>10 DEF U!OpenCache
  <2>3. U!Goes(w) => procs'[w].at = 1 + 1
    BY <2>1, Goings DEF U!At
  <2>4. U!Goes(w) => procs'[w].at = 2
    BY <2>3
  <2> QED BY <2>1, <2>2, <2>4, Goings DEF U!At, Moves, Ends, Other
<1>11. ASSUME U!LockDesktop(w)
      PROVE  /\ Other(w) /\ guest # "boot"
                /\ \A v \in WorkerSet : v # w => ~ Beyond(v, "desktop")
             /\ \/ Ends(w, "desktop", 1) /\ UNCHANGED <<ws, guest>> /\ ws.json = "desktop"
                \/ Moves(w, "desktop", 1, 2) /\ guest' = "setup"
                   /\ Files(ws.base, "half", ws.json) /\ ws.json # "desktop"
  <2>1. U!At(w, "desktop", 1) /\ U!Unlocked(w) /\ UNCHANGED <<flow, passed, host>>
    BY <1>11 DEF U!LockDesktop, U!Others
  <2>2. \/ U!Ended(w, "done") /\ UNCHANGED <<ws, guest>> /\ ws.json = "desktop"
        \/ U!Goes(w) /\ guest' = "setup" /\ Files(ws.base, "half", ws.json)
           /\ ws.json # "desktop"
    BY <1>11 DEF U!LockDesktop, U!Configured, Files, SetupShape
  <2>3. guest # "boot" /\ \A v \in WorkerSet : v # w => ~ Beyond(v, "desktop")
    <3>1. 2 > 1 /\ 3 > 1 /\ 4 > 1
      OBVIOUS
    <3> QED BY <2>1, <3>1 DEF U!Unlocked, U!Alone, Beyond, SetupShape
  <2>4. U!Goes(w) => procs'[w].at = 1 + 1
    BY <2>1, Goings DEF U!At
  <2>5. U!Goes(w) => procs'[w].at = 2
    BY <2>4
  <2> QED BY <2>1, <2>2, <2>3, <2>5, Goings DEF U!At, Moves, Ends, Other
<1>12. ASSUME U!WorkerDies(w)
      PROVE  /\ Other(w) /\ procs'[w].role \notin {"download", "import", "desktop"}
             /\ UNCHANGED ws /\ (guest' = "boot" => guest = "boot")
             /\ ((procs[w].owned /\ procs[w].role = "download") \/ UNCHANGED child)
  <2>1. U!Ended(w, "failed") /\ UNCHANGED <<flow, passed, host, ws>>
        /\ (guest' = "boot" => guest = "boot")
    BY <1>12 DEF U!WorkerDies, U!Others
  <2> QED BY <2>1, Goings DEF Other
<1> QED BY <1>1, <1>2, <1>3, <1>4, <1>5, <1>6, <1>7, <1>8, <1>9, <1>10, <1>11, <1>12

LEMMA SetupShapeKept == SetupInv /\ U!Next => SetupShape'
<1> SUFFICES ASSUME SetupInv, U!Next PROVE SetupShape'
  OBVIOUS
<1>w. DOMAIN procs = WorkerSet
  BY DEF SetupInv, SetupShape
<1> USE DEF SetupInv, SetupShape, U!window, U!places, U!counts, U!Others, Doing, Beyond
<1>1. CASE U!StartButton
  BY <1>1, Starting, Workings
<1>2. CASE U!WizardFinish
  BY <1>2, Starting, Workings
<1>3. CASE U!RequestBuild
  BY <1>3, Starting, Workings
<1>4. CASE U!CancelBuild
  BY <1>4 DEF U!CancelBuild, U!Cancel
<1>5. CASE U!CancelFlow
  BY <1>5 DEF U!CancelFlow, U!Cancel
<1>6. CASE U!Poll
  <2>1. Turned /\ UNCHANGED <<host, ws, guest>> /\ SetupShape
    BY <1>6, Turns DEF SetupInv
  <2>2. CASE UNCHANGED procs
    BY <2>1, <2>2, TurnShape
  <2>3. ASSUME NEW role, Begun(role) PROVE SetupShape'
    <3>1. PICK w \in WorkerSet : Rest(w)
      BY <2>3 DEF Begun
    <3>2. DOMAIN procs' = WorkerSet
      BY <2>1, <3>1 DEF Rest
    <3>3. \A v \in WorkerSet : DOMAIN procs'[v] = {"role", "at", "owned", "opt"}
          /\ procs'[v].at \in Nat
      BY <2>1, <3>1 DEF Rest
    <3> QED BY <2>1, <3>2, <3>3, TurnShape
  <2> QED BY <2>1, <2>2, <2>3, TurnShape
<1>7. CASE U!PollJob
  <2>1. Turned /\ UNCHANGED <<host, ws, guest>> /\ SetupShape
    BY <1>7, Turns DEF SetupInv
  <2>2. CASE UNCHANGED procs
    BY <2>1, <2>2, TurnShape
  <2>3. ASSUME NEW role, Begun(role) PROVE SetupShape'
    <3>1. PICK w \in WorkerSet : Rest(w)
      BY <2>3 DEF Begun
    <3>2. DOMAIN procs' = WorkerSet
      BY <2>1, <3>1 DEF Rest
    <3>3. \A v \in WorkerSet : DOMAIN procs'[v] = {"role", "at", "owned", "opt"}
          /\ procs'[v].at \in Nat
      BY <2>1, <3>1 DEF Rest
    <3> QED BY <2>1, <3>2, <3>3, TurnShape
  <2> QED BY <2>1, <2>2, <2>3, TurnShape
<1>8. CASE U!ProcessEnds
  BY <1>8 DEF U!ProcessEnds
<1>9. CASE U!PackagesChange
  BY <1>9 DEF U!PackagesChange
<1>10. CASE U!Boots
  BY <1>10 DEF U!Boots
<1>11. CASE U!GuestEnds
  BY <1>11 DEF U!GuestEnds
<1>12. CASE U!WindowDies
  BY <1>12, Dying, Workings DEF SetupInv
<1>13. ASSUME NEW w \in WorkerSet, U!OpenCache(w) PROVE SetupShape'
  <2>1. Gone(w) \/ Over(w)
    BY <1>13, Workings DEF SetupInv, U!OpenCache
  <2>2. UNCHANGED <<ws, flow, host>>
    BY <1>13 DEF U!OpenCache, U!Others
  <2>3. DOMAIN procs' = DOMAIN procs /\ DOMAIN child' = {"role", "state"}
    BY <2>1 DEF Gone, Over, Rest
  <2>4. \A v \in WorkerSet : DOMAIN procs'[v] = {"role", "at", "owned", "opt"}
        /\ procs'[v].at \in Nat
    BY <2>1 DEF Gone, Over, Rest
  <2> QED BY <2>2, <2>3, <2>4
<1>14. ASSUME NEW w \in WorkerSet, U!Fetch(w) PROVE SetupShape'
  <2>1. Gone(w)
    BY <1>14, Workings DEF SetupInv, U!Fetch
  <2> QED BY ZenonT(60), <1>14, <2>1 DEF Gone, Rest, U!At, U!Fetch
<1>15. ASSUME NEW w \in WorkerSet, U!VerifyFetched(w) PROVE SetupShape'
  <2>1. Over(w)
    BY <1>15, Workings DEF SetupInv, U!VerifyFetched
  <2>2. UNCHANGED <<ws, flow, host>>
    BY <1>15 DEF U!VerifyFetched, U!Others
  <2>3. DOMAIN procs' = DOMAIN procs /\ DOMAIN child' = {"role", "state"}
    BY <2>1 DEF Over, Rest
  <2>4. \A v \in WorkerSet : DOMAIN procs'[v] = {"role", "at", "owned", "opt"}
        /\ procs'[v].at \in Nat
    BY <2>1 DEF Over, Rest
  <2> QED BY <2>2, <2>3, <2>4
<1>16. ASSUME NEW w \in WorkerSet, U!MakeWorkspace(w) PROVE SetupShape'
  <2>1. Gone(w)
    BY <1>16, Workings DEF SetupInv, U!MakeWorkspace
  <2> QED BY ZenonT(60), <1>16, <2>1 DEF Gone, Rest, U!At, U!MakeWorkspace, U!Absent
<1>17. ASSUME NEW w \in WorkerSet, U!CopyBase(w) PROVE SetupShape'
  <2>1. Gone(w)
    BY <1>17, Workings DEF SetupInv, U!CopyBase
  <2> QED BY <1>17, <2>1 DEF Gone, Rest, U!At, U!CopyBase
<1>18. ASSUME NEW w \in WorkerSet, U!CreateOverlay(w) PROVE SetupShape'
  <2>1. Gone(w)
    BY <1>18, Workings DEF SetupInv, U!CreateOverlay
  <2> QED BY <1>18, <2>1 DEF Gone, Rest, U!At, U!CreateOverlay
<1>19. ASSUME NEW w \in WorkerSet, U!WriteMachine(w) PROVE SetupShape'
  <2>1. Over(w)
    BY <1>19, Workings DEF SetupInv, U!WriteMachine
  <2> QED BY ZenonT(60), <1>19, <2>1 DEF Over, Rest, U!At, U!WriteMachine
<1>20. ASSUME NEW w \in WorkerSet, U!LockDesktop(w) PROVE SetupShape'
  <2>1. Gone(w) \/ Over(w)
    BY <1>20, Workings DEF SetupInv, U!LockDesktop
  <2> QED BY ZenonT(60), <1>20, <2>1 DEF Gone, Over, Rest, U!At, U!LockDesktop, U!Configured,
       U!Unlocked,
      U!Alone
<1>21. ASSUME NEW w \in WorkerSet, U!RunSetup(w) PROVE SetupShape'
  <2>1. Gone(w)
    BY <1>21, Workings DEF SetupInv, U!RunSetup
  <2> QED BY <1>21, <2>1 DEF Gone, Rest, U!At, U!RunSetup
<1>22. ASSUME NEW w \in WorkerSet, U!QuitSetup(w) PROVE SetupShape'
  <2>1. Gone(w)
    BY <1>22, Workings DEF SetupInv, U!QuitSetup
  <2> QED BY <1>22, <2>1 DEF Gone, Rest, U!At, U!QuitSetup
<1>23. ASSUME NEW w \in WorkerSet, U!RecordDesktop(w) PROVE SetupShape'
  <2>1. Over(w)
    BY <1>23, Workings DEF SetupInv, U!RecordDesktop
  <2> QED BY ZenonT(60), <1>23, <2>1 DEF Over, Rest, U!At, U!RecordDesktop
<1>24. ASSUME NEW w \in WorkerSet, U!WorkerDies(w) PROVE SetupShape'
  <2>1. Over(w)
    BY <1>24, Workings DEF SetupInv, U!WorkerDies
  <2> QED BY <1>24, <2>1 DEF Over, Rest, U!At, U!WorkerDies
<1> HIDE DEF SetupInv, SetupShape
<1> QED BY <1>1, <1>2, <1>3, <1>4, <1>5, <1>6, <1>7, <1>8, <1>9, <1>10, <1>11, <1>12, <1>13,
      <1>14, <1>15, <1>16, <1>17, <1>18, <1>19, <1>20, <1>21, <1>22, <1>23, <1>24
     , <1>w DEF U!Next


(* A download, an import or a desktop that begins.                         *)
Enters(w) ==
  /\ \A v \in WorkerSet : v # w => procs'[v] = procs[v]
  /\ procs'[w].at = 1
  /\ procs'[w].role = "desktop" => ws.json = "prepared"

LEMMA Entered ==
  ASSUME SetupInv, U!Poll \/ U!PollJob
  PROVE  UNCHANGED <<ws, guest>> /\ (UNCHANGED procs \/ \E w \in WorkerSet : Enters(w))
<1>1. Turned /\ UNCHANGED <<ws, guest>>
  BY Turns
<1>2. ASSUME NEW role, Begun(role), role = "desktop" => ws.json = "prepared"
      PROVE  \E w \in WorkerSet : Enters(w)
  <2>1. PICK w \in WorkerSet : Rest(w) /\ procs[w].role = "" /\ procs'[w].role = role
        /\ procs'[w].at = 1
    BY <1>2 DEF Begun
  <2> QED BY <1>2, <2>1 DEF Rest, Enters, SetupInv, SetupShape
<1>3. CASE Submitted
  BY <1>1, <1>2, <1>3 DEF Submitted
<1> QED BY <1>1, <1>2, <1>3 DEF Turned, Rested, Launched, Downloads

LEMMA ImportStepsKept == SetupInv /\ U!Next => ImportSteps'
<1> SUFFICES ASSUME SetupInv, U!Next PROVE ImportSteps'
  OBVIOUS
<1> USE DEF Doing, Beyond
<1>r. ws.json \in {"none", "part", "prepared", "desktop"}
  BY DEF SetupInv, SetupShape
<1>1. CASE U!Poll
  <2>1. CASE UNCHANGED procs
    BY <1>1, <2>1, Entered DEF SetupInv, ImportSteps, DesktopSteps
  <2>2. ASSUME NEW w \in WorkerSet, Enters(w) PROVE ImportSteps'
    <3>1. \A v \in WorkerSet : Beyond(v, "import")'
          \/ Beyond(v, "desktop")' => procs'[v] = procs[v]
      BY <2>2 DEF Enters
    <3>2. \A v \in WorkerSet : Doing(v, "desktop")' => procs'[v] = procs[v]
          \/ ws.json = "prepared"
      BY <2>2 DEF Enters
    <3>3. UNCHANGED <<ws, guest>>
      BY <1>1, Entered
    <3> QED BY <1>r, <3>1, <3>2, <3>3 DEF SetupInv, ImportSteps
  <2> QED BY <1>1, <2>1, <2>2, Entered
<1>2. CASE U!PollJob
  <2>1. CASE UNCHANGED procs
    BY <1>2, <2>1, Entered DEF SetupInv, ImportSteps, DesktopSteps
  <2>2. ASSUME NEW w \in WorkerSet, Enters(w) PROVE ImportSteps'
    <3>1. \A v \in WorkerSet : Beyond(v, "import")'
          \/ Beyond(v, "desktop")' => procs'[v] = procs[v]
      BY <2>2 DEF Enters
    <3>2. \A v \in WorkerSet : Doing(v, "desktop")' => procs'[v] = procs[v]
          \/ ws.json = "prepared"
      BY <2>2 DEF Enters
    <3>3. UNCHANGED <<ws, guest>>
      BY <1>2, Entered
    <3> QED BY <1>r, <3>1, <3>2, <3>3 DEF SetupInv, ImportSteps
  <2> QED BY <1>2, <2>1, <2>2, Entered
<1>3. CASE U!WindowDies
  <2>1. /\ flow' = U!NoFlow /\ child' = U!NoProcess /\ UNCHANGED <<ws, guest, host>>
        /\ \A w \in WorkerSet :
             /\ procs'[w].owned = FALSE /\ procs'[w].role = procs[w].role
                /\ procs'[w].at = procs[w].at
    BY <1>3, Dying DEF SetupInv
  <2> QED BY <1>r, <2>1 DEF SetupInv, ImportSteps, DesktopSteps
<1>4. ASSUME NEW w \in WorkerSet, U!OpenCache(w) PROVE ImportSteps'
  <2>1. (Moves(w, "download", 1, 2) \/ Ends(w, "download", 1)) /\ Other(w)
        /\ UNCHANGED <<ws, guest>>
    BY <1>4, Worked DEF SetupInv
  <2> QED BY <1>r, <2>1 DEF SetupInv, ImportSteps, DesktopSteps, Moves, Ends, Other
<1>5. ASSUME NEW w \in WorkerSet, U!Fetch(w) PROVE ImportSteps'
  <2>1. Moves(w, "download", 2, 3) /\ Other(w) /\ UNCHANGED ws /\ UNCHANGED guest
    BY <1>5, Worked DEF SetupInv
  <2> QED BY <1>r, <2>1 DEF SetupInv, ImportSteps, DesktopSteps, Moves, Other
<1>6. ASSUME NEW w \in WorkerSet, U!VerifyFetched(w) PROVE ImportSteps'
  <2>1. Ends(w, "download", 3) /\ Other(w) /\ UNCHANGED ws /\ UNCHANGED guest
    BY <1>6, Worked DEF SetupInv
  <2> QED BY <1>r, <2>1 DEF SetupInv, ImportSteps, DesktopSteps, Ends, Other
<1>7. ASSUME NEW w \in WorkerSet, U!MakeWorkspace(w) PROVE ImportSteps'
  <2>1. Moves(w, "import", 1, 2) /\ Other(w) /\ ws.base = "none" /\ ws.overlay = "none"
        /\ ws.json = "none" /\ Files("part", ws.overlay, ws.json) /\ UNCHANGED guest
    BY <1>7, Worked DEF SetupInv
  <2> QED BY <1>r, <2>1 DEF SetupInv, ImportSteps, DesktopSteps, Moves, Other, Files
<1>8. ASSUME NEW w \in WorkerSet, U!CopyBase(w) PROVE ImportSteps'
  <2>1. Moves(w, "import", 2, 3) /\ Other(w) /\ Files("whole", ws.overlay, ws.json)
        /\ UNCHANGED guest
    BY <1>8, Worked DEF SetupInv
  <2> QED BY <1>r, <2>1 DEF SetupInv, ImportSteps, DesktopSteps, Moves, Other, Files
<1>9. ASSUME NEW w \in WorkerSet, U!CreateOverlay(w) PROVE ImportSteps'
  <2>1. Moves(w, "import", 3, 4) /\ Other(w) /\ Files(ws.base, "plain", "part")
        /\ UNCHANGED guest
    BY <1>9, Worked DEF SetupInv
  <2> QED BY <1>r, <2>1 DEF SetupInv, ImportSteps, DesktopSteps, Moves, Other, Files
<1>10. ASSUME NEW w \in WorkerSet, U!WriteMachine(w) PROVE ImportSteps'
  <2>1. Ends(w, "import", 4) /\ Other(w) /\ Files(ws.base, ws.overlay, "prepared")
        /\ UNCHANGED guest
    BY <1>10, Worked DEF SetupInv
  <2> QED BY <1>r, <2>1 DEF SetupInv, ImportSteps, DesktopSteps, Ends, Other, Files
<1>11. ASSUME NEW w \in WorkerSet, U!LockDesktop(w) PROVE ImportSteps'
  <2>1. /\ Other(w) /\ guest # "boot" /\ \A v \in WorkerSet : v # w => ~ Beyond(v, "desktop")
        /\ \/ Ends(w, "desktop", 1) /\ UNCHANGED <<ws, guest>> /\ ws.json = "desktop"
           \/ Moves(w, "desktop", 1, 2) /\ guest' = "setup"
              /\ Files(ws.base, "half", ws.json) /\ ws.json # "desktop"
    BY <1>11, Worked DEF SetupInv
  <2>2. \A v \in WorkerSet : Beyond(v, "import")' => procs'[v] = procs[v]
    BY <2>1 DEF Moves, Ends, Other
  <2>3. ws'.json = ws.json /\ ws'.base = ws.base /\ ws'.overlay \in {ws.overlay, "half"}
    BY <2>1 DEF Files
  <2> QED BY <2>2, <2>3 DEF SetupInv, ImportSteps
<1>12. ASSUME NEW w \in WorkerSet, U!RunSetup(w) PROVE ImportSteps'
  <2>1. Moves(w, "desktop", 2, 3) /\ Other(w) /\ guest = "setup"
        /\ Files(ws.base, "desktop", ws.json) /\ UNCHANGED guest
    BY <1>12, Worked DEF SetupInv
  <2> QED BY <1>r, <2>1 DEF SetupInv, ImportSteps, DesktopSteps, Moves, Other, Files
<1>13. ASSUME NEW w \in WorkerSet, U!QuitSetup(w) PROVE ImportSteps'
  <2>1. Moves(w, "desktop", 3, 4) /\ Other(w) /\ guest = "setup" /\ UNCHANGED ws
        /\ guest' # "boot"
    BY <1>13, Worked DEF SetupInv
  <2> QED BY <1>r, <2>1 DEF SetupInv, ImportSteps, DesktopSteps, Moves, Other
<1>14. ASSUME NEW w \in WorkerSet, U!RecordDesktop(w) PROVE ImportSteps'
  <2>1. Ends(w, "desktop", 4) /\ Other(w) /\ Files(ws.base, ws.overlay, "desktop")
        /\ UNCHANGED guest
    BY <1>14, Worked DEF SetupInv
  <2> QED BY <1>r, <2>1 DEF SetupInv, ImportSteps, DesktopSteps, Ends, Other, Files
<1>15. ASSUME NEW w \in WorkerSet, U!WorkerDies(w) PROVE ImportSteps'
  <2>1. /\ Other(w) /\ procs'[w].role \notin {"download", "import", "desktop"}
        /\ UNCHANGED ws /\ (guest' = "boot" => guest = "boot")
        /\ ((procs[w].owned /\ procs[w].role = "download") \/ UNCHANGED child)
    BY <1>15, Worked DEF SetupInv
  <2> QED BY <1>r, <2>1 DEF SetupInv, ImportSteps, DesktopSteps, Other
<1>16. CASE UNCHANGED <<procs, ws>>
  BY <1>16 DEF SetupInv, ImportSteps, DesktopSteps
<1>w. DOMAIN procs = WorkerSet
  BY DEF SetupInv, SetupShape
<1> QED BY <1>1, <1>2, <1>3, <1>4, <1>5, <1>6, <1>7, <1>8, <1>9, <1>10, <1>11, <1>12, <1>13,
      <1>14, <1>15, <1>16, <1>w DEF U!Next, U!Begin, U!window, U!places, U!counts, U!Others,
      U!StartButton, U!WizardFinish, U!RequestBuild, U!CancelBuild, U!CancelFlow, U!ProcessEnds,
      U!PackagesChange, U!Boots, U!GuestEnds

LEMMA DesktopStepsKept == SetupInv /\ U!Next => DesktopSteps'
<1> SUFFICES ASSUME SetupInv, U!Next PROVE DesktopSteps'
  OBVIOUS
<1> USE DEF Doing, Beyond
<1>r. ws.json \in {"none", "part", "prepared", "desktop"}
  BY DEF SetupInv, SetupShape
<1>1. CASE U!Poll
  <2>1. CASE UNCHANGED procs
    BY <1>1, <2>1, Entered DEF SetupInv, ImportSteps, DesktopSteps, PreparedIsWhole,
         WaitsForOne, U!PreparedIsWhole
  <2>2. ASSUME NEW w \in WorkerSet, Enters(w) PROVE DesktopSteps'
    <3>1. \A v \in WorkerSet : Beyond(v, "import")'
          \/ Beyond(v, "desktop")' => procs'[v] = procs[v]
      BY <2>2 DEF Enters
    <3>2. \A v \in WorkerSet : Doing(v, "desktop")' => procs'[v] = procs[v]
          \/ ws.json = "prepared"
      BY <2>2 DEF Enters
    <3>3. UNCHANGED <<ws, guest>>
      BY <1>1, Entered
    <3> QED BY <1>r, <3>1, <3>2, <3>3 DEF SetupInv, DesktopSteps
  <2> QED BY <1>1, <2>1, <2>2, Entered
<1>2. CASE U!PollJob
  <2>1. CASE UNCHANGED procs
    BY <1>2, <2>1, Entered DEF SetupInv, ImportSteps, DesktopSteps, PreparedIsWhole,
         WaitsForOne, U!PreparedIsWhole
  <2>2. ASSUME NEW w \in WorkerSet, Enters(w) PROVE DesktopSteps'
    <3>1. \A v \in WorkerSet : Beyond(v, "import")'
          \/ Beyond(v, "desktop")' => procs'[v] = procs[v]
      BY <2>2 DEF Enters
    <3>2. \A v \in WorkerSet : Doing(v, "desktop")' => procs'[v] = procs[v]
          \/ ws.json = "prepared"
      BY <2>2 DEF Enters
    <3>3. UNCHANGED <<ws, guest>>
      BY <1>2, Entered
    <3> QED BY <1>r, <3>1, <3>2, <3>3 DEF SetupInv, DesktopSteps
  <2> QED BY <1>2, <2>1, <2>2, Entered
<1>3. CASE U!Boots
  BY <1>3 DEF SetupInv, ImportSteps, DesktopSteps, PreparedIsWhole, WaitsForOne,
       U!PreparedIsWhole, U!Boots
<1>4. CASE U!GuestEnds
  BY <1>4 DEF SetupInv, ImportSteps, DesktopSteps, PreparedIsWhole, WaitsForOne,
       U!PreparedIsWhole, U!GuestEnds
<1>5. CASE U!WindowDies
  <2>1. /\ flow' = U!NoFlow /\ child' = U!NoProcess /\ UNCHANGED <<ws, guest, host>>
        /\ \A w \in WorkerSet :
             /\ procs'[w].owned = FALSE /\ procs'[w].role = procs[w].role
                /\ procs'[w].at = procs[w].at
    BY <1>5, Dying DEF SetupInv
  <2> QED BY ZenonT(60), <1>r, <2>1 DEF SetupInv, ImportSteps, DesktopSteps, PreparedIsWhole,
       WaitsForOne,
       U!PreparedIsWhole
<1>6. ASSUME NEW w \in WorkerSet, U!OpenCache(w) PROVE DesktopSteps'
  <2>1. (Moves(w, "download", 1, 2) \/ Ends(w, "download", 1)) /\ Other(w)
        /\ UNCHANGED <<ws, guest>>
    BY <1>6, Worked DEF SetupInv
  <2> QED BY ZenonT(60), <1>r, <2>1 DEF SetupInv, ImportSteps, DesktopSteps, PreparedIsWhole,
       WaitsForOne,
       U!PreparedIsWhole, Moves, Ends, Other
<1>7. ASSUME NEW w \in WorkerSet, U!Fetch(w) PROVE DesktopSteps'
  <2>1. Moves(w, "download", 2, 3) /\ Other(w) /\ UNCHANGED ws /\ UNCHANGED guest
    BY <1>7, Worked DEF SetupInv
  <2>2. \A v \in WorkerSet : Doing(v, "desktop")' => procs'[v] = procs[v]
    BY <2>1 DEF Moves, Other
  <2> QED BY <2>1, <2>2 DEF SetupInv, DesktopSteps
<1>8. ASSUME NEW w \in WorkerSet, U!VerifyFetched(w) PROVE DesktopSteps'
  <2>1. Ends(w, "download", 3) /\ Other(w) /\ UNCHANGED ws /\ UNCHANGED guest
    BY <1>8, Worked DEF SetupInv
  <2> QED BY ZenonT(60), <1>r, <2>1 DEF SetupInv, ImportSteps, DesktopSteps, PreparedIsWhole,
       WaitsForOne,
       U!PreparedIsWhole, Ends, Other
<1>9. ASSUME NEW w \in WorkerSet, U!MakeWorkspace(w) PROVE DesktopSteps'
  <2>1. Moves(w, "import", 1, 2) /\ Other(w) /\ ws.base = "none" /\ ws.overlay = "none"
        /\ ws.json = "none" /\ Files("part", ws.overlay, ws.json) /\ UNCHANGED guest
    BY <1>9, Worked DEF SetupInv
  <2> QED BY ZenonT(60), <1>r, <2>1 DEF SetupInv, ImportSteps, DesktopSteps, PreparedIsWhole,
       WaitsForOne,
       U!PreparedIsWhole, Moves, Other, Files
<1>10. ASSUME NEW w \in WorkerSet, U!CopyBase(w) PROVE DesktopSteps'
  <2>1. Moves(w, "import", 2, 3) /\ Other(w) /\ Files("whole", ws.overlay, ws.json)
        /\ UNCHANGED guest
    BY <1>10, Worked DEF SetupInv
  <2> QED BY ZenonT(60), <1>r, <2>1 DEF SetupInv, ImportSteps, DesktopSteps, PreparedIsWhole,
       WaitsForOne,
       U!PreparedIsWhole, Moves, Other, Files
<1>11. ASSUME NEW w \in WorkerSet, U!CreateOverlay(w) PROVE DesktopSteps'
  <2>1. Moves(w, "import", 3, 4) /\ Other(w) /\ Files(ws.base, "plain", "part")
        /\ UNCHANGED guest
    BY <1>11, Worked DEF SetupInv
  <2> QED BY ZenonT(60), <1>r, <2>1 DEF SetupInv, ImportSteps, DesktopSteps, PreparedIsWhole,
       WaitsForOne,
       U!PreparedIsWhole, Moves, Other, Files
<1>12. ASSUME NEW w \in WorkerSet, U!WriteMachine(w) PROVE DesktopSteps'
  <2>1. Ends(w, "import", 4) /\ Other(w) /\ Files(ws.base, ws.overlay, "prepared")
        /\ UNCHANGED guest
    BY <1>12, Worked DEF SetupInv
  <2> QED BY ZenonT(60), <1>r, <2>1 DEF SetupInv, ImportSteps, DesktopSteps, PreparedIsWhole,
       WaitsForOne,
       U!PreparedIsWhole, Ends, Other, Files
<1>13. ASSUME NEW w \in WorkerSet, U!LockDesktop(w) PROVE DesktopSteps'
  <2>1. /\ Other(w) /\ guest # "boot" /\ \A v \in WorkerSet : v # w => ~ Beyond(v, "desktop")
        /\ \/ Ends(w, "desktop", 1) /\ UNCHANGED <<ws, guest>> /\ ws.json = "desktop"
           \/ Moves(w, "desktop", 1, 2) /\ guest' = "setup"
              /\ Files(ws.base, "half", ws.json) /\ ws.json # "desktop"
    BY <1>13, Worked DEF SetupInv
  <2>2. Doing(w, "desktop") /\ ws.json \in {"prepared", "desktop"}
    BY <2>1 DEF Moves, Ends, SetupInv, DesktopSteps
  <2>3. CASE Ends(w, "desktop", 1) /\ UNCHANGED <<ws, guest>>
    <3>1. \A v \in WorkerSet : Doing(v, "desktop")' => procs'[v] = procs[v]
      BY <2>1, <2>3 DEF Ends, Other
    <3> QED BY <2>3, <3>1 DEF SetupInv, DesktopSteps
  <2>4. CASE Moves(w, "desktop", 1, 2) /\ guest' = "setup" /\ Files(ws.base, "half", ws.json)
             /\ ws.json # "desktop"
    <3>1. \A v \in WorkerSet : Beyond(v, "desktop")' => v = w /\ procs'[v].at = 2
      BY <2>1, <2>4 DEF Moves, Other
    <3>2. ws'.json = "prepared" /\ guest' # "boot"
      BY <2>2, <2>4 DEF Files
    <3> QED BY <3>1, <3>2 DEF DesktopSteps
  <2> QED BY <2>1, <2>3, <2>4
<1>14. ASSUME NEW w \in WorkerSet, U!RunSetup(w) PROVE DesktopSteps'
  <2>1. Moves(w, "desktop", 2, 3) /\ Other(w) /\ guest = "setup"
        /\ Files(ws.base, "desktop", ws.json) /\ UNCHANGED guest
    BY <1>14, Worked DEF SetupInv
  <2>2. /\ Beyond(w, "desktop") /\ ws.json = "prepared"
           /\ (procs[w].at # 2 => ws.overlay = "desktop")
        /\ \A v \in WorkerSet : Beyond(v, "desktop") => v = w
    BY <2>1 DEF Moves, SetupInv, DesktopSteps
  <2>3. \A v \in WorkerSet : Beyond(v, "desktop")' => v = w
    BY <2>1, <2>2 DEF Other
  <2>4. ws'.json = "prepared" /\ guest' # "boot" /\ ws'.overlay = "desktop"
    BY <2>1, <2>2 DEF Moves, Files
  <2> QED BY <2>3, <2>4 DEF DesktopSteps
<1>15. ASSUME NEW w \in WorkerSet, U!QuitSetup(w) PROVE DesktopSteps'
  <2>1. Moves(w, "desktop", 3, 4) /\ Other(w) /\ guest = "setup" /\ UNCHANGED ws
        /\ guest' # "boot"
    BY <1>15, Worked DEF SetupInv
  <2>2. /\ Beyond(w, "desktop") /\ ws.json = "prepared"
           /\ (procs[w].at # 2 => ws.overlay = "desktop")
        /\ \A v \in WorkerSet : Beyond(v, "desktop") => v = w
    BY <2>1 DEF Moves, SetupInv, DesktopSteps
  <2>3. \A v \in WorkerSet : Beyond(v, "desktop")' => v = w
    BY <2>1, <2>2 DEF Other
  <2>4. ws'.json = "prepared" /\ guest' # "boot" /\ ws'.overlay = "desktop"
    BY <2>1, <2>2 DEF Moves
  <2> QED BY <2>3, <2>4 DEF DesktopSteps
<1>16. ASSUME NEW w \in WorkerSet, U!RecordDesktop(w) PROVE DesktopSteps'
  <2>1. Ends(w, "desktop", 4) /\ Other(w) /\ Files(ws.base, ws.overlay, "desktop")
        /\ UNCHANGED guest
    BY <1>16, Worked DEF SetupInv
  <2> QED BY ZenonT(60), <1>r, <2>1 DEF SetupInv, ImportSteps, DesktopSteps, PreparedIsWhole,
       WaitsForOne,
       U!PreparedIsWhole, Ends, Other, Files
<1>17. ASSUME NEW w \in WorkerSet, U!WorkerDies(w) PROVE DesktopSteps'
  <2>1. /\ Other(w) /\ procs'[w].role \notin {"download", "import", "desktop"}
        /\ UNCHANGED ws /\ (guest' = "boot" => guest = "boot")
        /\ ((procs[w].owned /\ procs[w].role = "download") \/ UNCHANGED child)
    BY <1>17, Worked DEF SetupInv
  <2> QED BY ZenonT(60), <1>r, <2>1 DEF SetupInv, ImportSteps, DesktopSteps, PreparedIsWhole,
       WaitsForOne,
       U!PreparedIsWhole, Other
<1>18. CASE UNCHANGED <<guest, procs, ws>>
  BY <1>18 DEF SetupInv, ImportSteps, DesktopSteps, PreparedIsWhole, WaitsForOne,
       U!PreparedIsWhole
<1>w. DOMAIN procs = WorkerSet
  BY DEF SetupInv, SetupShape
<1> QED BY <1>1, <1>2, <1>3, <1>4, <1>5, <1>6, <1>7, <1>8, <1>9, <1>10, <1>11, <1>12, <1>13,
      <1>14, <1>15, <1>16, <1>17, <1>18, <1>w DEF U!Next, U!Begin, U!window, U!places, U!counts,
      U!Others, U!StartButton, U!WizardFinish, U!RequestBuild, U!CancelBuild, U!CancelFlow,
      U!ProcessEnds, U!PackagesChange

LEMMA WaitsForOneKept == SetupInv /\ U!Next => WaitsForOne'
<1> SUFFICES ASSUME SetupInv, U!Next PROVE WaitsForOne'
  OBVIOUS
<1> USE DEF Doing, Beyond
<1>r. ws.json \in {"none", "part", "prepared", "desktop"}
  BY DEF SetupInv, SetupShape
<1>1. CASE U!StartButton
  BY <1>r, <1>1, Starting, Workings DEF SetupInv, DesktopSteps, ImportSteps, WaitsForOne
<1>2. CASE U!WizardFinish
  BY <1>r, <1>2, Starting, Workings DEF SetupInv, DesktopSteps, ImportSteps, WaitsForOne
<1>3. CASE U!RequestBuild
  BY <1>r, <1>3, Starting, Workings DEF SetupInv, DesktopSteps, ImportSteps, WaitsForOne
<1>4. CASE U!CancelFlow
  <2>1. UNCHANGED <<procs, child, host, ws, passed>> /\ flow.active
    BY <1>4 DEF U!CancelFlow, U!places
  <2>2. flow' = [flow EXCEPT !.cancelled = TRUE]
    BY <1>4 DEF U!CancelFlow
  <2>3. flow'.active = flow.active /\ flow'.job = flow.job /\ flow'.custom = flow.custom
    BY <2>2 DEF SetupInv, SetupShape
  <2> QED BY <2>1, <2>3 DEF SetupInv, WaitsForOne
<1>5. CASE U!Poll
  <2>1. \A w \in WorkerSet : ~ (procs[w].owned /\ Doing(w, "download"))
    BY <1>5 DEF SetupInv, WaitsForOne, U!Poll
  <2>2. Turned /\ UNCHANGED <<host, ws>> /\ SetupShape /\ WaitsForOne
    BY <1>5, Turns DEF SetupInv
  <2>3. CASE Rested
    BY <2>1, <2>3, Workings DEF Rested, WaitsForOne
  <2>4. CASE Launched
    BY <2>1, <2>2, <2>4 DEF Launched, WaitsForOne
  <2>5. CASE Downloads
    <3>1. child'.role = "download" /\ child'.state = "running"
      BY <2>5 DEF Downloads, U!Launch
    <3>2. PICK w \in WorkerSet : Rest(w)
      BY <2>5 DEF Downloads, Begun
    <3>3. \A v \in WorkerSet : v # w => procs'[v] = procs[v]
      BY <2>2, <3>2 DEF Rest, SetupShape
    <3>4. flow.job = "" /\ UNCHANGED <<flow, ws>>
      BY <2>2, <2>5 DEF Downloads
    <3> QED BY <2>1, <2>2, <3>1, <3>3, <3>4 DEF WaitsForOne
  <2>6. CASE Submitted /\ flow.active
    <3>1. \A v \in WorkerSet : ~ (procs[v].owned /\ Doing(v, "download"))'
      <4>1. CASE UNCHANGED procs
        BY <2>1, <4>1
      <4>2. ASSUME NEW role, Begun(role), role # "download"
            PROVE  \A v \in WorkerSet : ~ (procs[v].owned /\ Doing(v, "download"))'
        <5>1. PICK v \in WorkerSet : Rest(v) /\ procs'[v].role = role
          BY <4>2 DEF Begun
        <5>2. \A u \in WorkerSet : u # v => procs'[u] = procs[u]
          BY <2>2, <5>1 DEF Rest, SetupShape
        <5> QED BY <2>1, <4>2, <5>1, <5>2
      <4> QED BY <2>6, <4>1, <4>2 DEF Submitted
    <3>2. /\ child' = U!NoProcess /\ host.built /\ {"packages", "emulator"} \subseteq passed'
          /\ flow'.active = flow.active /\ flow'.custom = flow.custom
          /\ \/ flow'.job = "import" /\ (flow.custom \/ "image" \in passed')
             \/ flow'.job = "desktop" /\ ws.json = "prepared"
             \/ flow'.job = "boot" /\ ws.json = "desktop"
      BY <2>6 DEF Submitted
    <3> QED BY <2>2, <2>6, <3>1, <3>2 DEF WaitsForOne
  <2> QED BY <2>2, <2>3, <2>4, <2>5, <2>6 DEF Turned
<1>6. CASE U!PollJob
  <2>1. \A w \in WorkerSet : ~ (procs[w].owned /\ Doing(w, "download"))
    BY <1>6, Workings DEF SetupInv, WaitsForOne, U!PollJob
  <2>2. Turned /\ UNCHANGED <<host, ws>> /\ SetupShape /\ WaitsForOne
    BY <1>6, Turns DEF SetupInv
  <2>3. CASE Rested
    BY <2>1, <2>3, Workings DEF Rested, WaitsForOne
  <2>4. CASE Launched
    BY <2>1, <2>2, <2>4 DEF Launched, WaitsForOne
  <2>5. CASE Downloads
    <3>1. child'.role = "download" /\ child'.state = "running"
      BY <2>5 DEF Downloads, U!Launch
    <3>2. PICK w \in WorkerSet : Rest(w)
      BY <2>5 DEF Downloads, Begun
    <3>3. \A v \in WorkerSet : v # w => procs'[v] = procs[v]
      BY <2>2, <3>2 DEF Rest, SetupShape
    <3>4. flow.job = "" /\ UNCHANGED <<flow, ws>>
      BY <2>2, <2>5 DEF Downloads
    <3> QED BY <2>1, <2>2, <3>1, <3>3, <3>4 DEF WaitsForOne
  <2>6. CASE Submitted /\ flow.active
    <3>1. \A v \in WorkerSet : ~ (procs[v].owned /\ Doing(v, "download"))'
      <4>1. CASE UNCHANGED procs
        BY <2>1, <4>1
      <4>2. ASSUME NEW role, Begun(role), role # "download"
            PROVE  \A v \in WorkerSet : ~ (procs[v].owned /\ Doing(v, "download"))'
        <5>1. PICK v \in WorkerSet : Rest(v) /\ procs'[v].role = role
          BY <4>2 DEF Begun
        <5>2. \A u \in WorkerSet : u # v => procs'[u] = procs[u]
          BY <2>2, <5>1 DEF Rest, SetupShape
        <5> QED BY <2>1, <4>2, <5>1, <5>2
      <4> QED BY <2>6, <4>1, <4>2 DEF Submitted
    <3>2. /\ child' = U!NoProcess /\ host.built /\ {"packages", "emulator"} \subseteq passed'
          /\ flow'.active = flow.active /\ flow'.custom = flow.custom
          /\ \/ flow'.job = "import" /\ (flow.custom \/ "image" \in passed')
             \/ flow'.job = "desktop" /\ ws.json = "prepared"
             \/ flow'.job = "boot" /\ ws.json = "desktop"
      BY <2>6 DEF Submitted
    <3> QED BY <2>2, <2>6, <3>1, <3>2 DEF WaitsForOne
  <2> QED BY <2>2, <2>3, <2>4, <2>5, <2>6 DEF Turned
<1>7. CASE U!ProcessEnds
  <2>1. UNCHANGED <<procs, flow, ws, passed>> /\ child.state = "running"
        /\ child.role # "download"
    BY <1>7 DEF U!ProcessEnds
  <2>2. flow.job = "" /\ \A w \in WorkerSet : ~ (procs[w].owned /\ Doing(w, "download"))
    BY <2>1, Workings DEF SetupInv, WaitsForOne
  <2> QED BY <2>1, <2>2 DEF SetupInv, WaitsForOne
<1>8. CASE U!PackagesChange
  <2>1. UNCHANGED <<procs, flow, ws, child, passed>> /\ host' = [host EXCEPT !.missing = ~@]
    BY <1>8 DEF U!PackagesChange, U!window
  <2>2. host'.built = host.built
    BY <2>1 DEF SetupInv, SetupShape
  <2> QED BY <2>1, <2>2 DEF SetupInv, WaitsForOne
<1>9. CASE U!WindowDies
  <2>1. /\ flow' = U!NoFlow /\ child' = U!NoProcess /\ UNCHANGED <<ws, guest, host>>
        /\ \A w \in WorkerSet :
             /\ procs'[w].owned = FALSE /\ procs'[w].role = procs[w].role
                /\ procs'[w].at = procs[w].at
    BY <1>9, Dying DEF SetupInv
  <2> QED BY <1>r, <2>1, Workings DEF SetupInv, DesktopSteps, ImportSteps, WaitsForOne
<1>10. ASSUME NEW w \in WorkerSet, U!OpenCache(w) PROVE WaitsForOne'
  <2>1. (Moves(w, "download", 1, 2) \/ Ends(w, "download", 1)) /\ Other(w)
        /\ UNCHANGED <<ws, guest>>
    BY <1>10, Worked DEF SetupInv
  <2>a. CASE Moves(w, "download", 1, 2)
    <3>1. \A v \in WorkerSet : procs'[v].role = procs[v].role
          /\ procs'[v].owned = procs[v].owned
      BY <2>1, <2>a DEF Moves, Other
    <3>2. UNCHANGED <<child, flow, passed, host, ws>>
      BY <2>1, <2>a DEF Moves, Other
    <3> QED BY <3>1, <3>2 DEF SetupInv, WaitsForOne
  <2>b. CASE Ends(w, "download", 1)
    <3>2. \A v \in WorkerSet : v # w => procs'[v] = procs[v]
      BY <2>1, <2>b DEF Other
    <3>3. UNCHANGED <<flow, passed, host, ws>>
          /\ procs'[w].role \notin {"download", "import", "desktop"}
      BY <2>1, <2>b DEF Other, Ends
    <3>4. CASE procs[w].owned /\ Doing(w, "download")
      <4>1. flow.job = ""
        BY <3>4, Workings DEF SetupInv, WaitsForOne
      <4>2. \A v \in WorkerSet : ~ (procs'[v].owned /\ procs'[v].role = "download")
        BY <3>2, <3>3, <3>4 DEF SetupInv, WaitsForOne
      <4> QED BY <3>3, <4>1, <4>2 DEF SetupInv, WaitsForOne
    <3>5. CASE UNCHANGED child
      <4>1. \A v \in WorkerSet : procs'[v].role = "download" => procs'[v] = procs[v]
        BY <3>2, <3>3
      <4> QED BY <3>3, <3>5, <4>1 DEF SetupInv, WaitsForOne
    <3> QED BY <2>b, <3>4, <3>5 DEF Ends
  <2> QED BY <2>1, <2>a, <2>b
<1>11. ASSUME NEW w \in WorkerSet, U!Fetch(w) PROVE WaitsForOne'
  <2>1. Moves(w, "download", 2, 3) /\ Other(w) /\ UNCHANGED ws /\ UNCHANGED guest
    BY <1>11, Worked DEF SetupInv
  <2> QED BY <1>r, <2>1 DEF SetupInv, DesktopSteps, ImportSteps, WaitsForOne, Moves, Other
<1>12. ASSUME NEW w \in WorkerSet, U!VerifyFetched(w) PROVE WaitsForOne'
  <2>1. Ends(w, "download", 3) /\ Other(w) /\ UNCHANGED ws /\ UNCHANGED guest
    BY <1>12, Worked DEF SetupInv
  <2>2. \A v \in WorkerSet : v # w => procs'[v] = procs[v]
    BY <2>1 DEF Other
  <2>3. UNCHANGED <<flow, passed, host, ws>>
        /\ procs'[w].role \notin {"download", "import", "desktop"}
    BY <2>1 DEF Other, Ends
  <2>4. CASE procs[w].owned /\ Doing(w, "download")
    <3>1. flow.job = ""
      BY <2>4, Workings DEF SetupInv, WaitsForOne
    <3>2. \A v \in WorkerSet : ~ (procs'[v].owned /\ procs'[v].role = "download")
      BY <2>2, <2>3, <2>4 DEF SetupInv, WaitsForOne
    <3> QED BY <2>3, <3>1, <3>2 DEF SetupInv, WaitsForOne
  <2>5. CASE UNCHANGED child
    <3>1. \A v \in WorkerSet : procs'[v].role = "download" => procs'[v] = procs[v]
      BY <2>2, <2>3
    <3> QED BY <2>3, <2>5, <3>1 DEF SetupInv, WaitsForOne
  <2> QED BY <2>1, <2>4, <2>5 DEF Ends
<1>13. ASSUME NEW w \in WorkerSet, U!MakeWorkspace(w) PROVE WaitsForOne'
  <2>1. Moves(w, "import", 1, 2) /\ Other(w) /\ ws.base = "none" /\ ws.overlay = "none"
        /\ ws.json = "none" /\ Files("part", ws.overlay, ws.json) /\ UNCHANGED guest
    BY <1>13, Worked DEF SetupInv
  <2> QED BY <1>r, <2>1 DEF SetupInv, DesktopSteps, ImportSteps, WaitsForOne, Moves, Other,
       Files
<1>14. ASSUME NEW w \in WorkerSet, U!CopyBase(w) PROVE WaitsForOne'
  <2>1. Moves(w, "import", 2, 3) /\ Other(w) /\ Files("whole", ws.overlay, ws.json)
        /\ UNCHANGED guest
    BY <1>14, Worked DEF SetupInv
  <2> QED BY ZenonT(60), <1>r, <2>1 DEF SetupInv, DesktopSteps, ImportSteps, WaitsForOne,
       Moves, Other,
       Files
<1>15. ASSUME NEW w \in WorkerSet, U!CreateOverlay(w) PROVE WaitsForOne'
  <2>1. Moves(w, "import", 3, 4) /\ Other(w) /\ Files(ws.base, "plain", "part")
        /\ UNCHANGED guest
    BY <1>15, Worked DEF SetupInv
  <2> QED BY ZenonT(60), <1>r, <2>1 DEF SetupInv, DesktopSteps, ImportSteps, WaitsForOne,
       Moves, Other,
       Files
<1>16. ASSUME NEW w \in WorkerSet, U!WriteMachine(w) PROVE WaitsForOne'
  <2>1. Ends(w, "import", 4) /\ Other(w) /\ Files(ws.base, ws.overlay, "prepared")
        /\ UNCHANGED guest
    BY <1>16, Worked DEF SetupInv
  <2>2. \A v \in WorkerSet : procs'[v].role = "download" => procs'[v] = procs[v]
    BY <2>1 DEF Moves, Ends, Other
  <2>3. UNCHANGED <<child, flow, passed, host>>
    BY <2>1 DEF Moves, Ends, Other
  <2>4. flow.job \notin {"boot", "desktop"}
    BY <2>1 DEF Ends, SetupInv, ImportSteps, WaitsForOne
  <2> QED BY <2>2, <2>3, <2>4 DEF SetupInv, WaitsForOne
<1>17. ASSUME NEW w \in WorkerSet, U!LockDesktop(w) PROVE WaitsForOne'
  <2>1. /\ Other(w) /\ guest # "boot" /\ \A v \in WorkerSet : v # w => ~ Beyond(v, "desktop")
        /\ \/ Ends(w, "desktop", 1) /\ UNCHANGED <<ws, guest>> /\ ws.json = "desktop"
           \/ Moves(w, "desktop", 1, 2) /\ guest' = "setup"
              /\ Files(ws.base, "half", ws.json) /\ ws.json # "desktop"
    BY <1>17, Worked DEF SetupInv
  <2>2. \A v \in WorkerSet : procs'[v].role = "download" => procs'[v] = procs[v]
    BY <2>1 DEF Moves, Ends, Other
  <2>3. UNCHANGED <<child, flow, passed, host>>
    BY <2>1 DEF Moves, Ends, Other
  <2>4. ws'.json = ws.json
    BY <2>1 DEF Files
  <2> QED BY <2>2, <2>3, <2>4 DEF SetupInv, WaitsForOne
<1>18. ASSUME NEW w \in WorkerSet, U!RunSetup(w) PROVE WaitsForOne'
  <2>1. Moves(w, "desktop", 2, 3) /\ Other(w) /\ guest = "setup"
        /\ Files(ws.base, "desktop", ws.json) /\ UNCHANGED guest
    BY <1>18, Worked DEF SetupInv
  <2> QED BY ZenonT(60), <1>r, <2>1 DEF SetupInv, DesktopSteps, ImportSteps, WaitsForOne,
       Moves, Other,
       Files
<1>19. ASSUME NEW w \in WorkerSet, U!QuitSetup(w) PROVE WaitsForOne'
  <2>1. Moves(w, "desktop", 3, 4) /\ Other(w) /\ guest = "setup" /\ UNCHANGED ws
        /\ guest' # "boot"
    BY <1>19, Worked DEF SetupInv
  <2> QED BY <1>r, <2>1 DEF SetupInv, DesktopSteps, ImportSteps, WaitsForOne, Moves, Other
<1>20. ASSUME NEW w \in WorkerSet, U!RecordDesktop(w) PROVE WaitsForOne'
  <2>1. Ends(w, "desktop", 4) /\ Other(w) /\ Files(ws.base, ws.overlay, "desktop")
        /\ UNCHANGED guest
    BY <1>20, Worked DEF SetupInv
  <2>2. \A v \in WorkerSet : procs'[v].role = "download" => procs'[v] = procs[v]
    BY <2>1 DEF Moves, Ends, Other
  <2>3. UNCHANGED <<child, flow, passed, host>>
    BY <2>1 DEF Moves, Ends, Other
  <2>4. ws'.json = "desktop"
    BY <2>1 DEF Files
  <2> QED BY <2>2, <2>3, <2>4 DEF SetupInv, WaitsForOne
<1>21. ASSUME NEW w \in WorkerSet, U!WorkerDies(w) PROVE WaitsForOne'
  <2>1. /\ Other(w) /\ procs'[w].role \notin {"download", "import", "desktop"}
        /\ UNCHANGED ws /\ (guest' = "boot" => guest = "boot")
        /\ ((procs[w].owned /\ procs[w].role = "download") \/ UNCHANGED child)
    BY <1>21, Worked DEF SetupInv
  <2>2. \A v \in WorkerSet : v # w => procs'[v] = procs[v]
    BY <2>1 DEF Other
  <2>3. UNCHANGED <<flow, passed, host, ws>>
        /\ procs'[w].role \notin {"download", "import", "desktop"}
    BY <2>1 DEF Other
  <2>4. CASE procs[w].owned /\ Doing(w, "download")
    <3>1. flow.job = ""
      BY <2>4, Workings DEF SetupInv, WaitsForOne
    <3>2. \A v \in WorkerSet : ~ (procs'[v].owned /\ procs'[v].role = "download")
      BY <2>2, <2>3, <2>4 DEF SetupInv, WaitsForOne
    <3> QED BY <2>3, <3>1, <3>2 DEF SetupInv, WaitsForOne
  <2>5. CASE UNCHANGED child
    <3>1. \A v \in WorkerSet : procs'[v].role = "download" => procs'[v] = procs[v]
      BY <2>2, <2>3
    <3> QED BY <2>3, <2>5, <3>1 DEF SetupInv, WaitsForOne
  <2> QED BY <2>1, <2>4, <2>5 DEF Ends
<1>22. CASE UNCHANGED <<child, flow, host, passed, procs, ws>>
  BY <1>22 DEF SetupInv, DesktopSteps, ImportSteps, WaitsForOne
<1>w. DOMAIN procs = WorkerSet
  BY DEF SetupInv, SetupShape
<1> QED BY <1>1, <1>2, <1>3, <1>4, <1>5, <1>6, <1>7, <1>8, <1>9, <1>10, <1>11, <1>12, <1>13,
      <1>14, <1>15, <1>16, <1>17, <1>18, <1>19, <1>20, <1>21, <1>22, <1>w DEF U!Next, U!Begin,
      U!window, U!places, U!counts, U!Others, U!CancelBuild, U!Boots, U!GuestEnds

LEMMA PreparedIsWholeKept == SetupInv /\ U!Next => PreparedIsWhole'
<1> SUFFICES ASSUME SetupInv, U!Next PROVE PreparedIsWhole'
  OBVIOUS
<1> USE DEF Doing, Beyond
<1>r. ws.json \in {"none", "part", "prepared", "desktop"}
  BY DEF SetupInv, SetupShape
<1>1. CASE U!Boots
  BY <1>1 DEF SetupInv, ImportSteps, DesktopSteps, PreparedIsWhole, WaitsForOne,
       U!PreparedIsWhole, U!Boots
<1>2. CASE U!GuestEnds
  BY <1>2 DEF SetupInv, ImportSteps, DesktopSteps, PreparedIsWhole, WaitsForOne,
       U!PreparedIsWhole, U!GuestEnds
<1>3. ASSUME NEW w \in WorkerSet, U!MakeWorkspace(w) PROVE PreparedIsWhole'
  <2>1. Moves(w, "import", 1, 2) /\ Other(w) /\ ws.base = "none" /\ ws.overlay = "none"
        /\ ws.json = "none" /\ Files("part", ws.overlay, ws.json) /\ UNCHANGED guest
    BY <1>3, Worked DEF SetupInv
  <2> QED BY <1>r, <2>1 DEF SetupInv, ImportSteps, DesktopSteps, PreparedIsWhole, WaitsForOne,
       U!PreparedIsWhole, Moves, Other, Files
<1>4. ASSUME NEW w \in WorkerSet, U!CopyBase(w) PROVE PreparedIsWhole'
  <2>1. Moves(w, "import", 2, 3) /\ Other(w) /\ Files("whole", ws.overlay, ws.json)
        /\ UNCHANGED guest
    BY <1>4, Worked DEF SetupInv
  <2> QED BY <1>r, <2>1 DEF SetupInv, ImportSteps, DesktopSteps, PreparedIsWhole, WaitsForOne,
       U!PreparedIsWhole, Moves, Other, Files
<1>5. ASSUME NEW w \in WorkerSet, U!CreateOverlay(w) PROVE PreparedIsWhole'
  <2>1. Moves(w, "import", 3, 4) /\ Other(w) /\ Files(ws.base, "plain", "part")
        /\ UNCHANGED guest
    BY <1>5, Worked DEF SetupInv
  <2> QED BY <1>r, <2>1 DEF SetupInv, ImportSteps, DesktopSteps, PreparedIsWhole, WaitsForOne,
       U!PreparedIsWhole, Moves, Other, Files
<1>6. ASSUME NEW w \in WorkerSet, U!WriteMachine(w) PROVE PreparedIsWhole'
  <2>1. Ends(w, "import", 4) /\ Other(w) /\ Files(ws.base, ws.overlay, "prepared")
        /\ UNCHANGED guest
    BY <1>6, Worked DEF SetupInv
  <2>2. ws.base = "whole" /\ ws.overlay # "none" /\ guest # "boot"
    BY <2>1 DEF Ends, SetupInv, ImportSteps, PreparedIsWhole, U!PreparedIsWhole
  <2> QED BY <2>1, <2>2 DEF Files, PreparedIsWhole, U!PreparedIsWhole
<1>7. ASSUME NEW w \in WorkerSet, U!LockDesktop(w) PROVE PreparedIsWhole'
  <2>1. /\ Other(w) /\ guest # "boot" /\ \A v \in WorkerSet : v # w => ~ Beyond(v, "desktop")
        /\ \/ Ends(w, "desktop", 1) /\ UNCHANGED <<ws, guest>> /\ ws.json = "desktop"
           \/ Moves(w, "desktop", 1, 2) /\ guest' = "setup"
              /\ Files(ws.base, "half", ws.json) /\ ws.json # "desktop"
    BY <1>7, Worked DEF SetupInv
  <2>2. ws.json \in {"prepared", "desktop"} /\ PreparedIsWhole
    BY <2>1 DEF Moves, Ends, SetupInv, DesktopSteps
  <2>3. CASE UNCHANGED <<ws, guest>>
    BY <2>2, <2>3 DEF PreparedIsWhole, U!PreparedIsWhole
  <2>4. CASE guest' = "setup" /\ Files(ws.base, "half", ws.json) /\ ws.json # "desktop"
    BY <2>2, <2>4 DEF Files, PreparedIsWhole, U!PreparedIsWhole
  <2> QED BY <2>1, <2>3, <2>4
<1>8. ASSUME NEW w \in WorkerSet, U!RunSetup(w) PROVE PreparedIsWhole'
  <2>1. Moves(w, "desktop", 2, 3) /\ Other(w) /\ guest = "setup"
        /\ Files(ws.base, "desktop", ws.json) /\ UNCHANGED guest
    BY <1>8, Worked DEF SetupInv
  <2> QED BY <1>r, <2>1 DEF SetupInv, ImportSteps, DesktopSteps, PreparedIsWhole, WaitsForOne,
       U!PreparedIsWhole, Moves, Other, Files
<1>9. ASSUME NEW w \in WorkerSet, U!QuitSetup(w) PROVE PreparedIsWhole'
  <2>1. Moves(w, "desktop", 3, 4) /\ Other(w) /\ guest = "setup" /\ UNCHANGED ws
        /\ guest' # "boot"
    BY <1>9, Worked DEF SetupInv
  <2> QED BY <1>r, <2>1 DEF SetupInv, ImportSteps, DesktopSteps, PreparedIsWhole, WaitsForOne,
       U!PreparedIsWhole, Moves, Other
<1>10. ASSUME NEW w \in WorkerSet, U!RecordDesktop(w) PROVE PreparedIsWhole'
  <2>1. Ends(w, "desktop", 4) /\ Other(w) /\ Files(ws.base, ws.overlay, "desktop")
        /\ UNCHANGED guest
    BY <1>10, Worked DEF SetupInv
  <2>2. ws.base = "whole" /\ ws.overlay = "desktop"
    BY <2>1 DEF Ends, SetupInv, DesktopSteps, PreparedIsWhole, U!PreparedIsWhole
  <2> QED BY <2>1, <2>2 DEF Files, PreparedIsWhole, U!PreparedIsWhole
<1>11. ASSUME NEW w \in WorkerSet, U!WorkerDies(w) PROVE PreparedIsWhole'
  <2>1. /\ Other(w) /\ procs'[w].role \notin {"download", "import", "desktop"}
        /\ UNCHANGED ws /\ (guest' = "boot" => guest = "boot")
        /\ ((procs[w].owned /\ procs[w].role = "download") \/ UNCHANGED child)
    BY <1>11, Worked DEF SetupInv
  <2> QED BY <1>r, <2>1 DEF SetupInv, ImportSteps, DesktopSteps, PreparedIsWhole, WaitsForOne,
       U!PreparedIsWhole, Other
<1>12. CASE UNCHANGED <<guest, ws>>
  BY <1>12 DEF SetupInv, ImportSteps, DesktopSteps, PreparedIsWhole, WaitsForOne,
       U!PreparedIsWhole
<1>w. DOMAIN procs = WorkerSet
  BY DEF SetupInv, SetupShape
<1> QED BY <1>1, <1>2, <1>3, <1>4, <1>5, <1>6, <1>7, <1>8, <1>9, <1>10, <1>11, <1>12, <1>w DEF
      U!Next, U!Begin, U!window, U!places, U!counts, U!Others, U!StartButton, U!WizardFinish,
      U!RequestBuild, U!CancelBuild, U!CancelFlow, U!Poll, U!PollJob, U!ProcessEnds,
      U!PackagesChange, U!WindowDies, U!OpenCache, U!Fetch, U!VerifyFetched

LEMMA SetupInvBegins == U!Init => SetupInv
<1> SUFFICES ASSUME U!Init PROVE SetupInv
  OBVIOUS
<1>1. /\ DOMAIN procs = WorkerSet /\ \A w \in WorkerSet : procs[w] = U!NoWorker
      /\ flow = U!NoFlow /\ child = U!NoProcess /\ ws = U!Absent /\ guest # "boot"
      /\ DOMAIN host = {"missing", "built"}
  BY DEF U!Init, WorkerSet
<1>2. /\ DOMAIN U!NoWorker = {"role", "at", "owned", "opt"} /\ U!NoWorker.at = 0
      /\ U!NoWorker.role \notin {"download", "import", "desktop"}
  BY DEF U!NoWorker
<1>3. DOMAIN ws = {"base", "overlay", "json"} /\ ws.json = "none" /\ ws.base = "none"
      /\ ws.overlay = "none"
  BY <1>1 DEF U!Absent
<1>4. 0 \in Nat
  OBVIOUS
<1>5. SetupShape
  BY <1>1, <1>2, <1>3, <1>4, Workings, Zenon DEF SetupShape
<1>6. ImportSteps /\ DesktopSteps
  BY <1>1, <1>2, <1>3 DEF ImportSteps, DesktopSteps, Doing, Beyond
<1>7. WaitsForOne
  BY <1>1, <1>2, Workings, Zenon DEF WaitsForOne, Doing
<1>8. PreparedIsWhole
  BY <1>1, <1>3 DEF PreparedIsWhole, U!PreparedIsWhole
<1> QED BY <1>5, <1>6, <1>7, <1>8 DEF SetupInv

LEMMA SetupInvKept == SetupInv /\ [U!Next]_(U!vars) => SetupInv'
<1> SUFFICES ASSUME SetupInv, [U!Next]_(U!vars) PROVE SetupInv'
  OBVIOUS
<1>1. CASE U!Next
  BY <1>1, SetupShapeKept, ImportStepsKept, DesktopStepsKept, WaitsForOneKept,
       PreparedIsWholeKept DEF SetupInv
<1>2. CASE UNCHANGED U!vars
  BY ZenonT(60), <1>2 DEF SetupInv, SetupShape, ImportSteps, DesktopSteps, WaitsForOne,
       PreparedIsWhole,
       U!PreparedIsWhole, Doing, Beyond, WorkerSet, U!NoProcess, U!vars
<1> QED BY <1>1, <1>2

THEOREM SetupInvHolds == U!Spec => []SetupInv
  BY SetupInvBegins, SetupInvKept, PTL DEF U!Spec

(* However many windows and workers die, overlap and are started again, a  *)
(* workspace counts as prepared, as configured, or boots, only when what   *)
(* machine.json then describes is there.                                   *)
THEOREM PreparedStaysWhole == U!Spec => []PreparedIsWhole
<1>1. SetupInv => PreparedIsWhole
  BY DEF SetupInv
<1> QED BY <1>1, SetupInvHolds, PTL

(* After the owner has cancelled, no further process and no further job    *)
(* begins: neither what the cancelled process still answers nor a job      *)
(* that had already been let go goes on to the next stage.                 *)
THEOREM CancelAlwaysStops == U!Spec => CancelStops
<1> DEFINE Stops == U!Asked => /\ child'.state = "running" => child' = child
                               /\ flow'.job \in {"", flow.job}
<1>1. SetupInv /\ U!Next => Stops
  <2> SUFFICES ASSUME SetupInv, U!Next, U!Asked
  PROVE (child'.state = "running" => child' = child) /\ flow'.job \in {"", flow.job}
    OBVIOUS
  <2>w. DOMAIN procs = WorkerSet /\ SetupShape
    BY DEF SetupInv, SetupShape
  <2>1. CASE U!StartButton \/ U!WizardFinish \/ U!RequestBuild
    BY <2>1, Starting DEF U!Asked, SetupInv, WaitsForOne
  <2>2. CASE U!Poll
    <3>1. U!Stopping
      BY DEF U!Asked, U!Stopping
    <3>2. U!Finish
      BY <2>2, <3>1 DEF U!Poll, U!GiveUp
    <3> QED BY <3>2, Workings DEF U!Finish
  <2>3. CASE U!PollJob
    <3>1. flow.cancelled
      BY <2>3 DEF U!PollJob, U!Asked, SetupInv, WaitsForOne
    <3>2. U!Finish
      BY <2>3, <3>1 DEF U!PollJob, U!GiveUp
    <3> QED BY <3>2, Workings DEF U!Finish
  <2>4. CASE U!WindowDies
    BY <2>w, <2>4, Dying, Workings
  <2>5. CASE U!CancelFlow
    <3>1. flow' = [flow EXCEPT !.cancelled = TRUE] /\ UNCHANGED child
      BY <2>5 DEF U!CancelFlow
    <3>2. flow'.job = flow.job
      BY <2>w, <3>1 DEF SetupShape
    <3> QED BY <3>1, <3>2
  <2>6. CASE U!ProcessEnds
    <3>1. PICK s \in {"done", "failed"} : child' = [child EXCEPT !.state = s]
      BY <2>6 DEF U!ProcessEnds
    <3>2. child'.state = s /\ UNCHANGED flow
      BY <2>w, <2>6, <3>1 DEF U!ProcessEnds, SetupShape
    <3> QED BY <3>2
  <2>7. ASSUME NEW w \in WorkerSet, NEW s \in {"done", "failed"}, U!Ended(w, s), UNCHANGED flow
        PROVE  (child'.state = "running" => child' = child) /\ flow'.job \in {"", flow.job}
    <3>1. child' = child \/ child' = [child EXCEPT !.state = s]
      BY <2>7 DEF U!Ended
    <3>2. child' = child \/ child'.state = s
      BY <2>w, <3>1 DEF SetupShape
    <3> QED BY <2>7, <3>2
  <2>8. ASSUME NEW w \in WorkerSet, U!Goes(w), UNCHANGED flow
        PROVE  (child'.state = "running" => child' = child) /\ flow'.job \in {"", flow.job}
    BY <2>8 DEF U!Goes
  <2>9. CASE UNCHANGED <<flow, child>>
    BY <2>9
  <2> QED BY <2>1, <2>2, <2>3, <2>4, <2>5, <2>6, <2>7, <2>8, <2>9, <2>w
        DEF U!Next, U!CancelBuild, U!PackagesChange, U!Boots, U!GuestEnds, U!window, U!Others,
        U!OpenCache,
          U!Fetch, U!VerifyFetched, U!MakeWorkspace, U!CopyBase, U!CreateOverlay,
          U!WriteMachine,
          U!LockDesktop, U!RunSetup, U!QuitSetup, U!RecordDesktop, U!WorkerDies
<1>2. SetupInv /\ [U!Next]_(U!vars) => [Stops]_(U!vars)
  BY <1>1
<1> HIDE DEF Stops
<1>4. U!Spec => [][Stops]_(U!vars)
  BY <1>2, SetupInvHolds, PTL DEF U!Spec
<1> QED BY <1>4 DEF Stops, CancelStops, U!CancelStops
=============================================================================
