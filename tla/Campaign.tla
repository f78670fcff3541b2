------------------------------ MODULE Campaign ------------------------------
(***************************************************************************)
(* One card from its first recovery boot to its return to the normal       *)
(* system: the evidence the host collects boot by boot and the plans it    *)
(* compiles from it (forge_hold_policy, _root_policy, _release_policy,     *)
(* _reconcile_policy, _backup_policy, forge_recovery_restore_plan,         *)
(* _deploy_plan, _restore_reconcile), each a draft the owner approves and  *)
(* submits as a job of forge_recovery_jobs through forge_controller.       *)
(*                                                                         *)
(* A plan lives in a journal of its own and is dispatched once.  Its       *)
(* worker may be late, die, or go on after the host has given it up.       *)
(* What a worker wrote to the root is what later reads return, but only    *)
(* what it synchronized is sure to survive a reset.  Roots are contents:   *)
(* "original" is the card of the retained backup, "enhanced" an image      *)
(* derived from it, "lived" a root the normal system has changed since.    *)
(* The owner of the model accepts no known filesystem errors.              *)
(***************************************************************************)
EXTENDS Naturals, Sequences, FiniteSets

CONSTANTS
  Journals,   \* output directories for plans
  MaxBoots,   \* bound on boots
  MaxReads    \* bound on the observations kept

VARIABLES
  boots,      \* the kind of every boot so far: "trial", "held" or "normal"
  selector,   \* config.txt selects the "normal" system or the "held" recovery
  root,       \* the root partition as a read returns it
  disk,       \* the root partition as a reset would leave it
  plan,       \* the plan in a journal
  attempt,    \* what became of its one dispatch
  query,      \* the reconciliation under way
  evidence    \* finished observations, never discarded

card == <<boots, selector, root, disk>>
vars == <<card, plan, attempt, query, evidence>>

boot == Len(boots)
NoPlan == [op |-> "none", boot |-> 0, guard |-> "original", after |-> "original"]
NoQuery == [of |-> NoPlan.op, outcome |-> "none", selector |-> "none"]
Whole == {"original", "enhanced", "lived"}
HoldOps == {"install-hold", "release-hold"}
RootOps == {"deploy-root", "restore-root"}
Selected(op) == IF op = "install-hold" THEN "held" ELSE "normal"
Recovering == boots[boot] # "normal"

Init ==
  /\ boots = <<"trial">> /\ selector = "normal" /\ root = "original" /\ disk = "original"
  /\ plan = [j \in Journals |-> NoPlan] /\ attempt = [j \in Journals |-> "none"]
  /\ query = NoQuery /\ evidence = {}

-----------------------------------------------------------------------------
(* A job holds the session of its boot; that it refuses an uncertain lease *)
(* means only that it may do nothing.  Workers of the target exclude each  *)
(* other.                                                                  *)
Idle == query = NoQuery
Session(b) == b \in 1..boot /\ boots[b] # "normal" /\ Idle
NobodyWrites == \A j \in Journals : attempt[j] # "writing"

\* A renewal goes without an answer or a call fails: the job is over.
give_up ==
  /\ query # NoQuery /\ query' = NoQuery
  /\ UNCHANGED <<card, plan, attempt, evidence>>

Keep(e) == Cardinality(evidence \cup {e}) <= MaxReads /\ evidence' = evidence \cup {e}

\* hash-card and backup-card: a checked read of the whole card.
capture ==
  /\ Recovering /\ Session(boot) /\ NobodyWrites
  /\ Keep([of |-> "card", boot |-> boot, status |-> "read", root |-> root, selector |-> selector,
           again |-> FALSE])
  /\ UNCHANGED <<card, plan, attempt, query>>

-----------------------------------------------------------------------------
(* Drafts, made offline for the session of any enrolled boot b.            *)
Draft(j, b, p) ==
  /\ Session(b) /\ plan[j] = NoPlan
  /\ plan' = [plan EXCEPT ![j] = p]
  /\ UNCHANGED <<card, attempt, query, evidence>>

\* install-hold: a source the owner names is what the card held in this boot.
prepare_hold(j) ==
  \E e \in evidence :
    /\ e.of = "card" /\ e.root \in {"original", "enhanced"}
    /\ Draft(j, e.boot, [op |-> "install-hold", boot |-> e.boot, guard |-> e.root, after |-> e.root])

\* deploy-root or restore-root: under a hold reconciled in this newer held boot.
prepare_root(j) ==
  \E e \in evidence, op \in RootOps :
    /\ e.of \in Journals /\ plan[e.of].op = "install-hold" /\ e.status = "after"
    /\ plan[e.of].boot # e.boot /\ boots[e.boot] = "held" /\ e.root = plan[e.of].guard
    /\ op = "deploy-root" => e.root = "original"
    /\ Draft(j, e.boot, [op |-> op, boot |-> e.boot, guard |-> e.root,
                         after |-> IF op = "deploy-root" THEN "enhanced" ELSE "original"])

\* release-hold: of a root that a reconciliation found to be the approved one.
Releasable(e) == e.status = "source-matched" /\ ~e.again
prepare_release(j) ==
  \E e \in evidence :
    /\ e.of \in Journals /\ plan[e.of].op \in RootOps /\ Releasable(e)
    /\ Draft(j, e.boot, [op |-> "release-hold", boot |-> e.boot, guard |-> plan[e.of].after,
                         after |-> e.root])

-----------------------------------------------------------------------------
(* Approved jobs on the target.                                            *)
load(j) == plan[j] # NoPlan /\ attempt[j] = "none" /\ plan[j].boot = boot
execute(j) ==
  /\ load(j) /\ Session(boot)
  /\ attempt' = [attempt EXCEPT ![j] = "sent"]
  /\ UNCHANGED <<card, plan, query, evidence>>

Arrives(j, ops) == attempt[j] = "sent" /\ plan[j].op \in ops /\ plan[j].boot = boot /\ NobodyWrites

\* The guards of the selector's worker, read under its claim of the root.
verify_guards(j) == root = plan[j].guard /\ selector # Selected(plan[j].op)
commit(j) ==
  /\ Arrives(j, HoldOps) /\ verify_guards(j)
  /\ selector' = Selected(plan[j].op)
  /\ \E s \in {"completed", "incomplete"} : attempt' = [attempt EXCEPT ![j] = s]
  /\ UNCHANGED <<boots, root, disk, plan, query, evidence>>

\* A worker that records its intent and is refused or dies before it writes.
stop(j) ==
  /\ Arrives(j, HoldOps \cup RootOps) /\ attempt' = [attempt EXCEPT ![j] = "incomplete"]
  /\ UNCHANGED <<card, plan, query, evidence>>

\* One boot-wide ledger: an unfinished writer keeps out every other plan.
Unfinished(b) == \E k \in Journals : plan[k].op \in RootOps /\ plan[k].boot = b /\ attempt[k] = "incomplete"
write(j) ==
  /\ Arrives(j, RootOps) /\ ~Unfinished(boot) /\ root = plan[j].guard /\ selector = "held"
  /\ IF plan[j].guard = plan[j].after   \* chunks that match are not written
     THEN UNCHANGED <<root, disk>> ELSE root' = "torn" /\ disk' = "torn"
  /\ attempt' = [attempt EXCEPT ![j] = "writing"]
  /\ UNCHANGED <<boots, selector, plan, query, evidence>>
Writer(j) == attempt[j] = "writing" /\ UNCHANGED <<boots, selector, plan, query, evidence>>
last_chunk(j) == Writer(j) /\ root' = plan[j].after /\ UNCHANGED <<disk, attempt>>
finish(j) ==
  /\ Writer(j) /\ root = plan[j].after /\ disk' = root
  /\ attempt' = [attempt EXCEPT ![j] = "completed"] /\ UNCHANGED root
kill(j) == Writer(j) /\ attempt' = [attempt EXCEPT ![j] = "incomplete"] /\ UNCHANGED <<root, disk>>

-----------------------------------------------------------------------------
(* reconcile-hold and reconcile-root: fence the attempt, then look.        *)
Dispatched(j) == attempt[j] # "none"
Outcome(j) ==
  IF plan[j].boot # boot THEN "previous-boot-ended"
  ELSE IF attempt[j] = "sent" THEN "fenced-not-started" ELSE attempt[j]
fence(j) ==
  /\ Recovering /\ Session(boot) /\ Dispatched(j) /\ NobodyWrites
  /\ query' = [of |-> j, outcome |-> Outcome(j), selector |-> "none"]
  /\ attempt' = [attempt EXCEPT ![j] = IF Outcome(j) = "fenced-not-started" THEN "fenced-not-started" ELSE @]
  /\ UNCHANGED <<card, plan, evidence>>
inspect ==
  /\ query # NoQuery /\ query.selector = "none" /\ NobodyWrites
  /\ query' = [query EXCEPT !.selector = selector]
  /\ UNCHANGED <<card, plan, attempt, evidence>>

ClassifyHold(p, q) ==
  LET after == q.selector = Selected(p.op)
  IN IF (q.outcome = "completed" /\ ~after) \/ (q.outcome = "fenced-not-started" /\ after) THEN "conflict"
     ELSE IF after THEN "after" ELSE "before"
Conflict(p, q) ==
  \/ selector # q.selector \/ q.selector # "held"
  \/ q.outcome = "completed" /\ root # p.after
  \/ q.outcome = "fenced-not-started" /\ root # p.guard
classify(p, q) ==
  IF Conflict(p, q) THEN "conflict"
  ELSE IF root = p.after THEN "source-matched" ELSE IF root = p.guard THEN "before" ELSE "partial"
AgainNever(p, q) == FALSE
Again(p, q) == p.boot = boot /\ q.outcome = "incomplete"
reconcile ==
  LET p == plan[query.of]
      hold == p.op \in HoldOps
  IN /\ query # NoQuery /\ query.selector # "none" /\ NobodyWrites
     /\ IF hold /\ (root # p.guard \/ selector # query.selector) THEN UNCHANGED evidence
        ELSE Keep([of |-> query.of, boot |-> boot, root |-> root, selector |-> selector,
                   status |-> IF hold THEN ClassifyHold(p, query) ELSE classify(p, query),
                   again |-> ~hold /\ Again(p, query)])
     /\ query' = NoQuery /\ UNCHANGED <<card, plan, attempt>>

-----------------------------------------------------------------------------
(* The kernel writes back; a reset keeps the durable root; the normal      *)
(* system changes its root.                                                *)
writeback == disk # root /\ disk' = root /\ UNCHANGED <<boots, selector, root, plan, attempt, query, evidence>>
reset ==
  /\ boot < MaxBoots
  /\ \E k \in IF selector = "held" THEN {"held"} ELSE {"normal", "trial"} : boots' = Append(boots, k)
  /\ root' = disk /\ query' = NoQuery
  /\ attempt' = [j \in Journals |-> IF attempt[j] = "writing" THEN "incomplete" ELSE attempt[j]]
  /\ UNCHANGED <<selector, disk, plan, evidence>>
live ==
  /\ ~Recovering /\ root' = "lived" /\ disk' = "lived"
  /\ UNCHANGED <<boots, selector, plan, attempt, query, evidence>>

Next ==
  \/ give_up \/ capture \/ inspect \/ reconcile \/ writeback \/ reset \/ live
  \/ \E j \in Journals :
       \/ prepare_hold(j) \/ prepare_root(j) \/ prepare_release(j) \/ execute(j)
       \/ commit(j) \/ stop(j) \/ write(j) \/ last_chunk(j) \/ finish(j) \/ kill(j) \/ fence(j)

Spec == Init /\ [][Next]_vars

-----------------------------------------------------------------------------
\* Whenever the boot selector starts the normal system, what a reset finds
\* on the root is a whole root: no card is released that rests on a write
\* which only the cache of a dead worker completed (forge_release_policy
\* inputs, forge_recovery_restore_reconcile classify).
NormalIsWhole == selector = "normal" => disk \in Whole
=============================================================================
