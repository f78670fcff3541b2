------------------------------- MODULE MCBoot -------------------------------
(***************************************************************************)
(* The commit of the boot selector in detail, the boots and reboots around *)
(* it, the contents of the files it selects, and the campaign of plans     *)
(* that ends in one, checked side by side: part says which of them moves.  *)
(*                                                                         *)
(* The times of the commit are those of the code in units of 10 seconds: a *)
(* lease of at most 300 seconds, 90 of them left at the budget check, a    *)
(* mounted phase of 60, an unmount of 10 and an approval within 60.        *)
(***************************************************************************)
EXTENDS BootCommit, TLC

CONSTANTS Plans, Owner, MaxNumber, Journals, MaxCampaign, MaxReads
VARIABLES part,
  number, kind, by, selector, lock, renewed, tried, claimed, enrolled, unresolved, enr,
  op, of, commit, flow, asked, ticket, writer, rebooter, seen, proof,
  bootFiles, backup, draft, begun,
  boots, config_txt, root, disk, plan, attempt, query, evidence

H == INSTANCE HeldBoot WITH boot <- number, worker <- rebooter, MaxBoots <- MaxNumber
R == INSTANCE BootRecipe WITH card <- bootFiles
ASSUME HeldAssumption == H!PlansAssumption
held == <<number, kind, by, selector, lock, renewed, tried, claimed, enrolled, unresolved, enr,
          op, of, commit, flow, asked, ticket, writer, rebooter, seen, proof>>
C == INSTANCE Campaign WITH selector <- config_txt, MaxBoots <- MaxCampaign
recipe == <<bootFiles, backup, draft, begun>>
campaign == <<boots, config_txt, root, disk, plan, attempt, query, evidence>>

MCInit ==
  /\ part \in {"commit", "held", "recipe", "campaign"}
  /\ Init /\ H!Init /\ C!Init
  /\ IF part = "recipe" THEN R!Init
     ELSE bootFiles = <<>> /\ backup = <<>> /\ draft = {} /\ begun = FALSE
MCNext ==
  \/ part = "commit" /\ Next /\ UNCHANGED <<part, held, recipe, campaign>>
  \/ part = "held" /\ H!Next /\ UNCHANGED <<part, vars, recipe, campaign>>
  \/ part = "recipe" /\ R!Next /\ UNCHANGED <<part, vars, held, campaign>>
  \/ part = "campaign" /\ C!Next /\ UNCHANGED <<part, vars, held, recipe>>
MCSpec == MCInit /\ [][MCNext]_<<part, vars, held, recipe, campaign>>

\* No action tells journals apart.
JournalSymmetry == Permutations(Journals)

RebootsWhereApproved == H!RebootsWhereApproved
EvidenceIsTrue == H!EvidenceIsTrue
WholeBoots == R!WholeBoots
NormalIsWhole == C!NormalIsWhole
=============================================================================
