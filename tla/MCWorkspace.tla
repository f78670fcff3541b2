----------------------------- MODULE MCWorkspace -----------------------------
(***************************************************************************)
(* The workspace with two forge processes, one user checkpoint name, two    *)
(* restores, two versions written by guests and two boot artifacts (the     *)
(* kernel and machine.json stand for the four); and, on the target, a new   *)
(* service and the update of one that is active and enabled.  They are      *)
(* checked side by side: part says which of them moves.                     *)
(***************************************************************************)
EXTENDS Workspace, TLC

CONSTANTS Parts, Transactions, MaxCalls, MaxFailures
VARIABLES part,
  plan, last, journal, waiting, asked, reply, owner, stage, ledger, damaged,
  file, link, temporary, active, running, cache, graph, request, failures, rebooted, acts

MCArtifacts == <<"kernel8.img", "machine.json">>
Symmetry == Permutations(Proc)

SP == INSTANCE ServicePlans
MCPlans == {SP!NewService, SP!UpdateService(TRUE, "active", "active")}
\* Every plan the compiler builds.
Compiled ==
  {SP!NewService} \cup
  {SP!UpdateService(e, was, is) : e \in BOOLEAN,
     was \in {"active", "inactive"}, is \in {"active", "inactive"}}
T == INSTANCE ServiceTransaction
       WITH Plans <- Transactions, scratch <- temporary
ASSUME TransactionsAssumption == T!TransactionAssumption
ASSUME CompiledAssumption == \A p \in Compiled : \A d \in T!Direction : T!Coherent(p[d])

service == <<plan, last, journal, waiting, asked, reply, owner, stage, ledger, damaged,
             file, link, temporary, active, running, cache, graph, request, failures,
             rebooted, acts>>

MCInit ==
  /\ part \in Parts /\ Init /\ T!Init
  /\ part # "service" => plan = SP!NewService
MCNext ==
  \/ part = "workspace" /\ Next /\ UNCHANGED <<part, service>>
  \/ part = "service" /\ T!Next /\ UNCHANGED <<part, vars>>
MCSpec == MCInit /\ [][MCNext]_<<part, vars, service>>

ActedOnce == T!ActedOnce
AcknowledgedIsTrue == T!AcknowledgedIsTrue
=============================================================================
