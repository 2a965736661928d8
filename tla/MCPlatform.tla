----------------------------- MODULE MCPlatform -----------------------------
(***************************************************************************)
(* Small instances, for TLC, of the components that share no state: `part` *)
(* chooses, once, which of them runs.  The components of Platform stand    *)
(* still in their initial states meanwhile; the others take turns in the   *)
(* variables x1 to x4, and a component's own names stand in its instance.  *)
(***************************************************************************)
EXTENDS Platform

VARIABLES part, x1, x2, x3, x4

Callers == {"g1", "g2"}

Budget == INSTANCE ModelBudget WITH
  Callers <- Callers, Accounts <- {"tenant", "u1", "u2"},
  AccountsOf <- [g \in Callers |-> {"tenant", IF g = "g1" THEN "u1" ELSE "u2"}],
  MaxRetries <- 1, Estimate <- 2, Usages <- {1, 2}, TokenBudget <- 5,
  SharedRpm <- 3, SharedConcurrency <- 2,
  gw <- x1, calls <- x2, account <- x3, used <- x4

Governor == INSTANCE StepGovernor WITH
  Plans <- {"p1", "p2"}, Steps <- {"s1", "s2", "s3", "s4"},
  PlanOf <- [s \in {"s1", "s2", "s3", "s4"} |-> IF s = "s4" THEN "p2" ELSE "p1"],
  MaxAttempts <- 3, MaxToolCalls <- 3, MaxRetryAttempts <- 1, FailureThreshold <- 2,
  breaker <- x1, budget <- x2, cancelled <- x3, step <- x4

Chat == INSTANCE Conversation WITH
  Agents <- {"a1"}, MaxSteps <- 2, MaxCalls <- 2, Threshold <- 5, Keep <- 3,
  MaxMessages <- 6,
  session <- x1, ag <- x2

-----------------------------------------------------------------------------
(* The parameters of Platform *)

Requests == {"q1", "q2", "q3", "q4"}

\* The last request has the others' key and another body.
OneKey == [q \in Requests |-> "k"]
OtherBody == [q \in Requests |-> IF q = "q4" THEN "other" ELSE "same"]

\* q1 is sent again as q2, q3 asks for something else under the same key, and
\* q4 has no key.
KeyButLast == [q \in Requests |-> IF q = "q4" THEN "none" ELSE "k"]
BodyOfPair == [q \in Requests |-> IF q \in {"q1", "q2"} THEN "same" ELSE "other"]
OneOrder == [q \in Requests |-> "order"]

ManifestOfOne == [r \in {"index"} |-> {"document"}]
AllDocs == [r \in {"r1"} |-> {"d1"}]
OneSource == [o \in {"release"} |-> "reserve"]

Offers == [s \in {"old", "new"} |->
             IF s = "old" THEN {"query_product", "stock"}
                          ELSE {"query_product", "query_order", "stock", "reserve"}]

\* The later terms know a write, declare query_product equivalent to the local
\* tool, and name a permission that the user does not have.
OldAndNew ==
  {[schema |-> "old", reads |-> Offers["old"],
    permitted |-> Offers["old"], equivalent |-> {}],
   [schema |-> "new", reads |-> Offers["new"] \ {"reserve"},
    permitted |-> Offers["new"] \ {"stock"}, equivalent |-> {"query_product"}]}

-----------------------------------------------------------------------------
\* The variables that a component has no use for.
Blank3 == x3 = 0 /\ x4 = 0

MCInit ==
  /\ \/ part = "budget" /\ Budget!Init
     \/ part = "governor" /\ Governor!Init
     \/ part = "chat" /\ Chat!Init /\ Blank3
     \/ /\ part \in {"api", "creation", "rules", "config", "intake", "imports",
                     "knowledge", "review", "inventory", "remote", "plans"}
        /\ x1 = 0 /\ x2 = 0 /\ Blank3
  /\ Api!Init /\ Creation!Init /\ Rules!Init /\ Config!Init /\ AfterSale!Init
  /\ Imports!Init /\ Knowledge!Init /\ Review!Init /\ Inventory!Init /\ Remote!Init
  /\ Store!Init
  /\ part # "creation" => caseStore = "sql"
  /\ part # "rules" => ruleStore = "json"
  /\ part # "remote" => governed /\ server = "old"
  /\ part # "plans" => planStore = "json"

apiVars == <<keyRow, apiReq, applied, failed, answered>>
creationVars == <<caseStore, case, receipt, caseReq, saver>>
rulesVars == <<ruleStore, rule, clock, ruleAdmin>>
configVars == <<release, configHead, assigned, deployer, assigner, told>>
intakeVars == <<intake, intakeReceipt, acts, approved, intakeThread>>
importVars == <<item, importJob, importer, importRetries>>
knowledgeVars == <<indexStatus, kept, deleted, indexHead, pinned, cache, curator,
                   search, before>>
reviewVars == <<revision, annotation, reviewLock, reviewer, export>>
inventoryVars == <<connector, stockAction, stockOp, stockJob, stockWorker,
                   reservation, made>>
remoteVars == <<governed, server, toolContract, pin, manager, recent, over, sent>>
planVars == <<planStore, plan, planRows, executor, cleaner, given>>
xVars == <<x1, x2, x3, x4>>

MCNext ==
  /\ \/ part = "budget" /\ Budget!Next
     \/ part = "governor" /\ Governor!Next
     \/ part = "chat" /\ Chat!Next /\ UNCHANGED <<x3, x4>>
     \/ part = "api" /\ Api!Next /\ UNCHANGED xVars
     \/ part = "creation" /\ Creation!Next /\ UNCHANGED xVars
     \/ part = "rules" /\ Rules!Next /\ UNCHANGED xVars
     \/ part = "config" /\ Config!Next /\ UNCHANGED xVars
     \/ part = "intake" /\ AfterSale!Next /\ UNCHANGED xVars
     \/ part = "imports" /\ Imports!Next /\ UNCHANGED xVars
     \/ part = "knowledge" /\ Knowledge!Next /\ UNCHANGED xVars
     \/ part = "review" /\ Review!Next /\ UNCHANGED xVars
     \/ part = "inventory" /\ Inventory!Next /\ UNCHANGED xVars
     \/ part = "remote" /\ Remote!Next /\ UNCHANGED xVars
     \/ part = "plans" /\ Store!Next /\ UNCHANGED xVars
  /\ part # "api" => UNCHANGED apiVars
  /\ part # "creation" => UNCHANGED creationVars
  /\ part # "rules" => UNCHANGED rulesVars
  /\ part # "config" => UNCHANGED configVars
  /\ part # "intake" => UNCHANGED intakeVars
  /\ part # "imports" => UNCHANGED importVars
  /\ part # "knowledge" => UNCHANGED knowledgeVars
  /\ part # "review" => UNCHANGED reviewVars
  /\ part # "inventory" => UNCHANGED inventoryVars
  /\ part # "remote" => UNCHANGED remoteVars
  /\ part # "plans" => UNCHANGED planVars
  /\ UNCHANGED part

MCVars == <<part, xVars, apiVars, creationVars, rulesVars, configVars, intakeVars,
            importVars, knowledgeVars, reviewVars, inventoryVars, remoteVars, planVars>>

MCSpec == MCInit /\ [][MCNext]_MCVars

\* Only the variables of the part that runs tell two of its states apart.
View ==
  <<part, CASE part = "api" -> apiVars
            [] part = "creation" -> creationVars
            [] part = "rules" -> rulesVars
            [] part = "config" -> configVars
            [] part = "intake" -> intakeVars
            [] part = "imports" -> importVars
            [] part = "knowledge" -> knowledgeVars
            [] part = "review" -> reviewVars
            [] part = "inventory" -> inventoryVars
            [] part = "remote" -> remoteVars
            [] part = "plans" -> planVars
            [] OTHER -> xVars>>

-----------------------------------------------------------------------------
(* The components' properties, as stated there. *)

\* The types, and with them the limits of what is tried again.
TypesOK ==
  CASE part = "budget" -> Budget!TypeOK
    [] part = "inventory" -> Inventory!TypeOK
    [] part = "imports" -> Imports!TypeOK
    [] part = "knowledge" -> Knowledge!TypeOK
    [] part = "config" -> Config!TypeOK
    [] part = "intake" -> AfterSale!TypeOK
    [] part = "review" -> Review!TypeOK
    [] part = "rules" -> Rules!TypeOK
    [] part = "api" -> Api!TypeOK
    [] part = "governor" -> Governor!TypeOK
    [] part = "chat" -> Chat!TypeOK
    [] part = "plans" -> Store!TypeOK
    [] part = "creation" -> Creation!TypeOK
    [] part = "remote" -> Remote!TypeOK

\* ModelBudget: an account's totals are the sums over its calls, whoever
\* settled, expired or reconciled them and in whatever order, and what the
\* provider really consumed stays within the budget.
BudgetHolds == part = "budget" => Budget!LedgerBalances /\ Budget!UseWithinBudget

\* Conversation: every request to the model has a well-formed history.
HistoryIsWellFormed == part = "chat" => Chat!HistoryIsWellFormed

\* StepGovernor: after a cooldown the breaker tries its tool again.
RecoversAfterCooldown == part = "governor" => Governor!RecoversAfterCooldown

=============================================================================
