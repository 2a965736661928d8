------------------------------ MODULE Platform ------------------------------
(***************************************************************************)
(* Components of the platform that share no variable, so that together     *)
(* they behave as the conjunction of their specifications: the keys of the *)
(* write API, the creation of cases, the versions of the risk rules, the   *)
(* configuration releases, the intake, knowledge from its import to a      *)
(* search, reviews, inventory commands, remote tools and the stores of     *)
(* plans.  Here stand their parameters, what is assumed of them, and what  *)
(* they promise in common.                                                 *)
(***************************************************************************)
EXTENDS Naturals, FiniteSets

CONSTANTS ApiRequests, ApiKeys, ApiKeyOf, ApiBodyOf

VARIABLES keyRow, apiReq, applied, failed, answered

Api == INSTANCE ApiIdempotency WITH
  Requests <- ApiRequests, Keys <- ApiKeys, KeyOf <- ApiKeyOf, BodyOf <- ApiBodyOf,
  row <- keyRow, req <- apiReq

\* There are requests, none is taken for nobody, and each carries a key.
ASSUME ApiAssumption ==
  /\ ApiRequests # {} /\ Api!NoOne \notin ApiRequests
  /\ ApiKeyOf \in [ApiRequests -> ApiKeys]

CONSTANTS CaseRequests, CaseKeys, NoKey, CaseKeyOf, CaseBodyOf, OrderOf,
  Savers, CaseStores, MaxCaseVersion

VARIABLES caseStore, case, receipt, caseReq, saver

Creation == INSTANCE CaseCreation WITH
  Requests <- CaseRequests, Keys <- CaseKeys, KeyOf <- CaseKeyOf,
  BodyOf <- CaseBodyOf, Backends <- CaseStores, MaxVersion <- MaxCaseVersion,
  backend <- caseStore, req <- caseReq

ASSUME CreationAssumption ==
  /\ CaseKeyOf \in [CaseRequests -> CaseKeys \union {NoKey}]
  /\ NoKey \notin CaseKeys
  /\ CaseStores \subseteq {"json", "sql"}
  /\ MaxCaseVersion \in Nat \ {0}

CONSTANTS RuleVersions, RuleAdmins, RuleStores, MaxClock

VARIABLES ruleStore, rule, clock, ruleAdmin

Rules == INSTANCE PolicyRules WITH
  Versions <- RuleVersions, Admins <- RuleAdmins, Backends <- RuleStores,
  backend <- ruleStore, admin <- ruleAdmin

ASSUME RulesAssumption ==
  /\ RuleVersions # {}
  /\ RuleStores \subseteq {"json", "sqlite", "postgresql"}
  /\ MaxClock \in Nat

CONSTANTS Configs, NoConfig, Planned, Sessions, InCanary, Deployers, Assigners,
  MaxConfigHead

VARIABLES release, configHead, assigned, deployer, assigner, told

Config == INSTANCE ConfigReleases WITH
  Admins <- Deployers, Threads <- Assigners, MaxHead <- MaxConfigHead,
  head <- configHead, admin <- deployer, th <- assigner

ASSUME ConfigAssumption ==
  /\ NoConfig \notin Configs /\ Configs # {}
  /\ Sessions # {}
  /\ IsFiniteSet(Planned)
  /\ MaxConfigHead \in Nat

CONSTANTS IntakeThreads, IntakeKeys, Fields, MaxRevision

VARIABLES intake, intakeReceipt, acts, approved, intakeThread

AfterSale == INSTANCE Intake WITH
  Threads <- IntakeThreads, Keys <- IntakeKeys,
  receipt <- intakeReceipt, th <- intakeThread

ASSUME IntakeAssumption ==
  /\ AfterSale!Missing \notin Fields
  /\ IntakeKeys # {}
  /\ MaxRevision \in Nat

CONSTANTS Importers, NoImporter, DocVersions, DocReleases, Manifest,
  ImportAttempts, MaxImportRetries

VARIABLES item, importJob, importer, importRetries

Imports == INSTANCE KnowledgeJobs WITH
  Workers <- Importers, NoWorker <- NoImporter, Versions <- DocVersions,
  Releases <- DocReleases, JobAttempts <- ImportAttempts,
  MaxRetries <- MaxImportRetries,
  job <- importJob, wk <- importer, retries <- importRetries

ASSUME ImportAssumption ==
  /\ NoImporter \notin Importers
  /\ DocVersions \union DocReleases # {}
  /\ Manifest \in [DocReleases -> SUBSET DocVersions]
  /\ ImportAttempts \in Nat /\ MaxImportRetries \in Nat

CONSTANTS Indexes, NoIndex, Docs, DocsOf, Searchers, Curators, MaxIndexHead

VARIABLES indexStatus, kept, deleted, indexHead, pinned, cache, curator, search, before

Knowledge == INSTANCE KnowledgeServing WITH
  Releases <- Indexes, NoRelease <- NoIndex, Admins <- Curators,
  MaxHead <- MaxIndexHead,
  status <- indexStatus, head <- indexHead, admin <- curator

ASSUME KnowledgeAssumption ==
  /\ NoIndex \notin Indexes
  /\ DocsOf \in [Indexes -> SUBSET Docs]
  /\ MaxIndexHead \in Nat

CONSTANTS ReviewCases, ReviewDocs, Reviewers, Exporters, MaxReview

VARIABLES revision, annotation, reviewLock, reviewer, export

Review == INSTANCE Reviews WITH
  Cases <- ReviewCases, Docs <- ReviewDocs, MaxRevision <- MaxReview,
  lock <- reviewLock, rv <- reviewer, exp <- export

ASSUME ReviewAssumption ==
  /\ ReviewCases # {} /\ Review!Nobody \notin Exporters
  /\ MaxReview \in Nat

CONSTANTS StockWorkers, NoStockWorker, Reserves, Releases, SourceOf, Stock,
  StockAttempts, MaxConnector

VARIABLES connector, stockAction, stockOp, stockJob, stockWorker, reservation, made

Inventory == INSTANCE InventoryDelivery WITH
  Workers <- StockWorkers, NoWorker <- NoStockWorker, JobAttempts <- StockAttempts,
  MaxContract <- MaxConnector,
  contract <- connector, action <- stockAction, op <- stockOp, job <- stockJob,
  wk <- stockWorker, shop <- reservation

\* A release is of a reservation.
ASSUME InventoryAssumption ==
  /\ NoStockWorker \notin StockWorkers
  /\ Reserves \union Releases # {} /\ Reserves \intersect Releases = {}
  /\ SourceOf \in [Releases -> Reserves]
  /\ Stock \in Nat /\ StockAttempts \in Nat /\ MaxConnector \in Nat \ {0}

CONSTANTS LocalTools, LocalReads, ContextBound, AllowedTools, Schemas, ToolsOf,
  Terms, NoSchema, Rpm, Managers, MaxTerms

VARIABLES governed, server, toolContract, pin, manager, recent, over, sent

Remote == INSTANCE RemoteTools WITH
  Local <- LocalTools, Allowed <- AllowedTools, Nothing <- NoSchema,
  MaxVersion <- MaxTerms,
  contract <- toolContract, mgr <- manager

\* A contract is about a schema and the tools in it; the tools that are bound to
\* the context are tools of the registry.
ASSUME RemoteAssumption ==
  /\ NoSchema \notin Schemas
  /\ ContextBound \subseteq LocalTools
  /\ \E n \in LocalTools : TRUE
  /\ \A t \in Terms : t.schema \in Schemas
  /\ Rpm \in Nat /\ MaxTerms \in Nat

CONSTANTS Executors, MaxToken, MaxPlanVersion

VARIABLES planStore, plan, planRows, executor, cleaner, given

Store == INSTANCE PlanStore WITH
  Workers <- Executors, MaxVersion <- MaxPlanVersion,
  backend <- planStore, rows <- planRows, wk <- executor

ASSUME StoreAssumption == MaxToken \in Nat /\ MaxPlanVersion \in Nat

-----------------------------------------------------------------------------

\* ApiIdempotency and CaseCreation: what a key stands for takes effect once, and
\* the key names it for good, whoever repeats a request while it runs or after
\* its answer was lost.
KeysTakeEffectOnce == Api!AppliedOnce /\ Creation!KeyNamesOneCase

\* CaseCreation and PolicyRules: an order has one open case at most, and one
\* version of the risk rules is active at most (JSON and SQLite), whatever the
\* requests had read before they wrote.
ActiveIsUnique == Creation!OneOpenCasePerOrder /\ Rules!OneActive

\* ConfigReleases: what the head serves has passed its whole evaluation, and a
\* session is told one release for good.
ReleasesAreSound == Config!HeadIsProven /\ Config!SessionSticks

\* Intake: a proposal that can still be confirmed is the one of the intake as
\* it stands.
ProposalsAreCurrent == AfterSale!ProposalsAreCurrent

\* KnowledgeServing: a search returns nothing that was deleted or withdrawn
\* before it began.
WithdrawnNeverReturned == Knowledge!WithdrawnNeverReturned

\* Reviews: an export is a usable dataset of one moment.
ExportIsUsable == Review!ExportIsUsable

\* InventoryDelivery: what is reported as done was done, and once.
InventoryIsReal == Inventory!InventoryIsReal

\* RemoteTools: what goes to the server stands in a contract in force, and no
\* local tool stands in for a remote one without the contract's word.
RemoteToolsAreApproved == Remote!RemoteToolsAreApproved

\* KnowledgeJobs and InventoryDelivery: no step takes back what was published,
\* or the verdict on an inventory command, whichever report comes late.
FinalStays ==
  /\ [][Imports!ReadyStays]_<<item, importJob, importer, importRetries>>
  /\ [][Inventory!VerdictStays]_<<connector, stockAction, stockOp, stockJob,
                                  stockWorker, reservation, made>>

\* PlanStore: retention never lets a fencing token be given twice.
RetentionIsSafe ==
  [][Store!RetentionIsSafe]_<<planStore, plan, planRows, executor, cleaner, given>>

=============================================================================
