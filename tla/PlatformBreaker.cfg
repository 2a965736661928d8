SPECIFICATION MCSpec
CONSTANTS
  ApiRequests <- Requests
  ApiKeys = {"k"}
  ApiKeyOf <- OneKey
  ApiBodyOf <- OtherBody
  CaseRequests <- Requests
  CaseKeys = {"k"}
  NoKey = "none"
  CaseKeyOf <- KeyButLast
  CaseBodyOf <- BodyOfPair
  OrderOf <- OneOrder
  Savers = {"s1"}
  CaseStores = {"json", "sql"}
  MaxCaseVersion = 2
  RuleVersions = {"v1", "v2", "v3"}
  RuleAdmins = {"a1", "a2"}
  RuleStores = {"json", "sqlite", "postgresql"}
  MaxClock = 6
  Configs = {"c1", "c2"}
  NoConfig = "none"
  Planned = {"k1", "k2"}
  Sessions = {"s"}
  InCanary = {"s"}
  Deployers = {"a1", "a2"}
  Assigners = {"t1", "t2"}
  MaxConfigHead = 3
  IntakeThreads = {"t1", "t2"}
  IntakeKeys = {"k1", "k2", "k3", "k4"}
  Fields = {"f1"}
  MaxRevision = 3
  Importers = {"w1", "w2"}
  NoImporter = "nobody"
  DocVersions = {"document"}
  DocReleases = {"index"}
  Manifest <- ManifestOfOne
  ImportAttempts = 2
  MaxImportRetries = 1
  Indexes = {"r1"}
  NoIndex = "none"
  Docs = {"d1"}
  DocsOf <- AllDocs
  Searchers = {"s1", "s2"}
  Curators = {"a1"}
  MaxIndexHead = 3
  ReviewCases = {"c1", "c2"}
  ReviewDocs = {"d"}
  Reviewers = {"u1", "u2"}
  Exporters = {"e"}
  MaxReview = 2
  StockWorkers = {"w1", "w2"}
  NoStockWorker = "nobody"
  Reserves = {"reserve"}
  Releases = {"release"}
  SourceOf <- OneSource
  Stock = 1
  StockAttempts = 2
  MaxConnector = 2
  LocalTools = {"query_product", "query_order", "apply_refund"}
  LocalReads = {"query_product", "query_order"}
  ContextBound = {"query_order", "apply_refund"}
  AllowedTools = {"query_product", "query_order", "stock", "reserve"}
  Schemas = {"old", "new"}
  ToolsOf <- Offers
  Terms <- OldAndNew
  NoSchema = "nothing"
  Rpm = 1
  Managers = {"m1", "m2"}
  MaxTerms = 2
  Executors = {"w1", "w2"}
  MaxToken = 3
  MaxPlanVersion = 5
VIEW View
INVARIANT RecoversAfterCooldown
CHECK_DEADLOCK FALSE
