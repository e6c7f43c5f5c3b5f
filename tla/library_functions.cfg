\* Every write of every patch of one field, and every small input of the other parts.
SPECIFICATION MCSpec
CONSTANTS
  d1 = d1
  nothing = nothing
  Docs = {d1}
  Paths <- MCPaths
  Values = {"one"}
  Special = {"timestamp"}
  Empty = "{}"
  Delete = "delete"
  Stamps = {0, 1}
  Words <- MCWords
  Hex <- MCHex
  Letters <- MCLetters
  Lower <- MCLower
  MaxCalls = 2
  Triples <- MCTriples
  Segments = {"g", "h"}
  MaxEntries = 2
  MaxVersion = 3
  Tags = {"Timestamp", "GeoPoint", "DocumentReference"}
  Plain = {"text", "null"}
  Names = {"k", "l"}
  MaxNesting = 3
  Roots <- MCRoots
  Passed <- MCPassed
  Routed <- MCRouted
  BaseCaps = {"aggregate", "dml", "vector"}
  RoutedCaps = {"aggregate", "join"}
  Declared = {TRUE, FALSE}
  PathUids = {"a", "u~2Fv"}
  GraphNames = {"a", "root"}
  Split <- MCSplit
  Collections <- MCCollections
  Templates <- MCTemplates
  Parameters = {"{p}", "{q}"}
  MaxLength = 3
  MaxChain = 3
  Depth = 2
  Unforwarded = {{}, {"expand"}, {"bulkDelete", "bulkUpdate"}, {"aggregate"}}
  Factories = {"first", "second"}
  Databases = {"db", "other"}
  Options <- MCOptions
  Caller = "caller"
INVARIANTS
  BackendsAgree
  StoredAsJson
  ScopesSeparate
  RegistryAnswers
  QueriesMean
  HandlesMean
PROPERTY PatchesMean
CHECK_DEADLOCK FALSE
