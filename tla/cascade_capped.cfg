\* Chunked bootstraps and cascades.
SPECIFICATION Spec
CONSTANTS
  root = root
  s = s
  t = t
  n = n
  m = m
  e = e
  h1 = h1
  h2 = h2
  Graphs <- MCGraphs
  Nodes = {n, m}
  Home <- MCHome
  Below <- MCBelow
  Rank <- MCRank
  Edges <- MCEdges
  Handles = {h1}
  Opens <- MCOpens
  Kinds = {"single", "batch"}
  BatchSize = 2
  SplitSchema = TRUE
  MaxOps = 1
  MaxFailures = 2
  MaxCascades = 1
INVARIANTS
  NodeDeletedIsTrue
  TypeOK
CHECK_DEADLOCK FALSE
