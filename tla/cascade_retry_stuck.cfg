\* batchSize 1: a chunk fails between DROP and catalog delete.
SPECIFICATION FairSpec
CONSTANTS
  root = root
  s = s
  t = t
  n = n
  m = m
  e = e
  h1 = h1
  h2 = h2
  Graphs <- MCGraphs
  Nodes = {n}
  Home <- MCHome
  Below <- MCBelow
  Rank <- MCRank
  Edges <- MCEdges
  Handles = {}
  Opens <- MCOpens
  Kinds = {"single"}
  BatchSize = 1
  SplitSchema = FALSE
  MaxOps = 0
  MaxFailures = 1
  MaxCascades = 1
PROPERTY RetriesFinish
CHECK_DEADLOCK FALSE
