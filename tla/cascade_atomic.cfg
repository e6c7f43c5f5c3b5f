\* Two nested cascades, retried after failures, race two writers; every batch is atomic.
SPECIFICATION FairSpec
CONSTANTS
  root = root
  s = s
  t = t
  n = n
  m = m
  e = e
  h1 = h1
  h2 = h2
  Graphs <- MCGraphs
  Nodes = {n, m}
  Home <- MCHome
  Below <- MCBelow
  Rank <- MCRank
  Edges <- MCEdges
  Handles = {h1, h2}
  Opens <- MCOpens
  Kinds = {"single", "batch"}
  BatchSize = 0
  SplitSchema = FALSE
  MaxOps = 1
  MaxFailures = 2
  MaxCascades = 1
INVARIANTS
  TablesAreListed
  WritesRecreate
  CascadeRemovesAll
PROPERTY RetriesFinish
CHECK_DEADLOCK FALSE
