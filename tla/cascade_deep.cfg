\* Two nested cascades with failures, another writer, chunks of two; either backend.
SPECIFICATION FairSpec
CONSTANTS
  n = n
  m = m
  k = k
  e = e
  x = x
  y = y
  z = z
  root = root
  s = s
  t = t
  u = u
  Nodes = {n, m, k}
  Edges = {e, x, y, z}
  Root = root
  Graphs = {s, t, u}
  Home <- MCHome
  Owner <- MCOwner
  Below <- MCBelow
  Touching <- MCTouching
  Known = {s, t}
  Deleted = {n, m}
  Deep = {TRUE, FALSE}
  Backends = {"firestore", "objects"}
  Initial <- MCInitial
  BatchSize = 2
  MaxFailures = 1
  MaxWrites = 1
INVARIANTS
  CascadesAreHonest
  NodeDeletedIsTrue
PROPERTIES
  KeepsContract
  CascadesFinish
CHECK_DEADLOCK FALSE
