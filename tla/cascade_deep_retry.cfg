\* A chunk of a nested graph fails, and the caller calls again.
SPECIFICATION Spec
CONSTANTS
  n = n
  m = m
  k = k
  e = e
  x = x
  y = y
  z = z
  root = root
  s = s
  t = t
  u = u
  Nodes = {n, m, k}
  Edges = {e, x, y, z}
  Root = root
  Graphs = {s, t, u}
  Home <- MCHome
  Owner <- MCOwner
  Below <- MCBelow
  Touching <- MCTouching
  Known = {s, t}
  Deleted = {n}
  Deep = {TRUE}
  Backends = {"firestore"}
  Initial <- MCInitial
  BatchSize = 2
  MaxFailures = 1
  MaxWrites = 0
INVARIANT RetriesRemoveAll
CHECK_DEADLOCK FALSE
