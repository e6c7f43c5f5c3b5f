\* Three calls of the worker, a crash and a termination; overlapping reloads.
\* Two tabs over one slot: the second prompt is refused, or meets a process that
\* was told to stop and still speaks. Two names sanitised to one tag, one of
\* them a type of the files.
SPECIFICATION MCSpec
CONSTANTS
  Calls = {c1, c2, c3}
  MaxCrashes = 1
  MaxDestroys = 1
  None = None
  Failed = Failed
  NodeTypes = {"tour", "stop"}
  EdgeTypes = {"has"}
  Static = {"stop"}
  Properties = {}
  Reloads = {"q", "r"}
  Limit = 1
  Leftover = {"stop"}
  MaxDefines = 2
  MaxFaults = 1
  LeftChains = {"valid"}
  Tabs = {"left", "right"}
  MaxConcurrency = 1
  MaxTurns = 2
  MaxChunks = 2
  MaxMishaps = 1
  NodeNames = {"a-b", "a_b"}
  EdgeNames = {"e"}
  FileNames = {"a_b"}
  Tag <- MCTag
  Refreshes = {"q", "r"}
  MaxStored = 1
  MaxViews = 1
INVARIANTS
  AnswersMatch
  NobodyWaitsInVain
  ServedTypesAreSound
PROPERTIES
  ReloadSeesAcknowledged
  CallsSettleAndTypesConverge
  EditorServerHolds
CHECK_DEADLOCK FALSE
