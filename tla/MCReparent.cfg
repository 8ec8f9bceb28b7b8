\* The builder reparenting a node's children after examine() (unsetParent's assert).
CONSTANTS
  MaxNode = 5
  NumInit = 3
  Shapes <- MCTrackedShapes
  VisitMode = "IncrementalMode"
  DoRepairs = "DontReportRepairableSharing"
  MaxCount = 3
  MaxCalls = 4
  NoParent = NoParent
SPECIFICATION ReparentSpec
CHECK_DEADLOCK FALSE
INVARIANT UnsetParentFindsEntry
