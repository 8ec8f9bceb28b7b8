\* The builder detaching a child from a parent (unsetParent) after examine().
CONSTANTS
  MaxNode = 7
  NumInit = 4
  Shapes <- MCTrackedShapes
  VisitMode = "BatchMode"
  DoRepairs = "DontReportRepairableSharing"
  MaxCount = 3
  MaxCalls = 2
  NoParent = NoParent
SPECIFICATION ReuseSpec
CHECK_DEADLOCK FALSE
PROPERTY UnsetOnlyMatchingEdge
