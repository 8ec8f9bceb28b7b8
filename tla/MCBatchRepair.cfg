CONSTANTS
  MaxNode = 7
  NumInit = 4
  Shapes <- MCBatchShapes
  VisitMode = "BatchMode"
  DoRepairs = "DontReportRepairableSharing"
  MaxCount = 3
  MaxCalls = 3
  NoParent = NoParent
SPECIFICATION ReuseSpec
CHECK_DEADLOCK FALSE
INVARIANT TypeOK
INVARIANT RepairYieldsTree
INVARIANT FirstParentKept
INVARIANT RepairNeverAborts
INVARIANT RepairableMatchesReference
PROPERTY RepairPreservesValue
