\* One batch examine() on a fresh visitor: its verdict is exactly the
CONSTANTS
  MaxNode = 7
  NumInit = 4
  Shapes <- MCShapes
  VisitMode = "BatchMode"
  DoRepairs = "ReportRepairableSharing"
  MaxCount = 3
  MaxCalls = 1
  NoParent = NoParent
SPECIFICATION ExamineSpec
CHECK_DEADLOCK FALSE
PROPERTY VerdictExact
