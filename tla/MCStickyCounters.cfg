\* One visitor object reused for two batch examine() calls.
CONSTANTS
  MaxNode = 7
  NumInit = 4
  Shapes <- MCShapes
  VisitMode = "BatchMode"
  DoRepairs = "DontReportRepairableSharing"
  MaxCount = 3
  MaxCalls = 2
  NoParent = NoParent
SPECIFICATION ExamineSpec
CHECK_DEADLOCK FALSE
PROPERTY CleanExamineSucceeds
