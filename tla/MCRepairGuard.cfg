\* Two batch examine() calls on one visitor, repair() taken step by step
\* under the builder's integrity-check flag: the second call starts from
\* the nparent_ and the flag the first one left.  The behaviour ends after
\* the second call returns.
CONSTANTS
  MaxNode = 7
  NumInit = 4
  Shapes <- MCShapes
  VisitMode = "BatchMode"
  DoRepairs = "DontReportRepairableSharing"
  MaxCount = 3
  MaxCalls = 2
  NoParent = NoParent
SPECIFICATION StepSpec
CHECK_DEADLOCK FALSE
PROPERTY RepairIsAtomic
PROPERTY ExamineMeetsContract
