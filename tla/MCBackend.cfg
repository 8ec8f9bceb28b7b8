\* The builder checks each of the front-end's nodes as it makes it, then
\* the batch visitor examines the body.  The behaviour ends there, or at
\* the first failed incremental check.
CONSTANTS
  MaxNode = 16
  NumInit = 4
  Shapes <- MCShapes
  DoRepairs = "DontReportRepairableSharing"
  MaxCount = 3
  NoParent = NoParent
SPECIFICATION Spec
CHECK_DEADLOCK FALSE
INVARIANT IncrementalMatchesBatch
