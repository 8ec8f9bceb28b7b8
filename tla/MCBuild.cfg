\* Configure and build runs of the top-level CMakeLists.txt: two make jobs,
\* one edit of the compiler, three make runs with failures, two cmake runs.
CONSTANTS
  Triples <- MCTriples
  Sysroots = {"", "/sdk"}
  Jobs = 2
  MaxEdits = 1
  MaxRuns = 3
  MaxCmake = 2
  MaxClock = 30
SPECIFICATION Spec
CHECK_DEADLOCK FALSE
INVARIANT TypeOK
PROPERTY BuildOrderRefined
INVARIANT LibgoFreshUnlessHatch
