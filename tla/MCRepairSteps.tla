--------------------------- MODULE MCRepairSteps ---------------------------
(***************************************************************************)
(* Model-checking instance of RepairSteps: the node shapes of             *)
(* MCIntegrityVisitor and a single examine() call on a fresh visitor,     *)
(* with the builder's integrity checks on or off when it is made.         *)
(***************************************************************************)
EXTENDS MCIntegrityVisitor, RepairSteps

stepMcVars == <<mcVars, stepVars>>

MCStepInit == MCInit /\ StepInit

ExamineStepCall ==
  /\ calls < MaxCalls
  /\ calls' = calls + 1
  /\ \E n \in Nodes : ExamineNoRepair(n) \/ RepairBegin(n)
  /\ UNCHANGED examined

StepSpec ==
  MCStepInit
  /\ [][ExamineStepCall \/ (RepairStep /\ UNCHANGED <<calls, examined>>)
                        \/ (RepairDone /\ UNCHANGED <<calls, examined>>)]_stepMcVars
=============================================================================
