------------------------ MODULE MCIntegrityVisitor -------------------------
(***************************************************************************)
(* Model-checking instance of IntegrityVisitor: the node shapes the       *)
(* front-end may build, and the variants of Next the runs use.             *)
(***************************************************************************)
EXTENDS IntegrityVisitor

\* A local variable reference, a module-scope constant (never tracked),
\* a dereference, additions and multiplications, an error node and a
\* block statement: whitelisted, non-whitelisted, untracked, error and
\* statement nodes, each of an arity the front-end produces.
MCVar   == [flavor |-> "N_Var", op |-> "none", global |-> FALSE]
MCConst == [flavor |-> "N_Const", op |-> "none", global |-> TRUE]
MCDeref == [flavor |-> "N_Deref", op |-> "none", global |-> FALSE]
MCAdd   == [flavor |-> "N_BinaryOp", op |-> "OPERATOR_PLUS", global |-> FALSE]
MCMul   == [flavor |-> "N_BinaryOp", op |-> "OPERATOR_MULT", global |-> FALSE]
MCError == [flavor |-> "N_Error", op |-> "none", global |-> FALSE]
MCBlock == [flavor |-> "N_BlockStmt", op |-> "none", global |-> FALSE]

MCShapes == {MCVar, MCConst, MCDeref, MCAdd, MCMul, MCError, MCBlock}

\* Without the module-scope constant: for the runs whose state space grows
\* with every call (an untracked leaf only adds trees where it is skipped).
MCTrackedShapes == MCShapes \ {MCConst}

\* Without the dereference: a whitelisted instruction-bearing expression is
\* already there as the addition, and the unary node only multiplies the
\* trees the batch runs, which reuse the object over several calls, explore.
MCBatchShapes == MCShapes \ {MCDeref}

(* A visitor object used for at most MaxCalls calls of its methods:      *)
(* examine() and the builder's unsetParent().  calls counts them, and the *)
(* history variable examined holds the nodes examine() was called on.     *)
CONSTANT MaxCalls
VARIABLES calls, examined

mcVars == <<vars, calls, examined>>

MCInit == Init /\ calls = 0 /\ examined = {}

ExamineCall ==
  /\ calls < MaxCalls
  /\ calls' = calls + 1
  /\ \E n \in Nodes :
       /\ Examine(n)
       \* kept only where a property reads it (incremental runs)
       /\ examined' = IF VisitMode = "IncrementalMode" THEN examined \cup {n}
                                                      ELSE examined

UnsetParentCall ==
  /\ calls < MaxCalls
  /\ calls' = calls + 1
  /\ \E c, p \in Nodes, s \in 1..2 : UnsetParent(c, p, s)
  /\ UNCHANGED examined

ReparentCall ==
  /\ calls < MaxCalls
  /\ calls' = calls + 1
  \* in incremental mode the builder examines every node it creates, so a
  \* node it later converts has been through examine()
  \* and it only goes on building while no examine() has failed
  /\ exprShareCount = 0 /\ stmtShareCount = 0 /\ instShareCount = 0
  /\ \E p \in examined : ReparentKids(p)
  /\ UNCHANGED examined

(* examine() calls, and the builder reparenting the children of a node.   *)
ReparentSpec == MCInit /\ [][ExamineCall \/ ReparentCall]_mcVars

(* The object is reused across calls of both methods.                     *)
ReuseSpec == MCInit /\ [][ExamineCall \/ UnsetParentCall]_mcVars

(* Only examine() is called: with MaxCalls = 1 this is one call on a      *)
(* fresh object, as the spec's lifecycle has it; with more, the builder's *)
(* incremental visitor checking node after node.                          *)
ExamineSpec == MCInit /\ [][ExamineCall]_mcVars
=============================================================================
