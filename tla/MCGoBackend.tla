---------------------------- MODULE MCGoBackend ----------------------------
(***************************************************************************)
(* Model-checking instance of GoBackend, with the node shapes of          *)
(* MCIntegrityVisitor written out again (that module's variables are not *)
(* part of this composition).                                              *)
(***************************************************************************)
EXTENDS GoBackend

MCVar   == [flavor |-> "N_Var", op |-> "none", global |-> FALSE]
MCConst == [flavor |-> "N_Const", op |-> "none", global |-> TRUE]
MCDeref == [flavor |-> "N_Deref", op |-> "none", global |-> FALSE]
MCAdd   == [flavor |-> "N_BinaryOp", op |-> "OPERATOR_PLUS", global |-> FALSE]
MCMul   == [flavor |-> "N_BinaryOp", op |-> "OPERATOR_MULT", global |-> FALSE]
MCError == [flavor |-> "N_Error", op |-> "none", global |-> FALSE]
MCBlock == [flavor |-> "N_BlockStmt", op |-> "none", global |-> FALSE]

MCShapes == {MCVar, MCConst, MCDeref, MCAdd, MCMul, MCError, MCBlock}

=============================================================================
