------------------------------ MODULE GoBackend ------------------------------
(***************************************************************************)
(* The two IntegrityVisitor objects of the back end, over one tree.  The  *)
(* node builder checks every node it makes with an incremental visitor,   *)
(* right after making it; when the front-end hands over the finished       *)
(* function body, a batch visitor examines the body's root and repairs    *)
(* what the incremental checks deferred (spec, data flow and Scenario C). *)
(* Each visitor has its own nparent_, iparent_, sharing_ and counters;    *)
(* the Bnodes are shared.  The builder is outside src/: its protocol is   *)
(* modelled from the spec.                                                 *)
(***************************************************************************)
EXTENDS Naturals

CONSTANTS MaxNode, NumInit, Shapes, DoRepairs, MaxCount, NoParent

VARIABLES
  kids, shape, insts, nextNode,                 \* the Bnodes (builder)
  incNparent, incIparent, incSharing,           \* the builder's incremental
  incExprCount, incStmtCount, incInstCount,     \* visitor
  incLast,
  batNparent, batIparent, batSharing,           \* the batch visitor of the
  batExprCount, batStmtCount, batInstCount,     \* function body
  batLast,
  built                                         \* nodes made and checked

treeVars == <<kids, shape, insts, nextNode>>
incVars == <<incNparent, incIparent, incSharing, incExprCount, incStmtCount,
             incInstCount, incLast>>
batVars == <<batNparent, batIparent, batSharing, batExprCount, batStmtCount,
             batInstCount, batLast>>
vars == <<treeVars, incVars, batVars, built>>

Inc == INSTANCE IntegrityVisitor WITH
  VisitMode <- "IncrementalMode",
  nparent <- incNparent, iparent <- incIparent, sharing <- incSharing,
  exprShareCount <- incExprCount, stmtShareCount <- incStmtCount,
  instShareCount <- incInstCount, last <- incLast

Bat == INSTANCE IntegrityVisitor WITH
  VisitMode <- "BatchMode",
  nparent <- batNparent, iparent <- batIparent, sharing <- batSharing,
  exprShareCount <- batExprCount, stmtShareCount <- batStmtCount,
  instShareCount <- batInstCount, last <- batLast

Root == NumInit   \* the function body: the last node the front-end makes

(* The front-end's tree, the builder's visitor as constructed, and a     *)
(* batch visitor not yet used.                                             *)
Init ==
  /\ Inc!Init
  /\ batNparent = [n \in Inc!Nodes |-> NoParent]
  /\ batIparent = [i \in Inc!Insts |-> NoParent]
  /\ batSharing = {}
  /\ batExprCount = 0 /\ batStmtCount = 0 /\ batInstCount = 0
  /\ batLast = [node |-> 0, outcome |-> "none"]
  /\ built = 0

(* The builder makes node built + 1 and examines it incrementally.  It    *)
(* goes on only while every check so far succeeded: a failed check is an *)
(* internal error that ends the compilation.                              *)
BuildNode ==
  /\ built < NumInit
  /\ incLast.outcome \in {"none", "deferred"}
  /\ Inc!Examine(built + 1)
  /\ built' = built + 1
  /\ UNCHANGED batVars

(* The body is complete and set: the batch visitor examines its root.    *)
SetBody ==
  /\ built = NumInit
  /\ incLast.outcome = "deferred"
  /\ batLast.outcome = "none"
  /\ Bat!Examine(Root)
  /\ UNCHANGED <<incVars, built>>

Next == BuildNode \/ SetBody

Spec == Init /\ [][Next]_vars

-----------------------------------------------------------------------------
(* The spec's rule for a batch examine() of the body: no instruction is   *)
(* shared and every shared node is an expression with a repairable tree.  *)
BatchAccepts ==
  /\ ~Inc!InstSharedUnder(Root)
  /\ \A c \in Inc!SharedUnder(Root) :
       Inc!IsExpr(Inc!Tree, c) /\ Inc!RepairableReference(Inc!Tree, c)

(* Scenario C and its converse.  When every node passed the builder's     *)
(* incremental check, the batch examine() of the body succeeds and leaves *)
(* a tree: the sharing the incremental visitor deferred is all repairable,*)
(* although each of its calls saw one node's edges only and forgot        *)
(* sharing_.  And a failed incremental check is never a false alarm: the  *)
(* batch rule rejects the body too.                                        *)
IncrementalMatchesBatch ==
  /\ batLast.outcome # "none" =>
       /\ batLast.outcome \in {"clean", "repaired"}
       /\ Inc!SharedUnder(Root) = {}
       /\ ~Inc!InstSharedUnder(Root)
  /\ incLast.outcome = "failed" => ~BatchAccepts

=============================================================================
