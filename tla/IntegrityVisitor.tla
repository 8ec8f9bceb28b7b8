-------------------------- MODULE IntegrityVisitor --------------------------
(***************************************************************************)
(* The tree-integrity checker of the gollvm bridge: class IntegrityVisitor *)
(* (go-llvm-tree-integrity.cpp).  One object of the class is modelled.     *)
(* Its members nparent_, iparent_, sharing_ and the three share counters   *)
(* are variables; they live as long as the object, so successive calls of *)
(* examine() see what earlier calls left behind.  Each public method       *)
(* (examine, unsetParent) is one atomic action: the checker runs          *)
(* synchronously on the thread that builds the tree.                      *)
(*                                                                         *)
(* The IR tree is owned by the node builder (outside this code): kids,    *)
(* shape and insts describe the Bnodes, nextNode is the builder's next     *)
(* free handle, used by cloneSubtree during repair.                        *)
(***************************************************************************)
EXTENDS Naturals, Sequences, FiniteSets, SequencesExt

CONSTANTS
  MaxNode,     \* node handles are 1..MaxNode; the ones above the front-end's
               \* initial nodes form the pool cloneSubtree allocates from
  NumInit,     \* number of nodes the front-end has built before checking
  Shapes,      \* node descriptions the front-end may build (see below)
  VisitMode,   \* "BatchMode" or "IncrementalMode"  (TreeIntegCtl)
  DoRepairs,   \* "DontReportRepairableSharing" or "ReportRepairableSharing"
  MaxCount,    \* bound on each share counter (instShareCount_ is unbounded)
  NoParent     \* model value: no entry in nparent_ / iparent_

Nodes == 1..MaxNode
Insts == Nodes   \* an llvm::Instruction is named by the node that made it

ASSUME NumInit \in 1..MaxNode
ASSUME VisitMode \in {"BatchMode", "IncrementalMode"}
ASSUME DoRepairs \in {"DontReportRepairableSharing", "ReportRepairableSharing"}

(***************************************************************************)
(* Node model (go-llvm-bnode.h, external).  A shape abstracts a Bnode to   *)
(* what the checker reads: its flavor, the operator of a binary op, and    *)
(* whether Llvm_backend::moduleScopeValue holds for its value.             *)
(***************************************************************************)
StmtFlavors == {"N_BlockStmt"}
IsStmt(t, n) == t.shape[n].flavor \in StmtFlavors
IsExpr(t, n) == ~IsStmt(t, n)

VARIABLES
  kids,            \* Bnode::children(): node -> sequence of nodes
  shape,           \* node -> shape
  insts,           \* Bexpression::instructions(): node -> sequence of Insts
  nextNode,        \* next free handle of the node builder
  nparent,         \* nparent_ : node -> <<parent, slot>> or NoParent
  iparent,         \* iparent_ : instruction -> <<expr, slot>> or NoParent
  sharing,         \* sharing_ : set of <<parent, slot>>
  exprShareCount,  \* exprShareCount_
  stmtShareCount,  \* stmtShareCount_
  instShareCount,  \* instShareCount_
  last             \* node and outcome of the most recent examine()

treeVars == <<kids, shape, insts, nextNode>>
visVars == <<nparent, iparent, sharing, exprShareCount, stmtShareCount, instShareCount>>
vars == <<treeVars, visVars, last>>

Tree == [kids |-> kids, shape |-> shape, insts |-> insts, next |-> nextNode]
Vis == [nparent |-> nparent, iparent |-> iparent, sharing |-> sharing,
        exprShareCount |-> exprShareCount, stmtShareCount |-> stmtShareCount,
        instShareCount |-> instShareCount]

SetTree(t) ==
  /\ kids' = t.kids /\ shape' = t.shape /\ insts' = t.insts /\ nextNode' = t.next
SetVis(v) ==
  /\ nparent' = v.nparent /\ iparent' = v.iparent /\ sharing' = v.sharing
  /\ exprShareCount' = v.exprShareCount /\ stmtShareCount' = v.stmtShareCount
  /\ instShareCount' = v.instShareCount

Allocated == 1..(nextNode - 1)
ParSlot == Nodes \X Nodes

-----------------------------------------------------------------------------
(* shouldBeTracked: module-scope values are exempt from tracking.          *)
ShouldBeTracked(t, child) == ~(IsExpr(t, child) /\ t.shape[child].global)

(* repairableSubTree: the clone whitelist, tested on one node.             *)
AcceptableFlavors ==
  {"N_Const", "N_Var", "N_Conversion", "N_Deref", "N_StructField", "N_BinaryOp"}
Acceptable(t, e) ==
  /\ t.shape[e].flavor \in AcceptableFlavors
  /\ t.shape[e].flavor = "N_BinaryOp" => t.shape[e].op \in {"OPERATOR_PLUS", "OPERATOR_MINUS"}

(* repairableSubTree: the worklist loop.  Children not yet visited are    *)
(* marked visited and pushed in order; the back of the list is popped.    *)
\* mutant: the push loop stops one child short
PushKidsSkipLast(cs, wv) ==
  FoldLeft(LAMBDA acc, c : IF c \in acc[2] THEN acc
                           ELSE <<Append(acc[1], c), acc[2] \cup {c}>>,
           wv, SubSeq(cs, 1, Len(cs) - 1))

PushKids(cs, wv) ==
  FoldLeft(LAMBDA acc, c : IF c \in acc[2] THEN acc
                           ELSE <<Append(acc[1], c), acc[2] \cup {c}>>,
           wv, cs)

RECURSIVE ScanWorkList(_, _, _)
ScanWorkList(t, workList, visited) ==
  IF workList = <<>> THEN TRUE
  ELSE LET e == Last(workList)
       IN IF ~Acceptable(t, e) THEN FALSE
          ELSE LET wv == PushKids(t.kids[e], <<Front(workList), visited>>)
               IN ScanWorkList(t, wv[1], wv[2])

RepairableSubTree(t, root) == ScanWorkList(t, <<root>>, {root})

-----------------------------------------------------------------------------
\* mutant: the previous location, not the new one, goes into sharing_
SetParentSharesPrev(t, v, child, parent, slot) ==
  LET ps == <<parent, slot>>
      prev == v.nparent[child]
      v1 == [v EXCEPT !.sharing = @ \cup {prev}]
  IN IF ~ShouldBeTracked(t, child) THEN v
     ELSE IF prev = NoParent THEN [v EXCEPT !.nparent[child] = ps]
     ELSE IF prev = ps \/ t.shape[child].flavor = "N_Error" \/ ps \in v.sharing
          THEN v
     ELSE IF /\ IsExpr(t, child)
             /\ DoRepairs = "DontReportRepairableSharing"
             /\ RepairableSubTree(t, child)
          THEN v1
     ELSE IF IsStmt(t, child) THEN [v1 EXCEPT !.stmtShareCount = @ + 1]
     ELSE [v1 EXCEPT !.exprShareCount = @ + 1]

(* setParent(Bnode *child, Bnode *parent, unsigned slot)                   *)
SetParent(t, v, child, parent, slot) ==
  LET ps == <<parent, slot>>
      prev == v.nparent[child]
      v1 == [v EXCEPT !.sharing = @ \cup {ps}]
  IN IF ~ShouldBeTracked(t, child) THEN v
     ELSE IF prev = NoParent THEN [v EXCEPT !.nparent[child] = ps]
     ELSE IF prev = ps \/ t.shape[child].flavor = "N_Error" \/ ps \in v.sharing
          THEN v
     ELSE IF /\ IsExpr(t, child)
             /\ DoRepairs = "DontReportRepairableSharing"
             /\ RepairableSubTree(t, child)
          THEN v1
     ELSE IF IsStmt(t, child) THEN [v1 EXCEPT !.stmtShareCount = @ + 1]
     ELSE [v1 EXCEPT !.exprShareCount = @ + 1]

\* mutant: slots counted from 0
SetParentInstZeroBased(v, inst, exprParent, slot) ==
  LET ps == <<exprParent, slot - 1>>
  IN IF v.iparent[inst] = NoParent THEN [v EXCEPT !.iparent[inst] = ps]
     ELSE IF v.iparent[inst] = ps THEN v
     ELSE [v EXCEPT !.instShareCount = @ + 1]

(* setParent(llvm::Instruction *inst, Bexpression *exprParent, slot)       *)
SetParentInst(v, inst, exprParent, slot) ==
  LET ps == <<exprParent, slot>>
  IN IF v.iparent[inst] = NoParent THEN [v EXCEPT !.iparent[inst] = ps]
     ELSE IF v.iparent[inst] = ps THEN v
     ELSE [v EXCEPT !.instShareCount = @ + 1]

(* visit(Bnode *node): in batch mode each child's subtree is visited      *)
(* before the edge to it is recorded; then the node's instructions.       *)
RECURSIVE Visit(_, _, _), VisitKids(_, _, _, _)
Visit(t, v, node) ==
  LET v1 == VisitKids(t, v, node, 1)
      is == t.insts[node]
  IN IF IsExpr(t, node)
     THEN FoldLeft(LAMBDA acc, j : SetParentInst(acc, is[j], node, j),
                   v1, [j \in 1..Len(is) |-> j])
     ELSE v1

VisitKids(t, v, node, i) ==
  IF i > Len(t.kids[node]) THEN v
  ELSE LET child == t.kids[node][i]
           v1 == IF VisitMode = "BatchMode" THEN Visit(t, v, child) ELSE v
       IN VisitKids(t, SetParent(t, v1, child, node, i), node, i + 1)

-----------------------------------------------------------------------------
(* BnodeBuilder::cloneSubtree (external): a deep copy with fresh handles, *)
(* one copy per edge; a cloned expression gets fresh instructions.        *)
(* Returns <<tree, handle of the copy>>.                                   *)
RECURSIVE CloneSubtree(_, _), CloneKids(_, _, _), CloneKidsPrepend(_, _, _)
\* mutant: the copies of the children are collected in reverse order
CloneKidsPrepend(t, cs, acc) ==
  IF cs = <<>> THEN <<t, acc>>
  ELSE LET r == CloneSubtree(t, Head(cs))
       IN CloneKidsPrepend(r[1], Tail(cs), <<r[2]>> \o acc)

CloneSubtree(t, n) ==
  LET id == t.next
      t1 == [t EXCEPT !.next = @ + 1,
                      !.shape[id] = t.shape[n],
                      !.insts[id] = IF t.insts[n] = <<>> THEN <<>> ELSE <<id>>]
      r == CloneKids(t1, t.kids[n], <<>>)
  IN <<[r[1] EXCEPT !.kids[id] = r[2]], id>>

CloneKids(t, cs, acc) ==
  IF cs = <<>> THEN <<t, acc>>
  ELSE LET r == CloneSubtree(t, Head(cs))
       IN CloneKids(r[1], Tail(cs), Append(acc, r[2]))

(* repair(Bnode *node): the loop over sharing_, in the set's iteration    *)
(* order.  A child not yet classified that fails the whitelist aborts the *)
(* loop, keeping the slots already rewired.                                *)
RECURSIVE RepairLoop(_, _, _), RepairLoopCloneOnce(_, _, _)
\* mutant: the clone is made only when the child is first classified
RepairLoopCloneOnce(t, order, visited) ==
  IF order = <<>> THEN [tree |-> t, ok |-> TRUE]
  ELSE LET parent == Head(order)[1]
           slot == Head(order)[2]
           child == t.kids[parent][slot]
           c == CloneSubtree(t, child)
       IN IF child \in visited
          THEN RepairLoopCloneOnce(t, Tail(order), visited)
          ELSE IF ~RepairableSubTree(t, child) THEN [tree |-> t, ok |-> FALSE]
          ELSE RepairLoopCloneOnce([c[1] EXCEPT !.kids[parent][slot] = c[2]],
                                   Tail(order), visited \cup {child})

RepairLoop(t, order, visited) ==
  IF order = <<>> THEN [tree |-> t, ok |-> TRUE]
  ELSE LET parent == Head(order)[1]
           slot == Head(order)[2]
           child == t.kids[parent][slot]
       IN IF child \notin visited /\ ~RepairableSubTree(t, child)
          THEN [tree |-> t, ok |-> FALSE]
          ELSE LET c == CloneSubtree(t, child)
               IN RepairLoop([c[1] EXCEPT !.kids[parent][slot] = c[2]],
                             Tail(order), visited \cup {child})

(* Number of handles a repair may take from the pool: one per node of the *)
(* unfolded subtree at each sharing location.                              *)
RECURSIVE UnfoldSize(_, _)
UnfoldSize(t, n) ==
  1 + FoldLeft(LAMBDA acc, c : acc + UnfoldSize(t, c), 0, t.kids[n])

CloneDemand(t, locs) ==
  MapThenSumSet(LAMBDA ps : UnfoldSize(t, t.kids[ps[1]][ps[2]]), locs)

-----------------------------------------------------------------------------
(* examine: "Inst sharing and statement sharing are not repairable", and *)
(* any expression sharing still counted was not repairable either.        *)
\* mutant: the expression-share counter is not consulted
CountedNoExpr(v) == v.instShareCount # 0 \/ v.stmtShareCount # 0
\* mutant: the instruction-share counter is not consulted
CountedNoInst(v) == v.stmtShareCount # 0 \/ v.exprShareCount # 0
Counted(v) == v.instShareCount # 0 \/ v.stmtShareCount # 0 \/ v.exprShareCount # 0

(* examine in incremental mode: forget the sharing, repair comes later.   *)
\* mutant: all tracking state is dropped, as if made fresh for each pass
DeferResetAll(v) == [v EXCEPT !.sharing = {}, !.nparent = [n \in Nodes |-> NoParent]]
Defer(v) == [v EXCEPT !.sharing = {}]

(* examine(Bnode *node): visit, then fail, defer, succeed or repair.      *)
Examine(n) ==
  /\ n \in Allocated
  /\ LET t == Tree
         v == Visit(t, Vis, n)
         counted == Counted(v)
     IN /\ v.instShareCount <= MaxCount
        /\ \/ /\ counted
              /\ SetVis(v)
              /\ last' = [node |-> n, outcome |-> "failed"]
              /\ UNCHANGED treeVars
           \/ /\ ~counted
              /\ VisitMode = "IncrementalMode"
              /\ SetVis(Defer(v))
              /\ last' = [node |-> n, outcome |-> "deferred"]
              /\ UNCHANGED treeVars
           \/ /\ ~counted
              /\ VisitMode = "BatchMode"
              /\ v.sharing = {}
              /\ SetVis(v)
              /\ last' = [node |-> n, outcome |-> "clean"]
              /\ UNCHANGED treeVars
           \/ /\ ~counted
              /\ VisitMode = "BatchMode"
              /\ v.sharing # {}
              /\ nextNode + CloneDemand(t, v.sharing) <= MaxNode + 1
              /\ \E order \in SetToSeqs(v.sharing) :
                   LET r == RepairLoop(t, order, {})
                   IN /\ SetTree(r.tree)
                      /\ IF r.ok
                         THEN /\ SetVis([v EXCEPT !.sharing = {}, !.exprShareCount = 0])
                              /\ last' = [node |-> n, outcome |-> "repaired"]
                         ELSE /\ SetVis(v)
                              /\ last' = [node |-> n, outcome |-> "repair_failed"]

(* unsetParent(Bnode *child, Bnode *parent, unsigned slot): the builder   *)
(* detaches child from slot of parent.  The assert requires an entry.     *)
UnsetParent(child, parent, slot) ==
  /\ parent \in Allocated
  /\ slot \in DOMAIN kids[parent]
  /\ kids[parent][slot] = child
  /\ ShouldBeTracked(Tree, child)
  /\ nparent[child] # NoParent
  /\ nparent[child][1] = parent \/ nparent[child][2] = slot
  /\ nparent' = [nparent EXCEPT ![child] = NoParent]
  /\ UNCHANGED <<treeVars, iparent, sharing, exprShareCount, stmtShareCount,
                 instShareCount, last>>

(* The builder "reparents" the children of p (the comment above          *)
(* unsetParent): converting node foo into bar with the same children, it  *)
(* calls unsetParent(kids[p][i], p, i) for every slot i in turn.  Each     *)
(* call's assert needs an entry for a tracked child; ok is FALSE once one *)
(* call finds none.                                                        *)
RECURSIVE UnsetSlots(_, _, _)
UnsetSlots(np, p, i) ==
  IF i > Len(kids[p]) THEN [ok |-> TRUE, np |-> np]
  ELSE LET c == kids[p][i] IN
       IF ~ShouldBeTracked(Tree, c) THEN UnsetSlots(np, p, i + 1)
       ELSE IF np[c] = NoParent THEN [ok |-> FALSE, np |-> np]
       ELSE UnsetSlots(IF np[c][1] = p \/ np[c][2] = i
                       THEN [np EXCEPT ![c] = NoParent] ELSE np, p, i + 1)

ReparentKids(p) ==
  /\ p \in Allocated
  /\ kids[p] # <<>>
  /\ LET r == UnsetSlots(nparent, p, 1)
     IN /\ nparent' = r.np
        /\ last' = [node |-> p, outcome |-> IF r.ok THEN "reparented"
                                                   ELSE "unset_assert"]
  /\ UNCHANGED <<treeVars, iparent, sharing, exprShareCount, stmtShareCount,
                 instShareCount>>

-----------------------------------------------------------------------------
(***************************************************************************)
(* The front-end's tree before checking (node builder, external): nodes   *)
(* 1..NumInit built bottom-up, so a node's children are earlier nodes.    *)
(* Arity and child kinds follow the Bnode constructors; an expression of  *)
(* an instruction-bearing flavor carries one instruction, its own or, by  *)
(* a front-end bug, one already attached to an earlier node.              *)
(***************************************************************************)
Arity(f) ==
  CASE f \in {"N_Const", "N_Var", "N_Error"} -> {0}
    [] f \in {"N_Deref", "N_Conversion", "N_StructField"} -> {1}
    [] f = "N_BinaryOp" -> {2}
    [] f = "N_Call" -> {0, 1}
    [] f \in StmtFlavors -> {1, 2}

HasInst(f) == f \in {"N_Deref", "N_Conversion", "N_BinaryOp", "N_Call"}

NewNodes(d, k) ==
  LET earlier == 1..(k - 1)
      KidChoices(sh) ==
        LET cands == IF sh.flavor \in StmtFlavors THEN earlier
                     ELSE {j \in earlier : d[j].shape.flavor \notin StmtFlavors}
        IN UNION {[1..m -> cands] : m \in Arity(sh.flavor)}
      InstChoices(sh) ==
        IF HasInst(sh.flavor)
        THEN {<<k>>} \cup {d[j].insts : j \in {j \in earlier : d[j].insts # <<>>}}
        ELSE {<<>>}
  IN UNION {{[shape |-> sh, kids |-> cs, insts |-> is] :
               cs \in KidChoices(sh), is \in InstChoices(sh)} : sh \in Shapes}

RECURSIVE FrontEndTrees(_)
FrontEndTrees(k) ==
  IF k = 0 THEN {<<>>}
  ELSE UNION {{Append(d, nd) : nd \in NewNodes(d, k)} : d \in FrontEndTrees(k - 1)}

EmptyShape == [flavor |-> "N_Error", op |-> "none", global |-> FALSE]

(* Every node but the last (the function body's root) is some node's     *)
(* child: the checker is handed what the front-end attached to the body.   *)
Connected(d) ==
  \A j \in 1..(NumInit - 1) : \E k \in (j + 1)..NumInit : j \in Range(d[k].kids)

Init ==
  /\ \E d \in {d \in FrontEndTrees(NumInit) : Connected(d)} :
       /\ kids = [n \in Nodes |-> IF n <= NumInit THEN d[n].kids ELSE <<>>]
       /\ shape = [n \in Nodes |-> IF n <= NumInit THEN d[n].shape ELSE EmptyShape]
       /\ insts = [n \in Nodes |-> IF n <= NumInit THEN d[n].insts ELSE <<>>]
  /\ nextNode = NumInit + 1
  /\ nparent = [n \in Nodes |-> NoParent]
  /\ iparent = [i \in Insts |-> NoParent]
  /\ sharing = {}
  /\ exprShareCount = 0
  /\ stmtShareCount = 0
  /\ instShareCount = 0
  /\ last = [node |-> 0, outcome |-> "none"]

Next ==
  \/ \E n \in Nodes : Examine(n)
  \/ \E c, p \in Nodes, s \in 1..2 : UnsetParent(c, p, s)

Spec == Init /\ [][Next]_vars

-----------------------------------------------------------------------------
(***************************************************************************)
(* Definitions used by the properties.                                     *)
(***************************************************************************)
Outcomes == {"none", "failed", "deferred", "clean", "repaired", "repair_failed",
             "reparented", "unset_assert"}

TypeOK ==
  /\ nextNode \in (NumInit + 1)..(MaxNode + 1)
  /\ kids \in [Nodes -> Seq(Nodes)]
  /\ shape \in [Nodes -> Shapes \cup {EmptyShape}]
  /\ insts \in [Nodes -> Seq(Insts)]
  /\ nparent \in [Nodes -> ParSlot \cup {NoParent}]
  /\ iparent \in [Insts -> ParSlot \cup {NoParent}]
  /\ sharing \subseteq ParSlot
  /\ {exprShareCount, stmtShareCount, instShareCount} \subseteq 0..MaxCount
  /\ last \in [node : {0} \cup Nodes, outcome : Outcomes]

(* The nodes reachable from r, r included (reference definition).         *)
RECURSIVE Reach(_, _)
Reach(t, r) == {r} \cup UNION {Reach(t, c) : c \in Range(t.kids[r])}

(* Reference definition of repairableSubTree: every reachable node passes.*)
RepairableReference(t, root) == \A m \in Reach(t, root) : Acceptable(t, m)

(* The (parent, slot) locations among the nodes U that hold c.          *)
InEdges(U, c) ==
  {ps \in U \X (1..2) : ps[2] \in DOMAIN kids[ps[1]] /\ kids[ps[1]][ps[2]] = c}

(* The locations among the expressions of U that carry instruction i.    *)
InstEdges(U, i) ==
  {ps \in U \X (1..2) :
     IsExpr(Tree, ps[1]) /\ ps[2] \in DOMAIN insts[ps[1]] /\ insts[ps[1]][ps[2]] = i}

(* Nodes under r subject to the single-parent rule that have several.     *)
SharedUnder(r) ==
  LET U == Reach(Tree, r)
  IN {c \in U : /\ ShouldBeTracked(Tree, c)
                /\ shape[c].flavor # "N_Error"
                /\ Cardinality(InEdges(U, c)) > 1}

InstSharedUnder(r) ==
  LET U == Reach(Tree, r)
  IN \E i \in UNION {Range(insts[p]) : p \in U} : Cardinality(InstEdges(U, i)) > 1

(* The value a node denotes: its shape and its children's values.         *)
RECURSIVE Term(_)
Term(n) == <<shape[n], [i \in DOMAIN kids[n] |-> Term(kids[n][i])]>>

Succeeded == last.outcome \in {"clean", "repaired", "deferred"}

-----------------------------------------------------------------------------
(***************************************************************************)
(* Properties.                                                             *)
(***************************************************************************)

(* Invariant 1 of the checker: after examine() succeeds in batch mode,    *)
(* no tracked node of the examined subtree is reachable through two       *)
(* (parent, slot) locations, and no instruction hangs under two           *)
(* expressions.  Whichever order repair() walks sharing_ in, and whatever *)
(* earlier calls left in nparent_, visit() finds and repair() clones every *)
(* second attachment.                                                      *)
RepairYieldsTree ==
  last.outcome \in {"clean", "repaired"} =>
    /\ SharedUnder(last.node) = {}
    /\ ~InstSharedUnder(last.node)

(* Invariant 4: nparent_ only ever names a location that still holds the  *)
(* node: repair() rewires the later attachments in sharing_ and leaves    *)
(* each node at its first-recorded parent.                                 *)
FirstParentKept ==
  \A c \in Nodes :
    nparent[c] # NoParent =>
      /\ nparent[c][2] \in DOMAIN kids[nparent[c][1]]
      /\ kids[nparent[c][1]][nparent[c][2]] = c

(* The abort path of repair() ("Repair failed -- return failure") is      *)
(* never taken: every non-repairable sharing was already counted by       *)
(* setParent, so examine() returns before repair() starts.  Hence the     *)
(* partial rewiring the abort would leave behind never happens.           *)
RepairNeverAborts == last.outcome # "repair_failed"

(* repair() only swaps a shared subtree for a value-equal clone: every    *)
(* node denotes the same term after any step as before it.                *)
RepairPreservesValue ==
  [][UNCHANGED treeVars \/ \A n \in Allocated : Term(n)' = Term(n)]_vars

(* The worklist loop of repairableSubTree, with its visited set and its   *)
(* early returns, decides exactly the reference definition.               *)
RepairableMatchesReference ==
  \A n \in Allocated : RepairableSubTree(Tree, n) = RepairableReference(Tree, n)

(* Invariants 2 and 3 of the spec, as the verdict of one batch examine(): *)
(* it succeeds iff no instruction is shared under the node and every      *)
(* shared tracked node there is an expression whose whole subtree lies in *)
(* the clone whitelist.                                                    *)
VerdictStep ==
  \A n \in Nodes :
    Examine(n) =>
      (Succeeded' <=> /\ ~InstSharedUnder(n)
                      /\ \A c \in SharedUnder(n) :
                           IsExpr(Tree, c) /\ RepairableReference(Tree, c))
(* Every examine() step of a behaviour gives that verdict.                *)
VerdictExact == [][VerdictStep]_vars

(* A node whose subtree has no aliasing and hangs nowhere else.           *)
Isolated(n) ==
  LET U == Reach(Tree, n)
      Outside == Allocated \ U
  IN /\ SharedUnder(n) = {}
     /\ ~InstSharedUnder(n)
     /\ \A c \in U \ {n} : InEdges(Outside, c) = {}
     /\ \A p \in U, q \in Outside : Range(insts[p]) \cap Range(insts[q]) = {}

(* The spec's first testable property: examine() of a tree without        *)
(* aliasing succeeds and changes nothing.  The share counters are said to *)
(* be reset at the start of each pass.                                     *)
CleanExamineSucceeds ==
  [][\A n \in Nodes :
       Examine(n) /\ Isolated(n) => Succeeded' /\ UNCHANGED treeVars]_vars

(* unsetParent drops the entry of child only when it names the location  *)
(* being detached, so a mapping to another parent, needed to repair the   *)
(* sharing later, survives (the comment above unsetParent).               *)
UnsetOnlyMatchingEdge ==
  [][\A c, p \in Nodes, s \in 1..2 :
       UnsetParent(c, p, s) => nparent[c] = <<p, s>>]_vars

(* The assert of unsetParent (it != nparent_.end()) holds whenever the    *)
(* builder reparents the children of a node it has handed to examine():   *)
(* every tracked child still has its nparent_ entry when its slot is      *)
(* detached.                                                               *)
UnsetParentFindsEntry == last.outcome # "unset_assert"

=============================================================================
