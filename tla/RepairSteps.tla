----------------------------- MODULE RepairSteps -----------------------------
(***************************************************************************)
(* repair() of go-llvm-tree-integrity.cpp one loop iteration at a time,   *)
(* composed with the node builder's integrity-check flag that             *)
(* ScopedIntegrityCheckDisabler saves, clears and restores.  IntegrityVisitor *)
(* treats examine() as one atomic action; here the call of repair() is    *)
(* split into its iterations over sharing_, and each cloneSubtree /       *)
(* replaceChild goes through the builder, which checks the node it has    *)
(* rewired whenever its integrity checks are on.  The refinement below    *)
(* shows that, with the disabler, the steps add up to the atomic examine. *)
(***************************************************************************)
EXTENDS IntegrityVisitor

VARIABLES
  checks,    \* BnodeBuilder::integrityChecksEnabled() (external)
  phase,     \* "idle", or "repairing" while examine() is inside repair()
  pending,   \* the entries of sharing_ the loop has not reached yet
  visitedR,  \* repair()'s local std::set<Bexpression *> visited
  val,       \* ScopedIntegrityCheckDisabler::val_
  call       \* history: the examined node and the state before examine()

stepVars == <<checks, phase, pending, visitedR, val, call>>
allVars == <<vars, stepVars>>

(* ScopedIntegrityCheckDisabler: the constructor stores the builder's     *)
(* flag in val_ and switches checking off; the destructor, run on every   *)
(* return from repair(), sets the flag back to val_.                      *)
\* mutant: the guard saves the flag but never switches checking off
DisablerKeepsChecks(enabled) == [val |-> enabled, enabled |-> enabled]
Disabler(enabled) == [val |-> enabled, enabled |-> FALSE]
Restore(saved) == saved

(* The builder's check of a node it has just rewired (external): run     *)
(* against this visitor's in-flight state, it registers the node's own    *)
(* edges and instructions and, with nothing counted, clears the ledger   *)
(* as an incremental examine() does.                                       *)
NestedCheck(t, v, p) ==
  LET is == t.insts[p]
      v1 == FoldLeft(LAMBDA acc, i : SetParent(t, acc, t.kids[p][i], p, i),
                     v, [i \in DOMAIN t.kids[p] |-> i])
      v2 == IF IsExpr(t, p)
            THEN FoldLeft(LAMBDA acc, j : SetParentInst(acc, is[j], p, j),
                          v1, [j \in DOMAIN is |-> j])
            ELSE v1
  IN IF Counted(v2) THEN v2 ELSE Defer(v2)

(* examine(n) reaches "if (repair(node))": nothing counted, batch mode,  *)
(* and sharing_ not empty after visit().                                   *)
CallsRepair(n) ==
  LET v == Visit(Tree, Vis, n)
  IN ~Counted(v) /\ VisitMode = "BatchMode" /\ v.sharing # {}

(* examine(n) returning before repair(): failure, deferral or no sharing. *)
ExamineNoRepair(n) ==
  /\ phase = "idle"
  /\ ~CallsRepair(n)
  /\ Examine(n)
  /\ UNCHANGED stepVars

(* examine(n) visits and calls repair(): the disabler is constructed and  *)
(* the loop is about to walk sharing_.                                     *)
RepairBegin(n) ==
  /\ phase = "idle"
  /\ n \in Allocated
  /\ CallsRepair(n)
  /\ LET v == Visit(Tree, Vis, n)
         d == Disabler(checks)
     IN /\ v.instShareCount <= MaxCount
        /\ nextNode + CloneDemand(Tree, v.sharing) <= MaxNode + 1
        /\ SetVis(v)
        /\ checks' = d.enabled
        /\ val' = d.val
        /\ pending' = v.sharing
  /\ phase' = "repairing"
  /\ visitedR' = {}
  /\ call' = [node |-> n, tree |-> Tree, vis |-> Vis, last |-> last]
  /\ UNCHANGED <<treeVars, last>>

(* One iteration of the loop over sharing_ (a std::set ordered by pointer *)
(* value, so any remaining entry may come next).  A child not yet visited *)
(* that fails repairableSubTree makes repair() return false; otherwise    *)
(* the child is cloned and the slot rewired through the builder.  If the  *)
(* ledger is cleared under the loop, the iterator is invalid: the         *)
(* outcome modelled is that the loop ends.                                 *)
RepairStep ==
  /\ phase = "repairing"
  /\ \E ps \in pending :
       LET parent == ps[1]
           slot == ps[2]
           child == kids[parent][slot]
       IN IF child \notin visitedR /\ ~RepairableSubTree(Tree, child)
          THEN /\ last' = [node |-> call.node, outcome |-> "repair_failed"]
               /\ phase' = "idle"
               /\ checks' = Restore(val)
               /\ UNCHANGED <<treeVars, visVars, pending, visitedR, val, call>>
          ELSE LET c == CloneSubtree(Tree, child)
                   t == [c[1] EXCEPT !.kids[parent][slot] = c[2]]
                   v == IF checks THEN NestedCheck(t, Vis, parent) ELSE Vis
               IN /\ SetTree(t)
                  /\ SetVis(v)
                  /\ pending' = (pending \ {ps}) \cap v.sharing
                  /\ visitedR' = visitedR \cup {child}
                  /\ UNCHANGED <<checks, phase, val, call, last>>

(* The loop is done: sharing_.clear(), exprShareCount_ = 0, return true, *)
(* and the disabler's destructor.                                          *)
RepairDone ==
  /\ phase = "repairing"
  /\ pending = {}
  /\ SetVis([Vis EXCEPT !.sharing = {}, !.exprShareCount = 0])
  /\ last' = [node |-> call.node, outcome |-> "repaired"]
  /\ phase' = "idle"
  /\ checks' = Restore(val)
  /\ UNCHANGED <<treeVars, pending, visitedR, val, call>>

(* The builder's flag as the back end left it; no repair() in progress. *)
StepInit ==
  /\ checks \in BOOLEAN
  /\ phase = "idle"
  /\ pending = {}
  /\ visitedR = {}
  /\ val = FALSE
  /\ call = [node |-> 0, tree |-> Tree, vis |-> Vis, last |-> last]

-----------------------------------------------------------------------------
(***************************************************************************)
(* Refinement: while repair() runs, the atomic spec has not yet taken its *)
(* examine() step, so its state is the one the call started from.         *)
(***************************************************************************)
Idle == phase = "idle"
Before(x, y) == IF Idle THEN x ELSE y

Atomic == INSTANCE IntegrityVisitor WITH
  kids <- Before(kids, call.tree.kids),
  shape <- Before(shape, call.tree.shape),
  insts <- Before(insts, call.tree.insts),
  nextNode <- Before(nextNode, call.tree.next),
  nparent <- Before(nparent, call.vis.nparent),
  iparent <- Before(iparent, call.vis.iparent),
  sharing <- Before(sharing, call.vis.sharing),
  exprShareCount <- Before(exprShareCount, call.vis.exprShareCount),
  stmtShareCount <- Before(stmtShareCount, call.vis.stmtShareCount),
  instShareCount <- Before(instShareCount, call.vis.instShareCount),
  last <- Before(last, call.last)

(* repair() is atomic with respect to the checker: every behaviour of the *)
(* stepwise examine() is one of the atomic spec, so no check triggered by *)
(* cloneSubtree or replaceChild touches sharing_ or nparent_ while the    *)
(* loop walks them (the ScopedIntegrityCheckDisabler of repair()).  The   *)
(* initial states are those of Init under the identity mapping (phase is *)
(* "idle"), so only the steps are checked against Atomic!Next.            *)
RepairIsAtomic == [][Atomic!Next]_(Atomic!vars)

(* The verdict examine() returns, as the contract states it.            *)
VerdictOf(outcome) ==
  CASE outcome \in {"clean", "repaired", "deferred"} -> "ok"
    [] outcome \in {"failed", "repair_failed"}       -> "failed"
    [] OTHER                                        -> "none"

Contract == INSTANCE IntegrityContract WITH
  kids <- Before(kids, call.tree.kids),
  shape <- Before(shape, call.tree.shape),
  insts <- Before(insts, call.tree.insts),
  nextNode <- Before(nextNode, call.tree.next),
  verdict <- VerdictOf(Before(last, call.last).outcome),
  target <- Before(last, call.last).node

(* The visitor as its constructor leaves it: no parent recorded, an      *)
(* empty ledger, the counters at zero.                                     *)
FreshVis ==
  [nparent |-> [n \in Nodes |-> NoParent], iparent |-> [i \in Insts |-> NoParent],
   sharing |-> {}, exprShareCount |-> 0, stmtShareCount |-> 0, instShareCount |-> 0]

(* One batch examine() on a fresh visitor, repair() steps included, keeps *)
(* the contract of IntegrityContract: it succeeds exactly when all        *)
(* aliasing under the node is repairable expression aliasing and no       *)
(* instruction is shared; then it leaves a tree of the same values, and  *)
(* a failure, or a subtree without aliasing, leaves the nodes untouched. *)
(* A later call on the same object sees the nparent_ of the earlier ones *)
(* (aliasing across subtrees) and is held to the contract only when the  *)
(* object is still as constructed.  Init of the contract, verdict =      *)
(* "none", holds of every initial state.                                   *)
ExamineMeetsContract ==
  [][Before(Vis, call.vis) = FreshVis => Contract!Next]_(Contract!vars)

=============================================================================
