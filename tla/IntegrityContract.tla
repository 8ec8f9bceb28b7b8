-------------------------- MODULE IntegrityContract --------------------------
(***************************************************************************)
(* What one examine() of a fresh batch visitor promises, in the spec's    *)
(* terms and without the visitor's tables: over the subtree of the node   *)
(* examined, the call succeeds exactly when no instruction hangs under    *)
(* two expressions and every node aliased under two locations is an       *)
(* expression made only of whitelisted flavors.  On success the subtree  *)
(* is a tree afterwards, every existing node denotes the value it denoted *)
(* before, and a subtree without aliasing is left untouched; on failure   *)
(* nothing is touched.  Nodes are handles; shape and insts are those of  *)
(* IntegrityVisitor, nextNode the node builder's next free handle, target *)
(* the node the last call examined.                                        *)
(***************************************************************************)
EXTENDS Naturals, FiniteSets, SequencesExt

VARIABLES kids, shape, insts, nextNode, verdict, target

treeVars == <<kids, shape, insts, nextNode>>
vars == <<treeVars, verdict, target>>

Nodes == DOMAIN kids
Existing == 1..(nextNode - 1)

Statement(n) == shape[n].flavor = "N_BlockStmt"

(* The nodes below r, r included.                                          *)
RECURSIVE Below(_)
Below(r) == {r} \cup UNION {Below(c) : c \in Range(kids[r])}

(* The locations (parent, slot) among the nodes U that hold c, and those  *)
(* that carry instruction x.                                               *)
Locations(U) == UNION {{<<p, i>> : i \in DOMAIN kids[p]} : p \in U}
Holders(U, c) == {ps \in Locations(U) : kids[ps[1]][ps[2]] = c}
InstLocations(U) == UNION {{<<p, j>> : j \in DOMAIN insts[p]} : p \in {q \in U : ~Statement(q)}}
InstHolders(U, x) == {ps \in InstLocations(U) : insts[ps[1]][ps[2]] = x}

(* Module-scope constants are never tracked; error nodes may be shared.  *)
Exempt(n) == (~Statement(n) /\ shape[n].global) \/ shape[n].flavor = "N_Error"

Aliased(r) == {c \in Below(r) : ~Exempt(c) /\ Cardinality(Holders(Below(r), c)) > 1}
InstAliased(r) ==
  \E x \in UNION {Range(insts[p]) : p \in Below(r)} :
    Cardinality(InstHolders(Below(r), x)) > 1

(* The clone whitelist: constants, variables, conversions, dereferences,  *)
(* field selections, and additions and subtractions.                      *)
Whitelisted(n) ==
  \/ shape[n].flavor \in {"N_Const", "N_Var", "N_Conversion", "N_Deref", "N_StructField"}
  \/ shape[n].flavor = "N_BinaryOp" /\ shape[n].op \in {"OPERATOR_PLUS", "OPERATOR_MINUS"}

Accepts(r) ==
  /\ ~InstAliased(r)
  /\ \A c \in Aliased(r) : ~Statement(c) /\ \A m \in Below(c) : Whitelisted(m)

(* The value a node denotes: its shape and the values of its children.    *)
RECURSIVE Value(_)
Value(n) == <<shape[n], [i \in DOMAIN kids[n] |-> Value(kids[n][i])]>>

Init == verdict = "none" /\ target = 0

Examine(r) ==
  /\ target' = r
  /\ \/ /\ Accepts(r)
        /\ verdict' = "ok"
        /\ Aliased(r) = {} => UNCHANGED treeVars
        /\ Aliased(r)' = {}
        /\ ~InstAliased(r)'
        /\ nextNode' >= nextNode
        /\ \A n \in Existing : Value(n)' = Value(n)
     \/ /\ ~Accepts(r)
        /\ verdict' = "failed"
        /\ UNCHANGED treeVars

Next == \E r \in Nodes : Examine(r)

Spec == Init /\ [][Next]_vars

=============================================================================
