----------------------------- MODULE BuildOrder -----------------------------
(***************************************************************************)
(* What a build promises, whatever tool runs it: targets come into being  *)
(* one at a time, and a target is first made only once everything its     *)
(* recipe needs is there.  Remaking a target that exists, or any step of  *)
(* the build tool that makes nothing, is a stutter here.                  *)
(***************************************************************************)
EXTENDS FiniteSets

CONSTANTS
  Targets,      \* what the build produces
  Needs(_)      \* Needs(t): the targets t's recipe reads

VARIABLE built  \* the targets that exist

Init == built = {}

Make(t) ==
  /\ t \notin built
  /\ Needs(t) \subseteq built
  /\ built' = built \cup {t}

Next == \E t \in Targets : Make(t)

Spec == Init /\ [][Next]_built
====
