---------------------------- MODULE MCGoGenFiles ----------------------------
(***************************************************************************)
(* Model-checking instance of GoGenFiles: three architectures (the one    *)
(* mkversion accepts and two it rejects), two operating systems, and the  *)
(* upper-case letters the names' first characters need.                   *)
(***************************************************************************)
EXTENDS GoGenFiles, TLC

MCGoArch == <<<<"a", "md64">>, <<"a", "rm64">>, <<"3", "86">>>>
MCGoOs == <<<<"l", "inux">>, <<"a", "ix">>>>
MCArchFamilies == <<"AMD64", "ARM64", "I386">>
MCUpperOf == ("a" :> "A") @@ ("l" :> "L") @@ ("d" :> "D") @@ ("o" :> "O")
\* one package, and two (where the keys collide)
MCPkgLists == {<<"fmt">>, <<"fmt", "io">>}
====
