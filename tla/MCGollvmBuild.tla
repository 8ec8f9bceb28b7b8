--------------------------- MODULE MCGollvmBuild ---------------------------
(***************************************************************************)
(* Model-checking instance of GollvmBuild: a supported triple, written as *)
(* the substrings the "-" splitting sees, and one whose arch the MPN_PATH *)
(* chain rejects.                                                          *)
(***************************************************************************)
EXTENDS GollvmBuild, TLC

MCTriples == {<<"x86", "_64", "-", "pc", "-", "linux", "-", "gnu">>,
              <<"arm64", "-", "apple", "-", "darwin">>}
====
