---------------------------- MODULE MCKpmClient ----------------------------
(***************************************************************************)
(* A session with two External I/O nodes; the configurations choose which  *)
(* of them have names, how it starts and how often the page is loaded.     *)
(***************************************************************************)
EXTENDS KpmClient

CONSTANTS a, b, d1, d2, d3

TwoNodes == <<a, b>>
FewWirings == {{}, {"in"}, {"in", "out"}}
=============================================================================
