----------------------------- MODULE MCGitCache -----------------------------
(***************************************************************************)
(* Two processes and one cleaner on a cache with one key.  Every property  *)
(* speaks of one key or one pair of processes, and clones of different     *)
(* keys share nothing but the cache directory.                             *)
(***************************************************************************)
EXTENDS GitCache, TLC

Symmetry == Permutations(Procs) \cup Permutations(Tmps)
=============================================================================
