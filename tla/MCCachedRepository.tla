------------------------- MODULE MCCachedRepository -------------------------
(* CachedRepository for TLC: symmetric ids and processes.                  *)
EXTENDS CachedRepository, TLC

RepoSymmetry == Permutations(Ids) \cup Permutations(Procs)
=============================================================================
