--------------------------- MODULE MCSessionMap ---------------------------
(***************************************************************************)
(* Small instances of SessionMap for TLC.                                  *)
(***************************************************************************)
EXTENDS SessionMap, TLC

Symmetry == Permutations(Callers) \cup Permutations(Sessions)
=============================================================================
