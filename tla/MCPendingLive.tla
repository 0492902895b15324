--------------------------- MODULE MCPendingLive ---------------------------
(***************************************************************************)
(* Small instances of PendingLive for TLC.                                 *)
(***************************************************************************)
EXTENDS PendingLive, TLC

Symmetry == Permutations(Sessions) \cup Permutations(Signals)
=============================================================================
