--------------------------- MODULE MCActiveViewer ---------------------------
(***************************************************************************)
(* Small instances of ActiveViewer for TLC.                                *)
(***************************************************************************)
EXTENDS ActiveViewer, TLC

ViewerSymmetry == Permutations(Viewers) \cup Permutations(Requests)
=============================================================================
