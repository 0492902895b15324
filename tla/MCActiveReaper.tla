--------------------------- MODULE MCActiveReaper ---------------------------
(***************************************************************************)
(* Small instances of ActiveReaper for TLC.                                *)
(***************************************************************************)
EXTENDS ActiveReaper, TLC

CONSTANTS w1, w2, chat1, tab1, chat2

MCOwner == (chat1 :> w1) @@ (tab1 :> w1)
MCChat  == (w1 :> chat1)

MCOwner2 == (chat1 :> w1) @@ (chat2 :> w2)
MCChat2  == (w1 :> chat1) @@ (w2 :> chat2)
=============================================================================
