------------------------------ MODULE Mailbox ------------------------------
(***************************************************************************)
(* What the delivery of live signals promises their senders.  A sent       *)
(* signal is delivered at once, refused, or queued; a queued one is        *)
(* delivered later or lost.  What was delivered is never queued or         *)
(* delivered again, what was refused is never delivered, and no sent       *)
(* signal stays undecided.  A crash decides several signals at once.       *)
(***************************************************************************)
CONSTANT Signals

VARIABLE status

Stages == {"unsent", "sent", "queued", "refused", "delivered", "lost"}

Moves == {<<"unsent", "sent">>,
          <<"sent", "queued">>, <<"sent", "refused">>, <<"sent", "delivered">>,
          <<"queued", "delivered">>, <<"queued", "lost">>}

Init == status = [g \in Signals |-> "unsent"]

Next == /\ status' \in [Signals -> Stages]
        /\ \A g \in Signals : \/ status'[g] = status[g]
                              \/ <<status[g], status'[g]>> \in Moves

Decide(g) == status[g] = "sent" /\ Next /\ status'[g] # "sent"

Spec == Init /\ [][Next]_status /\ \A g \in Signals : WF_status(Decide(g))
=============================================================================
