---------------------------- MODULE SessionLife ----------------------------
(***************************************************************************)
(* What the session registry promises, with no handler, task or lock in    *)
(* sight: a slot per key, and for each session one passage                 *)
(*     unborn -> owned -> listed -> condemned -> finished.                 *)
(* A session is owned by the handler that spawned it until it is listed in *)
(* a slot; it leaves its slot condemned, by removal or because another     *)
(* session takes the slot; and what is condemned is finished: its teardown *)
(* was begun and its child is gone.                                        *)
(***************************************************************************)
CONSTANTS Keys, Sessions, NoSession

VARIABLES slot, stage

vars == <<slot, stage>>

Init == /\ slot = [k \in Keys |-> NoSession]
        /\ stage = [s \in Sessions |-> "unborn"]

Spawn(s) == /\ stage[s] = "unborn"
            /\ stage' = [stage EXCEPT ![s] = "owned"]
            /\ UNCHANGED slot

List(k, s) ==
    /\ stage[s] = "owned"
    /\ slot' = [slot EXCEPT ![k] = s]
    /\ stage' = [t \in Sessions |-> IF t = s THEN "listed"
                                    ELSE IF t = slot[k] THEN "condemned"
                                    ELSE stage[t]]

Delist(k) ==
    /\ slot[k] # NoSession
    /\ slot' = [slot EXCEPT ![k] = NoSession]
    /\ stage' = [stage EXCEPT ![slot[k]] = "condemned"]

Finish(s) == /\ stage[s] = "condemned"
             /\ stage' = [stage EXCEPT ![s] = "finished"]
             /\ UNCHANGED slot

Next == \/ \E s \in Sessions : Spawn(s) \/ Finish(s)
        \/ \E k \in Keys : Delist(k) \/ \E s \in Sessions : List(k, s)

Fairness == \A s \in Sessions : WF_vars(Finish(s))

Spec == Init /\ [][Next]_vars /\ Fairness
=============================================================================
