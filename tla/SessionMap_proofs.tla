-------------------------- MODULE SessionMap_proofs --------------------------
(***************************************************************************)
(* The safety of the session registry, for any number of keys, sessions,   *)
(* handlers and viewers: the shape of an actor's place, the custody of the *)
(* sessions (who may list one, and who must finish it), the safety         *)
(* invariants that follow from the two, and the passages of SessionLife    *)
(* that the handlers' steps make of it.                                    *)
(***************************************************************************)
EXTENDS SessionMap, TLAPS

USE SessionsDistinct, RequestsKnown

(* What an actor's move leaves behind: its own five fields, and nothing of *)
(* another actor's.                                                        *)
MovesTo(a, p, o, k, h, g) ==
    /\ pc' = [pc EXCEPT ![a] = p]
    /\ op' = [op EXCEPT ![a] = o]
    /\ key' = [key EXCEPT ![a] = k]
    /\ held' = [held EXCEPT ![a] = h]
    /\ gone' = [gone EXCEPT ![a] = g]

ActorTypes == /\ pc \in [Actors -> Pcs]
              /\ op \in [Actors -> Ops]
              /\ key \in [Actors -> Keys \cup {NoKey}]
              /\ held \in [Actors -> Sessions \cup {NoSession}]
              /\ gone \in [Actors -> Sessions \cup {NoSession}]

(* A move to fields that suit the actor keeps the shape of all actors.     *)
LEMMA CallerMoves ==
  ASSUME Shape, NEW c \in Callers,
         NEW p, NEW o, NEW k \in Keys \cup {NoKey},
         NEW h \in Sessions \cup {NoSession}, NEW g \in Sessions \cup {NoSession},
         MovesTo(c, p, o, k, h, g), CallerOK(p, o, k, h, g)
  PROVE  ActorTypes' /\ ActorShape'
  <1>1. p \in Pcs /\ o \in Ops
    BY DEF CallerOK, Ops
  <1>2. ActorTypes'
    BY <1>1 DEF ActorTypes, Shape, TypeOK, MovesTo, Actors
  <1>3. \A a \in Actors : a # c => /\ pc'[a] = pc[a] /\ op'[a] = op[a] /\ key'[a] = key[a]
                                  /\ held'[a] = held[a] /\ gone'[a] = gone[a]
    BY DEF Shape, TypeOK, MovesTo
  <1>4. /\ pc'[c] = p /\ op'[c] = o /\ key'[c] = k
        /\ held'[c] = h /\ gone'[c] = g
    BY DEF Shape, TypeOK, MovesTo, Actors
  <1>5. \A d \in Callers : CallerOK(pc'[d], op'[d], key'[d], held'[d], gone'[d])
    BY <1>3, <1>4 DEF Shape, ActorShape, Actors
  <1>6. \A s \in Sessions : ObserverOK(pc'[s], op'[s], key'[s], held'[s], gone'[s])
    BY <1>3 DEF Shape, ActorShape, Actors
  <1> QED
    BY <1>2, <1>5, <1>6 DEF ActorShape

(* The same for an observer.                                               *)
LEMMA ObserverMoves ==
  ASSUME Shape, NEW t \in Sessions, NEW p, NEW k \in Keys \cup {NoKey},
         NEW g \in Sessions \cup {NoSession},
         MovesTo(t, p, "observe", k, NoSession, g),
         ObserverOK(p, "observe", k, NoSession, g)
  PROVE  ActorTypes' /\ ActorShape'
  <1>1. p \in Pcs
    BY DEF ObserverOK, Pcs, UnregisterPcs, KillPcs, ReapPcs
  <1>2. ActorTypes'
    BY <1>1 DEF ActorTypes, Shape, TypeOK, MovesTo, Actors, Ops
  <1>3. \A a \in Actors : a # t => /\ pc'[a] = pc[a] /\ op'[a] = op[a] /\ key'[a] = key[a]
                                  /\ held'[a] = held[a] /\ gone'[a] = gone[a]
    BY DEF Shape, TypeOK, MovesTo
  <1>4. /\ pc'[t] = p /\ op'[t] = "observe" /\ key'[t] = k
        /\ held'[t] = NoSession /\ gone'[t] = g
    BY DEF Shape, TypeOK, MovesTo, Actors
  <1>5. \A d \in Callers : CallerOK(pc'[d], op'[d], key'[d], held'[d], gone'[d])
    BY <1>3 DEF Shape, ActorShape, Actors
  <1>6. \A s \in Sessions : ObserverOK(pc'[s], op'[s], key'[s], held'[s], gone'[s])
    BY <1>3, <1>4 DEF Shape, ActorShape, Actors
  <1> QED
    BY <1>2, <1>5, <1>6 DEF ActorShape

(* A handler that only goes to another label.                              *)
LEMMA KeepShape ==
  ASSUME Shape, NEW c \in Callers, NEW label, Keep(c, label),
         CallerOK(label, op[c], key[c], held[c], gone[c])
  PROVE  ActorTypes' /\ ActorShape'
  <1>1. MovesTo(c, label, op[c], key[c], held[c], gone[c])
    BY DEF Keep, Goto, MovesTo, Shape, TypeOK
  <1> QED
    BY <1>1, CallerMoves DEF Shape, TypeOK, Actors

(* A handler that returns has nothing left.                                *)
LEMMA ReturnShape ==
  ASSUME Shape, NEW c \in Callers, Return(c)
  PROVE  ActorTypes' /\ ActorShape'
  <1>1. MovesTo(c, "idle", "none", NoKey, NoSession, NoSession)
    BY DEF Return, MovesTo
  <1>2. CallerOK("idle", "none", NoKey, NoSession, NoSession)
    BY DEF CallerOK, NeedsGone, NeedsHeld, Pcs, ObserverPcs, CallerPcs
  <1> QED
    BY <1>1, <1>2, CallerMoves

(* An observer that only goes to another label.                            *)
LEMMA ObserverKeepShape ==
  ASSUME Shape, NEW t \in Sessions, NEW label, Keep(t, label),
         ObserverOK(label, op[t], key[t], held[t], gone[t])
  PROVE  ActorTypes' /\ ActorShape'
  <1>1. op[t] = "observe" /\ held[t] = NoSession
    BY DEF Shape, ActorShape, ObserverOK
  <1>2. MovesTo(t, label, "observe", key[t], NoSession, gone[t])
    BY <1>1 DEF Keep, Goto, MovesTo, Shape, TypeOK, Actors
  <1> QED
    BY <1>1, <1>2, ObserverMoves DEF Shape, TypeOK, Actors

(* MoveOn, to a label its actor may stand at.                              *)
LEMMA MoveOnShape ==
  ASSUME Shape, NEW c \in Callers, NEW label, MoveOn(c, label),
         label # "idle" => CallerOK(label, op[c], key[c], held[c], NoSession),
         op[c] = "respawn" /\ label = "lookup" => key[c] \in Keys
  PROVE  ActorTypes' /\ ActorShape'
  <1>1. CASE label = "idle"
    BY <1>1, ReturnShape DEF MoveOn
  <1>2. CASE label # "idle"
    <2> DEFINE o == IF op[c] = "respawn" /\ label = "lookup" THEN "pinned" ELSE op[c]
    <2>1. MovesTo(c, label, o, key[c], held[c], NoSession)
      BY <1>2 DEF MoveOn, Goto, MovesTo, Shape, TypeOK, Actors
    <2>2. CallerOK(label, o, key[c], held[c], NoSession)
      BY <1>2 DEF CallerOK, NeedsGone, NeedsHeld, AllRequests
    <2>3. key[c] \in Keys \cup {NoKey} /\ held[c] \in Sessions \cup {NoSession}
      BY DEF Shape, TypeOK, Actors
    <2> QED
      BY <2>1, <2>2, <2>3, CallerMoves
  <1> QED
    BY <1>1, <1>2

(* An actor that returns from unregister or kill stands where it may.      *)
LEMMA AfterKillOK ==
  ASSUME Shape, NEW c \in Callers, pc[c] \in KillPcs \cup ReapPcs
  PROVE  /\ AfterKill(c) # "idle" =>
              CallerOK(AfterKill(c), op[c], key[c], held[c], NoSession)
         /\ key[c] \in Keys
  BY DEF Shape, ActorShape, CallerOK, AfterKill, AfterUnregister, KillPcs, ReapPcs,
     NeedsGone, NeedsHeld, Pcs, CallerPcs, ObserverPcs, AllRequests

(* The look-ups and choices of a handler lead where their data suits.      *)
LEMMA HandlerShape ==
  ASSUME Shape, NEW c \in Callers,
         \/ Peek(c) \/ Found(c) \/ NotFound(c) \/ Reuse(c) \/ Evict(c)
         \/ CloseGuard(c) \/ Recheck(c) \/ ForkFails(c) \/ Lock(c)
  PROVE  ActorTypes' /\ ActorShape'
  <1> USE DEF CallerOK, NeedsGone, NeedsHeld, Pcs, CallerPcs, ObserverPcs
  <1>1. CallerOK(pc[c], op[c], key[c], held[c], gone[c])
    BY DEF Shape, ActorShape
  <1>2. CASE Peek(c)
    <2> DEFINE label == IF map[key[c]] = NoSession THEN "lookup" ELSE "stamp"
    <2>1. MovesTo(c, label, op[c], key[c], map[key[c]], gone[c])
      BY <1>2 DEF Peek, Goto, MovesTo, Shape, TypeOK, Actors
    <2>2. map[key[c]] \in Sessions \cup {NoSession} /\ key[c] \in Keys
      BY <1>1, <1>2 DEF Peek, Shape, TypeOK
    <2>3. CallerOK(label, op[c], key[c], map[key[c]], gone[c])
      BY <1>1, <1>2, <2>2 DEF Peek
    <2>4. gone[c] \in Sessions \cup {NoSession}
      BY DEF Shape, TypeOK, Actors
    <2> HIDE DEF label
    <2> QED
      BY <2>1, <2>2, <2>3, <2>4, CallerMoves
  <1>3. CASE Found(c)
    <2> DEFINE label == IF op[c] \in {"respawn", "forceClose"} THEN "remove" ELSE "check"
    <2>1. MovesTo(c, label, op[c], key[c], map[key[c]], gone[c])
      BY <1>3 DEF Found, Goto, MovesTo, Shape, TypeOK, Actors
    <2>2. map[key[c]] \in Sessions /\ key[c] \in Keys
      BY <1>1, <1>3 DEF Found, Shape, TypeOK
    <2>3. CallerOK(label, op[c], key[c], map[key[c]], gone[c])
      BY <1>1, <1>3, <2>2 DEF Found
    <2>4. gone[c] \in Sessions \cup {NoSession}
      BY DEF Shape, TypeOK, Actors
    <2> HIDE DEF label
    <2> QED
      BY <2>1, <2>2, <2>3, <2>4, CallerMoves
  <1>4. CASE NotFound(c)
    <2>1. CASE op[c] \in {"spawn", "canonical", "pinned"} /\ Keep(c, "fork")
      BY <1>1, <1>4, <2>1, KeepShape DEF NotFound
    <2>2. CASE op[c] \in {"close", "forceClose"} /\ Keep(c, "remove")
      BY <1>1, <1>4, <2>2, KeepShape DEF NotFound
    <2>3. CASE Return(c)
      BY <2>3, ReturnShape
    <2>4. CASE op[c] = "respawn" /\ op' = [op EXCEPT ![c] = "pinned"]
                 /\ UNCHANGED <<pc, key, held, gone>>
      <3>1. MovesTo(c, "lookup", "pinned", key[c], held[c], gone[c])
        BY <1>4, <2>4 DEF NotFound, MovesTo, Shape, TypeOK, Actors
      <3>2. CallerOK("lookup", "pinned", key[c], held[c], gone[c])
        BY <1>1, <1>4 DEF NotFound, AllRequests
      <3> QED
        BY <3>1, <3>2, CallerMoves DEF Shape, TypeOK, Actors
    <2> QED
      BY <1>4, <2>1, <2>2, <2>3, <2>4 DEF NotFound
  <1>5. CASE Reuse(c)
    BY <1>1, <1>5, KeepShape, ReturnShape DEF Reuse
  <1>6. CASE Evict(c) \/ CloseGuard(c) \/ Recheck(c) \/ ForkFails(c) \/ Lock(c)
    BY <1>1, <1>6, KeepShape, ReturnShape DEF Evict, CloseGuard, Recheck, ForkFails, Lock
  <1> QED
    BY <1>2, <1>3, <1>4, <1>5, <1>6

(* So do the steps of a spawn.                                             *)
LEMMA SpawnerShape ==
  ASSUME Shape, NEW c \in Callers,
         \/ \E o \in Requests, k \in Keys : Begin(c, o, k)
         \/ Fork(c) \/ Insert(c) \/ Stamp(c)
  PROVE  ActorTypes' /\ ActorShape'
  <1> USE DEF CallerOK, NeedsGone, NeedsHeld, Pcs, CallerPcs, ObserverPcs
  <1>1. /\ CallerOK(pc[c], op[c], key[c], held[c], gone[c])
        /\ held[c] \in Sessions \cup {NoSession} /\ gone[c] \in Sessions \cup {NoSession}
    BY DEF Shape, ActorShape, TypeOK, Actors
  <1>2. ASSUME NEW o \in Requests, NEW k \in Keys, Begin(c, o, k)
        PROVE ActorTypes' /\ ActorShape'
    <2> DEFINE label == IF o = "canonical" THEN "peek" ELSE "lookup"
    <2>1. MovesTo(c, label, o, k, held[c], gone[c])
      BY <1>2 DEF Begin, MovesTo, Shape, TypeOK, Actors
    <2>2. CallerOK(label, o, k, held[c], gone[c])
      BY <1>1, <1>2 DEF Begin, AllRequests
    <2> QED
      BY <1>1, <2>1, <2>2, CallerMoves
  <1>3. CASE Fork(c)
    <2>1. PICK s \in Sessions : held' = [held EXCEPT ![c] = s]
      BY <1>3 DEF Fork
    <2>2. MovesTo(c, "insert", op[c], key[c], s, gone[c])
      BY <1>3, <2>1 DEF Fork, Goto, MovesTo, Shape, TypeOK, Actors
    <2>3. CallerOK("insert", op[c], key[c], s, gone[c])
      BY <1>1, <1>3 DEF Fork
    <2> QED
      BY <1>1, <2>2, <2>3, CallerMoves DEF Shape, TypeOK, Actors
  <1>4. CASE Insert(c)
    <2> DEFINE label == IF map[key[c]] # NoSession THEN "killDisplaced"
                        ELSE IF op[c] = "spawn" THEN "stamp" ELSE "observe"
    <2>1. MovesTo(c, label, op[c], key[c], held[c], map[key[c]])
      BY <1>4 DEF Insert, Goto, MovesTo, Shape, TypeOK, Actors
    <2>2. map[key[c]] \in Sessions \cup {NoSession} /\ key[c] \in Keys
      BY <1>1, <1>4 DEF Insert, Shape, TypeOK
    <2>3. CallerOK(label, op[c], key[c], held[c], map[key[c]])
      BY <1>1, <1>4, <2>2 DEF Insert, KillPcs
    <2> HIDE DEF label
    <2> QED
      BY <1>1, <2>1, <2>2, <2>3, CallerMoves
  <1>5. CASE Stamp(c)
    BY <1>1, <1>5, KeepShape, ReturnShape DEF Stamp
  <1> QED
    BY <1>2, <1>3, <1>4, <1>5

(* Spawning the observer task is the one step that moves two actors.       *)
LEMMA ObserveShape ==
  ASSUME Shape, NEW c \in Callers, Observe(c)
  PROVE  ActorTypes' /\ ActorShape'
  <1> DEFINE s == held[c]
             label == IF op[c] = "spawn" THEN "idle"
                      ELSE IF op[c] = "canonical" THEN "lock" ELSE "stamp"
  <1>1. /\ CallerOK("observe", op[c], key[c], s, gone[c])
        /\ s \in Sessions /\ s # c /\ c \in Actors /\ s \in Actors /\ key[c] \in Keys
    BY DEF Observe, Shape, ActorShape, CallerOK, NeedsHeld, Actors
  <1>2. /\ pc' = [pc EXCEPT ![s] = "starting", ![c] = label]
        /\ op' = [op EXCEPT ![c] = IF op[c] = "spawn" THEN "none" ELSE op[c]]
        /\ key' = [key EXCEPT ![s] = key[c], ![c] = IF op[c] = "spawn" THEN NoKey ELSE key[c]]
        /\ held' = [held EXCEPT ![c] = IF op[c] = "spawn" THEN NoSession ELSE s]
        /\ gone' = gone
    BY <1>1 DEF Observe, Shape, TypeOK
  <1>3. CallerOK(pc'[c], op'[c], key'[c], held'[c], gone'[c])
    BY <1>1, <1>2 DEF CallerOK, Shape, TypeOK, NeedsGone, NeedsHeld, Pcs, CallerPcs, ObserverPcs
  <1>4. ObserverOK(pc'[s], op'[s], key'[s], held'[s], gone'[s])
    BY <1>1, <1>2 DEF ObserverOK, Shape, TypeOK, ActorShape, NeedsGone, ObserverPcs
  <1>5. \A a \in Actors \ {c, s} :
           /\ pc'[a] = pc[a] /\ op'[a] = op[a] /\ key'[a] = key[a]
           /\ held'[a] = held[a] /\ gone'[a] = gone[a]
    BY <1>1, <1>2 DEF Shape, TypeOK
  <1>6. ActorShape'
    <2>1. \A d \in Callers : CallerOK(pc'[d], op'[d], key'[d], held'[d], gone'[d])
      BY <1>1, <1>3, <1>5 DEF ActorShape, Shape, Actors
    <2>2. \A t \in Sessions : ObserverOK(pc'[t], op'[t], key'[t], held'[t], gone'[t])
      BY <1>1, <1>4, <1>5 DEF ActorShape, Shape, Actors
    <2> QED
      BY <2>1, <2>2 DEF ActorShape
  <1>7. ActorTypes'
    BY <1>1, <1>2 DEF ActorTypes, Shape, TypeOK, Ops, Pcs, CallerPcs, ObserverPcs
  <1> QED
    BY <1>6, <1>7

(* So does unregister, called by a handler.                                *)
LEMMA HandlerUnregisterShape ==
  ASSUME Shape, NEW c \in Callers, Unregistering(c)
  PROVE  ActorTypes' /\ ActorShape'
  <1>1. /\ CallerOK(pc[c], op[c], key[c], held[c], gone[c])
        /\ held[c] \in Sessions \cup {NoSession} /\ gone[c] \in Sessions \cup {NoSession}
    BY DEF Shape, ActorShape, TypeOK, Actors
  <1>2. CASE RemoveEntry(c)
    <2>1. map[key[c]] \in Sessions /\ key[c] \in Keys
      BY <1>1, <1>2 DEF RemoveEntry, CallerOK, Shape, TypeOK
    <2>2. MovesTo(c, "cleanup", op[c], key[c], held[c], map[key[c]])
      BY <1>2 DEF RemoveEntry, Goto, MovesTo, Shape, TypeOK, Actors
    <2>3. CallerOK("cleanup", op[c], key[c], held[c], map[key[c]])
      BY <1>1, <1>2, <2>1 DEF RemoveEntry, CallerOK, NeedsHeld, Pcs, ObserverPcs, UnregisterPcs
    <2> QED
      BY <1>1, <2>1, <2>2, <2>3, CallerMoves
  <1>3. CASE RemoveNothing(c)
    <2>1. /\ AfterUnregister(op[c]) # "idle" =>
               CallerOK(AfterUnregister(op[c]), op[c], key[c], held[c], NoSession)
          /\ key[c] \in Keys
      BY <1>1, <1>3 DEF RemoveNothing, CallerOK, AfterUnregister, NeedsGone, NeedsHeld,
         Pcs, CallerPcs, ObserverPcs, KillPcs, AllRequests
    <2> QED
      BY <1>3, <2>1, MoveOnShape DEF RemoveNothing
  <1>4. CASE Cleanup(c)
    BY <1>1, <1>4, KeepShape DEF Cleanup, CallerOK, NeedsGone, NeedsHeld, Pcs, KillPcs,
       ObserverPcs
  <1>5. CASE WinKill(c)
    <2>1. CallerOK(ReapOf(pc[c]), op[c], key[c], held[c], gone[c])
      BY <1>1, <1>5 DEF WinKill, ReapOf, CallerOK, KillPcs, NeedsGone, NeedsHeld, Pcs,
         ReapPcs, ObserverPcs
    <2> QED
      BY <1>5, <2>1, KeepShape DEF WinKill
  <1>6. CASE LoseKill(c) \/ Reap(c)
    <2>1. pc[c] \in KillPcs \cup ReapPcs /\ MoveOn(c, AfterKill(c))
      BY <1>6 DEF LoseKill, Reap
    <2> QED
      BY <2>1, AfterKillOK, MoveOnShape
  <1> QED
    BY <1>2, <1>3, <1>4, <1>5, <1>6 DEF Unregistering

(* So does unregister, called by an observer.                              *)
LEMMA ObserverShape ==
  ASSUME Shape, NEW s \in Sessions, Observing(s) \/ ChildExits(s)
  PROVE  ActorTypes' /\ ActorShape'
  <1>1. /\ ObserverOK(pc[s], "observe", key[s], NoSession, gone[s])
        /\ op[s] = "observe" /\ held[s] = NoSession
        /\ key[s] \in Keys \cup {NoKey} /\ gone[s] \in Sessions \cup {NoSession}
    BY DEF Shape, ActorShape, ObserverOK, TypeOK, Actors
  <1>2. CASE Subscribe(s) \/ ObserveExit(s) \/ ChannelCloses(s)
    BY <1>1, <1>2, ObserverKeepShape DEF Subscribe, ObserveExit, ChannelCloses,
       ObserverOK, NeedsGone, ObserverPcs
  <1>3. CASE RemoveEntry(s)
    <2>1. map[key[s]] \in Sessions
      BY <1>1, <1>3 DEF RemoveEntry, ObserverOK, Shape, TypeOK
    <2>2. MovesTo(s, "cleanup", "observe", key[s], NoSession, map[key[s]])
      BY <1>1, <1>3 DEF RemoveEntry, Goto, MovesTo, Shape, TypeOK, Actors
    <2>3. ObserverOK("cleanup", "observe", key[s], NoSession, map[key[s]])
      BY <1>1, <1>3, <2>1 DEF RemoveEntry, ObserverOK
    <2> QED
      BY <1>1, <2>1, <2>2, <2>3, ObserverMoves
  <1>4. CASE Cleanup(s)
    BY <1>1, <1>4, ObserverKeepShape DEF Cleanup, ObserverOK, NeedsGone
  <1>5. CASE WinKill(s)
    <2>1. ObserverOK(ReapOf(pc[s]), op[s], key[s], held[s], gone[s])
      BY <1>1, <1>5 DEF WinKill, ReapOf, ObserverOK, KillPcs, NeedsGone, ObserverPcs
    <2> QED
      BY <1>5, <2>1, ObserverKeepShape DEF WinKill
  <1>6. CASE RemoveNothing(s) \/ LoseKill(s) \/ Reap(s)
    <2>1. MoveOn(s, "done") /\ pc[s] # "none"
      BY <1>1, <1>6 DEF RemoveNothing, LoseKill, Reap, AfterKill, AfterUnregister,
         ObserverOK, ObserverPcs, KillPcs, ReapPcs
    <2>2. MovesTo(s, "done", "observe", key[s], NoSession, NoSession)
      BY <1>1, <2>1 DEF MoveOn, Goto, MovesTo, Shape, TypeOK, Actors
    <2>3. ObserverOK("done", "observe", key[s], NoSession, NoSession)
      BY <1>1, <2>1 DEF ObserverOK, ObserverPcs, NeedsGone
    <2> QED
      BY <1>1, <2>2, <2>3, ObserverMoves
  <1>7. CASE ChildExits(s)
    <2> DEFINE label == IF pc[s] = "listening" THEN "notified" ELSE pc[s]
    <2>1. MovesTo(s, label, "observe", key[s], NoSession, gone[s])
      BY <1>1, <1>7 DEF ChildExits, MovesTo, Shape, TypeOK, Actors
    <2>2. ObserverOK(label, "observe", key[s], NoSession, gone[s])
      BY <1>1 DEF ObserverOK, ObserverPcs, NeedsGone
    <2> HIDE DEF label
    <2> QED
      BY <1>1, <2>1, <2>2, ObserverMoves
  <1> QED
    BY <1>2, <1>3, <1>4, <1>5, <1>6, <1>7 DEF Observing, Unregistering

(* The data an actor works on is there when it needs it.                   *)
LEMMA ActorData ==
  ASSUME Shape, NEW a \in Actors
  PROVE  /\ pc[a] \in Pcs /\ op[a] \in Ops /\ key[a] \in Keys \cup {NoKey}
         /\ held[a] \in Sessions \cup {NoSession}
         /\ gone[a] \in Sessions \cup {NoSession}
         /\ pc[a] \in NeedsGone => gone[a] \in Sessions
         /\ pc[a] \in NeedsHeld => held[a] \in Sessions
         /\ pc[a] \in {"remove", "insert", "observe", "peek", "lookup"} => key[a] \in Keys
         /\ pc[a] \in {"peek", "lock"} => op[a] = "canonical"
         /\ pc[a] \in {"idle", "peek"} => held[a] = NoSession
         /\ pc[a] \in KillPcs \cup ReapPcs => Victim(a) \in Sessions
  <1>1. CASE a \in Callers
    <2>1. CallerOK(pc[a], op[a], key[a], held[a], gone[a])
      BY <1>1 DEF Shape, ActorShape
    <2> QED
      BY <2>1 DEF Shape, TypeOK, CallerOK, KillPcs, ReapPcs, NeedsGone, NeedsHeld, Victim
  <1>2. CASE a \in Sessions
    <2>1. ObserverOK(pc[a], op[a], key[a], held[a], gone[a])
      BY <1>2 DEF Shape, ActorShape
    <2> QED
      BY <2>1 DEF Shape, TypeOK, ObserverOK, ObserverPcs, KillPcs, ReapPcs, NeedsGone,
         NeedsHeld, Victim
  <1> QED
    BY <1>1, <1>2 DEF Actors

RegistryTypes ==
    /\ map \in [Keys -> Sessions \cup {NoSession}]
    /\ child \in [Sessions -> {"unborn", "alive", "exited"}]
    /\ killed \in [Sessions -> BOOLEAN]
    /\ exitFlag \in [Sessions -> BOOLEAN]
    /\ emitter \in [Sessions -> {"none", "starting", "running"}]
    /\ joining \in [Viewers -> Sessions \cup {NoSession}]
    /\ watching \in [Viewers -> Sessions \cup {NoSession}]
    /\ active \in [Workspaces -> Sessions \cup {NoSession}]
    /\ terminal \in [Workspaces -> Sessions \cup {NoSession}]
    /\ running \in [Workspaces -> BOOLEAN]

(* The map, the flags and the rows keep their types.                       *)
LEMMA NextRegistryTypes ==
  ASSUME Shape, [Next]_vars
  PROVE  RegistryTypes'
  <1> USE DEF RegistryTypes, ptyVars, viewVars, rowVars
  <1>0. RegistryTypes
    BY DEF Shape, TypeOK
  <1>1. ASSUME NEW c \in Callers, NEW o \in Requests, NEW k \in Keys, Begin(c, o, k)
        PROVE  RegistryTypes'
    BY <1>0, <1>1 DEF Begin
  <1>2. ASSUME NEW a \in Actors, Unregistering(a)
        PROVE  RegistryTypes'
    <2>1. CASE RemoveEntry(a)
      BY <1>0, <2>1 DEF RemoveEntry
    <2>2. CASE Cleanup(a)
      BY <1>0, <2>2 DEF Cleanup, Keep
    <2>3. CASE WinKill(a)
      BY <1>0, <2>3, ActorData DEF WinKill
    <2>4. CASE Reap(a)
      BY <1>0, <2>4, ActorData DEF Reap
    <2>5. CASE RemoveNothing(a) \/ LoseKill(a)
      BY <1>0, <2>5 DEF RemoveNothing, LoseKill
    <2> QED
      BY <1>2, <2>1, <2>2, <2>3, <2>4, <2>5 DEF Unregistering
  <1>3. ASSUME NEW c \in Callers, Handling(c)
        PROVE  RegistryTypes'
    <2>0. c \in Actors
      BY DEF Actors
    <2>1. CASE Peek(c) \/ Found(c) \/ NotFound(c) \/ Reuse(c) \/ Evict(c)
               \/ CloseGuard(c) \/ Recheck(c) \/ ForkFails(c) \/ Observe(c)
      BY <1>0, <2>1 DEF Peek, Found, NotFound, Reuse, Evict, CloseGuard, Recheck,
         ForkFails, Observe
    <2>2. CASE Fork(c)
      BY <1>0, <2>2 DEF Fork
    <2>3. CASE Insert(c)
      BY <1>0, <2>0, <2>3, ActorData DEF Insert
    <2>4. CASE Stamp(c)
      <3>1. held[c] \in Sessions
        BY <2>0, <2>4, ActorData DEF Stamp, NeedsHeld
      <3> QED
        BY <1>0, <2>4, <3>1 DEF Stamp
    <2>5. CASE Lock(c)
      <3>1. held[c] \in Sessions
        BY <2>0, <2>5, ActorData DEF Lock, NeedsHeld
      <3> QED
        BY <1>0, <2>5, <3>1 DEF Lock
    <2> QED
      BY <1>2, <1>3, <2>0, <2>1, <2>2, <2>3, <2>4, <2>5 DEF Handling
  <1>4. ASSUME NEW s \in Sessions, Observing(s) \/ ChildExits(s)
        PROVE  RegistryTypes'
    <2>1. CASE Subscribe(s) \/ ChannelCloses(s)
      BY <1>0, <2>1 DEF Subscribe, ChannelCloses
    <2>2. CASE ObserveExit(s)
      <3>1. exitFlag' \in [Sessions -> BOOLEAN]
        <4>1. (exitFlag[s] \/ StronglyHeld(s)) \in BOOLEAN
          BY <1>0 DEF StronglyHeld, Registered
        <4> QED
          BY <1>0, <2>2, <4>1 DEF ObserveExit
      <3> QED
        BY <1>0, <2>2, <3>1 DEF ObserveExit
    <2>3. CASE ChildExits(s)
      BY <1>0, <2>3 DEF ChildExits
    <2> QED
      BY <1>2, <1>4, <2>1, <2>2, <2>3 DEF Observing, Actors
  <1>5. ASSUME NEW v \in Viewers, Attach(v) \/ Detach(v) \/ \E s \in Sessions : Connect(v, s)
        PROVE  RegistryTypes'
    BY <1>0, <1>5 DEF Attach, Detach, Connect
  <1>7. ASSUME NEW s \in Sessions, EmitterStarts(s)
        PROVE  RegistryTypes'
    BY <1>0, <1>7 DEF EmitterStarts
  <1>6. CASE UNCHANGED vars
    BY <1>0, <1>6 DEF vars
  <1> QED
    BY <1>1, <1>3, <1>4, <1>5, <1>6, <1>7 DEF Next

(* No step leaves the types or an actor's control path.                    *)
LEMMA NextShape ==
  ASSUME Shape, [Next]_vars
  PROVE  Shape'
  <1> USE DEF Keep, ptyVars, viewVars, actorVars, rowVars
  <1>1. ActorTypes' /\ ActorShape'
    <2>1. ASSUME NEW c \in Callers, NEW o \in Requests, NEW k \in Keys, Begin(c, o, k)
          PROVE  ActorTypes' /\ ActorShape'
      BY <2>1, SpawnerShape
    <2>2. ASSUME NEW c \in Callers, Handling(c)
          PROVE  ActorTypes' /\ ActorShape'
      BY <2>2, HandlerShape, SpawnerShape, ObserveShape, HandlerUnregisterShape DEF Handling
    <2>3. ASSUME NEW s \in Sessions, Observing(s) \/ ChildExits(s)
          PROVE  ActorTypes' /\ ActorShape'
      BY <2>3, ObserverShape
    <2>4. CASE UNCHANGED actorVars
      BY <2>4 DEF ActorTypes, ActorShape, Shape, TypeOK
    <2>5. ASSUME NEW v \in Viewers, Attach(v) \/ Detach(v) \/ \E s \in Sessions : Connect(v, s)
          PROVE  UNCHANGED actorVars
      BY <2>5 DEF Attach, Detach, Connect
    <2>6. ASSUME NEW s \in Sessions, EmitterStarts(s)
          PROVE  UNCHANGED actorVars
      BY <2>6 DEF EmitterStarts
    <2> QED
      BY <2>1, <2>2, <2>3, <2>4, <2>5, <2>6 DEF Next, vars
  <1> QED
    BY <1>1, NextRegistryTypes DEF Shape, TypeOK, ActorTypes, RegistryTypes

-----------------------------------------------------------------------------
(* Custody: who has a session in hand, step by step.                       *)

(* A step of actor a alone.                                                *)
OthersKept(a) ==
    \A b \in Actors : b # a => /\ pc'[b] = pc[b] /\ op'[b] = op[b]
                               /\ key'[b] = key[b] /\ held'[b] = held[b]
                               /\ gone'[b] = gone[b]

(* Most steps are quiet: the map and the kill gates stay, children at most *)
(* exit, and the one actor that moves takes up no session that is not in   *)
(* the map and gives none up that is not taken care of.                    *)
QuietMove(a) ==
    /\ OthersKept(a)
    /\ map' = map /\ killed' = killed
    /\ \A s \in Sessions : \/ child'[s] = child[s]
                           \/ child[s] # "unborn" /\ child'[s] = "exited"
    /\ pc'[a] # "insert"
    /\ pc'[a] \in ReapPcs => pc'[a] = pc[a] /\ held'[a] = held[a] /\ gone'[a] = gone[a]
    /\ pc[a] = "none" <=> pc'[a] = "none"
    /\ gone'[a] \in {gone[a], NoSession}
    /\ held'[a] \in {held[a], NoSession} \/ Registered(held'[a])
    /\ PreObserve(a)' => PreObserve(a) /\ held'[a] = held[a]
    /\ \A s \in Sessions :
          InCustody(a, s) => killed[s] \/ child'[s] = "exited" \/ InCustody(a, s)'
    /\ a \in Callers => LookedUpBy(a)'

(* A quiet step keeps Custody.                                             *)
LEMMA QuietCustody ==
  ASSUME Shape, Custody, Shape', NEW a \in Actors, QuietMove(a)
  PROVE  Custody'
  <1> USE DEF Registered, OthersKept, QuietMove
  <1>0. \A b \in Actors : PreObserve(b) => held[b] \in Sessions
    BY ActorData DEF PreObserve, NeedsHeld
  <1>1. UnbornUnknown'
    BY DEF Custody, UnbornUnknown, Shape, TypeOK, Actors
  <1>2. InsertExclusive'
    BY <1>0 DEF Custody, InsertExclusive, PreObserve, Actors
  <1>3. ObserverUnspawned'
    BY <1>0 DEF Custody, ObserverUnspawned, PreObserve, Actors
  <1>4. GoneUnregistered'
    BY DEF Custody, GoneUnregistered
  <1>5. LookedUp'
    BY DEF Custody, LookedUp, LookedUpBy, Actors
  <1>6. ReaperKilled'
    BY DEF Custody, ReaperKilled, Victim, ReapPcs
  <1>7. OneSlotPerSession' /\ RegisteredNotKilled'
    BY DEF Custody, OneSlotPerSession, RegisteredNotKilled
  <1>8. OneReaper'
    BY DEF Custody, OneReaper, Victim, ReapPcs
  <1>9. NoOrphanChild'
    <2> SUFFICES ASSUME NEW s \in Sessions, child'[s] = "alive", ~killed'[s], ~Registered(s)
                 PROVE  \E b \in Actors : InCustody(b, s)'
      BY DEF NoOrphanChild
    <2>1. PICK b \in Actors : InCustody(b, s)
      BY DEF Custody, NoOrphanChild
    <2>2. InCustody(b, s)'
      BY <2>1 DEF InCustody
    <2> QED
      BY <2>2
  <1> QED
    BY <1>1, <1>2, <1>3, <1>4, <1>5, <1>6, <1>7, <1>8, <1>9 DEF Custody

-----------------------------------------------------------------------------
(* The three ways control moves, in terms of the actor's fields.           *)

(* The fields of an actor that only goes to another label.                 *)
LEMMA KeepFields ==
  ASSUME Shape, NEW a \in Actors, NEW label, Keep(a, label)
  PROVE  /\ OthersKept(a)
         /\ pc'[a] = label /\ op'[a] = op[a] /\ key'[a] = key[a]
         /\ held'[a] = held[a] /\ gone'[a] = gone[a]
  BY DEF Keep, Goto, OthersKept, Shape, TypeOK

(* The fields of a handler that returned.                                  *)
LEMMA ReturnFields ==
  ASSUME Shape, NEW a \in Actors, Return(a)
  PROVE  /\ OthersKept(a)
         /\ pc'[a] = "idle" /\ held'[a] = NoSession /\ gone'[a] = NoSession
  BY DEF Return, OthersKept, Shape, TypeOK

(* The fields of an actor after a kill.                                    *)
LEMMA MoveOnFields ==
  ASSUME Shape, NEW a \in Actors, NEW label, MoveOn(a, label)
  PROVE  /\ OthersKept(a)
         /\ pc'[a] = label /\ gone'[a] = NoSession
         /\ held'[a] = (IF label = "idle" THEN NoSession ELSE held[a])
         /\ label # "idle" => key'[a] = key[a]
         /\ op'[a] \in {op[a], "none"} \/ (op[a] = "respawn" /\ op'[a] = "pinned")
  BY DEF MoveOn, Return, Goto, OthersKept, Shape, TypeOK

(* Where an actor goes from a kill.                                        *)
LEMMA AfterKillLabel ==
  ASSUME Shape, NEW a \in Actors, pc[a] \in KillPcs \cup ReapPcs
  PROVE  /\ AfterKill(a) \in {"done", "killHeld", "fork", "idle", "stamp", "observe",
                              "recheck", "lookup"}
         /\ AfterKill(a) = "killHeld" => pc[a] \in {"killRemoved", "reapRemoved"}
         /\ AfterKill(a) = "stamp" => /\ pc[a] \in {"killDisplaced", "reapDisplaced"}
                                      /\ op[a] = "spawn"
         /\ AfterKill(a) = "observe" => pc[a] \in {"killDisplaced", "reapDisplaced"}
         /\ AfterKill(a) \in {"lookup", "recheck"} => pc[a] \in {"killHeld", "reapHeld"}
  BY DEF AfterKill, AfterUnregister, KillPcs, ReapPcs

-----------------------------------------------------------------------------
(* Quiet steps. *)

(* Look-ups are quiet.                                                     *)
LEMMA LookupQuiet ==
  ASSUME Shape, Custody, NEW c \in Callers, Peek(c) \/ Found(c)
  PROVE  QuietMove(c)
  <1> DEFINE found == map[key[c]]
             label == IF pc[c] = "lookup"
                      THEN IF op[c] \in {"respawn", "forceClose"} THEN "remove" ELSE "check"
                      ELSE IF found = NoSession THEN "lookup" ELSE "stamp"
  <1>1. /\ OthersKept(c)
        /\ pc'[c] = label /\ op'[c] = op[c] /\ key'[c] = key[c]
        /\ held'[c] = found /\ gone'[c] = gone[c]
    BY DEF Peek, Found, Goto, OthersKept, Shape, TypeOK, Actors
  <1>2. /\ map' = map /\ child' = child /\ killed' = killed
        /\ pc[c] \in {"peek", "lookup"} /\ (pc[c] = "peek" => op[c] = "canonical")
        /\ key[c] \in Keys
        /\ c \in Actors
    BY ActorData DEF Peek, Found, ptyVars, Actors
  <1>3. found = NoSession \/ Registered(found)
    BY <1>2 DEF Registered
  <1>4. LookedUpBy(c)'
    BY <1>1, <1>2 DEF LookedUpBy, Registered, Custody, OneSlotPerSession
  <1> QED
    BY <1>1, <1>2, <1>3, <1>4 DEF QuietMove, PreObserve, InCustody, ReapPcs

(* The choice of what to do with what was found is quiet.                  *)
LEMMA ChoiceQuiet ==
  ASSUME Shape, Custody, NEW c \in Callers,
         NotFound(c) \/ Reuse(c) \/ Evict(c) \/ CloseGuard(c) \/ Recheck(c) \/ ForkFails(c)
  PROVE  QuietMove(c)
  <1>1. /\ map' = map /\ child' = child /\ killed' = killed
        /\ c \in Actors
        /\ pc[c] \in {"lookup", "check", "recheck", "fork"}
    BY DEF NotFound, Reuse, Evict, CloseGuard, Recheck, ForkFails, ptyVars, Actors
  <1>2. CASE Return(c)
    BY <1>1, <1>2, ReturnFields
       DEF QuietMove, PreObserve, InCustody, ReapPcs, LookedUpBy
  <1>3. ASSUME NEW label \in {"fork", "remove", "recheck", "lock", "stamp"}, Keep(c, label),
               label = "stamp" => op[c] = "pinned",
               label = "remove" => pc[c] \in {"lookup", "check"}
        PROVE  QuietMove(c)
    <2>1. LookedUpBy(c)'
      BY <1>1, <1>3, KeepFields DEF LookedUpBy, LookedUp, Registered, Custody
    <2> QED
      BY <1>1, <1>3, <2>1, KeepFields DEF QuietMove, PreObserve, InCustody, ReapPcs
  <1>4. CASE /\ NotFound(c) /\ op' = [op EXCEPT ![c] = "pinned"]
             /\ UNCHANGED <<pc, key, held, gone>>
    <2>1. LookedUpBy(c)'
      BY <1>1, <1>4 DEF LookedUpBy, LookedUp, Registered, Custody
    <2>2. OthersKept(c)
      BY <1>4 DEF OthersKept, Shape, TypeOK
    <2> QED
      BY <1>1, <1>4, <2>1, <2>2 DEF QuietMove, PreObserve, InCustody, ReapPcs, NotFound
  <1> QED
    BY <1>1, <1>2, <1>3, <1>4 DEF NotFound, Reuse, Evict, CloseGuard, Recheck, ForkFails

(* The writes to the rows are quiet.                                       *)
LEMMA StampQuiet ==
  ASSUME Shape, Custody, NEW c \in Callers, Stamp(c) \/ Lock(c)
  PROVE  QuietMove(c)
  <1>1. /\ map' = map /\ child' = child /\ killed' = killed
        /\ c \in Actors
        /\ pc[c] \in {"stamp", "lock"} /\ (pc[c] = "lock" => op[c] = "canonical")
    BY ActorData DEF Stamp, Lock, ptyVars, Actors
  <1>2. CASE Return(c)
    BY <1>1, <1>2, ReturnFields
       DEF QuietMove, PreObserve, InCustody, ReapPcs, LookedUpBy
  <1>3. ASSUME NEW label \in {"observe", "stamp"}, Keep(c, label),
               label = "observe" => op[c] = "spawn" /\ pc[c] = "stamp",
               label = "stamp" => op[c] = "canonical"
        PROVE  QuietMove(c)
    BY <1>1, <1>3, KeepFields DEF QuietMove, PreObserve, InCustody, ReapPcs, LookedUpBy
  <1> QED
    BY <1>1, <1>2, <1>3 DEF Stamp, Lock

(* The arrival of a request is quiet.                                      *)
LEMMA BeginQuiet ==
  ASSUME Shape, Custody, NEW c \in Callers, NEW o \in Requests, NEW k \in Keys, Begin(c, o, k)
  PROVE  QuietMove(c)
  <1>1. /\ map' = map /\ child' = child /\ killed' = killed
        /\ c \in Actors /\ pc[c] = "idle" /\ held[c] = NoSession
    BY ActorData DEF Begin, ptyVars, Actors
  <1>2. /\ OthersKept(c)
        /\ pc'[c] \in {"peek", "lookup"} /\ held' = held /\ gone' = gone
    BY <1>1 DEF Begin, OthersKept, Shape, TypeOK
  <1> QED
    BY <1>1, <1>2 DEF QuietMove, PreObserve, InCustody, ReapPcs, LookedUpBy

(* The clean-up of the rows is quiet.                                      *)
LEMMA CleanupQuiet ==
  ASSUME Shape, Custody, NEW a \in Actors, Cleanup(a)
  PROVE  QuietMove(a)
  <1>1. /\ map' = map /\ child' = child /\ killed' = killed
        /\ pc[a] = "cleanup" /\ Keep(a, "killRemoved")
    BY DEF Cleanup, ptyVars
  <1>2. a \in Callers => LookedUpBy(a)'
    BY <1>1, KeepFields DEF LookedUpBy, LookedUp, Registered, Custody
  <1> QED
    BY <1>1, <1>2, KeepFields DEF QuietMove, PreObserve, InCustody, ReapPcs

(* The end of a kill: the actor had custody of its victim, and the victim  *)
(* is being killed.                                                        *)
LEMMA KillQuiet ==
  ASSUME Shape, Custody, NEW a \in Actors, LoseKill(a) \/ Reap(a)
  PROVE  QuietMove(a)
  <1> DEFINE label == AfterKill(a)
  <1>1. /\ map' = map /\ killed' = killed
        /\ pc[a] \in KillPcs \cup ReapPcs /\ MoveOn(a, label)
        /\ killed[Victim(a)] /\ Victim(a) \in Sessions
    BY ActorData DEF LoseKill, Reap, ptyVars, Custody, ReaperKilled
  <1>2. \A s \in Sessions : \/ child'[s] = child[s]
                            \/ child[s] # "unborn" /\ child'[s] = "exited"
    BY <1>1 DEF LoseKill, Reap, ptyVars, Shape, TypeOK, Custody, UnbornUnknown
  <1>3. \A s \in Sessions : InCustody(a, s) => killed[s]
    BY <1>1 DEF InCustody, Victim, KillPcs, ReapPcs
  <1>4. a \in Callers => LookedUpBy(a)'
    BY <1>1, MoveOnFields, AfterKillLabel
       DEF LookedUpBy, LookedUp, Registered, Custody, KillPcs, ReapPcs
  <1>5. PreObserve(a)' => PreObserve(a) /\ held'[a] = held[a]
    BY <1>1, MoveOnFields, AfterKillLabel DEF PreObserve
  <1> HIDE DEF label
  <1> QED
    BY <1>1, <1>2, <1>3, <1>4, <1>5, MoveOnFields, AfterKillLabel
       DEF QuietMove, KillPcs, ReapPcs, label

(* unregister of a name without an entry is quiet.                         *)
LEMMA RemoveNothingQuiet ==
  ASSUME Shape, Custody, NEW a \in Actors, RemoveNothing(a)
  PROVE  QuietMove(a)
  <1> DEFINE label == AfterUnregister(op[a])
  <1>1. /\ map' = map /\ child' = child /\ killed' = killed
        /\ pc[a] = "remove" /\ map[key[a]] = NoSession /\ MoveOn(a, label)
        /\ key[a] \in Keys
    BY ActorData DEF RemoveNothing, ptyVars
  <1>2. label \in {"done", "killHeld", "fork", "idle"}
    BY DEF AfterUnregister
  <1>3. a \in Callers => LookedUpBy(a)'
    <2>1. a \in Callers => held[a] = NoSession \/ ~Registered(held[a])
      BY <1>1 DEF LookedUpBy, LookedUp, Registered, Custody
    <2> QED
      BY <1>1, <1>2, <2>1, MoveOnFields DEF LookedUpBy, Registered
  <1> HIDE DEF label
  <1> QED
    BY <1>1, <1>2, <1>3, MoveOnFields DEF QuietMove, PreObserve, InCustody, ReapPcs

(* What happens to a child and to its observer.                            *)
LEMMA ObserverQuiet ==
  ASSUME Shape, Custody, NEW s \in Sessions,
         Subscribe(s) \/ ObserveExit(s) \/ ChannelCloses(s) \/ ChildExits(s)
  PROVE  QuietMove(s)
  <1>1. map' = map /\ killed' = killed /\ s \in Actors /\ s \notin Callers
    BY DEF Subscribe, ObserveExit, ChannelCloses, ChildExits, ptyVars, Actors
  <1>2. CASE Subscribe(s) \/ ObserveExit(s) \/ ChannelCloses(s)
    <2>1. /\ child' = child /\ pc[s] \in {"starting", "notified", "listening"}
          /\ \E label \in {"listening", "done", "remove"} : Keep(s, label)
      BY <1>2 DEF Subscribe, ObserveExit, ChannelCloses, ptyVars
    <2> QED
      BY <1>1, <2>1, KeepFields DEF QuietMove, PreObserve, InCustody, ReapPcs
  <1>3. CASE ChildExits(s)
    <2>1. /\ OthersKept(s) /\ held' = held /\ gone' = gone /\ op' = op
          /\ pc'[s] = pc[s] \/ (pc[s] = "listening" /\ pc'[s] = "notified")
      BY <1>1, <1>3 DEF ChildExits, OthersKept, Shape, TypeOK
    <2>2. \A t \in Sessions : \/ child'[t] = child[t]
                              \/ child[t] # "unborn" /\ child'[t] = "exited"
      BY <1>3 DEF ChildExits, Shape, TypeOK
    <2>3. pc[s] # "insert"
      BY DEF Shape, ActorShape, ObserverOK, ObserverPcs
    <2> QED
      BY <1>1, <2>1, <2>2, <2>3 DEF QuietMove, PreObserve, InCustody, ReapPcs
  <1> QED
    BY <1>2, <1>3

-----------------------------------------------------------------------------
(* The five steps that are not quiet. *)

(* A new session: nobody but its handler knows it.                         *)
LEMMA ForkCustody ==
  ASSUME Shape, Custody, NEW c \in Callers, Fork(c)
  PROVE  Custody'
  <1>1. PICK s \in Sessions : /\ child[s] = "unborn"
                              /\ child' = [child EXCEPT ![s] = "alive"]
                              /\ held' = [held EXCEPT ![c] = s]
    BY DEF Fork
  <1>2. /\ OthersKept(c) /\ c \in Actors /\ pc[c] = "fork"
        /\ pc'[c] = "insert" /\ op'[c] = op[c] /\ key'[c] = key[c] /\ gone' = gone
        /\ held'[c] = s
        /\ map' = map /\ killed' = killed
    BY <1>1 DEF Fork, Goto, OthersKept, Shape, TypeOK, Actors
  <1>3. /\ ~Registered(s) /\ ~killed[s] /\ pc[s] = "none"
        /\ \A a \in Actors : held[a] # s /\ gone[a] # s
    BY <1>1 DEF Custody, UnbornUnknown
  <1>4. child'[s] = "alive" /\ \A t \in Sessions : t # s => child'[t] = child[t]
    BY <1>1 DEF Shape, TypeOK
  <1>5. \A b \in Actors : PreObserve(b) => held[b] \in Sessions
    BY ActorData DEF PreObserve, NeedsHeld
  <1> USE <1>2, <1>3, <1>4 DEF OthersKept, Registered, Actors
  <1>6. UnbornUnknown'
    BY DEF Custody, UnbornUnknown
  <1>7. InsertExclusive'
    BY <1>5 DEF Custody, InsertExclusive, PreObserve
  <1>8. ObserverUnspawned'
    BY <1>5 DEF Custody, ObserverUnspawned, PreObserve
  <1>9. GoneUnregistered' /\ OneSlotPerSession' /\ RegisteredNotKilled'
    BY DEF Custody, GoneUnregistered, OneSlotPerSession, RegisteredNotKilled
  <1>10. LookedUp'
    BY DEF Custody, LookedUp, LookedUpBy
  <1>11. ReaperKilled' /\ OneReaper'
    BY DEF Custody, ReaperKilled, OneReaper, Victim, ReapPcs
  <1>12. NoOrphanChild'
    <2> SUFFICES ASSUME NEW t \in Sessions, child'[t] = "alive", ~killed[t], ~Registered(t)
                 PROVE  \E b \in Actors : InCustody(b, t)'
      BY DEF NoOrphanChild
    <2>1. CASE t = s
      BY <2>1 DEF InCustody
    <2>2. CASE t # s
      <3>1. PICK b \in Actors : InCustody(b, t)
        BY <2>2 DEF Custody, NoOrphanChild
      <3> QED
        BY <3>1 DEF InCustody
    <2> QED
      BY <2>1, <2>2
  <1> QED
    BY <1>6, <1>7, <1>8, <1>9, <1>10, <1>11, <1>12 DEF Custody

(* A registration: the session joins the map, the one it displaces leaves  *)
(* it for the custody of the same handler.                                 *)
LEMMA InsertCustody ==
  ASSUME Shape, Custody, NEW c \in Callers, Insert(c)
  PROVE  Custody'
  <1> DEFINE s == held[c]
             old == map[key[c]]
  <1>1. /\ c \in Actors /\ pc[c] = "insert" /\ s \in Sessions /\ key[c] \in Keys
        /\ old \in Sessions \cup {NoSession}
    BY ActorData DEF Insert, NeedsHeld, Actors, Shape, TypeOK
  <1>2. /\ OthersKept(c)
        /\ gone'[c] = old /\ held' = held /\ op' = op /\ key' = key
        /\ pc'[c] \in {"killDisplaced", "stamp", "observe"}
        /\ pc'[c] = "killDisplaced" <=> old # NoSession
        /\ pc'[c] = "stamp" => op[c] = "spawn"
        /\ child' = child /\ killed' = killed
    BY <1>1 DEF Insert, Goto, OthersKept, Shape, TypeOK, ptyVars
  <1>3. map'[key[c]] = s /\ \A k \in Keys : k # key[c] => map'[k] = map[k]
    BY <1>1 DEF Insert, Shape, TypeOK
  <1>4. /\ ~Registered(s) /\ ~killed[s] /\ pc[s] = "none" /\ child[s] # "unborn"
        /\ \A a \in Actors : gone[a] # s /\ (a # c => held[a] # s)
    BY <1>1 DEF Custody, InsertExclusive, ObserverUnspawned, PreObserve, UnbornUnknown
  <1>5. \A b \in Actors : PreObserve(b) => held[b] \in Sessions
    BY ActorData DEF PreObserve, NeedsHeld
  <1>6. old # NoSession => /\ Registered(old) /\ old # s
                           /\ \A k \in Keys : map'[k] # old
                           /\ ~killed[old] /\ child[old] # "unborn"
    <2> SUFFICES ASSUME old # NoSession
                 PROVE  /\ Registered(old) /\ old # s
                        /\ \A k \in Keys : map'[k] # old
                        /\ ~killed[old] /\ child[old] # "unborn"
      OBVIOUS
    <2>1. Registered(old) /\ old \in Sessions
      BY <1>1 DEF Registered
    <2>2. old # s
      BY <1>4, <2>1
    <2>3. \A k \in Keys : map'[k] # old
      BY <1>1, <1>3, <2>1, <2>2 DEF Registered, Custody, OneSlotPerSession
    <2> HIDE DEF old
    <2> QED
      BY <2>1, <2>2, <2>3 DEF Custody, RegisteredNotKilled, UnbornUnknown
  <1>7. \A t \in Sessions : Registered(t)' <=> t = s \/ (Registered(t) /\ t # old)
    BY <1>1, <1>3, <1>4, <1>6 DEF Registered, Custody, OneSlotPerSession
  <1> HIDE DEF s, old
  <1> USE <1>1, <1>2, <1>4, <1>6, <1>7 DEF OthersKept, Actors
  <1>8. s = held[c] /\ old = map[key[c]]
    BY DEF s, old
  <1>9. UnbornUnknown'
    BY DEF Custody, UnbornUnknown, Shape, TypeOK
  <1>10. InsertExclusive'
    BY <1>5, <1>8 DEF Custody, InsertExclusive, PreObserve
  <1>11. ObserverUnspawned'
    BY <1>5, <1>8 DEF Custody, ObserverUnspawned, PreObserve
  <1>12. GoneUnregistered'
    BY ActorData DEF Custody, GoneUnregistered
  <1>13. LookedUp'
    BY <1>3, ActorData DEF Custody, LookedUp, LookedUpBy
  <1>14. ReaperKilled' /\ OneReaper'
    BY DEF Custody, ReaperKilled, OneReaper, Victim, ReapPcs
  <1>15. OneSlotPerSession'
    BY <1>3 DEF Registered, Custody, OneSlotPerSession
  <1>16. RegisteredNotKilled'
    BY DEF Custody, RegisteredNotKilled
  <1>17. NoOrphanChild'
    <2> SUFFICES ASSUME NEW t \in Sessions, child[t] = "alive", ~killed[t], ~Registered(t)'
                 PROVE  \E b \in Actors : InCustody(b, t)'
      BY DEF NoOrphanChild
    <2>1. CASE Registered(t)
      BY <2>1 DEF InCustody
    <2>2. CASE ~Registered(t)
      <3>1. PICK b \in Actors : InCustody(b, t)
        BY <2>2 DEF Custody, NoOrphanChild
      <3> QED
        BY <1>8, <3>1 DEF InCustody
    <2> QED
      BY <2>1, <2>2
  <1> QED
    BY <1>9, <1>10, <1>11, <1>12, <1>13, <1>14, <1>15, <1>16, <1>17 DEF Custody

(* The handler spawns the observer task of its session.                    *)
LEMMA ObserveCustody ==
  ASSUME Shape, Custody, NEW c \in Callers, Observe(c)
  PROVE  Custody'
  <1> DEFINE s == held[c]
  <1>1. /\ c \in Actors /\ pc[c] = "observe" /\ s \in Sessions /\ s \in Actors /\ s # c
        /\ pc[s] = "none" /\ child[s] # "unborn"
    BY ActorData DEF Observe, NeedsHeld, Actors, Custody, ObserverUnspawned, PreObserve,
       UnbornUnknown
  <1>2. /\ pc'[s] = "starting" /\ pc'[c] \in {"idle", "lock", "stamp"}
        /\ pc'[c] = "stamp" => op'[c] # "spawn"
        /\ held'[c] \in {held[c], NoSession} /\ held'[s] = held[s] /\ gone' = gone
        /\ map' = map /\ child' = child /\ killed' = killed
        /\ \A b \in Actors \ {c, s} : /\ pc'[b] = pc[b] /\ op'[b] = op[b]
                                       /\ key'[b] = key[b] /\ held'[b] = held[b]
    BY <1>1 DEF Observe, Shape, TypeOK, ptyVars
  <1>3. \A b \in Actors : PreObserve(b) => held[b] \in Sessions
    BY ActorData DEF PreObserve, NeedsHeld
  <1>4. s \notin Callers /\ Callers \subseteq Actors /\ Sessions \subseteq Actors
    BY <1>1 DEF Actors
  <1>5. s = held[c]
    OBVIOUS
  <1> HIDE DEF s
  <1> USE <1>1, <1>2, <1>4 DEF Registered
  <1>6. UnbornUnknown'
    BY DEF Custody, UnbornUnknown
  <1>7. InsertExclusive'
    BY <1>3 DEF Custody, InsertExclusive, PreObserve
  <1>8. ObserverUnspawned'
    BY <1>3, <1>5 DEF Custody, ObserverUnspawned, PreObserve
  <1>9. GoneUnregistered' /\ OneSlotPerSession' /\ RegisteredNotKilled'
    BY DEF Custody, GoneUnregistered, OneSlotPerSession, RegisteredNotKilled
  <1>10. LookedUp'
    BY DEF Custody, LookedUp, LookedUpBy
  <1>11. ReaperKilled' /\ OneReaper'
    BY DEF Custody, ReaperKilled, OneReaper, Victim, ReapPcs
  <1>12. NoOrphanChild'
    <2> SUFFICES ASSUME NEW t \in Sessions, child[t] = "alive", ~killed[t], ~Registered(t)
                 PROVE  \E b \in Actors : InCustody(b, t)'
      BY DEF NoOrphanChild
    <2>1. PICK b \in Actors : InCustody(b, t)
      BY DEF Custody, NoOrphanChild
    <2> QED
      BY <2>1 DEF InCustody
  <1> QED
    BY <1>6, <1>7, <1>8, <1>9, <1>10, <1>11, <1>12 DEF Custody

(* A removal: whatever is in the slot leaves the map for the custody of    *)
(* the actor that removed it.                                              *)
LEMMA RemoveEntryCustody ==
  ASSUME Shape, Custody, NEW a \in Actors, RemoveEntry(a)
  PROVE  Custody'
  <1> DEFINE s == map[key[a]]
  <1>1. /\ pc[a] = "remove" /\ key[a] \in Keys /\ s \in Sessions
    BY ActorData DEF RemoveEntry, Shape, TypeOK
  <1>2. /\ OthersKept(a)
        /\ pc'[a] = "cleanup" /\ gone'[a] = s
        /\ op' = op /\ key' = key /\ held' = held
        /\ child' = child /\ killed' = killed
    BY DEF RemoveEntry, Goto, OthersKept, Shape, TypeOK, ptyVars
  <1>3. map'[key[a]] = NoSession /\ \A k \in Keys : k # key[a] => map'[k] = map[k]
    BY <1>1 DEF RemoveEntry, Shape, TypeOK
  <1>4. Registered(s) /\ ~killed[s] /\ child[s] # "unborn"
    BY <1>1 DEF Registered, Custody, RegisteredNotKilled, UnbornUnknown
  <1>5. \A t \in Sessions : Registered(t)' <=> Registered(t) /\ t # s
    BY <1>1, <1>3 DEF Registered, Custody, OneSlotPerSession
  <1>6. \A b \in Actors : PreObserve(b) => held[b] \in Sessions
    BY ActorData DEF PreObserve, NeedsHeld
  <1>7. a \in Callers /\ held[a] # NoSession => \A k \in Keys : map'[k] # held[a]
    <2> SUFFICES ASSUME a \in Callers, held[a] # NoSession, NEW k \in Keys, map'[k] = held[a]
                 PROVE  FALSE
      OBVIOUS
    <2>1. k # key[a] /\ map[k] = held[a]
      BY <1>3
    <2> QED
      BY <1>1, <2>1 DEF Custody, LookedUp, LookedUpBy
  <1>8. \A c \in Callers : held[c] # NoSession /\ ~Registered(held[c])
                             => \A k \in Keys : map'[k] # held[c]
    BY <1>3 DEF Registered
  <1>9. \A c \in Callers, k \in Keys : map'[k] = held[c] /\ held[c] # NoSession
                                       => map[k] = held[c]
    BY <1>3
  <1> HIDE DEF s
  <1> USE <1>1, <1>2, <1>4, <1>5 DEF OthersKept, Actors
  <1>10. UnbornUnknown'
    BY DEF Custody, UnbornUnknown
  <1>11. InsertExclusive'
    BY <1>6 DEF Custody, InsertExclusive, PreObserve
  <1>12. ObserverUnspawned'
    BY <1>6 DEF Custody, ObserverUnspawned, PreObserve
  <1>13. GoneUnregistered'
    BY ActorData DEF Custody, GoneUnregistered
  <1>14. LookedUp'
    BY <1>7, <1>8, <1>9 DEF Custody, LookedUp, LookedUpBy, Registered
  <1>15. ReaperKilled' /\ OneReaper'
    BY DEF Custody, ReaperKilled, OneReaper, Victim, ReapPcs
  <1>16. OneSlotPerSession'
    BY <1>3 DEF Custody, OneSlotPerSession
  <1>17. RegisteredNotKilled'
    BY DEF Custody, RegisteredNotKilled
  <1>18. NoOrphanChild'
    <2> SUFFICES ASSUME NEW t \in Sessions, child[t] = "alive", ~killed[t], ~Registered(t)'
                 PROVE  \E b \in Actors : InCustody(b, t)'
      BY DEF NoOrphanChild
    <2>1. CASE t = s
      BY <2>1 DEF InCustody
    <2>2. CASE t # s
      <3>1. PICK b \in Actors : InCustody(b, t)
        BY <2>2 DEF Custody, NoOrphanChild
      <3> QED
        BY <3>1 DEF InCustody
    <2> QED
      BY <2>1, <2>2
  <1> QED
    BY <1>10, <1>11, <1>12, <1>13, <1>14, <1>15, <1>16, <1>17, <1>18 DEF Custody

(* The gate: before it nobody reaps the victim, after it one actor does.   *)
LEMMA WinKillCustody ==
  ASSUME Shape, Custody, NEW a \in Actors, WinKill(a)
  PROVE  Custody'
  <1> DEFINE s == Victim(a)
  <1>1. /\ pc[a] \in KillPcs /\ s \in Sessions /\ ~killed[s]
    BY ActorData DEF WinKill
  <1>2. /\ OthersKept(a)
        /\ pc'[a] = ReapOf(pc[a]) /\ op'[a] = op[a] /\ key'[a] = key[a]
        /\ held'[a] = held[a] /\ gone'[a] = gone[a]
        /\ map' = map /\ child' = child
    BY KeepFields DEF WinKill
  <1>3. killed'[s] = TRUE /\ \A t \in Sessions : t # s => killed'[t] = killed[t]
    BY <1>1 DEF WinKill, Shape, TypeOK
  <1>4. Victim(a)' = s
    BY <1>1, <1>2 DEF Victim, KillPcs, ReapOf
  <1>5. ~Registered(s)
    BY <1>1 DEF Victim, KillPcs, Custody, GoneUnregistered, LookedUp, LookedUpBy, Shape,
       ActorShape, ObserverOK, ObserverPcs, Actors
  <1>6. child[s] # "unborn" /\ \A c \in Callers : pc[c] = "insert" => held[c] # s
    BY <1>1 DEF Victim, KillPcs, Custody, UnbornUnknown, InsertExclusive
  <1>7. \A b \in Actors : PreObserve(b) => held[b] \in Sessions
    BY ActorData DEF PreObserve, NeedsHeld
  <1> HIDE DEF s
  <1> USE <1>1, <1>2, <1>3, <1>4, <1>5, <1>6 DEF OthersKept, Registered, Actors
  <1>8. UnbornUnknown'
    BY DEF Custody, UnbornUnknown, KillPcs
  <1>9. InsertExclusive'
    BY <1>7 DEF Custody, InsertExclusive, PreObserve, KillPcs, ReapOf
  <1>10. ObserverUnspawned'
    BY <1>7 DEF Custody, ObserverUnspawned, PreObserve, KillPcs, ReapOf
  <1>11. GoneUnregistered' /\ OneSlotPerSession'
    BY DEF Custody, GoneUnregistered, OneSlotPerSession
  <1>12. LookedUp'
    BY DEF Custody, LookedUp, LookedUpBy, KillPcs, ReapOf
  <1>13. ReaperKilled'
    <2>1. \A b \in Actors : b # a /\ pc[b] \in ReapPcs => Victim(b)' = Victim(b)
      BY DEF Victim
    <2> QED
      BY <2>1, ActorData DEF Custody, ReaperKilled
  <1>14. RegisteredNotKilled'
    BY DEF Custody, RegisteredNotKilled
  <1>15. OneReaper'
    <2>1. \A b \in Actors : b # a /\ pc'[b] \in ReapPcs => Victim(b)' # s
      BY DEF Custody, ReaperKilled, Victim
    <2> QED
      BY <2>1 DEF Custody, OneReaper, Victim
  <1>16. NoOrphanChild'
    <2> SUFFICES ASSUME NEW t \in Sessions, child[t] = "alive", ~killed'[t], ~Registered(t)
                 PROVE  \E b \in Actors : InCustody(b, t)'
      BY DEF NoOrphanChild
    <2>1. PICK b \in Actors : InCustody(b, t)
      BY DEF Custody, NoOrphanChild
    <2>2. b # a
      BY <2>1 DEF InCustody, Victim, KillPcs, s
    <2> QED
      BY <2>1, <2>2 DEF InCustody
  <1> QED
    BY <1>8, <1>9, <1>10, <1>11, <1>12, <1>13, <1>14, <1>15, <1>16 DEF Custody

-----------------------------------------------------------------------------
(* The inductive invariant and its consequences. *)

(* The invariant holds before anything was spawned.                        *)
LEMMA InitIInv ==
  ASSUME Init
  PROVE  IInv
  <1> USE DEF Init, Actors
  <1>1. TypeOK
    BY DEF TypeOK, Pcs, CallerPcs, ObserverPcs, Ops
  <1>2. ActorShape
    BY DEF ActorShape, CallerOK, ObserverOK, NeedsGone, NeedsHeld, Pcs, CallerPcs, ObserverPcs
  <1>3. Custody
    BY DEF Custody, UnbornUnknown, InsertExclusive, ObserverUnspawned, PreObserve,
       GoneUnregistered, LookedUp, LookedUpBy, ReaperKilled, OneSlotPerSession,
       RegisteredNotKilled, OneReaper, NoOrphanChild, Registered, ReapPcs
  <1> QED
    BY <1>1, <1>2, <1>3 DEF IInv, Shape

(* Every step of the daemon keeps Custody.                                 *)
LEMMA NextCustody ==
  ASSUME IInv, [Next]_vars
  PROVE  Custody'
  <1>0. Shape /\ Custody /\ Shape'
    BY NextShape DEF IInv
  <1>1. ASSUME NEW c \in Callers, NEW o \in Requests, NEW k \in Keys, Begin(c, o, k)
        PROVE  Custody'
    BY <1>0, <1>1, BeginQuiet, QuietCustody DEF Actors
  <1>2. ASSUME NEW a \in Actors, Unregistering(a)
        PROVE  Custody'
    <2>1. CASE RemoveEntry(a)
      BY <1>0, <2>1, RemoveEntryCustody
    <2>2. CASE WinKill(a)
      BY <1>0, <2>2, WinKillCustody
    <2>3. CASE RemoveNothing(a) \/ Cleanup(a) \/ LoseKill(a) \/ Reap(a)
      BY <1>0, <2>3, RemoveNothingQuiet, CleanupQuiet, KillQuiet, QuietCustody
    <2> QED
      BY <1>2, <2>1, <2>2, <2>3 DEF Unregistering
  <1>3. ASSUME NEW c \in Callers, Handling(c)
        PROVE  Custody'
    <2>0. c \in Actors
      BY DEF Actors
    <2>1. CASE Peek(c) \/ Found(c) \/ NotFound(c) \/ Reuse(c) \/ Evict(c)
               \/ CloseGuard(c) \/ Recheck(c) \/ ForkFails(c)
      BY <1>0, <2>0, <2>1, LookupQuiet, ChoiceQuiet, QuietCustody
    <2>2. CASE Stamp(c) \/ Lock(c)
      BY <1>0, <2>0, <2>2, StampQuiet, QuietCustody
    <2>3. CASE Fork(c) \/ Insert(c) \/ Observe(c)
      BY <1>0, <2>3, ForkCustody, InsertCustody, ObserveCustody
    <2>4. CASE Unregistering(c)
      BY <1>2, <2>0, <2>4
    <2> QED
      BY <1>3, <2>1, <2>2, <2>3, <2>4 DEF Handling
  <1>4. ASSUME NEW s \in Sessions, Observing(s) \/ ChildExits(s)
        PROVE  Custody'
    <2>1. CASE Unregistering(s)
      BY <1>2, <2>1 DEF Actors
    <2>2. CASE Subscribe(s) \/ ObserveExit(s) \/ ChannelCloses(s) \/ ChildExits(s)
      BY <1>0, <2>2, ObserverQuiet, QuietCustody DEF Actors
    <2> QED
      BY <1>4, <2>1, <2>2 DEF Observing
  <1>5. CASE UNCHANGED <<map, child, killed, actorVars>>
    BY <1>0, <1>5 DEF actorVars, Custody, UnbornUnknown, InsertExclusive, ObserverUnspawned,
       PreObserve, GoneUnregistered, LookedUp, LookedUpBy, ReaperKilled, Victim,
       OneSlotPerSession, RegisteredNotKilled, OneReaper, NoOrphanChild, InCustody, Registered
  <1>6. ASSUME NEW v \in Viewers, Attach(v) \/ Detach(v) \/ \E s \in Sessions : Connect(v, s)
        PROVE  UNCHANGED <<map, child, killed, actorVars>>
    BY <1>6 DEF Attach, Detach, Connect, ptyVars
  <1>7. ASSUME NEW s \in Sessions, EmitterStarts(s)
        PROVE  UNCHANGED <<map, child, killed, actorVars>>
    BY <1>7 DEF EmitterStarts, ptyVars
  <1> QED
    BY <1>1, <1>3, <1>4, <1>5, <1>6, <1>7 DEF Next, vars, ptyVars

(* IInv holds in every reachable state: it starts true and every step of   *)
(* the handlers, observers, children and viewers keeps it.                 *)
THEOREM Invariance == Spec => []IInv
  <1>1. Init => IInv
    BY InitIInv
  <1>2. IInv /\ [Next]_vars => IInv'
    BY NextShape, NextCustody DEF IInv
  <1> QED
    BY <1>1, <1>2, PTL DEF Spec

(* Every variable keeps its type: no handler works on a session or key it  *)
(* does not have (v2_spawn.rs, spawn.rs, v2_session_map.rs).               *)
THEOREM TypeCorrect == Spec => []TypeOK
  <1>1. IInv => TypeOK
    BY DEF IInv, Shape
  <1> QED
    BY <1>1, Invariance, PTL

(* v2_session_map.rs:50-54, 242-252: a living child nobody has begun to    *)
(* kill is in the registry or in the hands of an actor that will register  *)
(* or kill it, for any number of sessions, keys and handlers.              *)
THEOREM NoOrphan == Spec => []NoOrphanChild
  <1>1. IInv => NoOrphanChild
    BY DEF IInv, Custody
  <1> QED
    BY <1>1, Invariance, PTL

(* daemon_pty.rs:787-791: of the callers of kill() on one session, one     *)
(* runs the signals and the waitpid.                                       *)
THEOREM SingleReaper == Spec => []OneReaper
  <1>1. IInv => OneReaper
    BY DEF IInv, Custody
  <1> QED
    BY <1>1, Invariance, PTL

(* The registry lists no session whose teardown has begun                  *)
(* (v2_session_map.rs:173-200 unlists before it kills).                    *)
THEOREM ListedUnkilled == Spec => []RegisteredNotKilled
  <1>1. IInv => RegisteredNotKilled
    BY DEF IInv, Custody
  <1> QED
    BY <1>1, Invariance, PTL

(* ... and none under two names (v2_session_map.rs:54 register).           *)
THEOREM ListedOnce == Spec => []OneSlotPerSession
  <1>1. IInv => OneSlotPerSession
    BY DEF IInv, Custody
  <1> QED
    BY <1>1, Invariance, PTL

-----------------------------------------------------------------------------
(* The steps of the handlers are steps of SessionLife or leave its slots   *)
(* and stages alone: the safety part of ImplementsLife.                    *)

Owned(s) == \E c \in Callers : pc[c] = "insert" /\ held[c] = s

Stages == [s \in Sessions |-> Stage(s)]

LifeStep == Life!Next \/ UNCHANGED <<map, Stages>>

(* The stage of a session, before a step and after it.                     *)
LEMMA StageOf ==
  ASSUME NEW s \in Sessions
  PROVE  /\ Stages[s] = IF child[s] = "unborn" THEN "unborn"
                        ELSE IF Registered(s) THEN "listed"
                        ELSE IF Owned(s) THEN "owned"
                        ELSE IF killed[s] /\ child[s] = "exited" THEN "finished"
                        ELSE "condemned"
         /\ Stages'[s] = IF child'[s] = "unborn" THEN "unborn"
                         ELSE IF Registered(s)' THEN "listed"
                         ELSE IF Owned(s)' THEN "owned"
                         ELSE IF killed'[s] /\ child'[s] = "exited" THEN "finished"
                         ELSE "condemned"
  BY DEF Stages, Stage, Owned

(* The steps of SessionLife, in these terms.                               *)
LEMMA LifeSteps ==
  ASSUME \/ \E s \in Sessions :
              /\ Stages[s] = "unborn" /\ Stages'[s] = "owned" /\ map' = map
              /\ \A t \in Sessions \ {s} : Stages'[t] = Stages[t]
         \/ \E s \in Sessions :
              /\ Stages[s] = "condemned" /\ Stages'[s] = "finished" /\ map' = map
              /\ \A t \in Sessions \ {s} : Stages'[t] = Stages[t]
         \/ \E k \in Keys, s \in Sessions :
              /\ Stages[s] = "owned" /\ Stages'[s] = "listed"
              /\ map' = [map EXCEPT ![k] = s]
              /\ map[k] # s
              /\ map[k] \in Sessions => Stages'[map[k]] = "condemned"
              /\ \A t \in Sessions \ {s, map[k]} : Stages'[t] = Stages[t]
         \/ \E k \in Keys :
              /\ map[k] \in Sessions /\ map' = [map EXCEPT ![k] = NoSession]
              /\ Stages'[map[k]] = "condemned"
              /\ \A t \in Sessions \ {map[k]} : Stages'[t] = Stages[t]
  PROVE  LifeStep
  <1>0. /\ Stages = [s \in Sessions |-> Stages[s]]
        /\ Stages' = [s \in Sessions |-> Stages'[s]]
    BY DEF Stages
  <1>1. CASE \E s \in Sessions :
              /\ Stages[s] = "unborn" /\ Stages'[s] = "owned" /\ map' = map
              /\ \A t \in Sessions \ {s} : Stages'[t] = Stages[t]
    <2>1. PICK s \in Sessions :
              /\ Stages[s] = "unborn" /\ Stages'[s] = "owned" /\ map' = map
              /\ \A t \in Sessions \ {s} : Stages'[t] = Stages[t]
      BY <1>1
    <2>2. Stages' = [Stages EXCEPT ![s] = "owned"]
      BY <1>0, <2>1
    <2> QED
      BY <2>1, <2>2 DEF LifeStep, Life!Next, Life!Spawn, Stages
  <1>2. CASE \E s \in Sessions :
              /\ Stages[s] = "condemned" /\ Stages'[s] = "finished" /\ map' = map
              /\ \A t \in Sessions \ {s} : Stages'[t] = Stages[t]
    <2>1. PICK s \in Sessions :
              /\ Stages[s] = "condemned" /\ Stages'[s] = "finished" /\ map' = map
              /\ \A t \in Sessions \ {s} : Stages'[t] = Stages[t]
      BY <1>2
    <2>2. Stages' = [Stages EXCEPT ![s] = "finished"]
      BY <1>0, <2>1
    <2> QED
      BY <2>1, <2>2 DEF LifeStep, Life!Next, Life!Finish, Stages
  <1>3. ASSUME NEW k \in Keys, NEW s \in Sessions,
               Stages[s] = "owned", Stages'[s] = "listed",
               map' = [map EXCEPT ![k] = s], map[k] # s,
               map[k] \in Sessions => Stages'[map[k]] = "condemned",
               \A t \in Sessions \ {s, map[k]} : Stages'[t] = Stages[t]
        PROVE  LifeStep
    <2>1. Stages' = [t \in Sessions |-> IF t = s THEN "listed"
                                        ELSE IF t = map[k] THEN "condemned"
                                        ELSE Stages[t]]
      BY <1>0, <1>3
    <2> QED
      BY <1>3, <2>1 DEF LifeStep, Life!Next, Life!List, Stages
  <1>4. ASSUME NEW k \in Keys,
               map[k] \in Sessions, map' = [map EXCEPT ![k] = NoSession],
               Stages'[map[k]] = "condemned",
               \A t \in Sessions \ {map[k]} : Stages'[t] = Stages[t]
        PROVE  LifeStep
    <2>1. Stages' = [Stages EXCEPT ![map[k]] = "condemned"]
      BY <1>0, <1>4
    <2>2. map[k] # NoSession
      BY <1>4
    <2> QED
      BY <1>4, <2>1, <2>2 DEF LifeStep, Life!Next, Life!Delist, Stages
  <1> QED
    BY <1>1, <1>2, <1>3, <1>4

(* While nothing is listed, delisted, spawned or inserted, a session at    *)
(* most is finished.                                                       *)
LEMMA StageFinishes ==
  ASSUME map' = map, NEW t,
         \A s \in Sessions : Owned(s)' <=> Owned(s),
         \A s \in Sessions \ {t} : child'[s] = child[s] /\ killed'[s] = killed[s],
         t \in Sessions => /\ \/ child'[t] = child[t]
                              \/ child[t] # "unborn" /\ child'[t] = "exited"
                           /\ killed[t] => killed'[t]
  PROVE  LifeStep
  <1>1. \A s \in Sessions : Registered(s)' <=> Registered(s)
    BY DEF Registered
  <1>2. \A s \in Sessions \ {t} : Stages'[s] = Stages[s]
    BY <1>1, StageOf
  <1>3. t \in Sessions => \/ Stages'[t] = Stages[t]
                          \/ Stages[t] = "condemned" /\ Stages'[t] = "finished"
    BY <1>1, StageOf
  <1>4. CASE \A s \in Sessions : Stages'[s] = Stages[s]
    <2>1. Stages' = Stages
      BY <1>4 DEF Stages
    <2> QED
      BY <2>1 DEF LifeStep
  <1>5. CASE t \in Sessions /\ Stages[t] = "condemned" /\ Stages'[t] = "finished"
    BY <1>2, <1>5, LifeSteps
  <1> QED
    BY <1>2, <1>3, <1>4, <1>5

(* Who is not at an insert, and does not come to one, owns nothing.        *)
LEMMA OwnedKept ==
  ASSUME NEW a \in Actors, OthersKept(a), pc[a] # "insert", pc'[a] # "insert"
  PROVE  \A s \in Sessions : Owned(s)' <=> Owned(s)
  BY DEF OthersKept, Owned, Actors

(* A step that is quiet, of an actor that is not at an insert.             *)
LEMMA QuietLife ==
  ASSUME NEW a \in Actors, QuietMove(a), pc[a] # "insert", NEW t,
         \A s \in Sessions \ {t} : child'[s] = child[s]
  PROVE  LifeStep
  BY OwnedKept, StageFinishes DEF QuietMove

(* A fork: the session is its handler's.                                   *)
LEMMA ForkLife ==
  ASSUME Shape, Custody, NEW c \in Callers, Fork(c)
  PROVE  LifeStep
  <1>1. PICK s \in Sessions : /\ child[s] = "unborn"
                              /\ child' = [child EXCEPT ![s] = "alive"]
                              /\ held' = [held EXCEPT ![c] = s]
    BY DEF Fork
  <1>2. /\ pc[c] = "fork" /\ pc' = [pc EXCEPT ![c] = "insert"]
        /\ map' = map /\ killed' = killed /\ c \in Actors
    BY DEF Fork, Goto, Actors
  <1>3. /\ child'[s] = "alive" /\ \A t \in Sessions \ {s} : child'[t] = child[t]
        /\ pc'[c] = "insert" /\ held'[c] = s
        /\ \A d \in Callers \ {c} : pc'[d] = pc[d] /\ held'[d] = held[d]
    BY <1>1, <1>2 DEF Shape, TypeOK, Actors
  <1>4. \A t \in Sessions : Registered(t)' <=> Registered(t)
    BY <1>2 DEF Registered
  <1>5. ~Registered(s) /\ \A t \in Sessions \ {s} : Owned(t)' <=> Owned(t)
    BY <1>1, <1>2, <1>3 DEF Owned, Custody, UnbornUnknown
  <1>6. Owned(s)'
    BY <1>3 DEF Owned
  <1>7. Stages[s] = "unborn" /\ Stages'[s] = "owned"
    BY <1>1, <1>3, <1>4, <1>5, <1>6, StageOf
  <1>8. \A t \in Sessions \ {s} : Stages'[t] = Stages[t]
    BY <1>2, <1>3, <1>4, <1>5, StageOf
  <1> QED
    BY <1>2, <1>7, <1>8, LifeSteps

(* An insert lists the session, and condemns the one it displaces.         *)
LEMMA InsertLife ==
  ASSUME Shape, Custody, NEW c \in Callers, Insert(c)
  PROVE  LifeStep
  <1>0. /\ c \in Actors /\ pc[c] = "insert" /\ key[c] \in Keys /\ held[c] \in Sessions
        /\ map[key[c]] \in Sessions \cup {NoSession}
    BY ActorData DEF Insert, NeedsHeld, Actors, Shape, TypeOK
  <1>1. PICK k \in Keys, s \in Sessions, old \in Sessions \cup {NoSession} :
           /\ k = key[c] /\ s = held[c] /\ old = map[k]
           /\ c \in Actors /\ pc[c] = "insert"
    BY <1>0
  <1>2. /\ ~Registered(s) /\ ~killed[s] /\ child[s] # "unborn"
        /\ \A a \in Actors : a # c => held[a] # s
    BY <1>1 DEF Custody, InsertExclusive, UnbornUnknown
  <1>3. /\ map' = [map EXCEPT ![k] = s] /\ child' = child /\ killed' = killed /\ held' = held
        /\ pc'[c] # "insert" /\ \A a \in Actors \ {c} : pc'[a] = pc[a]
    BY <1>1 DEF Insert, Goto, ptyVars, Shape, TypeOK
  <1>4. map'[k] = s /\ \A l \in Keys \ {k} : map'[l] = map[l]
    BY <1>1, <1>3 DEF Shape, TypeOK
  <1>5. old # s
    BY <1>1, <1>2 DEF Registered
  <1>6. Registered(s)' /\ \A t \in Sessions \ {s, old} : Registered(t)' <=> Registered(t)
    BY <1>1, <1>4 DEF Registered
  <1>7. Owned(s) /\ \A t \in Sessions \ {s} : Owned(t)' <=> Owned(t)
    BY <1>1, <1>2, <1>3 DEF Owned, Actors
  <1>8. old \in Sessions =>
           /\ ~Registered(old)' /\ ~killed[old] /\ child[old] # "unborn" /\ ~Owned(old)
    <2> SUFFICES ASSUME old \in Sessions
                 PROVE  /\ ~Registered(old)' /\ ~killed[old] /\ child[old] # "unborn"
                        /\ ~Owned(old)
      OBVIOUS
    <2>1. Registered(old)
      BY <1>1 DEF Registered
    <2>2. ~Registered(old)'
      BY <1>1, <1>4, <1>5 DEF Registered, Custody, OneSlotPerSession
    <2> QED
      BY <2>1, <2>2 DEF Custody, RegisteredNotKilled, UnbornUnknown, InsertExclusive, Owned
  <1>9. Stages[s] = "owned" /\ Stages'[s] = "listed"
    BY <1>1, <1>2, <1>3, <1>6, <1>7, StageOf
  <1>10. old \in Sessions => Stages'[old] = "condemned"
    BY <1>3, <1>5, <1>7, <1>8, StageOf
  <1>11. \A t \in Sessions \ {s, old} : Stages'[t] = Stages[t]
    BY <1>3, <1>6, <1>7, StageOf
  <1>12. /\ map[k] # s
         /\ map[k] \in Sessions => Stages'[map[k]] = "condemned"
         /\ \A t \in Sessions \ {s, map[k]} : Stages'[t] = Stages[t]
    BY <1>1, <1>5, <1>10, <1>11
  <1>13. map' = [map EXCEPT ![k] = s]
    BY <1>3
  <1> QED
    BY <1>9, <1>12, <1>13, LifeSteps

(* A removal condemns what was in the slot.                                *)
LEMMA RemoveLife ==
  ASSUME Shape, Custody, NEW a \in Actors, RemoveEntry(a)
  PROVE  LifeStep
  <1>0. pc[a] = "remove" /\ key[a] \in Keys /\ map[key[a]] \in Sessions
    BY ActorData DEF RemoveEntry, Shape, TypeOK
  <1>1. PICK k \in Keys, s \in Sessions : k = key[a] /\ s = map[k] /\ pc[a] = "remove"
    BY <1>0
  <1>2. /\ map' = [map EXCEPT ![k] = NoSession] /\ child' = child /\ killed' = killed
        /\ OthersKept(a) /\ pc'[a] = "cleanup"
    BY <1>1 DEF RemoveEntry, Goto, ptyVars, OthersKept, Shape, TypeOK
  <1>3. map'[k] = NoSession /\ \A l \in Keys \ {k} : map'[l] = map[l]
    BY <1>1, <1>2 DEF Shape, TypeOK
  <1>4. /\ ~Registered(s)'
        /\ \A t \in Sessions \ {s} : Registered(t)' <=> Registered(t)
    <2>1. ASSUME NEW l \in Keys \ {k} PROVE map[l] # s
      BY <1>1 DEF Custody, OneSlotPerSession
    <2>2. ~Registered(s)'
      BY <1>3, <2>1, SessionsDistinct DEF Registered
    <2>3. \A t \in Sessions \ {s} : Registered(t)' <=> Registered(t)
      BY <1>1, <1>3, SessionsDistinct DEF Registered
    <2> QED
      BY <2>2, <2>3
  <1>5. Registered(s)
    BY <1>1 DEF Registered
  <1>6. \A t \in Sessions : Owned(t)' <=> Owned(t)
    BY <1>1, <1>2, OwnedKept
  <1>8. ~killed[s] /\ child[s] # "unborn" /\ ~Owned(s)
    BY <1>1, <1>5 DEF Custody, RegisteredNotKilled, UnbornUnknown, InsertExclusive, Owned
  <1>9. Stages'[s] = "condemned"
    BY <1>1, <1>2, <1>4, <1>6, <1>8, StageOf
  <1>10. \A t \in Sessions \ {s} : Stages'[t] = Stages[t]
    BY <1>2, <1>4, <1>6, StageOf
  <1> QED
    BY <1>1, <1>2, <1>9, <1>10, LifeSteps

(* The gate of a kill is passed.                                           *)
LEMMA WinKillLife ==
  ASSUME Shape, Custody, NEW a \in Actors, WinKill(a)
  PROVE  LifeStep
  <1>1. /\ pc[a] \in KillPcs /\ map' = map /\ child' = child
        /\ killed' = [killed EXCEPT ![Victim(a)] = TRUE] /\ Victim(a) \in Sessions
        /\ OthersKept(a) /\ pc'[a] = ReapOf(pc[a])
    BY ActorData, KeepFields DEF WinKill
  <1>2. \A s \in Sessions : Owned(s)' <=> Owned(s)
    BY <1>1, OwnedKept DEF KillPcs, ReapOf
  <1>3. /\ killed'[Victim(a)] = TRUE
        /\ \A s \in Sessions \ {Victim(a)} : killed'[s] = killed[s]
    BY <1>1 DEF Shape, TypeOK
  <1> QED
    BY <1>1, <1>2, <1>3, StageFinishes

(* The observer task is spawned.                                           *)
LEMMA ObserveLife ==
  ASSUME Shape, Custody, NEW c \in Callers, Observe(c)
  PROVE  LifeStep
  <1>1. /\ pc[c] = "observe" /\ held[c] \in Sessions /\ held[c] \notin Callers
        /\ map' = map /\ child' = child /\ killed' = killed
    BY ActorData DEF Observe, NeedsHeld, Actors, ptyVars
  <1>2. /\ pc'[c] # "insert"
        /\ \A d \in Callers \ {c} : pc'[d] = pc[d] /\ held'[d] = held[d]
    BY <1>1 DEF Observe, Shape, TypeOK, Actors
  <1>3. \A s \in Sessions : Owned(s)' <=> Owned(s)
    BY <1>1, <1>2 DEF Owned
  <1> QED
    BY <1>1, <1>3, StageFinishes

(* Every step passes its sessions on as SessionLife does.                  *)
LEMMA NextLife ==
  ASSUME IInv, [Next]_vars
  PROVE  LifeStep
  <1>0. Shape /\ Custody
    BY DEF IInv
  <1>1. ASSUME NEW c \in Callers, NEW o \in Requests, NEW k \in Keys, Begin(c, o, k)
        PROVE  LifeStep
    <2>1. c \in Actors /\ QuietMove(c) /\ pc[c] # "insert" /\ child' = child
      BY <1>0, <1>1, BeginQuiet DEF Begin, Actors, ptyVars
    <2> QED
      BY <2>1, QuietLife
  <1>2. ASSUME NEW a \in Actors, Unregistering(a)
        PROVE  LifeStep
    <2>1. CASE RemoveEntry(a)
      BY <1>0, <2>1, RemoveLife
    <2>2. CASE WinKill(a)
      BY <1>0, <2>2, WinKillLife
    <2>3. CASE RemoveNothing(a) \/ Cleanup(a) \/ LoseKill(a)
      <3>1. QuietMove(a) /\ pc[a] # "insert" /\ child' = child
        BY <1>0, <2>3, RemoveNothingQuiet, CleanupQuiet, KillQuiet
           DEF RemoveNothing, Cleanup, LoseKill, ptyVars, KillPcs
      <3> QED
        BY <3>1, QuietLife
    <2>4. CASE Reap(a)
      <3>1. /\ QuietMove(a) /\ pc[a] # "insert"
            /\ child' = [child EXCEPT ![Victim(a)] = "exited"]
        BY <1>0, <2>4, KillQuiet DEF Reap, ReapPcs
      <3>2. \A s \in Sessions \ {Victim(a)} : child'[s] = child[s]
        BY <1>0, <3>1 DEF Shape, TypeOK
      <3> QED
        BY <3>1, <3>2, QuietLife
    <2> QED
      BY <1>2, <2>1, <2>2, <2>3, <2>4 DEF Unregistering
  <1>3. ASSUME NEW c \in Callers, Handling(c)
        PROVE  LifeStep
    <2>0. c \in Actors
      BY DEF Actors
    <2>1. CASE Peek(c) \/ Found(c) \/ NotFound(c) \/ Reuse(c) \/ Evict(c)
               \/ CloseGuard(c) \/ Recheck(c) \/ ForkFails(c) \/ Stamp(c) \/ Lock(c)
      <3>1. QuietMove(c)
        BY <1>0, <2>1, LookupQuiet, ChoiceQuiet, StampQuiet
      <3>2. pc[c] # "insert" /\ child' = child
        BY <2>1 DEF Peek, Found, NotFound, Reuse, Evict, CloseGuard, Recheck, ForkFails,
           Stamp, Lock, ptyVars
      <3> QED
        BY <2>0, <3>1, <3>2, QuietLife
    <2>2. CASE Fork(c) \/ Insert(c) \/ Observe(c)
      BY <1>0, <2>2, ForkLife, InsertLife, ObserveLife
    <2>3. CASE Unregistering(c)
      BY <1>2, <2>0, <2>3
    <2> QED
      BY <1>3, <2>1, <2>2, <2>3 DEF Handling
  <1>4. ASSUME NEW s \in Sessions, Observing(s) \/ ChildExits(s)
        PROVE  LifeStep
    <2>0. s \in Actors
      BY DEF Actors
    <2>1. CASE Unregistering(s)
      BY <1>2, <2>0, <2>1
    <2>2. CASE Subscribe(s) \/ ObserveExit(s) \/ ChannelCloses(s)
      <3>1. QuietMove(s) /\ pc[s] # "insert" /\ child' = child
        BY <1>0, <2>2, ObserverQuiet DEF Subscribe, ObserveExit, ChannelCloses, ptyVars
      <3> QED
        BY <2>0, <3>1, QuietLife
    <2>3. CASE ChildExits(s)
      <3>1. QuietMove(s) /\ child' = [child EXCEPT ![s] = "exited"]
        BY <1>0, <2>3, ObserverQuiet DEF ChildExits
      <3>2. pc[s] # "insert"
        BY <1>0 DEF Shape, ActorShape, ObserverOK, ObserverPcs
      <3>3. \A t \in Sessions \ {s} : child'[t] = child[t]
        BY <1>0, <3>1 DEF Shape, TypeOK
      <3> QED
        BY <2>0, <3>1, <3>2, <3>3, QuietLife
    <2> QED
      BY <1>4, <2>1, <2>2, <2>3 DEF Observing
  <1>5. CASE UNCHANGED <<map, child, killed, actorVars>>
    <2>1. \A s \in Sessions : Owned(s)' <=> Owned(s)
      BY <1>5 DEF actorVars, Owned
    <2> QED
      BY <1>5, <2>1, StageFinishes
  <1>6. ASSUME NEW v \in Viewers, Attach(v) \/ Detach(v) \/ \E s \in Sessions : Connect(v, s)
        PROVE  UNCHANGED <<map, child, killed, actorVars>>
    BY <1>6 DEF Attach, Detach, Connect, ptyVars
  <1>7. ASSUME NEW s \in Sessions, EmitterStarts(s)
        PROVE  UNCHANGED <<map, child, killed, actorVars>>
    BY <1>7 DEF EmitterStarts, ptyVars
  <1> QED
    BY <1>1, <1>3, <1>4, <1>5, <1>6, <1>7 DEF Next, vars, ptyVars

(* v2_session_map.rs:50-54, 230-252: whatever the handlers, the observers  *)
(* and the children interleave, a session passes once from its spawn to    *)
(* its slot, out of it and to its end; that it gets to the end is checked  *)
(* by TLC (ImplementsLife).                                                *)
THEOREM LifePassages ==
    Spec => Life!Init /\ [][Life!Next]_<<map, [s \in Sessions |-> Stage(s)]>>
  <1>1. Init => Life!Init
    <2> SUFFICES ASSUME Init
                 PROVE  [s \in Sessions |-> Stage(s)] = [s \in Sessions |-> "unborn"]
      BY DEF Init, Life!Init
    <2>1. \A s \in Sessions : Stage(s) = "unborn"
      BY DEF Init, Stage
    <2> QED
      BY <2>1
  <1>2. IInv /\ [Next]_vars => [Life!Next]_<<map, [s \in Sessions |-> Stage(s)]>>
    BY NextLife DEF LifeStep, Stages
  <1> QED
    BY <1>1, <1>2, Invariance, PTL DEF Spec
=============================================================================
