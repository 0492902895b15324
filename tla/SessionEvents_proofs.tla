------------------------ MODULE SessionEvents_proofs ------------------------
(***************************************************************************)
(* The lifecycle events reach the windows, for any sessions, subscribers,  *)
(* capacity of the channel and number of changes and losses: the types,    *)
(* with the capacity of the queues, and NoSessionMissed.                   *)
(*                                                                         *)
(* A live session a subscriber does not show is on its way to it, as an    *)
(* announcement that is not emitted, as one in its queue, or as a request  *)
(* for the list that will hold it; and a removal that comes before it,     *)
(* of the session's earlier life, never comes last.                        *)
(***************************************************************************)
EXTENDS SessionEvents, TLAPS

USE ClientsDistinct, Bounds

Modes == {"loading", "down", "refused", "greeting", "attached"}

Removes(e, n) == e.kind = "session_removed" /\ e.name = n
Adds(e, n) == e.kind = "session_added" /\ e.name = n

(* An announcement of the name behind place i of a queue.                  *)
AddedAfter(q, i, n) == \E j \in 1 .. Len(q) : i < j /\ Adds(q[j], n)

Shown(q, n) == \E j \in 1 .. Len(q) : Adds(q[j], n)

(* No removal of the name is the last a queue says of it.                  *)
Undone(q, n) == \A i \in 1 .. Len(q) : Removes(q[i], n) => AddedAfter(q, i, n)

(* A registration of the name is past the map and not at the channel.      *)
Announced(n) == \E a \in unsent : Adds(a, n)

-----------------------------------------------------------------------------
(* The channel *)

(* A push keeps a queue's types and capacity.                              *)
LEMMA PushTypes ==
  ASSUME NEW q \in Seq(Events), NEW e \in Events, Len(q) <= Cap
  PROVE  Push(q, e) \in Seq(Events) /\ Len(Push(q, e)) <= Cap
  BY DEF Push

(* What a push does to the places of a queue: the event is last, and all   *)
(* others have kept their order, the first one gone when it was full.      *)
LEMMA PushPlaces ==
  ASSUME NEW q \in Seq(Events), NEW e \in Events, Len(q) <= Cap
  PROVE  \E d \in {0, 1} :
            /\ Len(Push(q, e)) = Len(q) + 1 - d
            /\ Push(q, e)[Len(q) + 1 - d] = e
            /\ \A i \in 1 .. Len(q) - d : Push(q, e)[i] = q[i + d]
            /\ d = 1 => q # <<>> /\ Head(q) = q[1] /\ LostBy(q) = {q[1].name}
  <1>1. CASE Len(q) < Cap
    BY <1>1 DEF Push
  <1>2. CASE Len(q) = Cap
    <2>1. Push(q, e) = Append(Tail(q), e) /\ LostBy(q) = {q[1].name} /\ q # <<>>
      BY <1>2 DEF Push, LostBy
    <2>2. /\ Tail(q) \in Seq(Events) /\ Len(Tail(q)) = Len(q) - 1
          /\ \A i \in 1 .. Len(q) - 1 : Tail(q)[i] = q[i + 1]
      BY <2>1
    <2>3. ASSUME NEW r \in Seq(Events)
          PROVE  /\ Len(Append(r, e)) = Len(r) + 1 /\ Append(r, e)[Len(r) + 1] = e
                 /\ \A i \in 1 .. Len(r) : Append(r, e)[i] = r[i]
      OBVIOUS
    <2>4. /\ Len(Push(q, e)) = Len(q) /\ Push(q, e)[Len(q)] = e
          /\ \A i \in 1 .. Len(q) - 1 : Push(q, e)[i] = q[i + 1]
      <3>1. (Len(q) - 1) + 1 = Len(q)
        OBVIOUS
      <3> QED
        BY <2>1, <2>2, <2>3, <3>1
    <2>5. Len(q) + 1 - 1 = Len(q)
      OBVIOUS
    <2>6. \A i \in 1 .. Len(q) - 1 : Push(q, e)[i] = q[i + 1]
      BY <2>4
    <2> HIDE DEF Push, LostBy
    <2>7. Head(q) = q[1]
      BY <2>1
    <2> WITNESS 1 \in {0, 1}
    <2> QED
      BY <2>1, <2>4, <2>5, <2>6, <2>7
  <1> QED
    BY <1>1, <1>2

(* A push after which a removal is no more the last than before it.        *)
LEMMA UndonePush ==
  ASSUME NEW q \in Seq(Events), NEW e \in Events, Len(q) <= Cap,
         NEW n, Undone(q, n), ~Removes(e, n)
  PROVE  Undone(Push(q, e), n)
  <1>1. PICK d \in {0, 1} :
            /\ Len(Push(q, e)) = Len(q) + 1 - d
            /\ Push(q, e)[Len(q) + 1 - d] = e
            /\ \A i \in 1 .. Len(q) - d : Push(q, e)[i] = q[i + d]
    BY PushPlaces
  <1>2. SUFFICES ASSUME NEW i \in 1 .. Len(Push(q, e)), Removes(Push(q, e)[i], n)
                 PROVE  AddedAfter(Push(q, e), i, n)
    BY DEF Undone
  <1>3. i \in 1 .. Len(q) - d /\ Removes(q[i + d], n) /\ i + d \in 1 .. Len(q)
    <2>1. i # Len(q) + 1 - d
      BY <1>1, <1>2
    <2> QED
      BY <1>1, <1>2, <2>1
  <1>4. PICK j \in 1 .. Len(q) : i + d < j /\ Adds(q[j], n)
    BY <1>3 DEF Undone, AddedAfter
  <1>5. j - d \in 1 .. Len(q) - d /\ i < j - d /\ (j - d) + d = j
    BY <1>3, <1>4
  <1>6. Adds(Push(q, e)[j - d], n)
    BY <1>1, <1>4, <1>5
  <1>7. j - d \in 1 .. Len(Push(q, e))
    BY <1>1, <1>5
  <1> QED
    BY <1>5, <1>6, <1>7 DEF AddedAfter

(* A push of an announcement: the queue shows the name, and no removal of  *)
(* it is last.                                                             *)
LEMMA AddsPush ==
  ASSUME NEW q \in Seq(Events), NEW e \in Events, Len(q) <= Cap,
         NEW n, Adds(e, n)
  PROVE  Shown(Push(q, e), n) /\ Undone(Push(q, e), n)
  <1>1. PICK l \in Nat : l > 0 /\ Len(Push(q, e)) = l /\ Push(q, e)[l] = e
    <2>1. PICK d \in {0, 1} : /\ Len(Push(q, e)) = Len(q) + 1 - d
                              /\ Push(q, e)[Len(q) + 1 - d] = e
                              /\ d = 1 => q # <<>>
      BY PushPlaces
    <2> QED
      BY <2>1
  <1>2. ASSUME NEW i \in 1 .. l, Removes(Push(q, e)[i], n)
        PROVE  i < l
    BY <1>1, <1>2 DEF Removes, Adds
  <1> QED
    BY <1>1, <1>2 DEF Shown, Undone, AddedAfter

(* What a queue shows it shows after a push, unless it was lost by it.     *)
LEMMA ShownPush ==
  ASSUME NEW q \in Seq(Events), NEW e \in Events, Len(q) <= Cap,
         NEW n, Shown(q, n)
  PROVE  Shown(Push(q, e), n) \/ n \in LostBy(q)
  <1>1. PICK d \in {0, 1} :
            /\ Len(Push(q, e)) = Len(q) + 1 - d
            /\ \A i \in 1 .. Len(q) - d : Push(q, e)[i] = q[i + d]
            /\ d = 1 => LostBy(q) = {q[1].name}
    BY PushPlaces
  <1>2. PICK j \in 1 .. Len(q) : Adds(q[j], n)
    BY DEF Shown
  <1>3. CASE d = 1 /\ j = 1
    BY <1>1, <1>2, <1>3 DEF Adds
  <1>4. CASE ~(d = 1 /\ j = 1)
    <2>0. CASE d = 0
      BY <1>1, <1>2, <2>0 DEF Shown
    <2>1. CASE d = 1
      <3>1. j - 1 \in 1 .. Len(q) - 1 /\ (j - 1) + 1 = j /\ Len(q) + 1 - 1 = Len(q)
        BY <1>4, <2>1
      <3>2. Push(q, e)[j - 1] = q[j] /\ j - 1 \in 1 .. Len(Push(q, e))
        BY <1>1, <2>1, <3>1
      <3> QED
        BY <1>2, <3>2 DEF Shown
    <2> QED
      BY <2>0, <2>1
  <1> QED
    BY <1>3, <1>4

(* What the head of a queue takes with it.                                 *)
LEMMA HeadTaken ==
  ASSUME NEW q \in Seq(Events), q # <<>>, NEW n
  PROVE  /\ Head(q) \in Events /\ Tail(q) \in Seq(Events) /\ Len(Tail(q)) = Len(q) - 1
         /\ Undone(q, n) => Undone(Tail(q), n)
         /\ Undone(q, n) /\ Removes(Head(q), n) => Shown(Tail(q), n)
         /\ Shown(q, n) => Adds(Head(q), n) \/ Shown(Tail(q), n)
  <1>1. /\ Head(q) \in Events /\ Tail(q) \in Seq(Events) /\ Len(Tail(q)) = Len(q) - 1
        /\ Head(q) = q[1] /\ 1 \in 1 .. Len(q)
        /\ \A i \in 1 .. Len(q) - 1 : Tail(q)[i] = q[i + 1]
    OBVIOUS
  <1>2. \A j \in 1 .. Len(q) : 1 < j => /\ j - 1 \in 1 .. Len(Tail(q))
                                        /\ Tail(q)[j - 1] = q[j]
    <2> TAKE j \in 1 .. Len(q)
    <2> HAVE 1 < j
    <2>1. j - 1 \in 1 .. Len(q) - 1 /\ (j - 1) + 1 = j
      OBVIOUS
    <2> QED
      BY <1>1, <2>1
  <1>3. Undone(q, n) => Undone(Tail(q), n)
    <2> SUFFICES ASSUME Undone(q, n), NEW i \in 1 .. Len(Tail(q)), Removes(Tail(q)[i], n)
                 PROVE  AddedAfter(Tail(q), i, n)
      BY DEF Undone
    <2>1. i + 1 \in 1 .. Len(q) /\ Removes(q[i + 1], n)
      BY <1>1
    <2>2. PICK j \in 1 .. Len(q) : i + 1 < j /\ Adds(q[j], n)
      BY <2>1 DEF Undone, AddedAfter
    <2>3. i < j - 1 /\ 1 < j
      BY <2>2
    <2> QED
      BY <1>2, <2>2, <2>3 DEF AddedAfter
  <1>4. Undone(q, n) /\ Removes(Head(q), n) => Shown(Tail(q), n)
    <2> SUFFICES ASSUME Undone(q, n), Removes(q[1], n)
                 PROVE  Shown(Tail(q), n)
      BY <1>1
    <2>1. PICK j \in 1 .. Len(q) : 1 < j /\ Adds(q[j], n)
      BY <1>1 DEF Undone, AddedAfter
    <2> QED
      BY <1>2, <2>1 DEF Shown
  <1>5. Shown(q, n) => Adds(Head(q), n) \/ Shown(Tail(q), n)
    <2> SUFFICES ASSUME NEW j \in 1 .. Len(q), Adds(q[j], n), j # 1
                 PROVE  Shown(Tail(q), n)
      BY <1>1 DEF Shown
    <2>1. 1 < j
      OBVIOUS
    <2> QED
      BY <1>2, <2>1 DEF Shown
  <1> QED
    BY <1>1, <1>3, <1>4, <1>5

-----------------------------------------------------------------------------
(* Types *)

(* Types and capacities, of session_events.rs:36 and the windows.          *)
THEOREM EventsTypes == Spec => []TypeOK
  <1>1. Init => TypeOK
    BY DEF Init, TypeOK, Request, Fetches, Subscribed, Clients
  <1>2. ASSUME TypeOK, [Next]_vars
        PROVE  TypeOK'
    <2>1. CASE Daemon
      <3>1. PICK n \in Names : Register(n) \/ Unregister(n)
        BY <2>1 DEF Daemon
      <3>2. \A k \in {"session_added", "session_removed"} : Event(k, n) \in Events
        BY <1>2 DEF Event, Events, TypeOK
      <3>3. CASE Register(n)
        BY <1>2, <3>2, <3>3 DEF Register, TypeOK, clientVars, Subscribed
      <3>4. CASE Unregister(n)
        BY <1>2, <3>2, <3>4 DEF Unregister, TypeOK, clientVars, Subscribed
      <3> QED
        BY <3>1, <3>3, <3>4
    <2>2. CASE Sent
      <3>1. PICK e \in unsent : Emit(e)
        BY <2>2 DEF Sent
      <3>2. e \in Events /\ e.name \in Names /\ e.op \in Nat
        BY <1>2 DEF TypeOK, Events
      <3>3. /\ queue' \in [Clients -> Seq(Events)]
            /\ \A c \in Clients : Len(queue'[c]) <= IF Subscribed(c) THEN Cap ELSE 0
        BY <1>2, <3>1, <3>2, PushTypes DEF Emit, TypeOK, Subscribed
      <3>4. excused' \in [Clients -> SUBSET Names]
        <4>1. \A c \in Clients : Len(queue[c]) = Cap => Head(queue[c]).name \in Names
          <5> SUFFICES ASSUME NEW c \in Clients, Len(queue[c]) = Cap
                       PROVE  Head(queue[c]).name \in Names
            OBVIOUS
          <5>1. queue[c] \in Seq(Events) /\ queue[c] # <<>>
            BY <1>2 DEF TypeOK
          <5>2. Head(queue[c]) \in Events
            BY <5>1
          <5> QED
            BY <5>2 DEF Events
        <4> QED
          BY <1>2, <3>1, <3>2, <4>1 DEF Emit, TypeOK, LostBy
      <3>5. newest' \in [Names -> Nat] /\ unsent' \in SUBSET Events
        BY <1>2, <3>1, <3>2 DEF Emit, TypeOK, Late
      <3> QED
        BY <1>2, <3>1, <3>3, <3>4, <3>5 DEF Emit, TypeOK, clientVars, Subscribed
    <2>3. ASSUME NEW c \in Clients, Client(c) \/ Drop(c) \/ FetchFails(c)
          PROVE  TypeOK'
      <3>1. CASE Attach(c)
        BY <1>2, <3>1 DEF Attach, TypeOK, serverVars, clientVars, Subscribed, Clients
      <3>2. CASE Refuse(c)
        BY <1>2, <3>2 DEF Refuse, TypeOK, serverVars, clientVars, Subscribed
      <3>3. CASE Answer(c)
        <4>1. PICK f \in fetches[c] :
                 fetches' = [fetches EXCEPT ![c] = (@ \ {f}) \cup
                               {[f EXCEPT !.answered = TRUE, !.list = live]}]
          BY <3>3 DEF Answer
        <4>2. [f EXCEPT !.answered = TRUE, !.list = live] \in Fetches
          <5>1. f \in Fetches /\ live \in SUBSET Names
            BY <1>2 DEF TypeOK
          <5> QED
            BY <5>1 DEF Fetches
        <4>3. fetches' \in [Clients -> SUBSET Fetches]
          BY <1>2, <4>1, <4>2 DEF TypeOK
        <4> QED
          BY <1>2, <3>3, <4>3 DEF Answer, TypeOK, serverVars, Subscribed
      <3>4. CASE Backoff(c)
        BY <1>2, <3>4 DEF Backoff, TypeOK, serverVars, clientVars, Subscribed
      <3>5. CASE Greet(c)
        <4>1. Request(greeted[c] + 1) \in Fetches
          BY <1>2 DEF TypeOK, Fetches, Request
        <4> QED
          BY <1>2, <3>5, <4>1 DEF Greet, TypeOK, serverVars, Subscribed
      <3>6. CASE Receive(c)
        <4>1. queue[c] \in Seq(Events) /\ queue[c] # <<>>
          BY <1>2, <3>6 DEF Receive, TypeOK
        <4>2. /\ Head(queue[c]) \in Events
              /\ Tail(queue[c]) \in Seq(Events)
              /\ Len(Tail(queue[c])) <= Len(queue[c])
          BY <4>1
        <4>3. Head(queue[c]).name \in Names
          BY <4>2 DEF Events
        <4> QED
          BY <1>2, <3>6, <4>2, <4>3 DEF Receive, TypeOK, serverVars, Subscribed
      <3>7. CASE Adopt(c)
        <4>1. PICK f \in fetches[c] :
                 /\ fetches' = [fetches EXCEPT ![c] = @ \ {f}]
                 /\ tabs' = [tabs EXCEPT ![c] = @ \cup f.list]
                 /\ mode' = [mode EXCEPT ![c] = IF @ = "loading" THEN "down" ELSE @]
                 /\ UNCHANGED <<serverVars, greeted, queue, drops, excused>>
          BY <3>7 DEF Adopt
        <4>2. f.list \in SUBSET Names
          BY <1>2 DEF TypeOK, Fetches
        <4> QED
          BY <1>2, <4>1, <4>2 DEF TypeOK, serverVars, Subscribed
      <3>8. CASE Drop(c)
        BY <1>2, <3>8 DEF Drop, TypeOK, serverVars, clientVars, Subscribed
      <3>9. CASE FetchFails(c)
        <4>1. /\ \E f \in fetches[c] : fetches' = [fetches EXCEPT ![c] = @ \ {f}]
              /\ mode' = [mode EXCEPT ![c] = IF @ = "loading" THEN "down" ELSE @]
              /\ excused' = [excused EXCEPT ![c] = @ \cup (live \ tabs[c])]
              /\ drops' = drops + 1
              /\ UNCHANGED <<serverVars, greeted, queue, tabs>>
          BY <3>9 DEF FetchFails
        <4>2. fetches' \in [Clients -> SUBSET Fetches]
          BY <1>2, <4>1 DEF TypeOK
        <4>3. mode' \in [Clients -> {"loading", "down", "refused", "greeting", "attached"}]
          BY <1>2, <4>1 DEF TypeOK
        <4>4. \A d \in Clients : Subscribed(d)' <=> Subscribed(d)
          BY <1>2, <4>1 DEF TypeOK, Subscribed
        <4> QED
          BY <1>2, <4>1, <4>2, <4>3, <4>4 DEF TypeOK, serverVars
      <3> QED
        BY <2>3, <3>1, <3>2, <3>3, <3>4, <3>5, <3>6, <3>7, <3>8, <3>9 DEF Client
    <2>4. CASE UNCHANGED vars
      BY <1>2, <2>4 DEF vars, serverVars, clientVars, TypeOK, Subscribed
    <2> QED
      BY <1>2, <2>1, <2>2, <2>3, <2>4 DEF Next
  <1> QED
    BY <1>1, <1>2, PTL DEF Spec

-----------------------------------------------------------------------------
(* No session is missed *)

(* What is unsent was noted before now.                                    *)
UnsentDated == \A e \in unsent : e.op < ops

(* The removal of a live session that is unsent has a registration behind  *)
(* it: emitted already, or to be emitted too.                              *)
Overtaken ==
    \A e \in unsent, n \in live :
        Removes(e, n) => \/ Late(e)
                         \/ \E a \in unsent : Adds(a, n) /\ a.op > e.op

(* What a queue says of a live session does not end with its removal, but  *)
(* for what is excused or still announced.                                 *)
Readded == \A c \in Clients, n \in live :
               n \in excused[c] \/ Announced(n) \/ Undone(queue[c], n)

(* A live session that an attached client does not show is on its way.     *)
Coming ==
    \A c \in Clients, n \in live :
        mode[c] = "attached" =>
            \/ n \in tabs[c] \cup excused[c] \/ Announced(n)
            \/ Shown(queue[c], n)
            \/ \E f \in fetches[c] : ~f.answered \/ n \in f.list

EventsInv == TypeOK /\ UnsentDated /\ Overtaken /\ Readded /\ Coming

(* A registration and a removal at the registry keep it: the first is      *)
(* announced, the second leaves nothing to show.                           *)
LEMMA DaemonStep ==
  ASSUME EventsInv, Daemon
  PROVE  UnsentDated' /\ Overtaken' /\ Readded' /\ Coming'
  <1>1. PICK n \in Names : Register(n) \/ Unregister(n)
    BY DEF Daemon
  <1>2. ops \in Nat /\ \A e \in unsent : e.op \in Nat /\ e.op < ops
    BY DEF EventsInv, TypeOK, Events, UnsentDated
  <1>3. /\ ops' = ops + 1 /\ newest' = newest /\ mode' = mode /\ queue' = queue
        /\ excused' = excused /\ tabs' = tabs /\ fetches' = fetches
        /\ unsent \subseteq unsent'
    BY <1>1 DEF Register, Unregister, clientVars
  <1>4. \A m : Announced(m) => Announced(m)'
    BY <1>3 DEF Announced
  <1>5. CASE Register(n)
    <2>1. /\ live' = live \cup {n}
          /\ unsent' = unsent \cup {Event("session_added", n)}
          /\ Adds(Event("session_added", n), n)
          /\ Event("session_added", n).op = ops
      BY <1>5 DEF Register, Event, Adds
    <2>2. Announced(n)'
      BY <2>1 DEF Announced
    <2>3. UnsentDated'
      BY <1>2, <1>3, <2>1 DEF UnsentDated
    <2>4. Overtaken'
      <3> SUFFICES ASSUME NEW e \in unsent', NEW m \in live', Removes(e, m)
                   PROVE  Late(e)' \/ \E a \in unsent' : Adds(a, m) /\ a.op > e.op
        BY DEF Overtaken
      <3>1. e \in unsent
        BY <2>1 DEF Removes, Adds
      <3>2. CASE m = n
        BY <1>2, <2>1, <3>1, <3>2
      <3>3. CASE m # n
        BY <1>3, <2>1, <3>1, <3>3 DEF EventsInv, Overtaken, Late
      <3> QED
        BY <3>2, <3>3
    <2>5. Readded'
      BY <1>3, <1>4, <2>1, <2>2 DEF EventsInv, Readded
    <2>6. Coming'
      BY <1>3, <1>4, <2>1, <2>2 DEF EventsInv, Coming
    <2> QED
      BY <2>3, <2>4, <2>5, <2>6
  <1>6. CASE Unregister(n)
    <2>1. /\ live' = live \ {n}
          /\ unsent' = unsent \cup {Event("session_removed", n)}
          /\ Event("session_removed", n).name = n
          /\ Event("session_removed", n).op = ops
      BY <1>6 DEF Unregister, Event
    <2>2. UnsentDated'
      BY <1>2, <1>3, <2>1 DEF UnsentDated
    <2>3. Overtaken'
      BY <1>3, <2>1 DEF EventsInv, Overtaken, Late, Removes
    <2>4. Readded'
      BY <1>3, <1>4, <2>1 DEF EventsInv, Readded
    <2>5. Coming'
      BY <1>3, <1>4, <2>1 DEF EventsInv, Coming
    <2> QED
      BY <2>2, <2>3, <2>4, <2>5
  <1> QED
    BY <1>1, <1>5, <1>6

(* An emission keeps it: an announcement moves to the queues, and a        *)
(* removal that would come last is late.                                   *)
LEMMA SentStep ==
  ASSUME EventsInv, Sent
  PROVE  UnsentDated' /\ Overtaken' /\ Readded' /\ Coming'
  <1>1. PICK e \in unsent : Emit(e)
    BY DEF Sent
  <1>2. /\ e \in Events /\ e.name \in Names /\ e.op \in Nat
        /\ newest \in [Names -> Nat]
    BY DEF EventsInv, TypeOK, Events
  <1>3. /\ live' = live /\ ops' = ops /\ unsent' = unsent \ {e}
        /\ mode' = mode /\ tabs' = tabs /\ fetches' = fetches
        /\ newest' = [newest EXCEPT ![e.name] = IF Late(e) THEN @ ELSE e.op]
    BY <1>1 DEF Emit, clientVars
  <1>4. /\ newest' \in [Names -> Nat] /\ newest'[e.name] >= e.op
        /\ \A n \in Names : newest'[n] >= newest[n]
    BY <1>2, <1>3 DEF Late
  <1>5. \A n : Announced(n) => Announced(n)' \/ Adds(e, n)
    BY <1>3 DEF Announced
  <1>6. UnsentDated'
    BY <1>3 DEF EventsInv, UnsentDated
  <1>7. Overtaken'
    <2> SUFFICES ASSUME NEW d \in unsent', NEW n \in live', Removes(d, n)
                 PROVE  Late(d)' \/ \E a \in unsent' : Adds(a, n) /\ a.op > d.op
      BY DEF Overtaken
    <2>1. d \in unsent /\ n \in live /\ d.name = n /\ n \in Names /\ d.op \in Nat
      BY <1>3 DEF EventsInv, TypeOK, Events, Removes
    <2>2. CASE Late(d)
      BY <1>2, <1>4, <2>1, <2>2 DEF Late
    <2>3. ASSUME NEW a \in unsent, Adds(a, n), a.op > d.op
          PROVE  Late(d)' \/ a \in unsent'
      BY <1>2, <1>3, <1>4, <2>1, <2>3 DEF Late, Adds
    <2> QED
      BY <2>1, <2>2, <2>3 DEF EventsInv, Overtaken
  <1>8. ASSUME NEW c \in Clients, NEW n \in live
        PROVE  /\ n \in excused[c] => n \in excused'[c]
               /\ n \in excused'[c] \/ Announced(n)' \/ Undone(queue'[c], n)
               /\ Shown(queue[c], n) => n \in excused'[c] \/ Shown(queue'[c], n)
               /\ Adds(e, n) /\ mode[c] = "attached" => Shown(queue'[c], n)
    <2>1. queue[c] \in Seq(Events) /\ Len(queue[c]) <= Cap
      BY DEF EventsInv, TypeOK
    <2>2. n \in excused[c] \/ Announced(n) \/ Undone(queue[c], n)
      BY DEF EventsInv, Readded
    <2>3. CASE Subscribed(c)
      <3>1. /\ queue'[c] = Push(queue[c], e)
            /\ excused'[c] = excused[c] \cup LostBy(queue[c])
                                \cup (IF Late(e) THEN {e.name} ELSE {})
        BY <1>1, <2>3 DEF Emit
      <3>2. Shown(queue[c], n) => n \in excused'[c] \/ Shown(queue'[c], n)
        BY <1>2, <2>1, <3>1, ShownPush
      <3>3. Adds(e, n) => Shown(queue'[c], n) /\ Undone(queue'[c], n)
        BY <1>2, <2>1, <3>1, AddsPush
      <3>4. CASE Removes(e, n)
        <4>1. Late(e) \/ \E a \in unsent : Adds(a, n)
          BY <3>4 DEF EventsInv, Overtaken
        <4>2. Late(e) => n \in excused'[c]
          BY <3>1, <3>4 DEF Removes
        <4>3. (\E a \in unsent : Adds(a, n)) => Announced(n)'
          BY <1>3, <3>4 DEF Announced, Adds, Removes
        <4> QED
          BY <3>1, <3>2, <3>3, <4>1, <4>2, <4>3
      <3>5. CASE ~Removes(e, n)
        <4>1. Undone(queue[c], n) => Undone(queue'[c], n)
          BY <1>2, <2>1, <3>1, <3>5, UndonePush
        <4> QED
          BY <1>5, <2>2, <3>1, <3>2, <3>3, <4>1
      <3> QED
        BY <3>4, <3>5
    <2>4. CASE ~Subscribed(c)
      <3>1. queue'[c] = queue[c] /\ excused'[c] = excused[c] /\ mode[c] # "attached"
        BY <1>1, <2>4 DEF Emit, Subscribed
      <3>2. Len(queue[c]) <= 0
        BY <2>4 DEF EventsInv, TypeOK
      <3>3. Undone(queue[c], n) /\ ~Shown(queue[c], n)
        BY <2>1, <3>2 DEF Undone, Shown
      <3> QED
        BY <3>1, <3>3
    <2> QED
      BY <2>3, <2>4
  <1>9. Readded'
    BY <1>3, <1>8 DEF Readded
  <1>10. Coming'
    <2> SUFFICES ASSUME NEW c \in Clients, NEW n \in live, mode[c] = "attached"
                 PROVE  \/ n \in tabs[c] \cup excused'[c] \/ Announced(n)'
                        \/ Shown(queue'[c], n)
                        \/ \E f \in fetches[c] : ~f.answered \/ n \in f.list
      BY <1>3 DEF Coming
    <2> QED
      BY <1>5, <1>8 DEF EventsInv, Coming
  <1> QED
    BY <1>6, <1>7, <1>9, <1>10

(* The steps of a client leave the registry's side alone.                  *)
LEMMA ClientKeeps ==
  ASSUME EventsInv, UNCHANGED <<serverVars>>
  PROVE  UnsentDated' /\ Overtaken' /\ \A n : Announced(n)' <=> Announced(n)
  BY DEF EventsInv, serverVars, UnsentDated, Overtaken, Announced, Late

(* A client that connects or is let go: what it was sent is gone with the  *)
(* connection, and it asks for the list before it is attached again.       *)
LEMMA ConnectionStep ==
  ASSUME EventsInv, NEW c \in Clients,
         Attach(c) \/ Refuse(c) \/ Backoff(c) \/ Drop(c)
  PROVE  Readded' /\ Coming'
  <1>1. /\ UNCHANGED serverVars /\ tabs' = tabs /\ fetches' = fetches
        /\ mode' \in [Clients -> Modes] /\ mode'[c] # "attached"
        /\ \A d \in Clients \ {c} : /\ mode'[d] = mode[d] /\ queue'[d] = queue[d]
                                    /\ excused'[d] = excused[d]
    <2>1. CASE Attach(c)
      BY <2>1 DEF EventsInv, TypeOK, Attach, clientVars, Modes
    <2>2. CASE Refuse(c)
      BY <2>2 DEF EventsInv, TypeOK, Refuse, clientVars, Modes
    <2>3. CASE Backoff(c)
      BY <2>3 DEF EventsInv, TypeOK, Backoff, clientVars, Modes
    <2>4. CASE Drop(c)
      BY <2>4 DEF EventsInv, TypeOK, Drop, clientVars, Modes
    <2> QED
      BY <2>1, <2>2, <2>3, <2>4
  <1>2. queue'[c] \in Seq(Events) /\ Len(queue'[c]) <= 0
    <2>1. CASE Drop(c)
      BY <2>1 DEF Drop, EventsInv, TypeOK
    <2>2. CASE ~Drop(c)
      BY <2>2 DEF Attach, Refuse, Backoff, EventsInv, TypeOK, Subscribed
    <2> QED
      BY <2>1, <2>2
  <1>3. \A n : Undone(queue'[c], n)
    BY <1>2 DEF Undone
  <1>4. live' = live /\ \A n : Announced(n)' <=> Announced(n)
    BY <1>1, ClientKeeps DEF serverVars
  <1>5. Readded'
    BY <1>1, <1>3, <1>4 DEF EventsInv, Readded
  <1>6. Coming'
    BY <1>1, <1>4 DEF EventsInv, Coming
  <1> QED
    BY <1>5, <1>6

(* A client asks for the list, has it answered, adopts it or gives it up.  *)
LEMMA ListStep ==
  ASSUME EventsInv, NEW c \in Clients,
         Answer(c) \/ Greet(c) \/ Adopt(c) \/ FetchFails(c)
  PROVE  Readded' /\ Coming'
  <1>0. /\ live \in SUBSET Names /\ mode \in [Clients -> Modes]
        /\ fetches \in [Clients -> SUBSET Fetches]
        /\ tabs \in [Clients -> SUBSET Names] /\ excused \in [Clients -> SUBSET Names]
    BY DEF EventsInv, TypeOK, Modes
  <1>1. /\ UNCHANGED serverVars /\ queue' = queue
        /\ \A d \in Clients \ {c} : /\ mode'[d] = mode[d] /\ fetches'[d] = fetches[d]
                                    /\ tabs'[d] = tabs[d]
        /\ \A d \in Clients : excused[d] \subseteq excused'[d]
        /\ tabs[c] \subseteq tabs'[c]
    <2>1. CASE Answer(c)
      BY <1>0, <2>1 DEF Answer
    <2>2. CASE Greet(c)
      BY <1>0, <2>2 DEF Greet
    <2>3. CASE Adopt(c)
      BY <1>0, <2>3 DEF Adopt
    <2>4. CASE FetchFails(c)
      BY <1>0, <2>4 DEF FetchFails
    <2> QED
      BY <2>1, <2>2, <2>3, <2>4
  <1>2. live' = live /\ \A n : Announced(n)' <=> Announced(n)
    BY <1>1, ClientKeeps DEF serverVars
  <1>3. Readded'
    BY <1>1, <1>2 DEF EventsInv, Readded
  <1>4. ASSUME NEW n \in live, mode'[c] = "attached"
        PROVE  \/ n \in tabs'[c] \cup excused'[c] \/ Announced(n)
               \/ Shown(queue[c], n)
               \/ \E f \in fetches'[c] : ~f.answered \/ n \in f.list
    <2>1. CASE Answer(c)
      <3>1. PICK f \in fetches[c] :
               fetches'[c] = (fetches[c] \ {f}) \cup
                                {[f EXCEPT !.answered = TRUE, !.list = live]}
        BY <1>0, <2>1 DEF Answer
      <3>2. [f EXCEPT !.answered = TRUE, !.list = live].list = live
        <4>1. f \in Fetches
          BY <1>0
        <4> QED
          BY <4>1 DEF Fetches
      <3>3. \E g \in fetches'[c] : n \in g.list
        BY <3>1, <3>2
      <3> QED
        BY <3>3
    <2>2. CASE Greet(c)
      <3>1. Request(greeted[c] + 1) \in fetches'[c] /\ ~Request(greeted[c] + 1).answered
        BY <1>0, <2>2 DEF Greet, Request
      <3> QED
        BY <3>1
    <2>3. CASE Adopt(c)
      <3>1. PICK f \in fetches[c] : /\ f.answered
                                    /\ fetches'[c] = fetches[c] \ {f}
                                    /\ tabs'[c] = tabs[c] \cup f.list
                                    /\ mode'[c] = mode[c] \/ mode'[c] = "down"
        BY <1>0, <2>3 DEF Adopt
      <3>2. \/ n \in tabs[c] \cup excused[c] \/ Announced(n) \/ Shown(queue[c], n)
            \/ \E g \in fetches[c] : ~g.answered \/ n \in g.list
        BY <1>4, <3>1 DEF EventsInv, Coming
      <3> QED
        BY <1>1, <3>1, <3>2
    <2>4. CASE FetchFails(c)
      BY <1>0, <2>4 DEF FetchFails
    <2> QED
      BY <2>1, <2>2, <2>3, <2>4
  <1>5. Coming'
    <2> SUFFICES ASSUME NEW d \in Clients, NEW n \in live, mode'[d] = "attached"
                 PROVE  \/ n \in tabs'[d] \cup excused'[d] \/ Announced(n)
                        \/ Shown(queue[d], n)
                        \/ \E f \in fetches'[d] : ~f.answered \/ n \in f.list
      BY <1>1, <1>2 DEF Coming
    <2>1. CASE d = c
      BY <1>4, <2>1
    <2>2. CASE d # c
      BY <1>1, <2>2 DEF EventsInv, Coming
    <2> QED
      BY <2>1, <2>2
  <1> QED
    BY <1>3, <1>5

(* An event is received: an announcement becomes a tab, and a removal of a *)
(* live session has its announcement behind it.                            *)
LEMMA ReceiveStep ==
  ASSUME EventsInv, NEW c \in Clients, Receive(c)
  PROVE  Readded' /\ Coming'
  <1>1. /\ mode[c] = "attached" /\ queue[c] \in Seq(Events) /\ queue[c] # <<>>
        /\ queue'[c] = Tail(queue[c])
        /\ tabs'[c] = IF Head(queue[c]).kind = "session_added"
                      THEN tabs[c] \cup {Head(queue[c]).name}
                      ELSE tabs[c] \ {Head(queue[c]).name}
    BY DEF Receive, EventsInv, TypeOK
  <1>2. /\ UNCHANGED serverVars /\ live' = live /\ mode' = mode /\ fetches' = fetches
        /\ excused' = excused
        /\ \A d \in Clients \ {c} : queue'[d] = queue[d] /\ tabs'[d] = tabs[d]
    BY DEF Receive, EventsInv, TypeOK, serverVars
  <1>3. \A n : Announced(n)' <=> Announced(n)
    BY <1>2, ClientKeeps
  <1>4. Head(queue[c]).kind \in {"session_added", "session_removed"}
    <2>1. Head(queue[c]) \in Events
      BY <1>1
    <2> QED
      BY <2>1 DEF Events
  <1>5. ASSUME NEW n
        PROVE  /\ Undone(queue[c], n) => Undone(queue'[c], n)
               /\ Undone(queue[c], n) /\ Removes(Head(queue[c]), n) => Shown(queue'[c], n)
               /\ Shown(queue[c], n) => Adds(Head(queue[c]), n) \/ Shown(queue'[c], n)
               /\ Adds(Head(queue[c]), n) => n \in tabs'[c]
               /\ n \in tabs[c] => n \in tabs'[c] \/ Removes(Head(queue[c]), n)
    <2>1. Adds(Head(queue[c]), n) => n \in tabs'[c]
      BY <1>1 DEF Adds
    <2>2. n \in tabs[c] => n \in tabs'[c] \/ Removes(Head(queue[c]), n)
      BY <1>1, <1>4 DEF Removes
    <2> QED
      BY <1>1, <2>1, <2>2, HeadTaken
  <1>6. Readded'
    BY <1>2, <1>3, <1>5 DEF EventsInv, Readded
  <1>7. ASSUME NEW n \in live
        PROVE  \/ n \in tabs'[c] \cup excused[c] \/ Announced(n)
               \/ Shown(queue'[c], n)
               \/ \E f \in fetches[c] : ~f.answered \/ n \in f.list
    <2>1. n \in excused[c] \/ Announced(n) \/ Undone(queue[c], n)
      BY DEF EventsInv, Readded
    <2>2. \/ n \in tabs[c] \cup excused[c] \/ Announced(n) \/ Shown(queue[c], n)
          \/ \E f \in fetches[c] : ~f.answered \/ n \in f.list
      BY <1>1 DEF EventsInv, Coming
    <2> QED
      BY <1>5, <2>1, <2>2
  <1>8. Coming'
    BY <1>2, <1>3, <1>7 DEF EventsInv, Coming
  <1> QED
    BY <1>6, <1>8

(* What is on its way stays so until it is shown.                          *)
LEMMA EventsInvariance == Spec => []EventsInv
  <1>1. Init => UnsentDated /\ Overtaken /\ Readded /\ Coming
    BY DEF Init, UnsentDated, Overtaken, Readded, Coming
  <1>2. ASSUME EventsInv, [Next]_vars
        PROVE  UnsentDated' /\ Overtaken' /\ Readded' /\ Coming'
    <2>1. CASE Daemon
      BY <1>2, <2>1, DaemonStep
    <2>2. CASE Sent
      BY <1>2, <2>2, SentStep
    <2>3. ASSUME NEW c \in Clients, Client(c) \/ Drop(c) \/ FetchFails(c)
          PROVE  UnsentDated' /\ Overtaken' /\ Readded' /\ Coming'
      <3>1. UNCHANGED serverVars
        BY <2>3 DEF Client, Attach, Refuse, Answer, Backoff, Greet, Receive, Adopt,
                    Drop, FetchFails, serverVars
      <3>2. Readded' /\ Coming'
        BY <1>2, <2>3, ConnectionStep, ListStep, ReceiveStep DEF Client
      <3> QED
        BY <1>2, <3>1, <3>2, ClientKeeps
    <2>4. CASE UNCHANGED vars
      BY <1>2, <2>4 DEF EventsInv, vars, serverVars, clientVars, UnsentDated, Overtaken,
                        Readded, Coming, Announced, Late
    <2> QED
      BY <1>2, <2>1, <2>2, <2>3, <2>4 DEF Next
  <1> QED
    BY <1>1, <1>2, EventsTypes, PTL DEF Spec, EventsInv

(* session_events.rs:11-18: nothing on its way to a client, and it shows a *)
(* tab for every live session it is not excused for.                       *)
THEOREM NothingMissed == Spec => []NoSessionMissed
  <1>1. EventsInv => NoSessionMissed
    <2> SUFFICES ASSUME EventsInv, NEW c \in Clients, Settled(c), NEW n \in live
                 PROVE  n \in tabs[c] \cup excused[c]
      BY DEF NoSessionMissed
    <2>1. /\ mode[c] = "attached" /\ ~Announced(n) /\ ~Shown(queue[c], n)
          /\ fetches[c] = {}
      BY DEF Settled, Announced, Shown
    <2> QED
      BY <2>1 DEF EventsInv, Coming
  <1> QED
    BY <1>1, EventsInvariance, PTL
=============================================================================
