------------------------- MODULE PendingLive_proofs -------------------------
(***************************************************************************)
(* The queue's counter stands for every file but those that a failing read *)
(* left in place, for any signals, keys, sessions and requests.            *)
(***************************************************************************)
EXTENDS PendingLive, TLAPS

(* The strengthening that makes CounterIsDisk inductive.  Requests are at  *)
(* work only while the daemon serves, one drain at a time, each on a key   *)
(* and, once it has spawned, a session of its own; no more files are       *)
(* passed over than there are; and outside the key being drained the count *)
(* is right from the moment the boot has made it.                          *)
AtWork(a) == pc[a] \notin Resting

WorkWhileUp == \A a \in Actors : AtWork(a) => phase = "up" /\ key[a] \in Keys

OneDrain ==
    \A a, b \in Actors : pc[a] = "draining" /\ pc[b] = "draining" => a = b

OwnSession ==
    \A a \in Actors :
        pc[a] \in {"drain", "draining", "type", "enter"} => mine[a] \in Sessions

Counted ==
    \A k \in Keys :
        /\ left[k] <= Len(disk[k])
        /\ phase \in {"up", "requeueing"} =>
             \/ counter[k] + left[k] = Len(disk[k])
             \/ \E a \in Actors : pc[a] = "draining" /\ key[a] = k

QueueInv == TypeOK /\ WorkWhileUp /\ OneDrain /\ OwnSession /\ Counted

-----------------------------------------------------------------------------
(* What the steps do to sequences and types. *)

(* Taking the first file of a queue shortens it by one.                    *)
LEMMA TakeFirst ==
    ASSUME NEW S, NEW q \in Seq(S), q # <<>>
    PROVE  /\ Head(q) \in S
           /\ Tail(q) \in Seq(S)
           /\ Len(Tail(q)) = Len(q) - 1
  OBVIOUS

(* Adding a file lengthens it by one.                                      *)
LEMMA AddLast ==
    ASSUME NEW S, NEW q \in Seq(S), NEW x \in S
    PROVE  /\ Append(q, x) \in Seq(S)
           /\ Len(Append(q, x)) = Len(q) + 1
  OBVIOUS

(* Taking one out of a sequence.                                           *)
LEMMA WithoutOne ==
    ASSUME NEW S, NEW q \in Seq(S), NEW i \in 1 .. Len(q)
    PROVE  /\ q[i] \in S
           /\ Without(q, i) \in Seq(S)
           /\ Len(Without(q, i)) = Len(q) - 1
           /\ DOMAIN Without(q, i) = 1 .. (Len(q) - 1)
           /\ \A j \in 1 .. (Len(q) - 1) :
                 Without(q, i)[j] = IF j < i THEN q[j] ELSE q[j + 1]
  BY DEF Without

(* The empty queue has no files, and it alone.                             *)
LEMMA EmptyQueue ==
    ASSUME NEW S, NEW q \in Seq(S)
    PROVE  /\ <<>> \in Seq(S) /\ Len(<<>>) = 0
           /\ Len(q) = 0 <=> q = <<>>
           /\ Len(q) \in Nat
  OBVIOUS

(* Where a file is unread, the next one is a file.                         *)
LEMMA NextIsFile ==
    ASSUME TypeOK, NEW k \in Keys, Unread(k)
    PROVE  /\ disk[k] \in Seq(Signals) /\ left[k] \in Nat
           /\ left[k] + 1 \in 1 .. Len(disk[k]) /\ NextFile(k) \in Signals
           /\ Without(disk[k], left[k] + 1) \in Seq(Signals)
           /\ Len(Without(disk[k], left[k] + 1)) = Len(disk[k]) - 1
<1>1. disk[k] \in Seq(Signals) /\ left[k] \in Nat
  BY DEF TypeOK
<1>2. left[k] + 1 \in 1 .. Len(disk[k])
  BY <1>1 DEF Unread
<1> QED
  BY <1>1, <1>2, WithoutOne DEF NextFile

(* To take it or to pass it over keeps types, and what is passed over.     *)
LEMMA FileKeeps ==
    ASSUME QueueInv, NEW k \in Keys, Unread(k), Remove(k) \/ PassOver(k)
    PROVE  /\ disk' \in [Keys -> Seq(Signals)] /\ left' \in [Keys -> Nat]
           /\ \A j \in Keys : left'[j] <= Len(disk'[j])
           /\ \A j \in Keys \ {k} : disk'[j] = disk[j] /\ left'[j] = left[j]
<1>1. disk \in [Keys -> Seq(Signals)] /\ left \in [Keys -> Nat]
  BY DEF QueueInv, TypeOK
<1>2. /\ Without(disk[k], left[k] + 1) \in Seq(Signals)
      /\ Len(Without(disk[k], left[k] + 1)) = Len(disk[k]) - 1
      /\ left[k] + 1 \in 1 .. Len(disk[k])
  BY NextIsFile DEF QueueInv
<1>3. \A j \in Keys : left[j] <= Len(disk[j])
  BY DEF QueueInv, Counted
<1>4. CASE Remove(k)
  BY <1>1, <1>2, <1>3, <1>4 DEF Remove
<1>5. CASE PassOver(k)
  BY <1>1, <1>2, <1>3, <1>5 DEF PassOver
<1> QED
  BY <1>4, <1>5

(* An enqueue adds one file and counts it.                                 *)
LEMMA EnqueueCounts ==
    ASSUME TypeOK, NEW g \in Signals, NEW k \in Keys, Enqueue(g, k)
    PROVE  /\ disk' \in [Keys -> Seq(Signals)] /\ counter' \in [Keys -> Nat]
           /\ \A j \in Keys :
                 /\ left[j] <= Len(disk[j]) => left[j] <= Len(disk'[j])
                 /\ counter[j] + left[j] = Len(disk[j])
                      => counter'[j] + left[j] = Len(disk'[j])
<1>1. disk[k] \in Seq(Signals) /\ counter[k] \in Nat /\ left \in [Keys -> Nat]
  BY DEF TypeOK
<1>2. /\ Append(disk[k], g) \in Seq(Signals)
      /\ Len(Append(disk[k], g)) = Len(disk[k]) + 1
  BY <1>1, AddLast
<1>3. /\ disk'[k] = Append(disk[k], g) /\ counter'[k] = counter[k] + 1
      /\ \A j \in Keys \ {k} : disk'[j] = disk[j] /\ counter'[j] = counter[j]
      /\ disk' \in [Keys -> Seq(Signals)] /\ counter' \in [Keys -> Nat]
  BY <1>1, <1>2 DEF Enqueue, TypeOK
<1>4. Len(disk[k]) \in Nat /\ left[k] \in Nat
  BY <1>1, EmptyQueue
<1>5. ASSUME NEW j \in Keys
      PROVE  /\ left[j] <= Len(disk[j]) => left[j] <= Len(disk'[j])
             /\ counter[j] + left[j] = Len(disk[j]) => counter'[j] + left[j] = Len(disk'[j])
  <2>1. CASE j = k
    <3>1. /\ Len(disk'[j]) = Len(disk[j]) + 1 /\ counter'[j] = counter[j] + 1
          /\ Len(disk[j]) \in Nat /\ left[j] \in Nat /\ counter[j] \in Nat
      BY <1>1, <1>2, <1>3, <1>4, <2>1
    <3> QED
      BY <3>1
  <2>2. CASE j # k
    BY <1>3, <2>2
  <2> QED
    BY <2>1, <2>2
<1> QED
  BY <1>3, <1>5

(* A request that returns disturbs nothing.                                *)
LEMMA ReturnKeeps ==
    ASSUME QueueInv, NEW a \in Actors, pc[a] # "draining", Return(a),
           UNCHANGED <<daemonVars, sessVars, queueVars, input>>
    PROVE  QueueInv'
<1>1. TypeOK'
  BY DEF QueueInv, TypeOK, Return, Goto, Pcs, Resting, daemonVars, sessVars, queueVars
<1>2. WorkWhileUp' /\ OneDrain' /\ OwnSession'
  BY DEF QueueInv, TypeOK, WorkWhileUp, OneDrain, OwnSession, AtWork, Resting, Return,
         Goto, daemonVars
<1>3. Counted'
  BY DEF QueueInv, TypeOK, Counted, Return, Goto, daemonVars, queueVars
<1> QED
  BY <1>1, <1>2, <1>3 DEF QueueInv

(* A request that goes on to its lookup or spawn disturbs nothing.         *)
LEMMA GoOnKeeps ==
    ASSUME QueueInv, NEW a \in Actors, AtWork(a), pc[a] # "draining",
           NEW label \in {"lookup", "spawn"}, Goto(a, label),
           UNCHANGED <<daemonVars, sessVars, queueVars, lockVars, key, mine, hand,
              input>>
    PROVE  QueueInv'
<1>1. TypeOK'
  BY DEF QueueInv, TypeOK, Goto, Pcs, daemonVars, sessVars, queueVars, lockVars
<1>2. WorkWhileUp' /\ OneDrain' /\ OwnSession'
  BY DEF QueueInv, TypeOK, WorkWhileUp, OneDrain, OwnSession, AtWork, Resting, Goto,
         daemonVars
<1>3. Counted'
  BY DEF QueueInv, TypeOK, Counted, Goto, daemonVars, queueVars
<1> QED
  BY <1>1, <1>2, <1>3 DEF QueueInv

-----------------------------------------------------------------------------
(* The senders. *)

(* A sent signal puts a resting sender to work while the daemon is up.     *)
LEMMA SendKeeps ==
    ASSUME QueueInv, NEW g \in Signals, NEW k \in Keys, Send(g, k)
    PROVE  QueueInv'
<1>1. TypeOK'
  BY ActorsDistinct DEF QueueInv, Send, TypeOK, WorkWhileUp, OwnSession, AtWork,
     Resting, Pcs, Goto, Spawners, Actors, daemonVars, sessVars, queueVars, lockVars
<1>2. WorkWhileUp' /\ OneDrain' /\ OwnSession'
  BY ActorsDistinct DEF QueueInv, Send, TypeOK, WorkWhileUp, OneDrain, OwnSession,
     AtWork, Resting, Goto, Spawners, Actors, daemonVars, sessVars, queueVars, lockVars
<1>3. Counted'
  BY ActorsDistinct DEF QueueInv, Send, TypeOK, WorkWhileUp, OneDrain, Counted, AtWork,
     Resting, Goto, Spawners, Actors, daemonVars, sessVars, queueVars, lockVars
<1> QED
  BY <1>1, <1>2, <1>3 DEF QueueInv

(* A probe only chooses the path.                                          *)
LEMMA ProbeKeeps ==
    ASSUME QueueInv, NEW g \in Signals, Probe(g)
    PROVE  QueueInv'
<1>1. TypeOK'
  BY ActorsDistinct DEF QueueInv, Probe, TypeOK, WorkWhileUp, OwnSession, AtWork,
     Resting, Pcs, Goto, Spawners, Actors, daemonVars, sessVars, queueVars, lockVars
<1>2. WorkWhileUp' /\ OneDrain' /\ OwnSession'
  BY ActorsDistinct DEF QueueInv, Probe, TypeOK, WorkWhileUp, OneDrain, OwnSession,
     AtWork, Resting, Goto, Spawners, Actors, daemonVars, sessVars, queueVars, lockVars
<1>3. Counted'
  BY ActorsDistinct DEF QueueInv, Probe, TypeOK, WorkWhileUp, OneDrain, Counted, AtWork,
     Resting, Goto, Spawners, Actors, daemonVars, sessVars, queueVars, lockVars
<1> QED
  BY <1>1, <1>2, <1>3 DEF QueueInv

(* An inject takes the registered session, or gives up.                    *)
LEMMA InjectKeeps ==
    ASSUME QueueInv, NEW g \in Signals, Inject(g)
    PROVE  QueueInv'
<1>0. g \in Actors /\ key[g] \in Keys /\ phase = "up"
  BY DEF QueueInv, Inject, WorkWhileUp, AtWork, Resting, Actors
<1>1. CASE slot[key[g]] = NoSession
  <2>1. /\ Goto(g, "refused")
        /\ UNCHANGED <<daemonVars, sessVars, queueVars, lockVars, key, mine, hand,
           input>>
    BY <1>1 DEF Inject, lockVars
  <2>2. TypeOK'
    BY <1>0, <2>1 DEF QueueInv, TypeOK, Goto, Pcs, Resting, daemonVars, sessVars,
       queueVars, lockVars
  <2>3. WorkWhileUp' /\ OneDrain' /\ OwnSession'
    BY <1>0, <2>1 DEF QueueInv, TypeOK, WorkWhileUp, OneDrain, OwnSession, AtWork,
       Resting, Goto, daemonVars
  <2>4. Counted'
    BY <1>0, <2>1 DEF QueueInv, Inject, TypeOK, Counted, Goto, daemonVars, queueVars
  <2> QED
    BY <2>2, <2>3, <2>4 DEF QueueInv
<1>2. CASE slot[key[g]] # NoSession
  <2>1. /\ mine' = [mine EXCEPT ![g] = slot[key[g]]]
        /\ hand' = [hand EXCEPT ![g] = <<g>>]
        /\ injectLock' = g
        /\ Goto(g, "type")
        /\ UNCHANGED <<daemonVars, sessVars, queueVars, wakeLock, key, input>>
    BY <1>2 DEF Inject
  <2>2. slot[key[g]] \in Sessions /\ <<g>> \in Seq(Signals)
    BY <1>0, <1>2 DEF QueueInv, TypeOK
  <2>3. TypeOK'
    BY <1>0, <2>1, <2>2 DEF QueueInv, TypeOK, Goto, Pcs, daemonVars, sessVars, queueVars
  <2>4. WorkWhileUp' /\ OneDrain' /\ OwnSession'
    BY <1>0, <2>1, <2>2 DEF QueueInv, TypeOK, WorkWhileUp, OneDrain, OwnSession, AtWork,
       Resting, Goto, daemonVars
  <2>5. Counted'
    BY <1>0, <2>1 DEF QueueInv, Inject, TypeOK, Counted, Goto, daemonVars, queueVars
  <2> QED
    BY <2>3, <2>4, <2>5 DEF QueueInv
<1> QED
  BY <1>1, <1>2

(* A wake adds one file and counts it, with no drain at work.              *)
LEMMA WakeQueuesKeeps ==
    ASSUME QueueInv, NEW g \in Signals, WakeQueues(g)
    PROVE  QueueInv'
<1>0. key[g] \in Keys /\ phase = "up"
  BY DEF QueueInv, WakeQueues, WorkWhileUp, AtWork, Resting, Actors
<1>a. Enqueue(g, key[g]) /\ TypeOK
  BY DEF WakeQueues, QueueInv
<1>b. /\ disk' \in [Keys -> Seq(Signals)] /\ counter' \in [Keys -> Nat]
      /\ \A j \in Keys :
            /\ left[j] <= Len(disk[j]) => left[j] <= Len(disk'[j])
            /\ counter[j] + left[j] = Len(disk[j]) => counter'[j] + left[j] = Len(disk'[j])
  BY <1>0, <1>a, EnqueueCounts
<1>c. accepted' \in Seq(Signals)
  BY DEF QueueInv, WakeQueues, TypeOK
<1>1. TypeOK'
  BY <1>b, <1>c, ActorsDistinct DEF QueueInv, WakeQueues, TypeOK, Pcs, Goto, Actors,
     daemonVars, sessVars
<1>2. WorkWhileUp' /\ OneDrain' /\ OwnSession'
  BY <1>0, ActorsDistinct DEF QueueInv, WakeQueues, TypeOK, WorkWhileUp, OneDrain,
     OwnSession, AtWork, Resting, Goto, Actors, daemonVars, sessVars
<1>3. Counted'
  BY <1>0, <1>b DEF QueueInv, WakeQueues, QueueLocked, Counted, daemonVars
<1> QED
  BY <1>1, <1>2, <1>3 DEF QueueInv

(* A refused wake leaves the queue alone.                                  *)
LEMMA WakeRefusesKeeps ==
    ASSUME QueueInv, NEW g \in Signals, WakeRefuses(g)
    PROVE  QueueInv'
<1>1. TypeOK'
  BY ActorsDistinct DEF QueueInv, WakeRefuses, TypeOK, WorkWhileUp, OwnSession, AtWork,
     Resting, Pcs, Goto, QueueLocked, Spawners, Actors, daemonVars, sessVars, queueVars,
     lockVars
<1>2. WorkWhileUp' /\ OneDrain' /\ OwnSession'
  BY ActorsDistinct DEF QueueInv, WakeRefuses, TypeOK, WorkWhileUp, OneDrain,
     OwnSession, AtWork, Resting, Goto, QueueLocked, Spawners, Actors, daemonVars,
     sessVars, queueVars, lockVars
<1>3. Counted'
  BY ActorsDistinct DEF QueueInv, WakeRefuses, TypeOK, WorkWhileUp, OneDrain, Counted,
     AtWork, Resting, Goto, QueueLocked, Spawners, Actors, daemonVars, sessVars, queueVars,
     lockVars
<1> QED
  BY <1>1, <1>2, <1>3 DEF QueueInv

(* The auto-launch goes on to the spawn or returns.                        *)
LEMMA LaunchKeeps ==
    ASSUME QueueInv, NEW g \in Signals, Launch(g)
    PROVE  QueueInv'
<1>0. g \in Actors /\ AtWork(g) /\ pc[g] # "draining"
  BY DEF Launch, Actors, AtWork, Resting
<1>1. CASE Return(g)
  BY <1>0, <1>1, ReturnKeeps DEF Launch
<1>2. CASE Goto(g, "lookup") /\ UNCHANGED <<lockVars, key, mine, hand>>
  BY <1>0, <1>2, GoOnKeeps DEF Launch
<1> QED
  BY <1>1, <1>2 DEF Launch

(* A request puts a resting spawner to work.                               *)
LEMMA RequestKeeps ==
    ASSUME QueueInv, NEW a \in Spawners, NEW k \in Keys, Request(a, k)
    PROVE  QueueInv'
<1>1. TypeOK'
  BY ActorsDistinct DEF QueueInv, Request, TypeOK, WorkWhileUp, OwnSession, AtWork,
     Resting, Pcs, Goto, Spawners, Actors, daemonVars, sessVars, queueVars, lockVars
<1>2. WorkWhileUp' /\ OneDrain' /\ OwnSession'
  BY ActorsDistinct DEF QueueInv, Request, TypeOK, WorkWhileUp, OneDrain, OwnSession,
     AtWork, Resting, Goto, Spawners, Actors, daemonVars, sessVars, queueVars, lockVars
<1>3. Counted'
  BY ActorsDistinct DEF QueueInv, Request, TypeOK, WorkWhileUp, OneDrain, Counted,
     AtWork, Resting, Goto, Spawners, Actors, daemonVars, sessVars, queueVars, lockVars
<1> QED
  BY <1>1, <1>2, <1>3 DEF QueueInv

-----------------------------------------------------------------------------
(* Spawning and draining. *)

(* The lookup goes on to the spawn or returns.                             *)
LEMMA LookupKeeps ==
    ASSUME QueueInv, NEW a \in Actors, Lookup(a)
    PROVE  QueueInv'
<1>0. AtWork(a) /\ pc[a] # "draining"
  BY DEF Lookup, AtWork, Resting
<1>1. CASE slot[key[a]] # NoSession
  BY <1>0, <1>1, ReturnKeeps DEF Lookup
<1>2. CASE slot[key[a]] = NoSession
  BY <1>0, <1>2, GoOnKeeps DEF Lookup
<1> QED
  BY <1>1, <1>2

(* A spawn gives the actor its session.                                    *)
LEMMA SpawnKeeps ==
    ASSUME QueueInv, NEW a \in Actors, Spawn(a)
    PROVE  QueueInv'
<1>0. key[a] \in Keys
  BY DEF QueueInv, Spawn, WorkWhileUp, AtWork, Resting
<1>s. PICK s \in Sessions :
        /\ born' = born \cup {s}
        /\ slot' = [slot EXCEPT ![key[a]] = s]
        /\ mine' = [mine EXCEPT ![a] = s]
  BY DEF Spawn
<1>1. TypeOK'
  BY <1>0, <1>s DEF QueueInv, Spawn, TypeOK, Pcs, Goto, daemonVars, queueVars, lockVars
<1>2. WorkWhileUp' /\ OneDrain' /\ OwnSession'
  BY <1>s DEF QueueInv, Spawn, TypeOK, WorkWhileUp, OneDrain, OwnSession, AtWork,
     Resting, Goto, daemonVars
<1>3. Counted'
  BY DEF QueueInv, Spawn, TypeOK, Counted, Goto, daemonVars, queueVars
<1> QED
  BY <1>1, <1>2, <1>3 DEF QueueInv

(* A failed spawn returns.                                                 *)
LEMMA SpawnFailsKeeps ==
    ASSUME QueueInv, NEW a \in Actors, SpawnFails(a)
    PROVE  QueueInv'
  BY ReturnKeeps DEF SpawnFails

(* A drain begins only when no other is at work.                           *)
LEMMA DrainKeeps ==
    ASSUME QueueInv, NEW a \in Actors, Drain(a)
    PROVE  QueueInv'
<1>0. /\ pc[a] = "drain" /\ key[a] \in Keys /\ \A b \in Actors : pc[b] # "draining"
      /\ UNCHANGED <<phase, crashes, slot, born, disk, counter, replayed, accepted,
                     overtaken, injectLock, wakeLock, key, mine, hand, input>>
  BY DEF QueueInv, Drain, QueueLocked, WorkWhileUp, AtWork, Resting, daemonVars, sessVars,
     lockVars
<1>p. PICK label \in {"type", "draining"} :
        /\ pc' = [pc EXCEPT ![a] = label]
        /\ label = "type" => left' = left
        /\ label = "draining" => left' = [left EXCEPT ![key[a]] = 0]
  BY DEF Drain, Goto
<1>q. /\ pc'[a] = label /\ \A b \in Actors \ {a} : pc'[b] = pc[b]
      /\ pc' \in [Actors -> Pcs] /\ left' \in [Keys -> Nat]
  BY <1>0, <1>p DEF QueueInv, TypeOK, Pcs
<1>1. TypeOK'
  BY <1>0, <1>q DEF QueueInv, TypeOK
<1>2. WorkWhileUp' /\ OneDrain' /\ OwnSession'
  BY <1>0, <1>q DEF QueueInv, WorkWhileUp, OneDrain, OwnSession, AtWork, Resting
<1>3. Counted'
  <2>1. \A k \in Keys : left'[k] \in {left[k], 0} /\ Len(disk[k]) \in Nat
    BY <1>0, <1>p, EmptyQueue DEF QueueInv, TypeOK
  <2>2. \A k \in Keys : left'[k] = left[k] \/ (pc'[a] = "draining" /\ key[a] = k)
    BY <1>0, <1>p, <1>q DEF QueueInv, TypeOK
  <2>3. \A k \in Keys : left'[k] <= Len(disk'[k])
    BY <1>0, <2>1 DEF QueueInv, Counted
  <2> QED
    BY <1>0, <2>2, <2>3 DEF QueueInv, Counted
<1> QED
  BY <1>1, <1>2, <1>3 DEF QueueInv

(* A file taken or left disturbs the count of the drained key only.        *)
LEMMA DrainFileKeeps ==
    ASSUME QueueInv, NEW a \in Actors, DrainFile(a)
    PROVE  QueueInv'
<1>0. /\ pc[a] = "draining" /\ key[a] \in Keys /\ Unread(key[a])
      /\ Remove(key[a]) \/ PassOver(key[a])
      /\ UNCHANGED <<phase, crashes, slot, born, counter, replayed, accepted, overtaken,
                     injectLock, wakeLock, pc, key, mine, input>>
  BY DEF QueueInv, DrainFile, WorkWhileUp, AtWork, Resting, daemonVars, sessVars, lockVars
<1>b. /\ disk' \in [Keys -> Seq(Signals)] /\ left' \in [Keys -> Nat]
      /\ \A j \in Keys : left'[j] <= Len(disk'[j])
      /\ \A j \in Keys \ {key[a]} : disk'[j] = disk[j] /\ left'[j] = left[j]
  BY <1>0, FileKeeps
<1>c. hand' \in [Actors -> Seq(Signals)]
  <2>1. hand \in [Actors -> Seq(Signals)] /\ NextFile(key[a]) \in Signals
    BY <1>0, NextIsFile DEF QueueInv, TypeOK
  <2>2. Append(hand[a], NextFile(key[a])) \in Seq(Signals)
    BY <2>1, AddLast
  <2> QED
    BY <2>1, <2>2 DEF DrainFile
<1>1. TypeOK'
  BY <1>0, <1>b, <1>c DEF QueueInv, TypeOK
<1>2. WorkWhileUp' /\ OneDrain' /\ OwnSession'
  BY <1>0 DEF QueueInv, WorkWhileUp, OneDrain, OwnSession, AtWork
<1>3. Counted'
  BY <1>0, <1>b DEF QueueInv, Counted
<1> QED
  BY <1>1, <1>2, <1>3 DEF QueueInv

(* At the end no file is left and none is counted.                         *)
LEMMA DrainEndsKeeps ==
    ASSUME QueueInv, NEW a \in Actors, DrainEnds(a)
    PROVE  QueueInv'
<1>1. TypeOK'
  BY TakeFirst, AddLast DEF QueueInv, DrainEnds, TypeOK, WorkWhileUp, OwnSession,
     AtWork, Resting, Pcs, Goto, daemonVars, sessVars, lockVars
<1>2. WorkWhileUp' /\ OneDrain' /\ OwnSession'
  BY DEF QueueInv, DrainEnds, TypeOK, WorkWhileUp, OneDrain, OwnSession, AtWork,
     Resting, Goto, daemonVars, sessVars, lockVars
<1>3. Counted'
  <2>1. /\ key[a] \in Keys /\ ~Unread(key[a]) /\ pc[a] = "draining"
        /\ UNCHANGED <<disk, left, phase, key>>
        /\ counter'[key[a]] = 0 /\ \A k \in Keys \ {key[a]} : counter'[k] = counter[k]
        /\ pc'[a] = "type" /\ \A b \in Actors \ {a} : pc'[b] = pc[b]
    BY DEF QueueInv, TypeOK, DrainEnds, WorkWhileUp, AtWork, Resting, Goto, daemonVars
  <2>2. left[key[a]] = Len(disk[key[a]]) /\ 0 + left[key[a]] = left[key[a]]
    BY <2>1, EmptyQueue DEF QueueInv, TypeOK, Counted, Unread
  <2>3. ASSUME NEW k \in Keys \ {key[a]}
        PROVE  (\E b \in Actors : pc[b] = "draining" /\ key[b] = k)
                 => \E b \in Actors : pc'[b] = "draining" /\ key'[b] = k
    BY <2>1
  <2> QED
    BY <2>1, <2>2, <2>3 DEF QueueInv, Counted
<1> QED
  BY <1>1, <1>2, <1>3 DEF QueueInv

(* Typing leaves the queue alone.                                          *)
LEMMA TypeKeeps ==
    ASSUME QueueInv, NEW a \in Actors, Type(a)
    PROVE  QueueInv'
<1>1. TypeOK'
  BY TakeFirst, AddLast DEF QueueInv, Type, TypeOK, WorkWhileUp, OwnSession, AtWork,
     Resting, Pcs, Goto, PressesEnter, daemonVars, sessVars, queueVars, lockVars
<1>2. WorkWhileUp' /\ OneDrain' /\ OwnSession'
  BY DEF QueueInv, Type, TypeOK, WorkWhileUp, OneDrain, OwnSession, AtWork, Resting,
     Goto, PressesEnter, daemonVars, sessVars, queueVars, lockVars
<1>3. Counted'
  BY TakeFirst, AddLast, EmptyQueue DEF QueueInv, Type, TypeOK, WorkWhileUp, OneDrain,
     Counted, AtWork, Resting, Goto, PressesEnter, daemonVars, sessVars, queueVars,
     lockVars
<1> QED
  BY <1>1, <1>2, <1>3 DEF QueueInv

(* Pressing Enter leaves the queue alone.                                  *)
LEMMA EnterKeeps ==
    ASSUME QueueInv, NEW a \in Actors, Enter(a)
    PROVE  QueueInv'
<1>1. TypeOK'
  BY TakeFirst, AddLast DEF QueueInv, Enter, TypeOK, WorkWhileUp, OwnSession, AtWork,
     Resting, Pcs, Goto, daemonVars, sessVars, queueVars, lockVars
<1>2. WorkWhileUp' /\ OneDrain' /\ OwnSession'
  BY DEF QueueInv, Enter, TypeOK, WorkWhileUp, OneDrain, OwnSession, AtWork, Resting,
     Goto, daemonVars, sessVars, queueVars, lockVars
<1>3. Counted'
  BY TakeFirst, AddLast, EmptyQueue DEF QueueInv, Enter, TypeOK, WorkWhileUp, OneDrain,
     Counted, AtWork, Resting, Goto, daemonVars, sessVars, queueVars, lockVars
<1> QED
  BY <1>1, <1>2, <1>3 DEF QueueInv

(* A finished request returns.                                             *)
LEMMA FinishKeeps ==
    ASSUME QueueInv, NEW a \in Actors, Finish(a)
    PROVE  QueueInv'
  BY ReturnKeeps DEF Finish

-----------------------------------------------------------------------------
(* The environment, crash and boot. *)

(* The end of a session leaves the queue alone.                            *)
LEMMA SessionEndsKeeps ==
    ASSUME QueueInv, NEW k \in Keys, SessionEnds(k)
    PROVE  QueueInv'
<1>1. TypeOK'
  BY DEF QueueInv, SessionEnds, TypeOK, WorkWhileUp, OwnSession, AtWork, Resting, Pcs,
     daemonVars, queueVars, lockVars, actorVars
<1>2. WorkWhileUp' /\ OneDrain' /\ OwnSession'
  BY DEF QueueInv, SessionEnds, TypeOK, WorkWhileUp, OneDrain, OwnSession, AtWork,
     Resting, daemonVars, queueVars, lockVars, actorVars
<1>3. Counted'
  BY DEF QueueInv, SessionEnds, TypeOK, WorkWhileUp, OneDrain, Counted, AtWork, Resting,
     daemonVars, queueVars, lockVars, actorVars
<1> QED
  BY <1>1, <1>2, <1>3 DEF QueueInv

(* A crash puts every actor to rest and forgets the counters.              *)
LEMMA CrashKeeps ==
    ASSUME QueueInv, Crash
    PROVE  QueueInv'
<1>1. TypeOK'
  BY CrashesBounded, TakeFirst, AddLast DEF QueueInv, Crash, TypeOK, WorkWhileUp,
     OwnSession, AtWork, Resting, Pcs, Actors
<1>2. WorkWhileUp' /\ OneDrain' /\ OwnSession'
  BY DEF QueueInv, Crash, TypeOK, WorkWhileUp, OneDrain, OwnSession, AtWork, Resting,
     Actors
<1>3. Counted'
  BY TakeFirst, AddLast, EmptyQueue DEF QueueInv, Crash, TypeOK, WorkWhileUp, OneDrain,
     Counted, AtWork, Resting, Actors
<1> QED
  BY <1>1, <1>2, <1>3 DEF QueueInv

(* A restart counts nothing yet.                                           *)
LEMMA RestartKeeps ==
    ASSUME QueueInv, Restart
    PROVE  QueueInv'
<1>1. TypeOK'
  BY DEF QueueInv, Restart, TypeOK, WorkWhileUp, OwnSession, AtWork, Resting, Pcs,
     sessVars, queueVars, lockVars, actorVars
<1>2. WorkWhileUp' /\ OneDrain' /\ OwnSession'
  BY DEF QueueInv, Restart, TypeOK, WorkWhileUp, OneDrain, OwnSession, AtWork, Resting,
     sessVars, queueVars, lockVars, actorVars
<1>3. Counted'
  BY DEF QueueInv, Restart, TypeOK, WorkWhileUp, OneDrain, Counted, AtWork, Resting,
     sessVars, queueVars, lockVars, actorVars
<1> QED
  BY <1>1, <1>2, <1>3 DEF QueueInv

(* The replay goes through files that nobody has counted.                  *)
LEMMA ReplayFileKeeps ==
    ASSUME QueueInv, NEW k \in Keys, ReplayFile(k)
    PROVE  QueueInv'
<1>0. /\ phase = "replaying" /\ Unread(k)
      /\ Remove(k) \/ PassOver(k)
      /\ UNCHANGED <<phase, crashes, slot, born, counter, accepted, injectLock, wakeLock,
                     pc, key, mine, hand, input>>
  BY DEF ReplayFile, daemonVars, sessVars, lockVars, actorVars
<1>b. /\ disk' \in [Keys -> Seq(Signals)] /\ left' \in [Keys -> Nat]
      /\ \A j \in Keys : left'[j] <= Len(disk'[j])
  BY <1>0, FileKeeps
<1>c. replayed' \in [Keys -> Seq(Signals)] /\ overtaken' \subseteq Signals
  <2>1. /\ replayed \in [Keys -> Seq(Signals)] /\ overtaken \subseteq Signals
        /\ NextFile(k) \in Signals
    BY <1>0, NextIsFile DEF QueueInv, TypeOK
  <2>2. Append(replayed[k], NextFile(k)) \in Seq(Signals)
    BY <2>1, AddLast
  <2> QED
    BY <2>1, <2>2 DEF ReplayFile
<1>1. TypeOK'
  BY <1>0, <1>b, <1>c DEF QueueInv, TypeOK
<1>2. WorkWhileUp' /\ OneDrain' /\ OwnSession'
  BY <1>0 DEF QueueInv, WorkWhileUp, OneDrain, OwnSession, AtWork
<1>3. Counted'
  BY <1>0, <1>b DEF QueueInv, Counted
<1> QED
  BY <1>1, <1>2, <1>3 DEF QueueInv

(* After the replay the counters are made; what they miss was not listed.  *)
LEMMA ReplayEndsKeeps ==
    ASSUME QueueInv, ReplayEnds
    PROVE  QueueInv'
<1>0. /\ phase = "replaying" /\ phase' = "requeueing"
      /\ UNCHANGED <<crashes, slot, born, disk, replayed, accepted, overtaken, injectLock,
                     wakeLock, pc, key, mine, hand, input>>
  BY DEF ReplayEnds, sessVars, lockVars, actorVars
<1>p. PICK unlisted \in SUBSET Keys :
        /\ counter' = [k \in Keys |-> IF k \in unlisted THEN 0 ELSE Len(disk[k])]
        /\ left' = [k \in Keys |-> IF k \in unlisted THEN Len(disk[k]) ELSE 0]
  BY DEF ReplayEnds
<1>l. \A k \in Keys : Len(disk[k]) \in Nat
  BY EmptyQueue DEF QueueInv, TypeOK
<1>b. /\ counter' \in [Keys -> Nat] /\ left' \in [Keys -> Nat]
      /\ \A k \in Keys : /\ left'[k] <= Len(disk[k])
                         /\ counter'[k] + left'[k] = Len(disk[k])
  BY <1>p, <1>l
<1>1. TypeOK'
  BY <1>0, <1>b DEF QueueInv, TypeOK
<1>2. WorkWhileUp' /\ OneDrain' /\ OwnSession'
  BY <1>0 DEF QueueInv, WorkWhileUp, OneDrain, OwnSession, AtWork
<1>3. Counted'
  BY <1>0, <1>b DEF Counted
<1> QED
  BY <1>1, <1>2, <1>3 DEF QueueInv

(* Enqueueing again adds one file and counts it, or fails.                 *)
LEMMA RequeueKeeps ==
    ASSUME QueueInv, NEW k \in Keys, Requeue(k)
    PROVE  QueueInv'
<1>0. phase = "requeueing" /\ replayed[k] \in Seq(Signals) /\ Head(replayed[k]) \in
   Signals
  BY TakeFirst DEF QueueInv, Requeue, TypeOK
<1>b. /\ disk' \in [Keys -> Seq(Signals)] /\ counter' \in [Keys -> Nat]
      /\ \A j \in Keys :
            /\ left[j] <= Len(disk[j]) => left[j] <= Len(disk'[j])
            /\ counter[j] + left[j] = Len(disk[j]) => counter'[j] + left[j] = Len(disk'[j])
  <2>1. CASE Enqueue(Head(replayed[k]), k)
    BY <1>0, <2>1, EnqueueCounts DEF QueueInv
  <2>2. CASE UNCHANGED <<disk, counter>>
    BY <2>2 DEF QueueInv, TypeOK
  <2> QED
    BY <2>1, <2>2 DEF Requeue
<1>c. replayed' \in [Keys -> Seq(Signals)]
  BY <1>0, TakeFirst DEF QueueInv, Requeue, TypeOK
<1>1. TypeOK'
  BY <1>b, <1>c DEF QueueInv, Requeue, TypeOK, daemonVars, sessVars, lockVars, actorVars
<1>2. WorkWhileUp' /\ OneDrain' /\ OwnSession'
  BY DEF QueueInv, Requeue, WorkWhileUp, OneDrain, OwnSession, AtWork, daemonVars,
     actorVars
<1>3. Counted'
  BY <1>0, <1>b DEF QueueInv, Requeue, Counted, WorkWhileUp, AtWork, Resting,
     daemonVars, actorVars
<1> QED
  BY <1>1, <1>2, <1>3 DEF QueueInv

(* The daemon serves with the counters the boot has built.                 *)
LEMMA ServeKeeps ==
    ASSUME QueueInv, Serve
    PROVE  QueueInv'
<1>1. TypeOK'
  BY TakeFirst, AddLast DEF QueueInv, Serve, TypeOK, WorkWhileUp, OwnSession, AtWork,
     Resting, Pcs, sessVars, queueVars, lockVars, actorVars
<1>2. WorkWhileUp' /\ OneDrain' /\ OwnSession'
  BY DEF QueueInv, Serve, TypeOK, WorkWhileUp, OneDrain, OwnSession, AtWork, Resting,
     sessVars, queueVars, lockVars, actorVars
<1>3. Counted'
  BY TakeFirst, AddLast, EmptyQueue DEF QueueInv, Serve, TypeOK, WorkWhileUp, OneDrain,
     Counted, AtWork, Resting, sessVars, queueVars, lockVars, actorVars
<1> QED
  BY <1>1, <1>2, <1>3 DEF QueueInv
-----------------------------------------------------------------------------
(* The theorems. *)

(* The empty queue is counted right.                                       *)
LEMMA InitQueueInv == Init => QueueInv
<1> SUFFICES ASSUME Init PROVE QueueInv
  OBVIOUS
<1> USE DEF Init
<1>1. TypeOK
  BY CrashesBounded DEF TypeOK, Pcs, Resting
<1>2. WorkWhileUp /\ OneDrain /\ OwnSession
  BY DEF WorkWhileUp, OneDrain, OwnSession, AtWork, Resting
<1>3. Counted
  BY EmptyQueue DEF Counted
<1> QED
  BY <1>1, <1>2, <1>3 DEF QueueInv

(* Every step keeps the invariant.                                         *)
LEMMA NextKeeps == QueueInv /\ [Next]_vars => QueueInv'
<1> SUFFICES ASSUME QueueInv, [Next]_vars PROVE QueueInv'
  OBVIOUS
<1>1. ASSUME NEW a \in Actors, Spawning(a) PROVE QueueInv'
  BY <1>1, LookupKeeps, SpawnKeeps, SpawnFailsKeeps, DrainKeeps, DrainFileKeeps,
     DrainEndsKeeps, TypeKeeps, EnterKeeps, FinishKeeps DEF Spawning
<1>2. ASSUME NEW g \in Signals, Sending(g) PROVE QueueInv'
  BY <1>1, <1>2, ProbeKeeps, InjectKeeps, WakeQueuesKeeps, WakeRefusesKeeps, LaunchKeeps
     DEF Sending, Actors
<1>3. ASSUME NEW g \in Signals, NEW k \in Keys, Send(g, k) PROVE QueueInv'
  BY <1>3, SendKeeps
<1>4. ASSUME NEW a \in Spawners, NEW k \in Keys, Request(a, k) PROVE QueueInv'
  BY <1>4, RequestKeeps
<1>5. ASSUME NEW k \in Keys, SessionEnds(k) PROVE QueueInv'
  BY <1>5, SessionEndsKeeps
<1>6. CASE Crash
  BY <1>6, CrashKeeps
<1>7. CASE Booting
  BY <1>7, RestartKeeps, ReplayFileKeeps, ReplayEndsKeeps, RequeueKeeps, ServeKeeps
     DEF Booting
<1>8. CASE UNCHANGED vars
  <2> USE <1>8 DEF QueueInv, vars, daemonVars, sessVars, queueVars, lockVars, actorVars
  <2>1. TypeOK'
    BY DEF TypeOK
  <2>2. WorkWhileUp' /\ OneDrain' /\ OwnSession'
    BY DEF WorkWhileUp, OneDrain, OwnSession, AtWork
  <2>3. Counted'
    BY DEF Counted
  <2> QED
    BY <2>1, <2>2, <2>3
<1> QED
  BY <1>1, <1>2, <1>3, <1>4, <1>5, <1>6, <1>7, <1>8 DEF Next, Actors

(* The queue's strengthened invariant holds for any number of signals,     *)
(* workspaces, sessions, requests and crashes.                             *)
LEMMA QueueInvariance == Spec => []QueueInv
<1>1. Init => QueueInv
  BY InitQueueInv
<1>2. QueueInv /\ [Next]_vars => QueueInv'
  BY NextKeeps
<1> QED
  BY <1>1, <1>2, PTL DEF Spec

(* Every variable of the delivery keeps its type.                          *)
THEOREM QueueTypes == Spec => []TypeOK
<1>1. QueueInv => TypeOK
  BY DEF QueueInv
<1> QED
  BY <1>1, QueueInvariance, PTL

(* pending_live.rs:160-169: while the mutex is free a file that the        *)
(* counter of its key does not stand for is one a failing read left in     *)
(* place, in the last drain of the key or as the counters were made.       *)
THEOREM QueueCounter == Spec => []CounterIsDisk
<1>1. QueueInv => CounterIsDisk
  BY DEF QueueInv, Counted, CounterIsDisk, QueueLocked
<1> QED
  BY <1>1, QueueInvariance, PTL
=============================================================================
