------------------------- MODULE PendingLive_safety -------------------------
(***************************************************************************)
(* No signal is doubled, none is lost but by a crash or as main enqueues   *)
(* again, a session is typed signals in the order they were accepted in,   *)
(* and each goes through the stages of Mailbox: for any signals, keys,     *)
(* sessions, requests and crashes.                                         *)
(*                                                                         *)
(* Every place a signal can be in is a sequence: the files of a key, what  *)
(* the replay read of it, an actor's hand, a session's input.  Store has   *)
(* all of them.  A step moves one from its place to the end of another,    *)
(* adds what was nowhere, or loses something; each keeps a signal single.  *)
(***************************************************************************)
EXTENDS PendingLive_proofs, FiniteSetTheorems, SequenceTheorems

Place == ({"disk", "replayed"} \X Keys) \cup ({"hand"} \X Actors)
           \cup ({"input"} \X Sessions)

Things == Signals \cup {"enter"}

Store == [p \in Place |-> CASE p[1] = "disk"     -> disk[p[2]]
                            [] p[1] = "replayed" -> replayed[p[2]]
                            [] p[1] = "hand"     -> hand[p[2]]
                            [] OTHER             -> input[p[2]]]

Single(st, g) ==
    \A p, q \in DOMAIN st : \A i \in DOMAIN st[p], j \in DOMAIN st[q] :
        st[p][i] = g /\ st[q][j] = g => p = q /\ i = j

(* A place has got x as its last element, after what it had or alone.      *)
Gains(st, nu, to, x) ==
    /\ \A p \in Place \ {to} : nu[p] = st[p]
    /\ nu[to] \in {Append(st[to], x), <<x>>}

(* Some places have lost their heads, or all they had.                     *)
Less(st, nu) ==
    \A p \in Place : \/ nu[p] = st[p]
                     \/ nu[p] = <<>>
                     \/ st[p] # <<>> /\ nu[p] = Tail(st[p])

Absent(st, g) == \A p \in DOMAIN st : ~Has(st[p], g)

(* A sender whose signal has not been put anywhere yet.                    *)
Fresh(g) == pc[g] \in {"unsent", "probe", "inject", "wake"}

(* The inductive invariant: a signal is in one place at most, and in none  *)
(* before its sender has put it into one.                                  *)
CopyInv == \A g \in Signals : Single(Store, g) /\ (Fresh(g) => Absent(Store, g))

-----------------------------------------------------------------------------
(* What steps do to places. *)

(* The elements of a sequence that something was appended to.              *)
LEMMA AppendItems ==
    ASSUME NEW T, NEW q \in Seq(T), NEW x \in T
    PROVE  /\ Len(q) \in Nat
           /\ DOMAIN q = 1 .. Len(q)
           /\ DOMAIN Append(q, x) = 1 .. Len(q) + 1
           /\ \A i \in 1 .. Len(q) : Append(q, x)[i] = q[i]
           /\ Append(q, x)[Len(q) + 1] = x
  OBVIOUS

(* What is left when the first is taken.                                   *)
LEMMA TailIsWithout ==
    ASSUME NEW T, NEW q \in Seq(T), q # <<>>
    PROVE  /\ 1 \in 1 .. Len(q) /\ Head(q) = q[1]
           /\ Tail(q) = Without(q, 1)
<1>1. 1 \in 1 .. Len(q) /\ Head(q) = q[1]
  OBVIOUS
<1>2. /\ Tail(q) \in Seq(T) /\ Len(Tail(q)) = Len(q) - 1
      /\ \A j \in 1 .. (Len(q) - 1) : Tail(q)[j] = q[j + 1]
  OBVIOUS
<1>3. /\ Without(q, 1) \in Seq(T) /\ Len(Without(q, 1)) = Len(q) - 1
      /\ \A j \in 1 .. (Len(q) - 1) : Without(q, 1)[j] = q[j + 1]
  BY <1>1, WithoutOne
<1>4. Tail(q) = Without(q, 1)
  BY <1>2, <1>3, SeqEqual
<1> QED
  BY <1>1, <1>4

(* One of a sequence goes to the end of another.                           *)
Moved(st, nu, from, to, nr) ==
    /\ st \in [Place -> Seq(Things)] /\ nu \in [Place -> Seq(Things)]
    /\ from \in Place /\ to \in Place /\ from # to
    /\ nr \in 1 .. Len(st[from])
    /\ nu[from] = Without(st[from], nr)
    /\ nu[to] = Append(st[to], st[from][nr])
    /\ \A p \in Place \ {from, to} : nu[p] = st[p]

(* Each stays the only one there is.                                       *)
LEMMA MoveKeeps ==
    ASSUME NEW st, NEW nu, NEW g, NEW from, NEW to, NEW nr, Moved(st, nu, from, to, nr)
    PROVE  /\ Single(st, g) => Single(nu, g)
           /\ Absent(st, g) => Absent(nu, g)
<1> DEFINE New(p, i) == p = to /\ i = Len(st[to]) + 1
           At(p, i) == IF New(p, i) THEN from ELSE p
           Ix(p, i) == IF New(p, i) THEN nr
                       ELSE IF p = from /\ i >= nr THEN i + 1 ELSE i
<1> USE DEF Moved
<1>0. DOMAIN st = Place /\ DOMAIN nu = Place
  OBVIOUS
<1>1. ASSUME NEW p \in Place, NEW i \in DOMAIN nu[p]
      PROVE  /\ i \in Nat \ {0}
             /\ At(p, i) \in Place /\ Ix(p, i) \in DOMAIN st[At(p, i)]
             /\ st[At(p, i)][Ix(p, i)] = nu[p][i]
  <2>1. CASE p = from
    <3>1. st[from] \in Seq(Things) /\ Len(st[from]) \in Nat
      OBVIOUS
    <3> DEFINE q == st[from]
    <3>a. /\ DOMAIN Without(q, nr) = 1 .. (Len(q) - 1)
          /\ \A k \in 1 .. (Len(q) - 1) :
                Without(q, nr)[k] = IF k < nr THEN q[k] ELSE q[k + 1]
      <4>1. q \in Seq(Things) /\ nr \in 1 .. Len(q)
        BY <3>1
      <4> HIDE DEF q
      <4> QED
        BY <4>1, WithoutOne
    <3>2. /\ DOMAIN nu[from] = 1 .. (Len(st[from]) - 1)
          /\ \A k \in 1 .. (Len(st[from]) - 1) :
                nu[from][k] = IF k < nr THEN st[from][k] ELSE st[from][k + 1]
      BY <3>a
    <3>3. i \in 1 .. (Len(st[from]) - 1) /\ DOMAIN st[from] = 1 .. Len(st[from])
      BY <1>1, <2>1, <3>1, <3>2
    <3> QED
      BY <2>1, <3>1, <3>2, <3>3
  <2>2. CASE p = to
    <3>1. st[to] \in Seq(Things) /\ st[from] \in Seq(Things) /\ st[from][nr] \in Things
      OBVIOUS
    <3>2. /\ Len(st[to]) \in Nat /\ DOMAIN st[to] = 1 .. Len(st[to])
          /\ DOMAIN nu[to] = 1 .. Len(st[to]) + 1
          /\ \A k \in 1 .. Len(st[to]) : nu[to][k] = st[to][k]
          /\ nu[to][Len(st[to]) + 1] = st[from][nr]
      BY <3>1, AppendItems
    <3>3. nr \in DOMAIN st[from]
      BY <3>1
    <3> QED
      BY <1>1, <2>2, <3>2, <3>3
  <2>3. CASE p \notin {from, to}
    BY <1>1, <2>3
  <2> QED
    BY <2>1, <2>2, <2>3
<1>2. ASSUME NEW p \in Place, NEW q \in Place, NEW i \in Nat \ {0}, NEW j \in Nat \ {0},
             At(p, i) = At(q, j), Ix(p, i) = Ix(q, j)
      PROVE  p = q /\ i = j
  <2>1. Len(st[to]) \in Nat
    OBVIOUS
  <2>2. CASE New(p, i) /\ New(q, j)
    BY <2>2
  <2>3. ASSUME NEW a \in Place, NEW b \in Place, NEW m \in Nat \ {0}, NEW n \in Nat \ {0},
               New(a, m), ~New(b, n), Ix(a, m) = Ix(b, n)
        PROVE  At(a, m) # At(b, n)
    <3>1. Ix(a, m) = nr /\ At(a, m) = from /\ At(b, n) = b
      BY <2>3
    <3>2. b = from => Ix(b, n) # nr
      BY <2>3
    <3> QED
      BY <2>3, <3>1, <3>2
  <2>4. CASE ~New(p, i) /\ ~New(q, j)
    <3>1. At(p, i) = p /\ At(q, j) = q
      BY <2>4
    <3>2. p = q
      BY <1>2, <3>1
    <3> QED
      BY <1>2, <2>4, <3>2
  <2> QED
    BY <1>2, <2>2, <2>3, <2>4
<1> HIDE DEF At, Ix
<1>3. Absent(st, g) => Absent(nu, g)
  BY <1>0, <1>1 DEF Absent, Has
<1>4. ASSUME Single(st, g), NEW p \in Place, NEW q \in Place,
             NEW i \in DOMAIN nu[p], NEW j \in DOMAIN nu[q],
             nu[p][i] = g, nu[q][j] = g
      PROVE  p = q /\ i = j
  <2>1. /\ i \in Nat \ {0} /\ At(p, i) \in Place /\ Ix(p, i) \in DOMAIN st[At(p, i)]
        /\ st[At(p, i)][Ix(p, i)] = g
    BY <1>1, <1>4
  <2>2. /\ j \in Nat \ {0} /\ At(q, j) \in Place /\ Ix(q, j) \in DOMAIN st[At(q, j)]
        /\ st[At(q, j)][Ix(q, j)] = g
    BY <1>1, <1>4
  <2>3. At(p, i) = At(q, j) /\ Ix(p, i) = Ix(q, j)
    BY <1>0, <1>4, <2>1, <2>2 DEF Single
  <2> QED
    BY <1>2, <2>1, <2>2, <2>3
<1> QED
  BY <1>0, <1>3, <1>4 DEF Single

(* A place gains another thing, or a signal that was nowhere.              *)
LEMMA GainKeeps ==
    ASSUME NEW st \in [Place -> Seq(Things)], NEW nu \in [Place -> Seq(Things)], NEW g,
           NEW x \in Things, NEW to \in Place, Gains(st, nu, to, x)
    PROVE  /\ Single(st, g) /\ x # g => Single(nu, g)
           /\ Single(st, g) /\ Absent(st, g) => Single(nu, g)
           /\ Absent(st, g) /\ x # g => Absent(nu, g)
<1>0. DOMAIN st = Place /\ DOMAIN nu = Place
  OBVIOUS
<1>1. ASSUME NEW p \in Place, NEW i \in DOMAIN nu[p]
      PROVE  \/ i \in DOMAIN st[p] /\ nu[p][i] = st[p][i]
             \/ p = to /\ i = Len(nu[to]) /\ nu[p][i] = x
  <2>1. CASE p # to
    BY <1>1, <2>1 DEF Gains
  <2>2. CASE p = to /\ nu[to] = <<x>>
    BY <1>1, <2>2
  <2>3. CASE p = to /\ nu[to] = Append(st[to], x)
    <3>1. st[to] \in Seq(Things)
      OBVIOUS
    <3>2. /\ Len(st[to]) \in Nat /\ DOMAIN st[to] = 1 .. Len(st[to])
          /\ DOMAIN nu[to] = 1 .. Len(st[to]) + 1
          /\ \A k \in 1 .. Len(st[to]) : nu[to][k] = st[to][k]
          /\ nu[to][Len(st[to]) + 1] = x
      BY <2>3, <3>1, AppendItems
    <3>3. Len(nu[to]) = Len(st[to]) + 1
      BY <2>3, <3>1
    <3> QED
      BY <1>1, <2>3, <3>2, <3>3
  <2> QED
    BY <2>1, <2>2, <2>3 DEF Gains
<1>2. Absent(st, g) /\ x # g => Absent(nu, g)
  BY <1>0, <1>1 DEF Absent, Has
<1>3. Single(st, g) /\ x # g => Single(nu, g)
  BY <1>0, <1>1 DEF Single
<1>4. Single(st, g) /\ Absent(st, g) => Single(nu, g)
  BY <1>0, <1>1 DEF Single, Absent, Has
<1> QED
  BY <1>2, <1>3, <1>4

(* Sequences lose their heads or are emptied.                              *)
LEMMA LoseKeeps ==
    ASSUME NEW st \in [Place -> Seq(Things)], NEW nu \in [Place -> Seq(Things)], NEW g,
           Less(st, nu)
    PROVE  /\ Single(st, g) => Single(nu, g)
           /\ Absent(st, g) => Absent(nu, g)
<1> DEFINE Shift(p) == IF nu[p] = st[p] THEN 0 ELSE 1
<1>1. ASSUME NEW p \in Place, NEW i \in DOMAIN nu[p]
      PROVE  /\ i \in Nat
             /\ i + Shift(p) \in DOMAIN st[p] /\ st[p][i + Shift(p)] = nu[p][i]
  <2>1. CASE nu[p] = st[p]
    BY <1>1, <2>1
  <2>2. CASE nu[p] # st[p] /\ nu[p] = <<>>
    BY <1>1, <2>2
  <2>3. CASE nu[p] # st[p] /\ st[p] # <<>> /\ nu[p] = Tail(st[p])
    BY <1>1, <2>3
  <2> QED
    BY <2>1, <2>2, <2>3 DEF Less
<1>2. \A p \in Place : Shift(p) \in Nat
  OBVIOUS
<1> HIDE DEF Shift
<1>3. Absent(st, g) => Absent(nu, g)
  BY <1>1 DEF Absent, Has
<1>4. ASSUME Single(st, g), NEW p \in Place, NEW q \in Place,
             NEW i \in DOMAIN nu[p], NEW j \in DOMAIN nu[q],
             nu[p][i] = g, nu[q][j] = g
      PROVE  p = q /\ i = j
  <2>1. p = q /\ i + Shift(p) = j + Shift(q)
    BY <1>1, <1>4 DEF Single
  <2> QED
    BY <1>1, <1>2, <1>4, <2>1
<1> QED
  BY <1>3, <1>4 DEF Single

-----------------------------------------------------------------------------
(* The places of the queue. *)

(* The name of every place is a sequence of its own.                       *)
LEMMA StoreAt ==
    /\ DOMAIN Store = Place
    /\ \A k \in Keys :
          /\ <<"disk", k>> \in Place /\ Store[<<"disk", k>>] = disk[k]
          /\ <<"replayed", k>> \in Place /\ Store[<<"replayed", k>>] = replayed[k]
    /\ \A a \in Actors : <<"hand", a>> \in Place /\ Store[<<"hand", a>>] = hand[a]
    /\ \A s \in Sessions : <<"input", s>> \in Place /\ Store[<<"input", s>>] = input[s]
    /\ \A p \in Place :
          \/ \E k \in Keys : p = <<"disk", k>> \/ p = <<"replayed", k>>
          \/ \E a \in Actors : p = <<"hand", a>>
          \/ \E s \in Sessions : p = <<"input", s>>
  BY DEF Store, Place

(* And after a step.                                                       *)
LEMMA StoreAtNext ==
    /\ DOMAIN Store' = Place
    /\ \A k \in Keys :
          /\ <<"disk", k>> \in Place /\ Store'[<<"disk", k>>] = disk'[k]
          /\ <<"replayed", k>> \in Place /\ Store'[<<"replayed", k>>] = replayed'[k]
    /\ \A a \in Actors : <<"hand", a>> \in Place /\ Store'[<<"hand", a>>] = hand'[a]
    /\ \A s \in Sessions : <<"input", s>> \in Place /\ Store'[<<"input", s>>] = input'[s]
    /\ \A p \in Place :
          \/ \E k \in Keys : p = <<"disk", k>> \/ p = <<"replayed", k>>
          \/ \E a \in Actors : p = <<"hand", a>>
          \/ \E s \in Sessions : p = <<"input", s>>
  BY DEF Store, Place

(* Where the variables are the same, so are the places.                    *)
LEMMA StoreSame ==
    ASSUME NEW X,
           \A k \in Keys : <<"disk", k>> \notin X => disk'[k] = disk[k],
           \A k \in Keys : <<"replayed", k>> \notin X => replayed'[k] = replayed[k],
           \A a \in Actors : <<"hand", a>> \notin X => hand'[a] = hand[a],
           \A s \in Sessions : <<"input", s>> \notin X => input'[s] = input[s]
    PROVE  \A p \in Place \ X : Store'[p] = Store[p]
<1> SUFFICES ASSUME NEW p \in Place, p \notin X PROVE Store'[p] = Store[p]
  OBVIOUS
<1>1. CASE \E k \in Keys : p = <<"disk", k>> \/ p = <<"replayed", k>>
  <2>1. PICK k \in Keys : p = <<"disk", k>> \/ p = <<"replayed", k>>
    BY <1>1
  <2>2. CASE p = <<"disk", k>>
    BY <2>2, StoreAt, StoreAtNext
  <2>3. CASE p = <<"replayed", k>>
    BY <2>3, StoreAt, StoreAtNext
  <2> QED
    BY <2>1, <2>2, <2>3
<1>2. CASE \E a \in Actors : p = <<"hand", a>>
  BY <1>2, StoreAt, StoreAtNext
<1>3. CASE \E s \in Sessions : p = <<"input", s>>
  BY <1>3, StoreAt, StoreAtNext
<1> QED
  BY <1>1, <1>2, <1>3, StoreAt

(* Each is a sequence of signals and Enters.                               *)
LEMMA StoreType == TypeOK => Store \in [Place -> Seq(Things)]
<1> SUFFICES ASSUME TypeOK PROVE Store \in [Place -> Seq(Things)]
  OBVIOUS
<1>1. \A q \in Seq(Signals) : q \in Seq(Things)
  BY DEF Things
<1>2. ASSUME NEW p \in Place PROVE Store[p] \in Seq(Things)
  <2>1. ASSUME NEW k \in Keys PROVE disk[k] \in Seq(Things) /\ replayed[k] \in Seq(Things)
    BY <1>1 DEF TypeOK
  <2>2. ASSUME NEW a \in Actors PROVE hand[a] \in Seq(Things)
    BY <1>1 DEF TypeOK
  <2>3. ASSUME NEW s \in Sessions PROVE input[s] \in Seq(Things)
    BY DEF TypeOK, Things
  <2>4. CASE \E k \in Keys : p = <<"disk", k>> \/ p = <<"replayed", k>>
    <3>1. PICK k \in Keys : p = <<"disk", k>> \/ p = <<"replayed", k>>
      BY <2>4
    <3>2. Store[<<"disk", k>>] = disk[k] /\ Store[<<"replayed", k>>] = replayed[k]
      BY StoreAt
    <3> QED
      BY <2>1, <3>1, <3>2
  <2>5. CASE \E a \in Actors : p = <<"hand", a>>
    BY <2>2, <2>5, StoreAt
  <2>6. CASE \E s \in Sessions : p = <<"input", s>>
    BY <2>3, <2>6, StoreAt
  <2> QED
    BY <2>4, <2>5, <2>6, StoreAt
<1> QED
  BY <1>2 DEF Store

(* And after a step.                                                       *)
LEMMA StoreTypes == QueueInv /\ QueueInv' => /\ Store \in [Place -> Seq(Things)]
                                             /\ Store' \in [Place -> Seq(Things)]
<1>1. QueueInv => Store \in [Place -> Seq(Things)]
  BY StoreType DEF QueueInv
<1>2. (QueueInv => Store \in [Place -> Seq(Things)])'
  BY <1>1, PTL
<1> QED
  BY <1>1, <1>2

(* A step that moves no signal keeps the invariant.                        *)
LEMMA StillKeeps ==
    ASSUME CopyInv, UNCHANGED <<disk, replayed, hand, input>>,
           \A g \in Signals : Fresh(g)' => Fresh(g)
    PROVE  CopyInv'
<1>1. Store' = Store
  BY DEF Store
<1> QED
  BY <1>1 DEF CopyInv, Single, Absent

(* A step that moves one from its place to the end of another does.        *)
LEMMA MovesKeep ==
    ASSUME QueueInv, QueueInv', CopyInv,
           NEW from \in Place, NEW to \in Place, from # to,
           NEW nr \in 1 .. Len(Store[from]),
           Store'[from] = Without(Store[from], nr),
           Store'[to] = Append(Store[to], Store[from][nr]),
           \A p \in Place \ {from, to} : Store'[p] = Store[p],
           \A g \in Signals : Fresh(g)' => Fresh(g)
    PROVE  CopyInv'
<1>1. Store \in [Place -> Seq(Things)] /\ Store' \in [Place -> Seq(Things)]
  BY StoreTypes
<1>2. ASSUME NEW g \in Signals
      PROVE  /\ Single(Store, g) => Single(Store', g)
             /\ Absent(Store, g) => Absent(Store', g)
  <2>1. Moved(Store, Store', from, to, nr)
    BY <1>1 DEF Moved
  <2> QED
    BY <2>1, MoveKeeps
<1> QED
  BY <1>2 DEF CopyInv

(* A step that puts a fresh signal, or none, into a place does.            *)
LEMMA GainsKeep ==
    ASSUME QueueInv, QueueInv', CopyInv, NEW to \in Place, NEW x \in Things,
           Gains(Store, Store', to, x), x \in Signals => Fresh(x) /\ ~Fresh(x)',
           \A g \in Signals : Fresh(g)' => Fresh(g)
    PROVE  CopyInv'
<1>1. Store \in [Place -> Seq(Things)] /\ Store' \in [Place -> Seq(Things)]
  BY StoreTypes
<1>2. ASSUME NEW g \in Signals
      PROVE  /\ Single(Store, g) /\ x # g => Single(Store', g)
             /\ Single(Store, g) /\ Absent(Store, g) => Single(Store', g)
             /\ Absent(Store, g) /\ x # g => Absent(Store', g)
  BY <1>1, GainKeeps
<1> QED
  BY <1>2 DEF CopyInv

(* A step that loses heads or whole places does.                           *)
LEMMA LossesKeep ==
    ASSUME QueueInv, QueueInv', CopyInv,
           Less(Store, Store'),
           \A g \in Signals : Fresh(g)' => Fresh(g)
    PROVE  CopyInv'
<1>1. Store \in [Place -> Seq(Things)] /\ Store' \in [Place -> Seq(Things)]
  BY StoreTypes
<1>2. ASSUME NEW g \in Signals
      PROVE  /\ Single(Store, g) => Single(Store', g)
             /\ Absent(Store, g) => Absent(Store', g)
  BY <1>1, LoseKeeps
<1> QED
  BY <1>2 DEF CopyInv, Single, Absent

-----------------------------------------------------------------------------
(* The steps. *)

(* A sender's steps before its signal is anywhere.                         *)
LEMMA SenderStill ==
    ASSUME QueueInv, CopyInv, NEW g \in Signals,
           \/ \E k \in Keys : Send(g, k)
           \/ Probe(g) \/ WakeRefuses(g) \/ Launch(g)
    PROVE  CopyInv'
<1>1. UNCHANGED <<disk, replayed, hand, input>>
  BY DEF Send, Probe, WakeRefuses, Launch, Return, queueVars, actorVars
<1>2. \A h \in Signals : Fresh(h)' => Fresh(h)
  BY DEF QueueInv, TypeOK, Actors, Fresh, Send, Probe, WakeRefuses, Launch, Return, Goto
<1> QED
  BY <1>1, <1>2, StillKeeps

(* Spawning, and the two ends of a drain.                                  *)
LEMMA SpawnerStill ==
    ASSUME QueueInv, CopyInv, NEW a \in Actors,
           \/ a \in Spawners /\ \E k \in Keys : Request(a, k)
           \/ Lookup(a) \/ Spawn(a) \/ SpawnFails(a)
           \/ Drain(a) \/ DrainEnds(a) \/ Finish(a)
    PROVE  CopyInv'
<1>1. UNCHANGED <<disk, replayed, hand, input>>
  BY DEF Request, Lookup, Spawn, SpawnFails, Drain, DrainEnds, Finish, Return, queueVars
<1>2. \A h \in Signals : Fresh(h)' => Fresh(h)
  BY DEF QueueInv, TypeOK, Actors, Fresh, Request, Lookup, Spawn, SpawnFails, Drain,
     DrainEnds, Finish, Return, Goto
<1> QED
  BY <1>1, <1>2, StillKeeps

(* The end of a session, and the daemon's phases.                          *)
LEMMA DaemonStill ==
    ASSUME QueueInv, CopyInv,
           (\E k \in Keys : SessionEnds(k)) \/ Restart \/ ReplayEnds \/ Serve
    PROVE  CopyInv'
<1>1. UNCHANGED <<disk, replayed, hand, input, pc>>
  BY DEF SessionEnds, Restart, ReplayEnds, Serve, queueVars, actorVars
<1> QED
  BY <1>1, StillKeeps DEF Fresh

(* An injected signal goes into its sender's hand, and was nowhere.        *)
LEMMA InjectCopies ==
    ASSUME QueueInv, QueueInv', CopyInv, NEW g \in Signals, Inject(g)
    PROVE  CopyInv'
<1>1. CASE slot[key[g]] = NoSession
  <2>1. UNCHANGED <<disk, replayed, hand, input>>
    BY <1>1 DEF Inject, queueVars
  <2>2. \A h \in Signals : Fresh(h)' => Fresh(h)
    BY <1>1 DEF QueueInv, TypeOK, Actors, Fresh, Inject, Goto
  <2> QED
    BY <2>1, <2>2, StillKeeps
<1>2. CASE slot[key[g]] # NoSession
  <2>1. <<"hand", g>> \in Place /\ g \in Things /\ g \in Actors
    BY StoreAt DEF Actors, Things
  <2>2. hand' = [hand EXCEPT ![g] = <<g>>] /\ UNCHANGED <<disk, replayed, input>>
    BY <1>2 DEF Inject, queueVars
  <2>3. \A p \in Place \ {<<"hand", g>>} : Store'[p] = Store[p]
    BY <2>2, StoreSame DEF QueueInv, TypeOK
  <2>4. Store'[<<"hand", g>>] = <<g>>
    BY <2>1, <2>2, StoreAtNext DEF QueueInv, TypeOK
  <2>5. Fresh(g) /\ ~Fresh(g)' /\ \A h \in Signals : Fresh(h)' => Fresh(h)
    BY <1>2 DEF QueueInv, TypeOK, Actors, Fresh, Inject, Goto
  <2>6. Gains(Store, Store', <<"hand", g>>, g)
    BY <2>3, <2>4 DEF Gains
  <2> QED
    BY <2>1, <2>5, <2>6, GainsKeep
<1> QED
  BY <1>1, <1>2

(* A queued signal goes to its key's files, and was nowhere.               *)
LEMMA WakeQueuesCopies ==
    ASSUME QueueInv, QueueInv', CopyInv, NEW g \in Signals, WakeQueues(g)
    PROVE  CopyInv'
<1> DEFINE to == <<"disk", key[g]>>
<1>1. g \in Actors /\ key[g] \in Keys
  BY DEF QueueInv, WakeQueues, WorkWhileUp, AtWork, Resting, Actors
<1>2. to \in Place /\ Store[to] = disk[key[g]] /\ Store'[to] = disk'[key[g]] /\ g \in Things
  BY <1>1, StoreAt, StoreAtNext DEF Things
<1>3. disk' = [disk EXCEPT ![key[g]] = Append(@, g)] /\ UNCHANGED <<replayed, hand, input>>
  BY DEF WakeQueues, Enqueue
<1>4. \A p \in Place \ {to} : Store'[p] = Store[p]
  BY <1>3, StoreSame DEF QueueInv, TypeOK
<1>5. Store'[to] = Append(Store[to], g)
  BY <1>1, <1>2, <1>3 DEF QueueInv, TypeOK
<1>6. Gains(Store, Store', to, g)
  BY <1>4, <1>5 DEF Gains
<1>7. Fresh(g) /\ ~Fresh(g)' /\ \A h \in Signals : Fresh(h)' => Fresh(h)
  BY DEF QueueInv, TypeOK, Actors, Fresh, WakeQueues, Goto
<1> QED
  BY <1>2, <1>6, <1>7, GainsKeep

(* An Enter is no signal.                                                  *)
LEMMA EnterCopies ==
    ASSUME QueueInv, QueueInv', CopyInv, NEW a \in Actors, Enter(a)
    PROVE  CopyInv'
<1> DEFINE to == <<"input", mine[a]>>
<1>1. mine[a] \in Sessions
  BY DEF QueueInv, Enter, OwnSession
<1>2. /\ to \in Place /\ Store[to] = input[mine[a]] /\ Store'[to] = input'[mine[a]]
      /\ "enter" \in Things /\ "enter" \notin Signals
  BY <1>1, StoreAt, StoreAtNext, ActorsDistinct DEF Things
<1>3. /\ input' = [input EXCEPT ![mine[a]] = Append(@, "enter")]
      /\ UNCHANGED <<disk, replayed, hand>>
  BY DEF Enter, queueVars
<1>4. \A p \in Place \ {to} : Store'[p] = Store[p]
  BY <1>3, StoreSame DEF QueueInv, TypeOK
<1>5. Store'[to] = Append(Store[to], "enter")
  BY <1>1, <1>2, <1>3 DEF QueueInv, TypeOK
<1>6. Gains(Store, Store', to, "enter")
  BY <1>4, <1>5 DEF Gains
<1>7. \A h \in Signals : Fresh(h)' => Fresh(h)
  BY DEF QueueInv, TypeOK, Actors, Fresh, Enter, Goto
<1> QED
  BY <1>2, <1>6, <1>7, GainsKeep

(* A drain moves a file into its actor's hand, or passes it over.          *)
LEMMA DrainFileCopies ==
    ASSUME QueueInv, QueueInv', CopyInv, NEW a \in Actors, DrainFile(a)
    PROVE  CopyInv'
<1> DEFINE nr == left[key[a]] + 1
           from == <<"disk", key[a]>>
           to == <<"hand", a>>
<1>1. key[a] \in Keys
  BY DEF QueueInv, DrainFile, WorkWhileUp, AtWork, Resting
<1>2. /\ from \in Place /\ Store[from] = disk[key[a]] /\ Store'[from] = disk'[key[a]]
      /\ to \in Place /\ Store[to] = hand[a] /\ Store'[to] = hand'[a]
      /\ from # to
  BY <1>1, StoreAt, StoreAtNext
<1>3. UNCHANGED <<replayed, input, pc>> /\ nr \in 1 .. Len(disk[key[a]])
  BY <1>1, NextIsFile DEF DrainFile, QueueInv
<1>4. \A h \in Signals : Fresh(h)' => Fresh(h)
  BY <1>3 DEF Fresh
<1>5. CASE UNCHANGED <<disk, hand>>
  BY <1>3, <1>4, <1>5, StillKeeps
<1>6. CASE /\ disk' = [disk EXCEPT ![key[a]] = Without(@, nr)]
           /\ hand' = [hand EXCEPT ![a] = Append(@, disk[key[a]][nr])]
  <2>1. \A p \in Place \ {from, to} : Store'[p] = Store[p]
    BY <1>3, <1>6, StoreSame DEF QueueInv, TypeOK
  <2>2. /\ Store'[from] = Without(Store[from], nr)
        /\ Store'[to] = Append(Store[to], Store[from][nr])
    BY <1>1, <1>2, <1>6 DEF QueueInv, TypeOK
  <2> QED
    BY <1>2, <1>3, <1>4, <2>1, <2>2, MovesKeep
<1> QED
  BY <1>5, <1>6 DEF DrainFile, Remove, PassOver, NextFile

(* Typing moves a signal from the hand into the session.                   *)
LEMMA TypeCopies ==
    ASSUME QueueInv, QueueInv', CopyInv, NEW a \in Actors, Type(a)
    PROVE  CopyInv'
<1> DEFINE from == <<"hand", a>>
           to == <<"input", mine[a]>>
<1>1. mine[a] \in Sessions
  BY DEF QueueInv, Type, OwnSession
<1>2. /\ from \in Place /\ Store[from] = hand[a] /\ Store'[from] = hand'[a]
      /\ to \in Place /\ Store[to] = input[mine[a]] /\ Store'[to] = input'[mine[a]]
      /\ from # to
  BY <1>1, StoreAt, StoreAtNext
<1>3. /\ hand[a] # <<>>
      /\ hand' = [hand EXCEPT ![a] = Tail(@)]
      /\ input' = [input EXCEPT ![mine[a]] = Append(@, Head(hand[a]))]
      /\ UNCHANGED <<disk, replayed>>
  BY DEF Type, queueVars
<1>4. \A p \in Place \ {from, to} : Store'[p] = Store[p]
  BY <1>3, StoreSame DEF QueueInv, TypeOK
<1>5. /\ 1 \in 1 .. Len(Store[from])
      /\ Store'[from] = Without(Store[from], 1)
      /\ Store'[to] = Append(Store[to], Store[from][1])
  <2>1. hand[a] \in Seq(Signals)
    BY DEF QueueInv, TypeOK
  <2>2. /\ 1 \in 1 .. Len(hand[a]) /\ Head(hand[a]) = hand[a][1]
        /\ Tail(hand[a]) = Without(hand[a], 1)
    BY <1>3, <2>1, TailIsWithout
  <2>3. hand'[a] = Tail(hand[a]) /\ input'[mine[a]] = Append(input[mine[a]], Head(hand[a]))
    <3>1. DOMAIN hand = Actors /\ DOMAIN input = Sessions
      BY DEF QueueInv, TypeOK
    <3> QED
      BY <1>1, <1>3, <3>1
  <2> QED
    BY <1>2, <2>2, <2>3
<1>6. \A h \in Signals : Fresh(h)' => Fresh(h)
  BY DEF QueueInv, TypeOK, Actors, Fresh, Type, Goto
<1> QED
  BY <1>2, <1>4, <1>5, <1>6, MovesKeep

(* The replay moves a file into memory, or passes it over.                 *)
LEMMA ReplayFileCopies ==
    ASSUME QueueInv, QueueInv', CopyInv, NEW k \in Keys, ReplayFile(k)
    PROVE  CopyInv'
<1> DEFINE nr == left[k] + 1
           from == <<"disk", k>>
           to == <<"replayed", k>>
<1>2. /\ from \in Place /\ Store[from] = disk[k] /\ Store'[from] = disk'[k]
      /\ to \in Place /\ Store[to] = replayed[k] /\ Store'[to] = replayed'[k]
      /\ from # to
  BY StoreAt, StoreAtNext
<1>3. UNCHANGED <<hand, input, pc>> /\ nr \in 1 .. Len(disk[k])
  BY NextIsFile DEF ReplayFile, actorVars, QueueInv
<1>4. \A h \in Signals : Fresh(h)' => Fresh(h)
  BY <1>3 DEF Fresh
<1>5. CASE UNCHANGED <<disk, replayed>>
  BY <1>3, <1>4, <1>5, StillKeeps
<1>6. CASE /\ disk' = [disk EXCEPT ![k] = Without(@, nr)]
           /\ replayed' = [replayed EXCEPT ![k] = Append(@, disk[k][nr])]
  <2>1. \A p \in Place \ {from, to} : Store'[p] = Store[p]
    BY <1>3, <1>6, StoreSame DEF QueueInv, TypeOK
  <2>2. /\ Store'[from] = Without(Store[from], nr)
        /\ Store'[to] = Append(Store[to], Store[from][nr])
    BY <1>2, <1>6 DEF QueueInv, TypeOK
  <2> QED
    BY <1>2, <1>3, <1>4, <2>1, <2>2, MovesKeep
<1> QED
  BY <1>5, <1>6 DEF ReplayFile, Remove, PassOver, NextFile

(* Enqueueing again moves one back to the files, or loses it.              *)
LEMMA RequeueCopies ==
    ASSUME QueueInv, QueueInv', CopyInv, NEW k \in Keys, Requeue(k)
    PROVE  CopyInv'
<1> DEFINE from == <<"replayed", k>>
           to == <<"disk", k>>
<1>2. /\ from \in Place /\ Store[from] = replayed[k] /\ Store'[from] = replayed'[k]
      /\ to \in Place /\ Store[to] = disk[k] /\ Store'[to] = disk'[k]
      /\ from # to
  BY StoreAt, StoreAtNext
<1>3. /\ replayed[k] # <<>>
      /\ replayed' = [replayed EXCEPT ![k] = Tail(@)]
      /\ UNCHANGED <<hand, input, pc>>
  BY DEF Requeue, actorVars
<1>4. Store'[from] = Tail(Store[from])
  BY <1>2, <1>3 DEF QueueInv, TypeOK
<1>5. \A h \in Signals : Fresh(h)' => Fresh(h)
  BY <1>3 DEF Fresh
<1>6. CASE Enqueue(Head(replayed[k]), k)
  <2>1. disk' = [disk EXCEPT ![k] = Append(@, Head(replayed[k]))]
    BY <1>6 DEF Enqueue
  <2>2. \A p \in Place \ {from, to} : Store'[p] = Store[p]
    BY <1>3, <2>1, StoreSame DEF QueueInv, TypeOK
  <2>3. /\ 1 \in 1 .. Len(Store[from])
        /\ Store'[from] = Without(Store[from], 1)
        /\ Store'[to] = Append(Store[to], Store[from][1])
    <3>1. /\ 1 \in 1 .. Len(replayed[k]) /\ Head(replayed[k]) = replayed[k][1]
          /\ Tail(replayed[k]) = Without(replayed[k], 1)
      BY <1>3, TailIsWithout DEF QueueInv, TypeOK
    <3>2. disk'[k] = Append(disk[k], Head(replayed[k]))
      BY <2>1 DEF QueueInv, TypeOK
    <3> QED
      BY <1>2, <1>4, <3>1, <3>2
  <2> QED
    BY <1>2, <1>5, <2>2, <2>3, MovesKeep
<1>7. CASE UNCHANGED <<disk, counter>>
  <2>1. \A p \in Place \ {from} : Store'[p] = Store[p]
    BY <1>3, <1>7, StoreSame DEF QueueInv, TypeOK
  <2>2. Less(Store, Store')
    BY <1>2, <1>3, <1>4, <2>1 DEF Less
  <2> QED
    BY <1>5, <2>2, LossesKeep
<1> QED
  BY <1>6, <1>7 DEF Requeue

(* A crash loses what was in memory.                                       *)
LEMMA CrashCopies ==
    ASSUME QueueInv, QueueInv', CopyInv, Crash
    PROVE  CopyInv'
<1> DEFINE lost == ({"replayed"} \X Keys) \cup ({"hand"} \X Actors)
<1>1. /\ \A k \in Keys : replayed'[k] = <<>>
      /\ \A a \in Actors : hand'[a] = <<>>
      /\ UNCHANGED <<disk, input>>
  BY DEF Crash
<1>2. \A p \in Place \ lost : Store'[p] = Store[p]
  BY <1>1, StoreSame
<1>3. ASSUME NEW p \in lost PROVE Store'[p] = <<>>
  <2>1. CASE p \in {"replayed"} \X Keys
    <3>1. PICK k \in Keys : p = <<"replayed", k>>
      BY <2>1
    <3>2. Store'[<<"replayed", k>>] = replayed'[k]
      BY StoreAtNext
    <3> QED
      BY <1>1, <3>1, <3>2
  <2>2. CASE p \in {"hand"} \X Actors
    <3>1. PICK a \in Actors : p = <<"hand", a>>
      BY <2>2
    <3>2. Store'[<<"hand", a>>] = hand'[a]
      BY StoreAtNext
    <3> QED
      BY <1>1, <3>1, <3>2
  <2> QED
    BY <1>3, <2>1, <2>2
<1>4. Less(Store, Store')
  BY <1>2, <1>3 DEF Less
<1>5. \A h \in Signals : Fresh(h)' => Fresh(h)
  BY DEF QueueInv, TypeOK, Actors, Fresh, Crash, Resting
<1> QED
  BY <1>4, <1>5, LossesKeep

-----------------------------------------------------------------------------
(* The theorem. *)

(* At first there is nothing anywhere.                                     *)
LEMMA InitCopies == Init => CopyInv
<1> SUFFICES ASSUME Init PROVE CopyInv
  OBVIOUS
<1>1. ASSUME NEW p \in Place PROVE Store[p] = <<>>
  <2>1. /\ \A k \in Keys : disk[k] = <<>> /\ replayed[k] = <<>>
        /\ \A a \in Actors : hand[a] = <<>>
        /\ \A s \in Sessions : input[s] = <<>>
    BY DEF Init
  <2>2. CASE \E k \in Keys : p = <<"disk", k>> \/ p = <<"replayed", k>>
    <3>1. PICK k \in Keys : p = <<"disk", k>> \/ p = <<"replayed", k>>
      BY <2>2
    <3>2. CASE p = <<"disk", k>>
      BY <2>1, <3>2, StoreAt
    <3>3. CASE p = <<"replayed", k>>
      BY <2>1, <3>3, StoreAt
    <3> QED
      BY <3>1, <3>2, <3>3
  <2>3. CASE \E a \in Actors : p = <<"hand", a>>
    BY <2>1, <2>3, StoreAt
  <2>4. CASE \E s \in Sessions : p = <<"input", s>>
    BY <2>1, <2>4, StoreAt
  <2> QED
    BY <2>2, <2>3, <2>4, StoreAt
<1> QED
  BY <1>1, StoreAt DEF CopyInv, Single, Absent, Has

(* Every step keeps signals single.                                        *)
LEMMA NextCopies == QueueInv /\ QueueInv' /\ CopyInv /\ [Next]_vars => CopyInv'
<1> SUFFICES ASSUME QueueInv, QueueInv', CopyInv, [Next]_vars PROVE CopyInv'
  OBVIOUS
<1>1. ASSUME NEW a \in Actors, Spawning(a) PROVE CopyInv'
  BY <1>1, SpawnerStill, DrainFileCopies, TypeCopies, EnterCopies DEF Spawning
<1>2. ASSUME NEW g \in Signals, Sending(g) PROVE CopyInv'
  BY <1>1, <1>2, SenderStill, InjectCopies, WakeQueuesCopies DEF Sending, Actors
<1>3. ASSUME NEW g \in Signals, NEW k \in Keys, Send(g, k) PROVE CopyInv'
  BY <1>3, SenderStill
<1>4. ASSUME NEW a \in Spawners, NEW k \in Keys, Request(a, k) PROVE CopyInv'
  BY <1>4, SpawnerStill DEF Actors
<1>5. ASSUME NEW k \in Keys, SessionEnds(k) PROVE CopyInv'
  BY <1>5, DaemonStill
<1>6. CASE Crash
  BY <1>6, CrashCopies
<1>7. CASE Booting
  BY <1>7, DaemonStill, ReplayFileCopies, RequeueCopies DEF Booting
<1>8. CASE UNCHANGED vars
  BY <1>8, StillKeeps DEF Fresh, vars, queueVars, actorVars
<1> QED
  BY <1>1, <1>2, <1>3, <1>4, <1>5, <1>6, <1>7, <1>8 DEF Next, Actors

(* Two copies would be in two places, or twice in one.                     *)
LEMMA CopiesSingle ==
    ASSUME TypeOK, NEW g \in Signals, Single(Store, g)
    PROVE  Cardinality(Copies(g)) <= 1
<1>1. ASSUME NEW c \in Copies(g)
      PROVE  \E p \in Place : \E i \in DOMAIN Store[p] :
                Store[p][i] = g /\ c = <<p[1], p[2], i>>
  <2>1. \/ \E k \in Keys : \E i \in DOMAIN disk[k] :
              disk[k][i] = g /\ c = <<"disk", k, i>>
        \/ \E k \in Keys : \E i \in DOMAIN replayed[k] :
              replayed[k][i] = g /\ c = <<"replayed", k, i>>
        \/ \E a \in Actors : \E i \in DOMAIN hand[a] :
              hand[a][i] = g /\ c = <<"hand", a, i>>
        \/ \E s \in Sessions : \E i \in DOMAIN input[s] :
              input[s][i] = g /\ c = <<"input", s, i>>
    BY DEF Copies, TypeOK
  <2>2. ASSUME NEW k \in Keys, NEW i \in DOMAIN disk[k],
               disk[k][i] = g, c = <<"disk", k, i>>
        PROVE  \E p \in Place : \E j \in DOMAIN Store[p] :
                  Store[p][j] = g /\ c = <<p[1], p[2], j>>
    <3> <<"disk", k>> \in Place
      BY StoreAt
    <3> WITNESS <<"disk", k>> \in Place
    <3> QED
      BY <2>2, StoreAt
  <2>3. ASSUME NEW k \in Keys, NEW i \in DOMAIN replayed[k],
               replayed[k][i] = g, c = <<"replayed", k, i>>
        PROVE  \E p \in Place : \E j \in DOMAIN Store[p] :
                  Store[p][j] = g /\ c = <<p[1], p[2], j>>
    <3> <<"replayed", k>> \in Place
      BY StoreAt
    <3> WITNESS <<"replayed", k>> \in Place
    <3> QED
      BY <2>3, StoreAt
  <2>4. ASSUME NEW a \in Actors, NEW i \in DOMAIN hand[a],
               hand[a][i] = g, c = <<"hand", a, i>>
        PROVE  \E p \in Place : \E j \in DOMAIN Store[p] :
                  Store[p][j] = g /\ c = <<p[1], p[2], j>>
    <3> <<"hand", a>> \in Place
      BY StoreAt
    <3> WITNESS <<"hand", a>> \in Place
    <3> QED
      BY <2>4, StoreAt
  <2>5. ASSUME NEW s \in Sessions, NEW i \in DOMAIN input[s],
               input[s][i] = g, c = <<"input", s, i>>
        PROVE  \E p \in Place : \E j \in DOMAIN Store[p] :
                  Store[p][j] = g /\ c = <<p[1], p[2], j>>
    <3> <<"input", s>> \in Place
      BY StoreAt
    <3> WITNESS <<"input", s>> \in Place
    <3> QED
      BY <2>5, StoreAt
  <2> QED
    BY <2>1, <2>2, <2>3, <2>4, <2>5
<1>2. \A c, d \in Copies(g) : c = d
  BY <1>1, StoreAt DEF Single
<1>3. CASE Copies(g) = {}
  BY <1>3, FS_EmptySet
<1>4. CASE Copies(g) # {}
  <2>1. PICK c : Copies(g) = {c}
    BY <1>2, <1>4
  <2> QED
    BY <2>1, FS_Singleton
<1> QED
  BY <1>3, <1>4

(* Across retries, drains, replays and crashes there is at most one copy   *)
(* of a signal in files, in memory and in what was typed.                  *)
THEOREM QueueOneCopy == Spec => []OneCopy
<1>1. Init => CopyInv
  BY InitCopies
<1>2. QueueInv /\ QueueInv' /\ CopyInv /\ [Next]_vars => CopyInv'
  BY NextCopies
<1>3. QueueInv /\ CopyInv => OneCopy
  BY CopiesSingle DEF QueueInv, CopyInv, OneCopy
<1> QED
  BY <1>1, <1>2, <1>3, QueueInvariance, PTL DEF Spec

-----------------------------------------------------------------------------
(* The order of acceptance. *)

(* x was accepted before y, if both were.                                  *)
Earlier(acc, x, y) ==
    \A m, n \in DOMAIN acc : acc[m] = x /\ acc[n] = y => m < n

(* Or a replay has passed x over.                                          *)
Before(acc, over, x, y) == x \in over \/ Earlier(acc, x, y)

Sorted(acc, over, q) == \A i, j \in DOMAIN q : i < j => Before(acc, over, q[i], q[j])

(* What is in p comes before what is in q, after the first n of them.      *)
AheadOf(acc, over, p, q, n) ==
    \A i \in DOMAIN p, j \in DOMAIN q : j > n => Before(acc, over, p[i], q[j])

Ahead(acc, over, p, q) == \A i \in DOMAIN p, j \in DOMAIN q : Before(acc, over, p[i], q[j])

Unaccepted(acc, q) == \A i \in DOMAIN q : ~Has(acc, q[i])

(* Whoever has a session types into it; all but the one that injects have  *)
(* spawned theirs.                                                         *)
Seated == {"drain", "draining", "type", "enter"}

Drains(a) == pc[a] \in Seated /\ injectLock # a

BornOnly ==
    /\ \A k \in Keys : slot[k] \in born \cup {NoSession}
    /\ \A a \in Actors : pc[a] \in Seated => mine[a] \in born
    /\ \A s \in Sessions \ born : input[s] = <<>>

OneDrainer ==
    \A a, b \in Actors : Drains(a) /\ Drains(b) /\ mine[a] = mine[b] => a = b

(* What is injected is never queued.                                       *)
Injected ==
    /\ \A g \in Signals : Fresh(g) => ~Has(accepted, g)
    /\ \A a \in Actors : injectLock = a =>
          pc[a] \in {"type", "enter"} /\ Unaccepted(accepted, hand[a])
    /\ \A a \in Actors : pc[a] \notin {"draining", "type", "enter"} => hand[a] = <<>>

(* Files, hands and inputs are in order, and what comes from one goes      *)
(* behind what is in the other, but for the files that are passed over.    *)
FilesSorted ==
    \A k \in Keys :
        /\ Sorted(accepted, overtaken, disk[k]) /\ Sorted(accepted, overtaken, replayed[k])
        /\ phase = "replaying" =>
             /\ AheadOf(accepted, overtaken, replayed[k], disk[k], left[k])
             /\ \A i \in DOMAIN disk[k] : i <= left[k] => disk[k][i] \in overtaken
        /\ phase = "requeueing" => Ahead(accepted, overtaken, disk[k], replayed[k])
        /\ phase = "down" => replayed[k] = <<>> /\ left[k] = 0

HandsSorted ==
    \A a \in Actors :
        /\ Sorted(accepted, overtaken, hand[a])
        /\ pc[a] = "draining" =>
             AheadOf(accepted, overtaken, hand[a], disk[key[a]], left[key[a]])
        /\ pc[a] \in {"type", "enter"} => Ahead(accepted, overtaken, input[mine[a]], hand[a])
        /\ pc[a] \in {"drain", "draining"} => Unaccepted(accepted, input[mine[a]])

InputsSorted == \A s \in Sessions : Sorted(accepted, overtaken, input[s])

OrderInv ==
    /\ BornOnly /\ OneDrainer /\ Injected
    /\ FilesSorted /\ HandsSorted /\ InputsSorted

(* Nothing comes before or after the empty sequence, nor anything that was *)
(* not accepted.                                                           *)
LEMMA Unordered ==
    ASSUME NEW acc, NEW over, NEW p, NEW q
    PROVE  /\ p = <<>> => Sorted(acc, over, p) /\ Unaccepted(acc, p)
           /\ p = <<>> \/ q = <<>> => Ahead(acc, over, p, q)
           /\ \A n : p = <<>> => AheadOf(acc, over, p, q, n)
           /\ Unaccepted(acc, p) => Sorted(acc, over, p)
           /\ Unaccepted(acc, p) \/ Unaccepted(acc, q) => Ahead(acc, over, p, q)
<1>1. /\ Unaccepted(acc, p) => Sorted(acc, over, p)
      /\ Unaccepted(acc, p) \/ Unaccepted(acc, q) => Ahead(acc, over, p, q)
  BY DEF Unaccepted, Sorted, Ahead, Before, Earlier, Has
<1>2. \A r : r = <<>> => Unaccepted(acc, r)
  BY DEF Unaccepted
<1>3. \A n : p = <<>> => AheadOf(acc, over, p, q, n)
  BY DEF AheadOf
<1> QED
  BY <1>1, <1>2, <1>3

(* One that is taken from the head is the first of its sequence.           *)
LEMMA OrderTaken ==
    ASSUME NEW acc, NEW over, NEW T, NEW q \in Seq(T), q # <<>>, NEW p
    PROVE  /\ Sorted(acc, over, q) => Sorted(acc, over, Tail(q)) /\ Ahead(acc, over, <<Head(q)>>, Tail(q))
           /\ Ahead(acc, over, p, q) => Ahead(acc, over, p, Tail(q)) /\ Ahead(acc, over, p, <<Head(q)>>)
           /\ Ahead(acc, over, q, p) => Ahead(acc, over, Tail(q), p) /\ Ahead(acc, over, <<Head(q)>>, p)
           /\ Unaccepted(acc, q) => Unaccepted(acc, Tail(q)) /\ ~Has(acc, Head(q))
<1>1. /\ \A i \in DOMAIN Tail(q) : i \in Nat \ {0} /\ i + 1 \in DOMAIN q /\ Tail(q)[i] = q[i + 1]
      /\ 1 \in DOMAIN q /\ q[1] = Head(q)
      /\ DOMAIN <<Head(q)>> = {1} /\ <<Head(q)>>[1] = Head(q)
  OBVIOUS
<1>2. Sorted(acc, over, q) => Sorted(acc, over, Tail(q)) /\ Ahead(acc, over, <<Head(q)>>, Tail(q))
  BY <1>1 DEF Sorted, Ahead
<1>3. Ahead(acc, over, p, q) => Ahead(acc, over, p, Tail(q)) /\ Ahead(acc, over, p, <<Head(q)>>)
  BY <1>1 DEF Ahead
<1>4. Ahead(acc, over, q, p) => Ahead(acc, over, Tail(q), p) /\ Ahead(acc, over, <<Head(q)>>, p)
  BY <1>1 DEF Ahead
<1>5. Unaccepted(acc, q) => Unaccepted(acc, Tail(q)) /\ ~Has(acc, Head(q))
  BY <1>1 DEF Unaccepted
<1> QED
  BY <1>2, <1>3, <1>4, <1>5

(* Nor is one that is taken behind the first n before any but those.       *)
LEMMA OrderPicked ==
    ASSUME NEW acc, NEW over, NEW T, NEW q \in Seq(T), NEW n \in Nat, n + 1 \in 1 .. Len(q),
           NEW p
    PROVE  /\ Sorted(acc, over, q) => /\ Sorted(acc, over, Without(q, n + 1))
                                     /\ AheadOf(acc, over, <<q[n + 1]>>, Without(q, n + 1), n)
           /\ AheadOf(acc, over, p, q, n) => /\ AheadOf(acc, over, p, Without(q, n + 1), n)
                                            /\ Ahead(acc, over, p, <<q[n + 1]>>)
                                            /\ AheadOf(acc, over, p, q, n + 1)
<1> DEFINE w == Without(q, n + 1)
           Ix(i) == IF i < n + 1 THEN i ELSE i + 1
<1>1. /\ Len(q) \in Nat /\ DOMAIN q = 1 .. Len(q) /\ DOMAIN w = 1 .. (Len(q) - 1)
      /\ \A i \in 1 .. (Len(q) - 1) : w[i] = IF i < n + 1 THEN q[i] ELSE q[i + 1]
  <2> DEFINE m == n + 1
  <2>1. m \in 1 .. Len(q) /\ Len(q) \in Nat /\ DOMAIN q = 1 .. Len(q)
    OBVIOUS
  <2> HIDE DEF m
  <2>2. /\ DOMAIN Without(q, m) = 1 .. (Len(q) - 1)
        /\ \A i \in 1 .. (Len(q) - 1) : Without(q, m)[i] = IF i < m THEN q[i] ELSE q[i + 1]
    BY <2>1, WithoutOne
  <2> QED
    BY <2>1, <2>2 DEF m
<1>2. \A i \in DOMAIN w : Ix(i) \in DOMAIN q /\ w[i] = q[Ix(i)]
  BY <1>1
<1>3. /\ \A i, j \in DOMAIN w : i < j => Ix(i) < Ix(j)
      /\ \A i \in DOMAIN w : i > n => Ix(i) > n + 1
  BY <1>1
<1>4. DOMAIN <<q[n + 1]>> = {1} /\ <<q[n + 1]>>[1] = q[n + 1] /\ n + 1 > n
  OBVIOUS
<1>5. \A i \in DOMAIN q : i > n + 1 => n + 1 < i /\ i > n
  BY <1>1
<1>6. n + 1 \in DOMAIN q
  BY <1>1
<1> HIDE DEF w, Ix
<1>7. Sorted(acc, over, q) => Sorted(acc, over, w)
  BY <1>2, <1>3 DEF Sorted
<1>8. Sorted(acc, over, q) => AheadOf(acc, over, <<q[n + 1]>>, w, n)
  BY <1>2, <1>3, <1>4, <1>5, <1>6 DEF Sorted, AheadOf
<1>9. AheadOf(acc, over, p, q, n) => AheadOf(acc, over, p, w, n)
  BY <1>2, <1>3, <1>5 DEF AheadOf
<1>10. AheadOf(acc, over, p, q, n) =>
         Ahead(acc, over, p, <<q[n + 1]>>) /\ AheadOf(acc, over, p, q, n + 1)
  BY <1>4, <1>5, <1>6 DEF AheadOf, Ahead
<1> QED
  BY <1>7, <1>8, <1>9, <1>10 DEF w

(* The more are passed over, the more is in order.                         *)
LEMMA OrderWider ==
    ASSUME NEW acc, NEW over, NEW wider, over \subseteq wider, NEW p, NEW q, NEW n
    PROVE  /\ Sorted(acc, over, q) => Sorted(acc, wider, q)
           /\ Ahead(acc, over, p, q) => Ahead(acc, wider, p, q)
           /\ AheadOf(acc, over, p, q, n) => AheadOf(acc, wider, p, q, n)
<1>1. \A x, y : Before(acc, over, x, y) => Before(acc, wider, x, y)
  BY DEF Before
<1> QED
  BY <1>1 DEF Sorted, Ahead, AheadOf

(* One that is appended is the last.                                       *)
LEMMA OrderAppended ==
    ASSUME NEW acc, NEW over, NEW T, NEW q \in Seq(T), NEW x \in T, NEW p
    PROVE  /\ Sorted(acc, over, q) /\ Ahead(acc, over, q, <<x>>) => Sorted(acc, over, Append(q, x))
           /\ Ahead(acc, over, p, q) /\ Ahead(acc, over, p, <<x>>) => Ahead(acc, over, p, Append(q, x))
           /\ Ahead(acc, over, q, p) /\ Ahead(acc, over, <<x>>, p) => Ahead(acc, over, Append(q, x), p)
           /\ \A n : AheadOf(acc, over, q, p, n) /\ AheadOf(acc, over, <<x>>, p, n)
                     => AheadOf(acc, over, Append(q, x), p, n)
           /\ Unaccepted(acc, q) /\ ~Has(acc, x) => Unaccepted(acc, Append(q, x))
<1>1. /\ Len(q) \in Nat /\ DOMAIN q = 1 .. Len(q)
      /\ DOMAIN Append(q, x) = 1 .. Len(q) + 1
      /\ \A i \in 1 .. Len(q) : Append(q, x)[i] = q[i]
      /\ Append(q, x)[Len(q) + 1] = x
  BY AppendItems
<1>0. \A i \in DOMAIN Append(q, x) : i \in DOMAIN q \/ i = Len(q) + 1
  BY <1>1
<1>s. DOMAIN <<x>> = {1} /\ <<x>>[1] = x
  OBVIOUS
<1>2. Sorted(acc, over, q) /\ Ahead(acc, over, q, <<x>>) => Sorted(acc, over, Append(q, x))
  BY <1>0, <1>1, <1>s DEF Sorted, Ahead
<1>3. Ahead(acc, over, p, q) /\ Ahead(acc, over, p, <<x>>) => Ahead(acc, over, p, Append(q, x))
  BY <1>0, <1>1, <1>s DEF Ahead
<1>4. Ahead(acc, over, q, p) /\ Ahead(acc, over, <<x>>, p) => Ahead(acc, over, Append(q, x), p)
  BY <1>0, <1>1, <1>s DEF Ahead
<1>5. Unaccepted(acc, q) /\ ~Has(acc, x) => Unaccepted(acc, Append(q, x))
  BY <1>0, <1>1 DEF Unaccepted
<1>6. \A n : AheadOf(acc, over, q, p, n) /\ AheadOf(acc, over, <<x>>, p, n)
             => AheadOf(acc, over, Append(q, x), p, n)
  BY <1>0, <1>1, <1>s DEF AheadOf
<1> QED
  BY <1>2, <1>3, <1>4, <1>5, <1>6

(* What was nowhere is accepted after all that is somewhere.               *)
LEMMA OrderGrows ==
    ASSUME NEW acc \in Seq(Signals), NEW over, NEW g \in Signals, ~Has(acc, g),
           NEW p, ~Has(p, g), NEW q
    PROVE  /\ Sorted(acc, over, p) => Sorted(Append(acc, g), over, p)
           /\ Ahead(acc, over, p, q) => Ahead(Append(acc, g), over, p, q)
           /\ Ahead(Append(acc, g), over, p, <<g>>)
           /\ Unaccepted(acc, p) => Unaccepted(Append(acc, g), p)
           /\ \A h : h # g /\ ~Has(acc, h) => ~Has(Append(acc, g), h)
<1>1. /\ Len(acc) \in Nat /\ DOMAIN acc = 1 .. Len(acc)
      /\ DOMAIN Append(acc, g) = 1 .. Len(acc) + 1
      /\ \A i \in 1 .. Len(acc) : Append(acc, g)[i] = acc[i]
      /\ Append(acc, g)[Len(acc) + 1] = g
  BY AppendItems
<1>0. \A m \in DOMAIN Append(acc, g) :
         \/ m \in DOMAIN acc /\ Append(acc, g)[m] = acc[m]
         \/ m = Len(acc) + 1 /\ Append(acc, g)[m] = g
  BY <1>1
<1>2. ASSUME NEW x, NEW y, x # g, Before(acc, over, x, y) \/ y = g
      PROVE  Before(Append(acc, g), over, x, y)
  <2> SUFFICES ASSUME NEW m \in DOMAIN Append(acc, g), NEW n \in DOMAIN Append(acc, g),
                      Append(acc, g)[m] = x, Append(acc, g)[n] = y, x \notin over
               PROVE  m < n
    BY DEF Before, Earlier
  <2>1. m \in DOMAIN acc /\ acc[m] = x
    BY <1>0, <1>2
  <2>2. CASE n = Len(acc) + 1
    BY <1>1, <2>1, <2>2
  <2>3. CASE n \in DOMAIN acc /\ acc[n] = y
    BY <1>2, <2>1, <2>3 DEF Before, Earlier, Has
  <2> QED
    BY <1>0, <2>2, <2>3
<1>3. \A h : h # g /\ ~Has(acc, h) => ~Has(Append(acc, g), h)
  BY <1>0 DEF Has
<1>4. \A i \in DOMAIN p : p[i] # g
  BY DEF Has
<1>5. DOMAIN <<g>> = {1} /\ <<g>>[1] = g
  OBVIOUS
<1>6. Sorted(acc, over, p) => Sorted(Append(acc, g), over, p)
  BY <1>2, <1>4 DEF Sorted
<1>7. Ahead(acc, over, p, q) => Ahead(Append(acc, g), over, p, q)
  BY <1>2, <1>4 DEF Ahead
<1>8. Ahead(Append(acc, g), over, p, <<g>>)
  BY <1>2, <1>4, <1>5 DEF Ahead
<1>9. Unaccepted(acc, p) => Unaccepted(Append(acc, g), p)
  BY <1>3, <1>4 DEF Unaccepted
<1> QED
  BY <1>3, <1>6, <1>7, <1>8, <1>9

-----------------------------------------------------------------------------
(* The steps that put nothing anywhere. *)

(* What is in order stays so while nothing is moved or accepted.           *)
LEMMA FilesStill ==
    ASSUME OrderInv, UNCHANGED <<disk, left, replayed, accepted, overtaken, phase>>
    PROVE  FilesSorted'
  BY DEF OrderInv, FilesSorted

(* Neither do inputs.                                                      *)
LEMMA InputsStill ==
    ASSUME OrderInv, UNCHANGED <<input, accepted, overtaken>>
    PROVE  InputsSorted'
  BY DEF OrderInv, InputsSorted

(* An actor without a session, before and after or after only.             *)
LEMMA UnseatedOrder ==
    ASSUME QueueInv, QueueInv', OrderInv, NEW a \in Actors,
           UNCHANGED <<phase, disk, left, replayed, accepted, overtaken, hand, input, slot, born>>,
           \A b \in Actors \ {a} : pc'[b] = pc[b] /\ mine'[b] = mine[b] /\ key'[b] = key[b],
           pc'[a] \notin Seated, hand[a] = <<>>,
           a \in Signals => (Fresh(a)' => Fresh(a)),
           injectLock' = IF injectLock = a THEN Nobody ELSE injectLock
    PROVE  OrderInv'
<1>1. BornOnly'
  BY DEF OrderInv, BornOnly
<1>2. \A b \in Actors : Drains(b)' => b # a /\ Drains(b) /\ mine'[b] = mine[b]
  BY DEF Drains
<1>3. OneDrainer'
  BY <1>2 DEF OrderInv, OneDrainer
<1>4. Injected'
  <2>1. \A g \in Signals : Fresh(g)' => Fresh(g)
    BY DEF Fresh, Actors
  <2>2. \A b \in Actors : injectLock' = b => b # a /\ injectLock = b
    BY ActorsDistinct
  <2> QED
    BY <2>1, <2>2 DEF OrderInv, Injected, Seated
<1>5. HandsSorted'
  BY DEF OrderInv, HandsSorted, Seated
<1> QED
  BY <1>1, <1>3, <1>4, <1>5, FilesStill, InputsStill DEF OrderInv

(* The steps of a sender or spawner that has no session, and the last one. *)
LEMMA WaitingOrder ==
    ASSUME QueueInv, QueueInv', OrderInv, NEW a \in Actors,
           \/ a \in Signals /\ \/ \E k \in Keys : Send(a, k)
                               \/ Probe(a) \/ WakeRefuses(a) \/ Launch(a)
           \/ a \in Spawners /\ \E k \in Keys : Request(a, k)
           \/ Lookup(a) \/ SpawnFails(a) \/ Finish(a)
    PROVE  OrderInv'
<1>1. /\ UNCHANGED <<phase, disk, left, replayed, accepted, overtaken, hand, input, slot, born>>
      /\ injectLock' = injectLock \/ injectLock' = IF injectLock = a THEN Nobody ELSE injectLock
  BY DEF Send, Probe, WakeRefuses, Launch, Request, Lookup, SpawnFails, Finish, Return,
     daemonVars, sessVars, queueVars, lockVars
<1>2. \A b \in Actors \ {a} : pc'[b] = pc[b] /\ mine'[b] = mine[b] /\ key'[b] = key[b]
  <2>1. CASE \E k \in Keys : Send(a, k) \/ Request(a, k)
    BY <2>1 DEF Send, Request, Goto, QueueInv, TypeOK
  <2>2. CASE Probe(a) \/ WakeRefuses(a) \/ Launch(a)
    BY <2>2 DEF Probe, WakeRefuses, Launch, Return, Goto, QueueInv, TypeOK
  <2>3. CASE Lookup(a) \/ SpawnFails(a) \/ Finish(a)
    BY <2>3 DEF Lookup, SpawnFails, Finish, Return, Goto, QueueInv, TypeOK
  <2> QED
    BY <2>1, <2>2, <2>3
<1>3. /\ pc[a] \in {"unsent", "idle", "probe", "wake", "launch", "lookup", "spawn", "type"}
      /\ pc[a] = "type" => hand[a] = <<>> /\ Finish(a)
      /\ pc'[a] \notin Seated
      /\ a \in Signals => (Fresh(a)' => Fresh(a))
  <2>1. /\ pc[a] \in {"unsent", "idle", "probe", "wake", "launch", "lookup", "spawn", "type"}
        /\ pc[a] = "type" => hand[a] = <<>> /\ Finish(a)
    BY DEF Send, Probe, WakeRefuses, Launch, Request, Lookup, SpawnFails, Finish
  <2>2. \/ /\ pc'[a] \in {"probe", "wake", "inject"}
           /\ pc[a] \in {"unsent", "probe"}
        \/ pc'[a] \in {"refused", "sent", "idle", "lookup", "spawn"}
    <3>1. pc \in [Actors -> Pcs] /\ \A l : Goto(a, l) => pc'[a] = l
      BY DEF QueueInv, TypeOK, Goto
    <3>2. \E l \in {"sent", "idle"} : Return(a) => Goto(a, l)
      BY DEF Return
    <3>3. CASE \E k \in Keys : Send(a, k) \/ Request(a, k)
      BY <3>1, <3>3 DEF Send, Request
    <3>4. CASE Probe(a) \/ WakeRefuses(a) \/ Launch(a)
      BY <3>1, <3>2, <3>4 DEF Probe, WakeRefuses, Launch
    <3>5. CASE Lookup(a) \/ SpawnFails(a) \/ Finish(a)
      BY <3>1, <3>2, <3>5 DEF Lookup, SpawnFails, Finish
    <3> QED
      BY <3>3, <3>4, <3>5
  <2> QED
    BY <2>1, <2>2 DEF Seated, Fresh
<1>4. hand[a] = <<>>
  BY <1>3 DEF OrderInv, Injected
<1>5. injectLock' = IF injectLock = a THEN Nobody ELSE injectLock
  <2>1. CASE pc[a] = "type"
    BY <1>3, <2>1 DEF Finish, Return
  <2>2. CASE pc[a] # "type"
    BY <1>1, <1>3, <2>2 DEF OrderInv, Injected
  <2> QED
    BY <2>1, <2>2
<1> QED
  BY <1>1, <1>2, <1>3, <1>4, <1>5, UnseatedOrder

(* A session that is spawned is new: nobody types into it yet.             *)
LEMMA SpawnOrder ==
    ASSUME QueueInv, QueueInv', OrderInv, NEW a \in Actors, Spawn(a)
    PROVE  OrderInv'
<1>1. PICK s \in Sessions \ born :
        /\ born' = born \cup {s}
        /\ slot' = [slot EXCEPT ![key[a]] = s]
        /\ mine' = [mine EXCEPT ![a] = s]
  BY DEF Spawn
<1>2. /\ UNCHANGED <<phase, disk, left, replayed, accepted, overtaken, hand, input, injectLock, key>>
      /\ pc[a] = "spawn" /\ pc'[a] = "drain" /\ mine'[a] = s
      /\ \A b \in Actors \ {a} : pc'[b] = pc[b] /\ mine'[b] = mine[b]
  BY <1>1 DEF Spawn, Goto, daemonVars, queueVars, lockVars, QueueInv, TypeOK
<1>3. injectLock # a /\ input[s] = <<>>
  BY <1>1, <1>2 DEF OrderInv, Injected, BornOnly
<1>4. BornOnly'
  BY <1>1, <1>2 DEF OrderInv, BornOnly, QueueInv, TypeOK
<1>5. OneDrainer'
  BY <1>1, <1>2 DEF OrderInv, OneDrainer, BornOnly, Drains
<1>6. Injected'
  BY <1>2, <1>3 DEF OrderInv, Injected, Fresh, Actors
<1>7. HandsSorted'
  BY <1>2, <1>3, Unordered DEF OrderInv, HandsSorted
<1> QED
  BY <1>2, <1>4, <1>5, <1>6, <1>7, FilesStill, InputsStill DEF OrderInv

(* What a drain finds when it begins or ends: no file, or nothing typed.   *)
LEMMA DrainOrder ==
    ASSUME QueueInv, QueueInv', OrderInv, NEW a \in Actors, Drain(a) \/ DrainEnds(a)
    PROVE  OrderInv'
<1>1. /\ UNCHANGED <<phase, disk, replayed, accepted, overtaken, hand, input, slot, born, injectLock,
                     key, mine>>
      /\ pc[a] \in {"drain", "draining"} /\ pc'[a] \in {"draining", "type"}
      /\ pc[a] = "drain" \/ pc'[a] = "type"
      /\ \A b \in Actors \ {a} : pc'[b] = pc[b]
  BY DEF Drain, DrainEnds, Goto, daemonVars, sessVars, queueVars, lockVars, QueueInv, TypeOK
<1>b. \A b \in Actors \ {a} : pc[b] # "draining"
  BY DEF Drain, DrainEnds, QueueLocked, QueueInv, OneDrain
<1>f. FilesSorted'
  <2>1. phase = "up"
    BY <1>1 DEF QueueInv, WorkWhileUp, AtWork, Resting
  <2> QED
    BY <1>1, <2>1 DEF OrderInv, FilesSorted
<1>2. injectLock # a
  BY <1>1 DEF OrderInv, Injected
<1>3. BornOnly' /\ OneDrainer'
  BY <1>1 DEF OrderInv, BornOnly, OneDrainer, Drains, Seated
<1>4. Injected'
  BY <1>1, <1>2 DEF OrderInv, Injected, Fresh, Actors
<1>5. HandsSorted'
  <2>1. pc[a] = "drain" => hand[a] = <<>>
    BY DEF OrderInv, Injected
  <2>2. Unaccepted(accepted, input[mine[a]])
    BY <1>1 DEF OrderInv, HandsSorted
  <2> QED
    BY <1>1, <1>b, <2>1, <2>2, Unordered DEF OrderInv, HandsSorted
<1> QED
  BY <1>1, <1>f, <1>3, <1>4, <1>5, InputsStill DEF OrderInv

(* An injecting sender takes a session with a signal that is not accepted. *)
LEMMA InjectOrder ==
    ASSUME QueueInv, QueueInv', OrderInv, NEW g \in Signals, Inject(g)
    PROVE  OrderInv'
<1>0. g \in Actors /\ key[g] \in Keys /\ pc[g] = "inject" /\ injectLock = Nobody
  BY DEF QueueInv, Inject, WorkWhileUp, AtWork, Resting, Actors
<1>1. /\ ~Has(accepted, g) /\ hand[g] = <<>>
      /\ UNCHANGED <<phase, disk, left, replayed, accepted, overtaken, input, slot, born, key>>
  BY <1>0 DEF OrderInv, Injected, Fresh, Inject, daemonVars, sessVars, queueVars
<1>2. CASE slot[key[g]] = NoSession
  <2>1. pc' = [pc EXCEPT ![g] = "refused"] /\ UNCHANGED <<mine, hand, injectLock>>
    BY <1>2 DEF Inject, Goto
  <2>2. pc'[g] = "refused" /\ \A b \in Actors \ {g} : pc'[b] = pc[b]
    BY <1>0, <2>1 DEF QueueInv, TypeOK
  <2>3. injectLock' = IF injectLock = g THEN Nobody ELSE injectLock
    BY <1>0, <2>1
  <2> QED
    BY <1>0, <1>1, <2>1, <2>2, <2>3, UnseatedOrder DEF Fresh, Seated
<1>3. CASE slot[key[g]] # NoSession
  <2>1. /\ mine' = [mine EXCEPT ![g] = slot[key[g]]]
        /\ hand' = [hand EXCEPT ![g] = <<g>>]
        /\ injectLock' = g
        /\ pc' = [pc EXCEPT ![g] = "type"]
    BY <1>3 DEF Inject, Goto
  <2>2. /\ pc'[g] = "type" /\ mine'[g] \in born /\ hand'[g] = <<g>>
        /\ \A b \in Actors \ {g} : pc'[b] = pc[b] /\ mine'[b] = mine[b] /\ hand'[b] = hand[b]
    BY <1>0, <1>3, <2>1 DEF QueueInv, TypeOK, OrderInv, BornOnly
  <2>3. Unaccepted(accepted, hand'[g])
    BY <1>1, <2>2 DEF Unaccepted
  <2>4. BornOnly'
    BY <1>1, <2>1, <2>2 DEF OrderInv, BornOnly
  <2>5. \A b \in Actors : Drains(b)' => b # g /\ Drains(b)
    BY <1>0, <2>1, <2>2, ActorsDistinct DEF Drains
  <2>6. OneDrainer'
    BY <2>2, <2>5 DEF OrderInv, OneDrainer
  <2>7. Injected'
    BY <1>0, <1>1, <2>1, <2>2, <2>3 DEF OrderInv, Injected, Fresh, Actors
  <2>8. HandsSorted'
    BY <1>1, <2>2, <2>3, Unordered DEF OrderInv, HandsSorted
  <2> QED
    BY <1>1, <2>4, <2>6, <2>7, <2>8, FilesStill, InputsStill DEF OrderInv
<1> QED
  BY <1>2, <1>3

(* The end of a session, and the daemon's phases.                          *)
LEMMA PhaseOrder ==
    ASSUME QueueInv, QueueInv', OrderInv,
           (\E k \in Keys : SessionEnds(k)) \/ Restart \/ ReplayEnds \/ Serve
    PROVE  OrderInv'
<1>1. /\ UNCHANGED <<disk, replayed, accepted, overtaken, hand, input, born, injectLock, pc, key, mine>>
      /\ \A k \in Keys : slot'[k] \in {slot[k], NoSession}
  BY DEF SessionEnds, Restart, ReplayEnds, Serve, daemonVars, sessVars, queueVars, lockVars,
     actorVars, QueueInv, TypeOK
<1>2. BornOnly' /\ OneDrainer' /\ Injected'
  BY <1>1 DEF OrderInv, BornOnly, OneDrainer, Drains, Injected, Fresh
<1>4. HandsSorted'
  <2>1. UNCHANGED left \/ \A a \in Actors : pc[a] # "draining"
    BY DEF SessionEnds, Restart, ReplayEnds, Serve, queueVars, QueueInv, WorkWhileUp, AtWork,
       Resting
  <2> QED
    BY <1>1, <2>1 DEF OrderInv, HandsSorted
<1>3. FilesSorted'
  <2>1. CASE UNCHANGED <<phase, left>>
    BY <1>1, <2>1, FilesStill
  <2>2. CASE Restart
    <3>1. \A k \in Keys : replayed[k] = <<>> /\ left[k] = 0
      BY <2>2 DEF Restart, OrderInv, FilesSorted
    <3>2. \A k \in Keys : \A i \in DOMAIN disk[k] : ~(i <= 0)
      BY DEF QueueInv, TypeOK
    <3>3. UNCHANGED left /\ phase' = "replaying"
      BY <2>2 DEF Restart, queueVars
    <3> QED
      BY <1>1, <3>1, <3>2, <3>3, Unordered DEF OrderInv, FilesSorted
  <2>3. CASE ReplayEnds
    <3>1. phase = "replaying" /\ phase' = "requeueing" /\ \A k \in Keys : ~Unread(k)
      BY <2>3 DEF ReplayEnds
    <3>2. \A k \in Keys : \A i \in DOMAIN disk[k] : i <= left[k]
      BY <3>1 DEF Unread, QueueInv, TypeOK
    <3>3. \A k \in Keys : \A i \in DOMAIN disk[k] : disk[k][i] \in overtaken
      BY <3>1, <3>2 DEF OrderInv, FilesSorted
    <3>4. \A k \in Keys : Ahead(accepted, overtaken, disk[k], replayed[k])
      BY <3>3 DEF Ahead, Before
    <3> QED
      BY <1>1, <3>1, <3>4 DEF OrderInv, FilesSorted
  <2>4. CASE Serve
    BY <1>1, <2>4 DEF Serve, OrderInv, FilesSorted
  <2> QED
    BY <2>1, <2>2, <2>3, <2>4 DEF SessionEnds, daemonVars, queueVars
<1> QED
  BY <1>1, <1>2, <1>3, <1>4, InputsStill DEF OrderInv

-----------------------------------------------------------------------------
(* The steps that move signals. *)

(* A drain takes the next file behind what it has, or passes it over.      *)
LEMMA DrainFileOrder ==
    ASSUME QueueInv, QueueInv', OrderInv, NEW a \in Actors, DrainFile(a)
    PROVE  OrderInv'
<1> DEFINE k == key[a]
           n == left[k]
           x == disk[k][n + 1]
<1>1. /\ pc[a] = "draining" /\ k \in Keys /\ phase = "up" /\ Unread(k)
      /\ UNCHANGED <<phase, replayed, accepted, overtaken, input, slot, born, injectLock, pc,
                     key, mine>>
  BY DEF DrainFile, QueueInv, WorkWhileUp, AtWork, Resting, daemonVars, sessVars, lockVars
<1>2. /\ disk[k] \in Seq(Signals) /\ hand[a] \in Seq(Signals) /\ n \in Nat
      /\ n + 1 \in 1 .. Len(disk[k]) /\ x \in Signals
  BY <1>1, NextIsFile DEF QueueInv, TypeOK, NextFile
<1>3. \A b \in Actors \ {a} : pc[b] # "draining"
  BY <1>1 DEF QueueInv, OneDrain
<1>4. injectLock # a
  BY <1>1 DEF OrderInv, Injected
<1>5. BornOnly' /\ OneDrainer' /\ InputsSorted'
  BY <1>1 DEF OrderInv, BornOnly, OneDrainer, Drains, InputsSorted
<1>6. /\ Sorted(accepted, overtaken, disk[k]) /\ Sorted(accepted, overtaken, hand[a])
      /\ AheadOf(accepted, overtaken, hand[a], disk[k], n)
  BY <1>1 DEF OrderInv, FilesSorted, HandsSorted
<1>7. /\ Sorted(accepted, overtaken, Without(disk[k], n + 1))
      /\ AheadOf(accepted, overtaken, <<x>>, Without(disk[k], n + 1), n)
      /\ AheadOf(accepted, overtaken, hand[a], Without(disk[k], n + 1), n)
      /\ Ahead(accepted, overtaken, hand[a], <<x>>)
      /\ AheadOf(accepted, overtaken, hand[a], disk[k], n + 1)
  <2> HIDE DEF k, n
  <2> QED
    BY <1>2, <1>6, OrderPicked
<1>8. /\ Sorted(accepted, overtaken, Append(hand[a], x))
      /\ AheadOf(accepted, overtaken, Append(hand[a], x), Without(disk[k], n + 1), n)
  <2> HIDE DEF k, n, x
  <2> QED
    BY <1>2, <1>6, <1>7, OrderAppended
<1>9. CASE Remove(k) /\ hand' = [hand EXCEPT ![a] = Append(@, NextFile(k))]
  <2>1. /\ hand'[a] = Append(hand[a], x) /\ disk'[k] = Without(disk[k], n + 1)
        /\ \A b \in Actors \ {a} : hand'[b] = hand[b]
        /\ \A j \in Keys \ {k} : disk'[j] = disk[j]
        /\ left' = left
    BY <1>1, <1>9 DEF QueueInv, TypeOK, Remove, NextFile
  <2>2. Injected'
    BY <1>1, <1>4, <2>1 DEF OrderInv, Injected, Fresh
  <2>3. FilesSorted'
    BY <1>1, <1>7, <2>1 DEF OrderInv, FilesSorted
  <2>4. HandsSorted'
    <3>1. ASSUME NEW b \in Actors \ {a}
          PROVE  /\ Sorted(accepted, overtaken, hand[b])
                 /\ pc[b] \in {"type", "enter"} => Ahead(accepted, overtaken, input[mine[b]], hand[b])
                 /\ pc[b] \in {"drain", "draining"} => Unaccepted(accepted, input[mine[b]])
      BY DEF OrderInv, HandsSorted
    <3>2. /\ Sorted(accepted, overtaken, hand'[a])
          /\ AheadOf(accepted, overtaken, hand'[a], disk'[k], left'[k])
          /\ Unaccepted(accepted, input[mine[a]])
      BY <1>1, <1>8, <2>1 DEF OrderInv, HandsSorted
    <3> QED
      BY <1>1, <1>3, <2>1, <3>1, <3>2 DEF HandsSorted
  <2> QED
    BY <1>5, <2>2, <2>3, <2>4 DEF OrderInv
<1>10. CASE PassOver(k) /\ UNCHANGED hand
  <2>1. left'[k] = n + 1 /\ UNCHANGED <<disk, hand>>
    BY <1>1, <1>10 DEF QueueInv, TypeOK, PassOver
  <2>2. Injected' /\ FilesSorted'
    BY <1>1, <2>1 DEF OrderInv, Injected, Fresh, FilesSorted
  <2>3. HandsSorted'
    <3>1. ASSUME NEW b \in Actors \ {a}
          PROVE  /\ Sorted(accepted, overtaken, hand[b])
                 /\ pc[b] \in {"type", "enter"} => Ahead(accepted, overtaken, input[mine[b]], hand[b])
                 /\ pc[b] \in {"drain", "draining"} => Unaccepted(accepted, input[mine[b]])
      BY DEF OrderInv, HandsSorted
    <3>2. /\ Sorted(accepted, overtaken, hand[a])
          /\ AheadOf(accepted, overtaken, hand[a], disk[k], left'[k])
          /\ Unaccepted(accepted, input[mine[a]])
      BY <1>1, <1>6, <1>7, <2>1 DEF OrderInv, HandsSorted
    <3> QED
      BY <1>1, <1>3, <2>1, <3>1, <3>2 DEF HandsSorted
  <2> QED
    BY <1>5, <2>2, <2>3 DEF OrderInv
<1> QED
  BY <1>9, <1>10 DEF DrainFile

(* What goes into a session has gone in behind all that was accepted       *)
(* before it, and ahead of what others, who inject, have yet to type.      *)
LEMMA InputOrder ==
    ASSUME QueueInv, QueueInv', OrderInv, NEW a \in Actors, NEW x \in Things,
           pc[a] \in {"type", "enter"}, pc'[a] \in {"type", "enter"},
           input' = [input EXCEPT ![mine[a]] = Append(@, x)],
           Ahead(accepted, overtaken, input[mine[a]], <<x>>), Ahead(accepted, overtaken, <<x>>, hand'[a]),
           Ahead(accepted, overtaken, input[mine[a]], hand'[a]), Sorted(accepted, overtaken, hand'[a]),
           injectLock = a => ~Has(accepted, x) /\ Unaccepted(accepted, hand'[a]),
           \A b \in Actors \ {a} : pc'[b] = pc[b] /\ hand'[b] = hand[b],
           UNCHANGED <<phase, disk, left, replayed, accepted, overtaken, slot, born, injectLock, key, mine>>
    PROVE  OrderInv'
<1> DEFINE s == mine[a]
<1>1. /\ s \in Sessions /\ s \in born /\ input[s] \in Seq(Things)
      /\ input'[s] = Append(input[s], x)
      /\ \A t \in Sessions \ {s} : input'[t] = input[t]
  BY DEF QueueInv, OwnSession, OrderInv, BornOnly, Seated, TypeOK, Things
<1>2. BornOnly' /\ OneDrainer'
  <2>1. BornOnly'
    BY <1>1 DEF OrderInv, BornOnly, Seated
  <2>2. OneDrainer'
    BY DEF OrderInv, OneDrainer, Drains, Seated
  <2> QED
    BY <2>1, <2>2
<1>3. Injected'
  BY DEF OrderInv, Injected, Fresh, Actors
<1>4. InputsSorted'
  <2>1. Sorted(accepted, overtaken, input[s])
    BY <1>1 DEF OrderInv, InputsSorted
  <2>2. Sorted(accepted, overtaken, Append(input[s], x))
    BY <1>1, <2>1, OrderAppended
  <2> QED
    BY <1>1, <2>2 DEF OrderInv, InputsSorted
<1>5. HandsSorted'
  <2> SUFFICES ASSUME NEW b \in Actors
               PROVE  /\ Sorted(accepted, overtaken, hand'[b])
                      /\ pc'[b] = "draining" =>
                           AheadOf(accepted, overtaken, hand'[b], disk[key[b]], left[key[b]])
                      /\ pc'[b] \in {"type", "enter"} => Ahead(accepted, overtaken, input'[mine[b]], hand'[b])
                      /\ pc'[b] \in {"drain", "draining"} => Unaccepted(accepted, input'[mine[b]])
    BY DEF HandsSorted
  <2>0. /\ Sorted(accepted, overtaken, hand[b])
        /\ pc[b] = "draining" =>
             AheadOf(accepted, overtaken, hand[b], disk[key[b]], left[key[b]])
        /\ pc[b] \in {"type", "enter"} => Ahead(accepted, overtaken, input[mine[b]], hand[b])
        /\ pc[b] \in {"drain", "draining"} => Unaccepted(accepted, input[mine[b]])
    BY DEF OrderInv, HandsSorted
  <2>1. CASE b = a
    <3>1. Ahead(accepted, overtaken, Append(input[s], x), hand'[a])
      BY <1>1, OrderAppended
    <3> QED
      BY <1>1, <2>1, <3>1
  <2>2. CASE b # a /\ (mine[b] # s \/ pc[b] \notin Seated)
    <3>1. pc[b] \in Seated => mine[b] \in Sessions
      BY DEF QueueInv, OwnSession, Seated
    <3> QED
      BY <1>1, <2>0, <2>2, <3>1 DEF Seated
  <2>3. CASE b # a /\ mine[b] = s /\ pc[b] \in Seated
    <3>1. injectLock = a \/ injectLock = b
      BY <2>3 DEF OrderInv, OneDrainer, Drains, Seated
    <3>2. CASE injectLock = a
      <4>1. pc[b] \in {"type", "enter"} => Ahead(accepted, overtaken, Append(input[s], x), hand[b])
        <5>1. Unaccepted(accepted, <<x>>)
          BY <3>2 DEF Unaccepted
        <5>2. Ahead(accepted, overtaken, <<x>>, hand[b])
          BY <5>1, Unordered
        <5> QED
          BY <1>1, <2>0, <2>3, <5>2, OrderAppended
      <4>2. pc[b] \in {"drain", "draining"} => Unaccepted(accepted, Append(input[s], x))
        BY <1>1, <2>0, <2>3, <3>2, OrderAppended
      <4> QED
        BY <1>1, <2>0, <2>3, <4>1, <4>2
    <3>3. CASE injectLock = b
      <4>1. pc[b] \in {"type", "enter"} /\ Unaccepted(accepted, hand[b])
        BY <3>3 DEF OrderInv, Injected
      <4>2. Ahead(accepted, overtaken, input'[mine[b]], hand[b])
        BY <4>1, Unordered
      <4> QED
        BY <2>0, <2>3, <4>1, <4>2
    <3> QED
      BY <3>1, <3>2, <3>3
  <2> QED
    BY <2>1, <2>2, <2>3
<1> QED
  BY <1>2, <1>3, <1>4, <1>5, FilesStill DEF OrderInv

(* A signal typed is the first of the hand,                                *)
LEMMA TypeOrder ==
    ASSUME QueueInv, QueueInv', OrderInv, NEW a \in Actors, Type(a)
    PROVE  OrderInv'
<1>1. /\ pc[a] = "type" /\ pc'[a] \in {"type", "enter"} /\ hand[a] # <<>>
      /\ hand[a] \in Seq(Signals) /\ Head(hand[a]) \in Things
      /\ input' = [input EXCEPT ![mine[a]] = Append(@, Head(hand[a]))]
      /\ hand'[a] = Tail(hand[a])
      /\ \A b \in Actors \ {a} : pc'[b] = pc[b] /\ hand'[b] = hand[b]
      /\ UNCHANGED <<phase, disk, left, replayed, accepted, overtaken, slot, born, injectLock, key, mine>>
  BY DEF Type, Goto, daemonVars, sessVars, queueVars, lockVars, QueueInv, TypeOK, Things
<1>2. /\ Sorted(accepted, overtaken, hand[a]) /\ Ahead(accepted, overtaken, input[mine[a]], hand[a])
      /\ injectLock = a => Unaccepted(accepted, hand[a])
  BY <1>1 DEF OrderInv, HandsSorted, Injected
<1>3. /\ Sorted(accepted, overtaken, hand'[a]) /\ Ahead(accepted, overtaken, <<Head(hand[a])>>, hand'[a])
      /\ Ahead(accepted, overtaken, input[mine[a]], hand'[a])
      /\ Ahead(accepted, overtaken, input[mine[a]], <<Head(hand[a])>>)
      /\ injectLock = a => Unaccepted(accepted, hand'[a]) /\ ~Has(accepted, Head(hand[a]))
  <2> DEFINE q == hand[a]
             p == input[mine[a]]
  <2>1. q \in Seq(Signals) /\ q # <<>> /\ hand'[a] = Tail(q)
    BY <1>1
  <2> HIDE DEF q, p
  <2>2. /\ Sorted(accepted, overtaken, q) =>
              Sorted(accepted, overtaken, Tail(q)) /\ Ahead(accepted, overtaken, <<Head(q)>>, Tail(q))
        /\ Ahead(accepted, overtaken, p, q) =>
              Ahead(accepted, overtaken, p, Tail(q)) /\ Ahead(accepted, overtaken, p, <<Head(q)>>)
        /\ Unaccepted(accepted, q) => Unaccepted(accepted, Tail(q)) /\ ~Has(accepted, Head(q))
    BY <2>1, OrderTaken
  <2> QED
    BY <1>2, <2>1, <2>2 DEF q, p
<1> QED
  BY <1>1, <1>3, InputOrder

(* and an Enter is never accepted.                                         *)
LEMMA EnterOrder ==
    ASSUME QueueInv, QueueInv', OrderInv, NEW a \in Actors, Enter(a)
    PROVE  OrderInv'
<1>1. /\ pc[a] = "enter" /\ pc'[a] = "type" /\ "enter" \in Things
      /\ input' = [input EXCEPT ![mine[a]] = Append(@, "enter")]
      /\ \A b \in Actors \ {a} : pc'[b] = pc[b] /\ hand'[b] = hand[b]
      /\ UNCHANGED <<phase, disk, left, replayed, accepted, overtaken, slot, born, injectLock, key, mine, hand>>
  BY DEF Enter, Goto, daemonVars, sessVars, queueVars, lockVars, QueueInv, TypeOK, Things
<1>2. ~Has(accepted, "enter")
  BY ActorsDistinct DEF QueueInv, TypeOK, Has
<1>3. Unaccepted(accepted, <<"enter">>)
  BY <1>2 DEF Unaccepted
<1>4. /\ Sorted(accepted, overtaken, hand[a]) /\ Ahead(accepted, overtaken, input[mine[a]], hand[a])
      /\ injectLock = a => Unaccepted(accepted, hand[a])
  BY <1>1 DEF OrderInv, HandsSorted, Injected
<1>5. Ahead(accepted, overtaken, input[mine[a]], <<"enter">>) /\ Ahead(accepted, overtaken, <<"enter">>, hand[a])
  BY <1>3, Unordered
<1> QED
  BY <1>1, <1>2, <1>4, <1>5, InputOrder

(* A signal that is queued is the last accepted, and was nowhere.          *)
LEMMA WakeQueuesOrder ==
    ASSUME QueueInv, QueueInv', CopyInv, OrderInv, NEW g \in Signals, WakeQueues(g)
    PROVE  OrderInv'
<1>1. /\ g \in Actors /\ key[g] \in Keys /\ phase = "up" /\ pc[g] = "wake"
      /\ \A b \in Actors : pc[b] # "draining"
      /\ disk' = [disk EXCEPT ![key[g]] = Append(@, g)]
      /\ accepted' = Append(accepted, g)
      /\ pc' = [pc EXCEPT ![g] = "launch"]
      /\ UNCHANGED <<phase, left, replayed, overtaken, hand, input, slot, born, injectLock, key, mine>>
  BY DEF WakeQueues, QueueLocked, Enqueue, Goto, QueueInv, WorkWhileUp, AtWork, Resting,
     Actors, daemonVars, sessVars
<1>2. /\ pc'[g] = "launch" /\ \A b \in Actors \ {g} : pc'[b] = pc[b]
      /\ disk'[key[g]] = Append(disk[key[g]], g)
      /\ \A k \in Keys \ {key[g]} : disk'[k] = disk[k]
      /\ accepted \in Seq(Signals) /\ \A k \in Keys : disk[k] \in Seq(Signals)
  BY <1>1 DEF QueueInv, TypeOK
<1>3. ~Has(accepted, g) /\ injectLock # g
  BY <1>1 DEF OrderInv, Injected, Fresh
<1>4. /\ \A k \in Keys : ~Has(disk[k], g) /\ ~Has(replayed[k], g)
      /\ \A a \in Actors : ~Has(hand[a], g)
      /\ \A s \in Sessions : ~Has(input[s], g)
  BY <1>1, StoreAt DEF CopyInv, Fresh, Absent
<1>5. ASSUME NEW p, ~Has(p, g), NEW q
      PROVE  /\ Sorted(accepted, overtaken, p) => Sorted(accepted', overtaken, p)
             /\ Ahead(accepted, overtaken, p, q) => Ahead(accepted', overtaken, p, q)
             /\ Ahead(accepted', overtaken, p, <<g>>)
             /\ Unaccepted(accepted, p) => Unaccepted(accepted', p)
  BY <1>1, <1>2, <1>3, <1>5, OrderGrows
<1>6. \A h \in Signals \ {g} : ~Has(accepted, h) => ~Has(accepted', h)
  BY <1>1, <1>2, <1>3, <1>4, OrderGrows
<1>7. BornOnly' /\ OneDrainer'
  BY <1>1, <1>2, <1>3 DEF OrderInv, BornOnly, OneDrainer, Drains, Seated
<1>8. Injected'
  BY <1>1, <1>2, <1>3, <1>4, <1>5, <1>6 DEF OrderInv, Injected, Fresh, Actors
<1>9. FilesSorted'
  <2>1. Sorted(accepted', overtaken, Append(disk[key[g]], g))
    BY <1>1, <1>2, <1>4, <1>5, OrderAppended DEF OrderInv, FilesSorted
  <2> QED
    BY <1>1, <1>2, <1>4, <1>5, <2>1 DEF OrderInv, FilesSorted
<1>10. HandsSorted'
  <2> SUFFICES ASSUME NEW b \in Actors
               PROVE  /\ Sorted(accepted', overtaken, hand[b])
                      /\ pc'[b] # "draining"
                      /\ pc'[b] \in {"type", "enter"} => Ahead(accepted', overtaken, input[mine[b]], hand[b])
                      /\ pc'[b] \in {"drain", "draining"} => Unaccepted(accepted', input[mine[b]])
    BY <1>1 DEF HandsSorted
  <2>1. pc'[b] = pc[b] \/ b = g
    BY <1>2
  <2>2. pc[b] \in Seated => mine[b] \in Sessions
    BY DEF QueueInv, OwnSession, Seated
  <2> QED
    BY <1>1, <1>2, <1>4, <1>5, <2>1, <2>2 DEF OrderInv, HandsSorted, Seated
<1>11. InputsSorted'
  BY <1>1, <1>4, <1>5 DEF OrderInv, InputsSorted
<1> QED
  BY <1>7, <1>8, <1>9, <1>10, <1>11 DEF OrderInv

(* The replay reads the files in order, behind what it has read, or passes *)
(* over one that may be overtaken from then on.                            *)
LEMMA ReplayFileOrder ==
    ASSUME QueueInv, QueueInv', OrderInv, NEW k \in Keys, ReplayFile(k)
    PROVE  OrderInv'
<1> DEFINE n == left[k]
           x == disk[k][n + 1]
<1>1. /\ phase = "replaying" /\ Unread(k)
      /\ UNCHANGED <<phase, accepted, hand, input, slot, born, injectLock, pc, key, mine>>
  BY DEF ReplayFile, daemonVars, sessVars, lockVars, actorVars
<1>2. /\ disk[k] \in Seq(Signals) /\ replayed[k] \in Seq(Signals) /\ n \in Nat
      /\ n + 1 \in 1 .. Len(disk[k]) /\ x \in Signals
  BY <1>1, NextIsFile DEF QueueInv, TypeOK, NextFile
<1>3. \A b \in Actors : pc[b] \in Resting
  BY <1>1 DEF QueueInv, WorkWhileUp, AtWork
<1>4. BornOnly' /\ OneDrainer' /\ Injected'
  BY <1>1 DEF OrderInv, BornOnly, OneDrainer, Drains, Injected, Fresh
<1>5. overtaken \subseteq overtaken'
  BY DEF ReplayFile
<1>6. InputsSorted' /\ HandsSorted'
  BY <1>1, <1>3, <1>5, OrderWider DEF OrderInv, InputsSorted, HandsSorted, Resting
<1>7. /\ Sorted(accepted, overtaken, disk[k]) /\ Sorted(accepted, overtaken, replayed[k])
      /\ AheadOf(accepted, overtaken, replayed[k], disk[k], n)
      /\ \A i \in DOMAIN disk[k] : i <= n => disk[k][i] \in overtaken
  BY <1>1 DEF OrderInv, FilesSorted
<1>8. /\ Sorted(accepted, overtaken, Without(disk[k], n + 1))
      /\ AheadOf(accepted, overtaken, <<x>>, Without(disk[k], n + 1), n)
      /\ AheadOf(accepted, overtaken, replayed[k], Without(disk[k], n + 1), n)
      /\ Ahead(accepted, overtaken, replayed[k], <<x>>)
      /\ AheadOf(accepted, overtaken, replayed[k], disk[k], n + 1)
  <2> HIDE DEF n
  <2> QED
    BY <1>2, <1>7, OrderPicked
<1>9. CASE /\ Remove(k) /\ UNCHANGED overtaken
           /\ replayed' = [replayed EXCEPT ![k] = Append(@, NextFile(k))]
  <2>1. /\ replayed'[k] = Append(replayed[k], x) /\ disk'[k] = Without(disk[k], n + 1)
        /\ \A j \in Keys \ {k} : disk'[j] = disk[j] /\ replayed'[j] = replayed[j]
        /\ left' = left
    BY <1>1, <1>9 DEF QueueInv, TypeOK, Remove, NextFile
  <2>2. /\ Sorted(accepted, overtaken, Append(replayed[k], x))
        /\ AheadOf(accepted, overtaken, Append(replayed[k], x), Without(disk[k], n + 1), n)
    <3> HIDE DEF n, x
    <3> QED
      BY <1>2, <1>7, <1>8, OrderAppended
  <2>3. \A i \in DOMAIN Without(disk[k], n + 1) :
           i <= n => Without(disk[k], n + 1)[i] \in overtaken
    <3> DEFINE q == disk[k]
    <3>1. q \in Seq(Signals) /\ Len(q) \in Nat /\ DOMAIN q = 1 .. Len(q)
          /\ \A i \in DOMAIN q : i <= n => q[i] \in overtaken
      BY <1>2, <1>7
    <3>2. n \in Nat /\ n + 1 \in 1 .. Len(q)
      BY <1>2
    <3> HIDE DEF q, n
    <3>3. /\ DOMAIN Without(q, n + 1) = 1 .. (Len(q) - 1)
          /\ \A i \in 1 .. (Len(q) - 1) :
                Without(q, n + 1)[i] = IF i < n + 1 THEN q[i] ELSE q[i + 1]
      <4> DEFINE m == n + 1
      <4>1. m \in 1 .. Len(q)
        BY <3>2
      <4> HIDE DEF m
      <4>2. /\ DOMAIN Without(q, m) = 1 .. (Len(q) - 1)
            /\ \A i \in 1 .. (Len(q) - 1) : Without(q, m)[i] = IF i < m THEN q[i] ELSE q[i + 1]
        BY <3>1, <4>1, WithoutOne
      <4> QED
        BY <4>2 DEF m
    <3>4. \A i \in 1 .. (Len(q) - 1) : i <= n => i < n + 1 /\ i \in 1 .. Len(q)
      BY <3>1, <3>2
    <3> QED
      BY <3>1, <3>3, <3>4 DEF q
  <2>4. FilesSorted'
    BY <1>1, <1>8, <1>9, <2>1, <2>2, <2>3 DEF OrderInv, FilesSorted
  <2> QED
    BY <1>4, <1>6, <2>4 DEF OrderInv
<1>10. CASE PassOver(k) /\ overtaken' = overtaken \cup {NextFile(k)} /\ UNCHANGED replayed
  <2>1. /\ left'[k] = n + 1 /\ \A j \in Keys \ {k} : left'[j] = left[j]
        /\ UNCHANGED <<disk, replayed>> /\ overtaken' = overtaken \cup {x}
    BY <1>10 DEF QueueInv, TypeOK, PassOver, NextFile
  <2>2. \A i \in DOMAIN disk[k] : i <= n + 1 => disk[k][i] \in overtaken'
    BY <1>2, <1>7, <2>1
  <2>3. ASSUME NEW j \in Keys
        PROVE  /\ Sorted(accepted, overtaken', disk[j]) /\ Sorted(accepted, overtaken', replayed[j])
               /\ AheadOf(accepted, overtaken', replayed[j], disk[j], left'[j])
               /\ \A i \in DOMAIN disk[j] : i <= left'[j] => disk[j][i] \in overtaken'
    <3>1. /\ Sorted(accepted, overtaken, disk[j]) /\ Sorted(accepted, overtaken, replayed[j])
          /\ AheadOf(accepted, overtaken, replayed[j], disk[j], left'[j])
      BY <1>1, <1>8, <2>1 DEF OrderInv, FilesSorted
    <3>2. \A i \in DOMAIN disk[j] : i <= left'[j] => disk[j][i] \in overtaken'
      BY <1>1, <1>5, <2>1, <2>2 DEF OrderInv, FilesSorted
    <3> QED
      BY <1>5, <3>1, <3>2, OrderWider
  <2>4. FilesSorted'
    BY <1>1, <2>1, <2>3 DEF FilesSorted
  <2> QED
    BY <1>4, <1>6, <2>4 DEF OrderInv
<1> QED
  BY <1>9, <1>10 DEF ReplayFile

(* And main writes them again in that order.                               *)
LEMMA RequeueOrder ==
    ASSUME QueueInv, QueueInv', OrderInv, NEW k \in Keys, Requeue(k)
    PROVE  OrderInv'
<1>1. /\ phase = "requeueing" /\ replayed[k] # <<>>
      /\ disk[k] \in Seq(Signals) /\ replayed[k] \in Seq(Signals) /\ Head(replayed[k]) \in Signals
      /\ replayed'[k] = Tail(replayed[k])
      /\ disk'[k] \in {disk[k], Append(disk[k], Head(replayed[k]))}
      /\ \A j \in Keys \ {k} : disk'[j] = disk[j] /\ replayed'[j] = replayed[j]
      /\ UNCHANGED <<phase, left, accepted, overtaken, hand, input, slot, born, injectLock, pc, key, mine>>
  BY DEF Requeue, Enqueue, QueueInv, TypeOK, daemonVars, sessVars, lockVars, actorVars
<1>2. \A b \in Actors : pc[b] \in Resting
  BY <1>1 DEF QueueInv, WorkWhileUp, AtWork
<1>3. BornOnly' /\ OneDrainer' /\ Injected' /\ InputsSorted'
  BY <1>1 DEF OrderInv, BornOnly, OneDrainer, Drains, Injected, Fresh, InputsSorted
<1>4. HandsSorted'
  BY <1>1, <1>2 DEF OrderInv, HandsSorted, Resting
<1>5. /\ Sorted(accepted, overtaken, disk[k]) /\ Sorted(accepted, overtaken, replayed[k])
      /\ Ahead(accepted, overtaken, disk[k], replayed[k])
  BY <1>1 DEF OrderInv, FilesSorted
<1>6. /\ Sorted(accepted, overtaken, Tail(replayed[k]))
      /\ Ahead(accepted, overtaken, <<Head(replayed[k])>>, Tail(replayed[k]))
      /\ Ahead(accepted, overtaken, disk[k], <<Head(replayed[k])>>)
      /\ Ahead(accepted, overtaken, disk[k], Tail(replayed[k]))
  BY <1>1, <1>5, OrderTaken
<1>7. Sorted(accepted, overtaken, disk'[k]) /\ Ahead(accepted, overtaken, disk'[k], replayed'[k])
  BY <1>1, <1>5, <1>6, OrderAppended
<1>8. FilesSorted'
  BY <1>1, <1>6, <1>7 DEF OrderInv, FilesSorted
<1> QED
  BY <1>3, <1>4, <1>8 DEF OrderInv

(* A crash empties hands and what was replayed; the files stay in order.   *)
LEMMA CrashOrder ==
    ASSUME QueueInv, QueueInv', OrderInv, Crash
    PROVE  OrderInv'
<1>1. /\ phase' = "down" /\ injectLock' = Nobody
      /\ \A k \in Keys : slot'[k] = NoSession /\ replayed'[k] = <<>> /\ left'[k] = 0
      /\ \A a \in Actors : hand'[a] = <<>> /\ pc'[a] \in Resting
      /\ \A g \in Signals : Fresh(g)' => Fresh(g)
      /\ UNCHANGED <<born, disk, accepted, overtaken, input>>
  BY DEF Crash, Resting, Fresh, Actors
<1>2. BornOnly' /\ OneDrainer' /\ Injected' /\ InputsSorted'
  BY <1>1, ActorsDistinct DEF OrderInv, BornOnly, OneDrainer, Drains, Injected, InputsSorted,
     Resting, Seated
<1>3. FilesSorted'
  BY <1>1, Unordered DEF OrderInv, FilesSorted
<1>4. HandsSorted'
  BY <1>1, Unordered DEF OrderInv, HandsSorted, Resting
<1> QED
  BY <1>2, <1>3, <1>4 DEF OrderInv

(* At first there is nothing to order.                                     *)
LEMMA InitOrder == Init => OrderInv
<1> SUFFICES ASSUME Init PROVE OrderInv
  OBVIOUS
<1>1. /\ \A a \in Actors : pc[a] \in {"unsent", "idle"} /\ hand[a] = <<>>
      /\ ~(\E g \in Signals : Has(accepted, g))
      /\ injectLock = Nobody /\ phase = "up"
  BY DEF Init, Has
<1>2. BornOnly /\ OneDrainer /\ Injected
  BY <1>1, ActorsDistinct DEF Init, BornOnly, OneDrainer, Drains, Seated, Injected
<1>3. FilesSorted /\ HandsSorted /\ InputsSorted
  BY <1>1, Unordered DEF Init, FilesSorted, HandsSorted, InputsSorted
<1> QED
  BY <1>2, <1>3 DEF OrderInv

(* Every step keeps the order.                                             *)
LEMMA NextOrder ==
    QueueInv /\ QueueInv' /\ CopyInv /\ OrderInv /\ [Next]_vars => OrderInv'
<1> SUFFICES ASSUME QueueInv, QueueInv', CopyInv, OrderInv, [Next]_vars PROVE OrderInv'
  OBVIOUS
<1>1. ASSUME NEW a \in Actors, Spawning(a) PROVE OrderInv'
  BY <1>1, WaitingOrder, SpawnOrder, DrainOrder, DrainFileOrder, TypeOrder, EnterOrder
     DEF Spawning
<1>2. ASSUME NEW g \in Signals, Sending(g) PROVE OrderInv'
  BY <1>1, <1>2, WaitingOrder, InjectOrder, WakeQueuesOrder DEF Sending, Actors
<1>3. ASSUME NEW g \in Signals, NEW k \in Keys, Send(g, k) PROVE OrderInv'
  BY <1>3, WaitingOrder DEF Actors
<1>4. ASSUME NEW a \in Spawners, NEW k \in Keys, Request(a, k) PROVE OrderInv'
  BY <1>4, WaitingOrder DEF Actors
<1>5. ASSUME NEW k \in Keys, SessionEnds(k) PROVE OrderInv'
  BY <1>5, PhaseOrder
<1>6. CASE Crash
  BY <1>6, CrashOrder
<1>7. CASE Booting
  BY <1>7, PhaseOrder, ReplayFileOrder, RequeueOrder DEF Booting
<1>8. CASE UNCHANGED vars
  BY <1>8 DEF vars, daemonVars, sessVars, queueVars, lockVars, actorVars, OrderInv, BornOnly,
     OneDrainer, Drains, Injected, Fresh, FilesSorted, HandsSorted, InputsSorted
<1> QED
  BY <1>1, <1>2, <1>3, <1>4, <1>5, <1>6, <1>7, <1>8 DEF Next, Actors

(* The order is kept always, and signals single.                           *)
LEMMA OrderInvariance == Spec => []OrderInv
<1>1. Init => CopyInv /\ OrderInv
  BY InitCopies, InitOrder
<1>2. QueueInv /\ QueueInv' /\ CopyInv /\ OrderInv /\ [Next]_vars => CopyInv' /\ OrderInv'
  BY NextCopies, NextOrder
<1> QED
  BY <1>1, <1>2, QueueInvariance, PTL DEF Spec

(* providers.rs:73-76: a session is typed what the queue accepted in the   *)
(* order it was accepted in, whatever crashes and replays came between,    *)
(* but that a replay may have passed over the one that comes too late.     *)
THEOREM QueueOrder == Spec => []DrainedInOrder
<1>1. OrderInv => DrainedInOrder
  BY DEF OrderInv, InputsSorted, Sorted, Before, Earlier, DrainedInOrder
<1> QED
  BY <1>1, OrderInvariance, PTL

-----------------------------------------------------------------------------
(* What becomes of a signal in one step. *)

In(f, g) == \E x \in DOMAIN f : Has(f[x], g)

Somewhere(g) == OnDisk(g) \/ InReplay(g) \/ InHand(g) \/ Typed(g)

(* What was typed stays typed, and was in a hand before; what was nowhere  *)
(* comes from its sender; what was accepted stays so, and what is accepted *)
(* now is on disk; nothing is lost but by a crash or as main enqueues.     *)
Fate(g) ==
    /\ Typed(g) => Typed(g)'
    /\ Typed(g)' => Typed(g) \/ InHand(g)
    /\ Somewhere(g)' => Somewhere(g) \/ Fresh(g)
    /\ Has(accepted, g) => Has(accepted', g)
    /\ Has(accepted', g) /\ ~Has(accepted, g) => pc[g] = "wake" /\ OnDisk(g)'
    /\ Somewhere(g) => Somewhere(g)' \/ phase' = "down" \/ phase = "requeueing"

(* An appended sequence has what it had, and the new.                      *)
LEMMA HasAppended ==
    ASSUME NEW T, NEW q \in Seq(T), NEW x \in T, NEW g
    PROVE  Has(Append(q, x), g) <=> Has(q, g) \/ x = g
<1>1. /\ Len(q) \in Nat /\ DOMAIN q = 1 .. Len(q)
      /\ DOMAIN Append(q, x) = 1 .. Len(q) + 1
      /\ \A i \in 1 .. Len(q) : Append(q, x)[i] = q[i]
      /\ Append(q, x)[Len(q) + 1] = x
  BY AppendItems
<1> QED
  BY <1>1 DEF Has

(* A sequence has its head, and what its tail has.                         *)
LEMMA HasTaken ==
    ASSUME NEW T, NEW q \in Seq(T), q # <<>>, NEW g
    PROVE  Has(q, g) <=> Head(q) = g \/ Has(Tail(q), g)
<1>1. /\ \A i \in DOMAIN Tail(q) : i \in Nat \ {0} /\ i + 1 \in DOMAIN q /\ Tail(q)[i] = q[i + 1]
      /\ 1 \in DOMAIN q /\ q[1] = Head(q)
      /\ \A i \in DOMAIN q : i = 1 \/ (i - 1 \in DOMAIN Tail(q) /\ q[i] = Tail(q)[i - 1])
  <2>1. /\ Len(q) \in Nat \ {0} /\ DOMAIN q = 1 .. Len(q)
        /\ DOMAIN Tail(q) = 1 .. Len(q) - 1
        /\ \A i \in 1 .. Len(q) - 1 : Tail(q)[i] = q[i + 1]
        /\ q[1] = Head(q)
    OBVIOUS
  <2>2. \A i \in 1 .. Len(q) : i = 1 \/ (i - 1 \in 1 .. Len(q) - 1 /\ (i - 1) + 1 = i)
    BY <2>1
  <2>3. \A i \in 1 .. Len(q) : i = 1 \/ q[i] = Tail(q)[i - 1]
    BY <2>1, <2>2
  <2>4. \A i \in 1 .. Len(q) - 1 : i \in Nat \ {0} /\ i + 1 \in 1 .. Len(q)
    BY <2>1
  <2> QED
    BY <2>1, <2>2, <2>3, <2>4
<1> QED
  BY <1>1 DEF Has

(* And one of its elements, and what it has without that.                  *)
LEMMA HasPicked ==
    ASSUME NEW T, NEW q \in Seq(T), NEW n \in 1 .. Len(q), NEW g
    PROVE  Has(q, g) <=> q[n] = g \/ Has(Without(q, n), g)
<1> DEFINE w == Without(q, n)
<1>1. /\ Len(q) \in Nat /\ DOMAIN q = 1 .. Len(q) /\ n \in DOMAIN q
      /\ DOMAIN w = 1 .. (Len(q) - 1)
      /\ \A i \in 1 .. (Len(q) - 1) : w[i] = IF i < n THEN q[i] ELSE q[i + 1]
  BY WithoutOne
<1> HIDE DEF w
<1>2. \A i \in DOMAIN w : \E j \in DOMAIN q : w[i] = q[j]
  <2>1. \A i \in 1 .. (Len(q) - 1) : i \in 1 .. Len(q) /\ i + 1 \in 1 .. Len(q)
    BY <1>1
  <2> QED
    BY <1>1, <2>1
<1>3. ASSUME NEW j \in DOMAIN q, j # n PROVE \E i \in DOMAIN w : w[i] = q[j]
  <2>1. CASE j < n
    <3>1. j \in DOMAIN w /\ w[j] = q[j]
      BY <1>1, <2>1
    <3> QED
      BY <3>1
  <2>2. CASE j > n
    <3>1. j - 1 \in DOMAIN w /\ ~(j - 1 < n) /\ (j - 1) + 1 = j
      BY <1>1, <2>2
    <3>2. w[j - 1] = q[j]
      BY <1>1, <3>1
    <3> QED
      BY <3>1, <3>2
  <2> QED
    BY <1>1, <1>3, <2>1, <2>2
<1>4. Has(w, g) => Has(q, g)
  BY <1>2 DEF Has
<1>5. Has(q, g) => q[n] = g \/ Has(w, g)
  BY <1>3 DEF Has
<1> QED
  BY <1>1, <1>4, <1>5 DEF Has, w

(* One of f[a] goes to the end of h[b].                                    *)
Moves(A, f, a, n, f1, B, h, b, h1) ==
    /\ f \in [A -> Seq(Things)] /\ f1 \in [A -> Seq(Things)] /\ a \in A
    /\ h \in [B -> Seq(Things)] /\ h1 \in [B -> Seq(Things)] /\ b \in B
    /\ n \in 1 .. Len(f[a])
    /\ f1[a] = Without(f[a], n) /\ h1[b] = Append(h[b], f[a][n])
    /\ \A x \in A \ {a} : f1[x] = f[x]
    /\ \A x \in B \ {b} : h1[x] = h[x]

(* One that moves is in the second place instead of the first.             *)
LEMMA InMoved ==
    ASSUME NEW A, NEW f, NEW a, NEW n, NEW f1, NEW B, NEW h, NEW b, NEW h1, NEW g,
           Moves(A, f, a, n, f1, B, h, b, h1)
    PROVE  /\ In(f, g) => In(f1, g) \/ In(h1, g)
           /\ In(h, g) => In(h1, g)
           /\ In(f1, g) => In(f, g)
           /\ In(h1, g) => In(h, g) \/ In(f, g)
<1> USE DEF Moves
<1>2. f[a] \in Seq(Things) /\ h[b] \in Seq(Things) /\ f[a][n] \in Things
  OBVIOUS
<1>1. Has(f[a], g) <=> f[a][n] = g \/ Has(Without(f[a], n), g)
  BY <1>2, HasPicked
<1>3. Has(Append(h[b], f[a][n]), g) <=> Has(h[b], g) \/ f[a][n] = g
  BY <1>2, HasAppended
<1>4. DOMAIN f = A /\ DOMAIN f1 = A /\ DOMAIN h = B /\ DOMAIN h1 = B
  OBVIOUS
<1> QED
  BY <1>1, <1>3, <1>4 DEF In

(* The places have signals and Enters.                                     *)
LEMMA PlacesHold ==
    ASSUME TypeOK
    PROVE  /\ disk \in [Keys -> Seq(Things)] /\ replayed \in [Keys -> Seq(Things)]
           /\ hand \in [Actors -> Seq(Things)] /\ input \in [Sessions -> Seq(Things)]
<1>1. \A q \in Seq(Signals) : q \in Seq(Things)
  BY DEF Things
<1> QED
  BY <1>1 DEF TypeOK, Things

(* And after a step.                                                       *)
LEMMA PlacesHoldNext ==
    ASSUME TypeOK'
    PROVE  /\ disk' \in [Keys -> Seq(Things)] /\ replayed' \in [Keys -> Seq(Things)]
           /\ hand' \in [Actors -> Seq(Things)] /\ input' \in [Sessions -> Seq(Things)]
<1>1. \A q \in Seq(Signals) : q \in Seq(Things)
  BY DEF Things
<1> QED
  BY <1>1 DEF TypeOK, Things

(* The places of a signal, by the types.                                   *)
LEMMA PlacesIn ==
    ASSUME TypeOK, NEW g
    PROVE  /\ OnDisk(g) <=> In(disk, g)
           /\ InReplay(g) <=> In(replayed, g)
           /\ InHand(g) <=> In(hand, g)
           /\ Typed(g) <=> In(input, g)
  BY DEF TypeOK, OnDisk, InReplay, InHand, Typed, In

(* And after a step.                                                       *)
LEMMA PlacesInNext ==
    ASSUME TypeOK', NEW g
    PROVE  /\ OnDisk(g)' <=> In(disk', g)
           /\ InReplay(g)' <=> In(replayed', g)
           /\ InHand(g)' <=> In(hand', g)
           /\ Typed(g)' <=> In(input', g)
  BY DEF TypeOK, OnDisk, InReplay, InHand, Typed, In

(* Nothing becomes of a signal while nothing moves.                        *)
LEMMA CalmFate ==
    ASSUME NEW g, UNCHANGED <<disk, replayed, hand, input, accepted>>
    PROVE  Fate(g)
  BY DEF Fate, Somewhere, OnDisk, InReplay, InHand, Typed

(* An inject puts its own signal, which was nowhere, into an empty hand.   *)
LEMMA InjectFate ==
    ASSUME QueueInv, QueueInv', OrderInv, NEW g \in Signals, NEW h \in Signals, Inject(h)
    PROVE  Fate(g)
<1>1. h \in Actors /\ hand[h] = <<>> /\ Fresh(h) /\ UNCHANGED <<disk, replayed, input, accepted>>
  BY DEF Actors, OrderInv, Injected, Inject, Fresh, queueVars
<1>2. hand' = hand \/ hand' = [hand EXCEPT ![h] = <<h>>]
  BY DEF Inject
<1>3. ~Has(hand[h], g) /\ (Has(<<h>>, g) => g = h)
  BY <1>1 DEF Has
<1>4. InHand(g) => InHand(g)'
  BY <1>1, <1>2, <1>3 DEF InHand, QueueInv, TypeOK
<1>5. InHand(g)' => InHand(g) \/ g = h
  BY <1>1, <1>2, <1>3 DEF InHand, QueueInv, TypeOK
<1>6. UNCHANGED <<OnDisk(g), InReplay(g), Typed(g), Has(accepted, g)>>
  BY <1>1 DEF OnDisk, InReplay, Typed
<1> QED
  BY <1>1, <1>4, <1>5, <1>6 DEF Fate, Somewhere

(* A queued signal is accepted, and on disk.                               *)
LEMMA WakeQueuesFate ==
    ASSUME QueueInv, QueueInv', NEW g \in Signals, NEW h \in Signals, WakeQueues(h)
    PROVE  Fate(g)
<1>1. /\ h \in Actors /\ key[h] \in Keys /\ pc[h] = "wake"
      /\ disk' = [disk EXCEPT ![key[h]] = Append(@, h)]
      /\ accepted' = Append(accepted, h) /\ UNCHANGED <<replayed, hand, input>>
  BY DEF QueueInv, WakeQueues, Enqueue, WorkWhileUp, AtWork, Resting, Actors
<1>2. disk[key[h]] \in Seq(Signals) /\ accepted \in Seq(Signals) /\ disk \in [Keys -> Seq(Signals)]
  BY <1>1 DEF QueueInv, TypeOK
<1>3. /\ Has(accepted', g) <=> Has(accepted, g) \/ h = g
      /\ Has(Append(disk[key[h]], h), g) <=> Has(disk[key[h]], g) \/ h = g
  BY <1>1, <1>2, HasAppended
<1>4. OnDisk(g)' <=> OnDisk(g) \/ h = g
  BY <1>1, <1>2, <1>3 DEF OnDisk
<1>5. UNCHANGED <<InReplay(g), InHand(g), Typed(g)>>
  BY <1>1 DEF InReplay, InHand, Typed
<1> QED
  BY <1>1, <1>3, <1>4, <1>5 DEF Fate, Somewhere, Fresh

(* A drain moves one from a file to a hand, or none.                       *)
LEMMA DrainFileMoves ==
    ASSUME QueueInv, QueueInv', NEW a \in Actors, DrainFile(a)
    PROVE  /\ UNCHANGED <<replayed, input, accepted, injectLock>>
           /\ \/ UNCHANGED <<disk, hand>>
              \/ \E n : Moves(Keys, disk, key[a], n, disk', Actors, hand, a, hand')
<1>1. key[a] \in Keys /\ Unread(key[a]) /\ UNCHANGED <<replayed, input, accepted, injectLock>>
  BY DEF DrainFile, QueueInv, WorkWhileUp, AtWork, Resting, lockVars
<1>2. CASE Remove(key[a]) /\ hand' = [hand EXCEPT ![a] = Append(@, NextFile(key[a]))]
  <2> DEFINE n == left[key[a]] + 1
  <2>1. n \in 1 .. Len(disk[key[a]])
    BY <1>1, NextIsFile DEF QueueInv
  <2>2. /\ disk'[key[a]] = Without(disk[key[a]], n)
        /\ hand'[a] = Append(hand[a], disk[key[a]][n])
        /\ \A k \in Keys \ {key[a]} : disk'[k] = disk[k]
        /\ \A b \in Actors \ {a} : hand'[b] = hand[b]
    BY <1>1, <1>2 DEF Remove, NextFile, QueueInv, TypeOK
  <2> HIDE DEF n
  <2>3. Moves(Keys, disk, key[a], n, disk', Actors, hand, a, hand')
    BY <1>1, <2>1, <2>2, PlacesHold, PlacesHoldNext DEF Moves, QueueInv
  <2> QED
    BY <1>1, <2>3
<1> QED
  BY <1>1, <1>2 DEF DrainFile, PassOver

(* So does the replay, from a file to memory.                              *)
LEMMA ReplayFileMoves ==
    ASSUME QueueInv, QueueInv', NEW k \in Keys, ReplayFile(k)
    PROVE  /\ UNCHANGED <<hand, input, accepted, injectLock>>
           /\ \/ UNCHANGED <<disk, replayed>>
              \/ \E n : Moves(Keys, disk, k, n, disk', Keys, replayed, k, replayed')
<1>1. Unread(k) /\ UNCHANGED <<hand, input, accepted, injectLock>>
  BY DEF ReplayFile, lockVars, actorVars
<1>2. CASE Remove(k) /\ replayed' = [replayed EXCEPT ![k] = Append(@, NextFile(k))]
  <2> DEFINE n == left[k] + 1
  <2>1. n \in 1 .. Len(disk[k])
    BY <1>1, NextIsFile DEF QueueInv
  <2>2. /\ disk'[k] = Without(disk[k], n)
        /\ replayed'[k] = Append(replayed[k], disk[k][n])
        /\ \A j \in Keys \ {k} : disk'[j] = disk[j] /\ replayed'[j] = replayed[j]
    BY <1>2 DEF Remove, NextFile, QueueInv, TypeOK
  <2> HIDE DEF n
  <2>3. Moves(Keys, disk, k, n, disk', Keys, replayed, k, replayed')
    BY <2>1, <2>2, PlacesHold, PlacesHoldNext DEF Moves, QueueInv
  <2> QED
    BY <1>1, <2>3
<1> QED
  BY <1>1, <1>2 DEF ReplayFile, PassOver

(* A drain moves a signal from a file to a hand.                           *)
LEMMA DrainFileFate ==
    ASSUME QueueInv, QueueInv', NEW g \in Signals, NEW a \in Actors, DrainFile(a)
    PROVE  Fate(g)
<1>1. /\ UNCHANGED <<replayed, input, accepted>>
      /\ \/ UNCHANGED <<disk, hand>>
         \/ \E n : Moves(Keys, disk, key[a], n, disk', Actors, hand, a, hand')
  BY DrainFileMoves
<1>2. /\ In(disk, g) => In(disk', g) \/ In(hand', g)
      /\ In(hand, g) => In(hand', g)
      /\ In(disk', g) => In(disk, g)
      /\ In(hand', g) => In(hand, g) \/ In(disk, g)
  BY <1>1, InMoved
<1> QED
  BY <1>1, <1>2, PlacesIn, PlacesInNext DEF Fate, Somewhere, QueueInv

(* Typing moves one from a hand to a session.                              *)
LEMMA TypeFate ==
    ASSUME QueueInv, QueueInv', NEW g \in Signals, NEW a \in Actors, Type(a)
    PROVE  Fate(g)
<1>1. /\ mine[a] \in Sessions /\ hand[a] # <<>>
      /\ hand \in [Actors -> Seq(Signals)] /\ input \in [Sessions -> Seq(Things)]
      /\ hand' \in [Actors -> Seq(Signals)] /\ input' \in [Sessions -> Seq(Things)]
      /\ Signals \subseteq Things
      /\ hand'[a] = Tail(hand[a])
      /\ input'[mine[a]] = Append(input[mine[a]], Head(hand[a]))
      /\ \A b \in Actors \ {a} : hand'[b] = hand[b]
      /\ \A s \in Sessions \ {mine[a]} : input'[s] = input[s]
      /\ UNCHANGED <<disk, replayed, accepted>>
  BY DEF Type, QueueInv, TypeOK, OwnSession, Things, queueVars
<1>3. /\ 1 \in 1 .. Len(hand[a]) /\ Head(hand[a]) = hand[a][1]
      /\ Tail(hand[a]) = Without(hand[a], 1)
  BY <1>1, TailIsWithout
<1>0. Moves(Actors, hand, a, 1, hand', Sessions, input, mine[a], input')
  BY <1>1, <1>3, PlacesHold, PlacesHoldNext DEF Moves, QueueInv
<1>2. /\ In(hand, g) => In(hand', g) \/ In(input', g)
      /\ In(input, g) => In(input', g)
      /\ In(hand', g) => In(hand, g)
      /\ In(input', g) => In(input, g) \/ In(hand, g)
  BY <1>0, InMoved
<1> QED
  BY <1>1, <1>2, PlacesIn, PlacesInNext DEF Fate, Somewhere, QueueInv

(* An Enter moves none.                                                    *)
LEMMA EnterFate ==
    ASSUME QueueInv, QueueInv', NEW g \in Signals, NEW a \in Actors, Enter(a)
    PROVE  Fate(g)
<1>1. /\ mine[a] \in Sessions /\ input \in [Sessions -> Seq(Things)] /\ "enter" \in Things
      /\ input' = [input EXCEPT ![mine[a]] = Append(@, "enter")]
      /\ UNCHANGED <<disk, replayed, hand, accepted>>
  BY DEF Enter, QueueInv, TypeOK, OwnSession, Things, queueVars
<1>2. Has(Append(input[mine[a]], "enter"), g) <=> Has(input[mine[a]], g)
  BY <1>1, HasAppended, ActorsDistinct
<1>3. Typed(g)' <=> Typed(g)
  BY <1>1, <1>2 DEF Typed
<1>4. UNCHANGED <<OnDisk(g), InReplay(g), InHand(g)>>
  BY <1>1 DEF OnDisk, InReplay, InHand
<1> QED
  BY <1>1, <1>3, <1>4 DEF Fate, Somewhere

(* The replay moves one from a file to memory.                             *)
LEMMA ReplayFileFate ==
    ASSUME QueueInv, QueueInv', NEW g \in Signals, NEW k \in Keys, ReplayFile(k)
    PROVE  Fate(g)
<1>1. /\ UNCHANGED <<hand, input, accepted>>
      /\ \/ UNCHANGED <<disk, replayed>>
         \/ \E n : Moves(Keys, disk, k, n, disk', Keys, replayed, k, replayed')
  BY ReplayFileMoves
<1>2. /\ In(disk, g) => In(disk', g) \/ In(replayed', g)
      /\ In(replayed, g) => In(replayed', g)
      /\ In(disk', g) => In(disk, g)
      /\ In(replayed', g) => In(replayed, g) \/ In(disk, g)
  BY <1>1, InMoved
<1> QED
  BY <1>1, <1>2, PlacesIn, PlacesInNext DEF Fate, Somewhere, QueueInv

(* Enqueueing again moves one from memory to a file, or loses it.          *)
LEMMA RequeueFate ==
    ASSUME QueueInv, QueueInv', NEW g \in Signals, NEW k \in Keys, Requeue(k)
    PROVE  Fate(g)
<1>1. /\ replayed[k] # <<>> /\ phase = "requeueing" /\ Head(replayed[k]) \in Signals
      /\ disk \in [Keys -> Seq(Signals)] /\ replayed \in [Keys -> Seq(Signals)]
      /\ DOMAIN disk' = Keys /\ DOMAIN replayed' = Keys
      /\ replayed'[k] = Tail(replayed[k])
      /\ disk'[k] \in {disk[k], Append(disk[k], Head(replayed[k]))}
      /\ \A j \in Keys \ {k} : disk'[j] = disk[j] /\ replayed'[j] = replayed[j]
      /\ UNCHANGED <<hand, input, accepted>>
  <2>1. /\ replayed[k] # <<>> /\ phase = "requeueing"
        /\ disk \in [Keys -> Seq(Signals)] /\ replayed \in [Keys -> Seq(Signals)]
        /\ replayed' = [replayed EXCEPT ![k] = Tail(@)]
        /\ disk' \in {disk, [disk EXCEPT ![k] = Append(@, Head(replayed[k]))]}
        /\ UNCHANGED <<hand, input, accepted>>
    BY DEF Requeue, Enqueue, QueueInv, TypeOK, actorVars
  <2>2. Head(replayed[k]) \in Signals
    BY <2>1, TakeFirst
  <2> QED
    BY <2>1, <2>2
<1>2. /\ Has(replayed[k], g) <=> Head(replayed[k]) = g \/ Has(Tail(replayed[k]), g)
      /\ Has(Append(disk[k], Head(replayed[k])), g) <=> Has(disk[k], g) \/ Head(replayed[k]) = g
  BY <1>1, HasTaken, HasAppended
<1>3. /\ In(replayed', g) => In(replayed, g)
      /\ In(disk', g) => In(disk, g) \/ In(replayed, g)
  BY <1>1, <1>2 DEF In
<1>4. UNCHANGED <<InHand(g), Typed(g)>>
  BY <1>1 DEF InHand, Typed
<1> QED
  BY <1>1, <1>3, <1>4, PlacesIn, PlacesInNext DEF Fate, Somewhere, QueueInv

(* A crash loses hands and what was replayed.                              *)
LEMMA CrashFate ==
    ASSUME QueueInv, QueueInv', NEW g \in Signals, Crash
    PROVE  Fate(g)
<1>1. /\ phase' = "down" /\ UNCHANGED <<disk, accepted, input>>
      /\ \A k \in Keys : replayed'[k] = <<>>
      /\ \A a \in Actors : hand'[a] = <<>>
  BY DEF Crash
<1>2. ~InReplay(g)' /\ ~InHand(g)' /\ UNCHANGED <<OnDisk(g), Typed(g)>>
  BY <1>1 DEF InReplay, InHand, OnDisk, Typed, Has
<1> QED
  BY <1>1, <1>2 DEF Fate, Somewhere

(* Every step is one of these.                                             *)
LEMMA NextFate ==
    ASSUME QueueInv, QueueInv', OrderInv, [Next]_vars, NEW g \in Signals
    PROVE  Fate(g)
<1>1. ASSUME NEW a \in Actors, Spawning(a) PROVE Fate(g)
  <2>1. CASE Lookup(a) \/ Spawn(a) \/ SpawnFails(a) \/ Drain(a) \/ DrainEnds(a) \/ Finish(a)
    BY <2>1, CalmFate DEF Lookup, Spawn, SpawnFails, Drain, DrainEnds, Finish, Return, queueVars
  <2> QED
    BY <1>1, <2>1, DrainFileFate, TypeFate, EnterFate DEF Spawning
<1>2. ASSUME NEW h \in Signals, Sending(h) PROVE Fate(g)
  <2>1. CASE Probe(h) \/ WakeRefuses(h) \/ Launch(h)
    BY <2>1, CalmFate DEF Probe, WakeRefuses, Launch, Return, queueVars
  <2> QED
    BY <1>1, <1>2, <2>1, InjectFate, WakeQueuesFate DEF Sending, Actors
<1>3. ASSUME NEW h \in Signals, NEW k \in Keys, Send(h, k) PROVE Fate(g)
  BY <1>3, CalmFate DEF Send, queueVars
<1>4. ASSUME NEW a \in Spawners, NEW k \in Keys, Request(a, k) PROVE Fate(g)
  BY <1>4, CalmFate DEF Request, queueVars
<1>5. ASSUME NEW k \in Keys, SessionEnds(k) PROVE Fate(g)
  BY <1>5, CalmFate DEF SessionEnds, queueVars, actorVars
<1>6. CASE Booting
  <2>1. CASE Restart \/ ReplayEnds \/ Serve
    BY <2>1, CalmFate DEF Restart, ReplayEnds, Serve, queueVars, actorVars
  <2> QED
    BY <1>6, <2>1, ReplayFileFate, RequeueFate DEF Booting
<1>7. CASE UNCHANGED vars
  BY <1>7, CalmFate DEF vars, queueVars, actorVars
<1> QED
  BY <1>1, <1>2, <1>3, <1>4, <1>5, <1>6, <1>7, CrashFate DEF Next, Actors

(* pending_live.rs:3-7: what the queue accepted is lost only by a crash,   *)
(* or where main ignores an error as it enqueues again.                    *)
THEOREM QueueLosses == Spec => LostOnlyByCrash
<1>1. ASSUME QueueInv, QueueInv', OrderInv, [Next]_vars, NEW g \in Signals,
             OnDisk(g) \/ InReplay(g) \/ InHand(g) \/ Typed(g),
             ~(OnDisk(g) \/ InReplay(g) \/ InHand(g) \/ Typed(g))'
      PROVE  phase' = "down" \/ phase = "requeueing"
  BY <1>1, NextFate DEF Fate, Somewhere
<1>2. QueueInv /\ QueueInv' /\ OrderInv /\ [Next]_vars =>
        [\A g \in Signals :
           LET Kept == OnDisk(g) \/ InReplay(g) \/ InHand(g) \/ Typed(g) IN
           Has(accepted, g) /\ Kept /\ ~Kept' => phase' = "down" \/ phase = "requeueing"]_vars
  BY <1>1
<1> QED
  BY <1>2, OrderInvariance, QueueInvariance, PTL DEF Spec, LostOnlyByCrash

-----------------------------------------------------------------------------
(* The delivery of signals takes the steps of Mailbox. *)

(* What was not accepted is neither queued nor drained: it is in the hand  *)
(* of its own sender, who injects it, if anywhere.                         *)
Origins ==
    \A g \in Signals : ~Has(accepted, g) =>
        /\ ~OnDisk(g) /\ ~InReplay(g)
        /\ \A a \in Actors : Has(hand[a], g) => a = g /\ injectLock = a

(* Who keeps the lock while something is in its hand keeps the origins.    *)
LEMMA CalmOrigins ==
    ASSUME Origins, UNCHANGED <<disk, replayed, hand, accepted>>,
           \A a \in Actors : injectLock = a /\ hand[a] # <<>> => injectLock' = a
    PROVE  Origins'
<1>1. \A a \in Actors, g \in Signals : Has(hand[a], g) => hand[a] # <<>>
  BY DEF Has
<1> QED
  BY <1>1 DEF Origins, OnDisk, InReplay

(* A sender keeps the provider's lock until its hand is empty.             *)
LEMMA WaitingOrigins ==
    ASSUME QueueInv, OrderInv, Origins, NEW a \in Actors,
           \/ a \in Signals /\ \/ \E k \in Keys : Send(a, k)
                               \/ Probe(a) \/ WakeRefuses(a) \/ Launch(a)
           \/ a \in Spawners /\ \E k \in Keys : Request(a, k)
           \/ Lookup(a) \/ Spawn(a) \/ SpawnFails(a) \/ Finish(a)
           \/ Drain(a) \/ DrainEnds(a) \/ Enter(a)
    PROVE  Origins'
<1>1. /\ UNCHANGED <<disk, replayed, hand, accepted>>
      /\ injectLock' = injectLock \/ (Return(a) /\ pc[a] \notin {"draining", "type", "enter"})
           \/ (Return(a) /\ hand[a] = <<>>)
  BY DEF Send, Probe, WakeRefuses, Launch, Request, Lookup, Spawn, SpawnFails, Finish, Drain,
     DrainEnds, Enter, Return, queueVars, lockVars
<1>2. injectLock' = injectLock \/ (Return(a) /\ hand[a] = <<>>)
  BY <1>1 DEF OrderInv, Injected
<1>3. \A b \in Actors : injectLock = b /\ hand[b] # <<>> => injectLock' = b
  BY <1>2 DEF Return
<1> QED
  BY <1>1, <1>3, CalmOrigins

(* An inject takes the lock as it takes its signal in hand.                *)
LEMMA InjectOrigins ==
    ASSUME QueueInv, OrderInv, Origins, NEW h \in Signals, Inject(h)
    PROVE  Origins'
<1>1. /\ h \in Actors /\ hand[h] = <<>> /\ injectLock = Nobody
      /\ UNCHANGED <<disk, replayed, accepted>>
  BY DEF Actors, OrderInv, Injected, Inject, queueVars
<1>2. CASE hand' = hand
  BY <1>1, <1>2, CalmOrigins, ActorsDistinct
<1>3. CASE hand' = [hand EXCEPT ![h] = <<h>>] /\ injectLock' = h
  <2>1. hand'[h] = <<h>> /\ \A b \in Actors \ {h} : hand'[b] = hand[b]
    BY <1>1, <1>3 DEF QueueInv, TypeOK
  <2>2. \A g \in Signals : Has(<<h>>, g) => g = h
    BY DEF Has
  <2>3. \A b \in Actors, g \in Signals : Has(hand[b], g) /\ ~Has(accepted, g) => FALSE
    BY <1>1, ActorsDistinct DEF Origins
  <2> QED
    BY <1>1, <1>3, <2>1, <2>2, <2>3 DEF Origins, OnDisk, InReplay
<1> QED
  BY <1>2, <1>3 DEF Inject

(* What is put on disk is accepted.                                        *)
LEMMA WakeQueuesOrigins ==
    ASSUME QueueInv, OrderInv, Origins, NEW h \in Signals, WakeQueues(h)
    PROVE  Origins'
<1>1. /\ h \in Actors /\ key[h] \in Keys
      /\ disk' = [disk EXCEPT ![key[h]] = Append(@, h)]
      /\ accepted' = Append(accepted, h) /\ UNCHANGED <<replayed, hand, injectLock>>
  BY DEF QueueInv, WakeQueues, Enqueue, WorkWhileUp, AtWork, Resting, Actors
<1>2. disk[key[h]] \in Seq(Signals) /\ accepted \in Seq(Signals) /\ disk \in [Keys -> Seq(Signals)]
  BY <1>1 DEF QueueInv, TypeOK
<1>3. ASSUME NEW g \in Signals
      PROVE  /\ Has(accepted', g) <=> Has(accepted, g) \/ h = g
             /\ Has(Append(disk[key[h]], h), g) <=> Has(disk[key[h]], g) \/ h = g
  BY <1>1, <1>2, HasAppended
<1>4. ASSUME NEW g \in Signals PROVE OnDisk(g)' <=> OnDisk(g) \/ h = g
  BY <1>1, <1>2, <1>3 DEF OnDisk
<1> QED
  BY <1>1, <1>3, <1>4 DEF Origins, InReplay

(* What comes out of the files was accepted.                               *)
LEMMA DrainFileOrigins ==
    ASSUME QueueInv, QueueInv', Origins, NEW a \in Actors, DrainFile(a)
    PROVE  Origins'
<1>1. UNCHANGED <<replayed, accepted, injectLock>>
  BY DrainFileMoves
<1>2. CASE UNCHANGED <<disk, hand>>
  BY <1>1, <1>2, CalmOrigins
<1>3. CASE \E n : Moves(Keys, disk, key[a], n, disk', Actors, hand, a, hand')
  <2>1. PICK n : Moves(Keys, disk, key[a], n, disk', Actors, hand, a, hand')
    BY <1>3
  <2>2. /\ hand[a] \in Seq(Things) /\ disk[key[a]] \in Seq(Things) /\ n \in DOMAIN disk[key[a]]
        /\ disk[key[a]][n] \in Things /\ key[a] \in Keys
        /\ hand'[a] = Append(hand[a], disk[key[a]][n])
        /\ \A b \in Actors \ {a} : hand'[b] = hand[b]
    BY <2>1 DEF Moves
  <2>3. ASSUME NEW g \in Signals
        PROVE  Has(hand'[a], g) => Has(hand[a], g) \/ OnDisk(g)
    <3>1. Has(hand'[a], g) => Has(hand[a], g) \/ disk[key[a]][n] = g
      BY <2>2, HasAppended
    <3> QED
      BY <2>2, <3>1 DEF OnDisk, Has
  <2>4. ASSUME NEW g \in Signals PROVE OnDisk(g)' => OnDisk(g)
    BY <2>1, InMoved, PlacesIn, PlacesInNext DEF QueueInv
  <2> QED
    BY <1>1, <2>2, <2>3, <2>4 DEF Origins, InReplay
<1> QED
  BY <1>2, <1>3, DrainFileMoves

(* Typing takes from a hand only.                                          *)
LEMMA TypeOrigins ==
    ASSUME QueueInv, QueueInv', Origins, NEW a \in Actors, Type(a)
    PROVE  Origins'
<1>1. /\ hand[a] # <<>> /\ hand[a] \in Seq(Signals) /\ hand'[a] = Tail(hand[a])
      /\ \A b \in Actors \ {a} : hand'[b] = hand[b]
      /\ UNCHANGED <<disk, replayed, accepted, injectLock>>
  BY DEF Type, QueueInv, TypeOK, queueVars, lockVars
<1>2. ASSUME NEW g \in Signals PROVE Has(hand'[a], g) => Has(hand[a], g)
  BY <1>1, HasTaken
<1> QED
  BY <1>1, <1>2 DEF Origins, OnDisk, InReplay

(* The replay reads what is on disk.                                       *)
LEMMA ReplayFileOrigins ==
    ASSUME QueueInv, QueueInv', Origins, NEW k \in Keys, ReplayFile(k)
    PROVE  Origins'
<1>1. /\ UNCHANGED <<hand, accepted, injectLock>>
      /\ \/ UNCHANGED <<disk, replayed>>
         \/ \E n : Moves(Keys, disk, k, n, disk', Keys, replayed, k, replayed')
  BY ReplayFileMoves
<1>3. ASSUME NEW g \in Signals
      PROVE  /\ OnDisk(g)' => OnDisk(g)
             /\ InReplay(g)' => InReplay(g) \/ OnDisk(g)
  <2>1. CASE UNCHANGED <<disk, replayed>>
    BY <2>1 DEF OnDisk, InReplay
  <2>2. CASE \E n : Moves(Keys, disk, k, n, disk', Keys, replayed, k, replayed')
    BY <2>2, InMoved, PlacesIn, PlacesInNext DEF QueueInv
  <2> QED
    BY <1>1, <2>1, <2>2
<1> QED
  BY <1>1, <1>3 DEF Origins

(* And main writes what the replay read.                                   *)
LEMMA RequeueOrigins ==
    ASSUME QueueInv, QueueInv', Origins, NEW k \in Keys, Requeue(k)
    PROVE  Origins'
<1>1. /\ replayed[k] # <<>> /\ Head(replayed[k]) \in Signals
      /\ replayed[k] \in Seq(Signals) /\ disk[k] \in Seq(Signals)
      /\ replayed'[k] = Tail(replayed[k])
      /\ disk'[k] \in {disk[k], Append(disk[k], Head(replayed[k]))}
      /\ \A j \in Keys \ {k} : disk'[j] = disk[j] /\ replayed'[j] = replayed[j]
      /\ UNCHANGED <<hand, accepted, injectLock>>
  BY DEF Requeue, Enqueue, QueueInv, TypeOK, actorVars, lockVars
<1>2. ASSUME NEW g \in Signals
      PROVE  /\ Has(replayed[k], g) <=> Head(replayed[k]) = g \/ Has(Tail(replayed[k]), g)
             /\ Has(Append(disk[k], Head(replayed[k])), g)
                  <=> Has(disk[k], g) \/ Head(replayed[k]) = g
  BY <1>1, HasTaken, HasAppended
<1>3. ASSUME NEW g \in Signals
      PROVE  /\ InReplay(g)' => InReplay(g)
             /\ OnDisk(g)' => OnDisk(g) \/ InReplay(g)
  BY <1>1, <1>2 DEF InReplay, OnDisk
<1> QED
  BY <1>1, <1>3 DEF Origins

(* A crash empties the hands.                                              *)
LEMMA CrashOrigins ==
    ASSUME Origins, Crash
    PROVE  Origins'
<1>1. /\ \A k \in Keys : replayed'[k] = <<>>
      /\ \A a \in Actors : hand'[a] = <<>>
      /\ UNCHANGED <<disk, accepted>>
  BY DEF Crash
<1> QED
  BY <1>1 DEF Origins, OnDisk, InReplay, Has

(* Every step keeps the origins.                                           *)
LEMMA NextOrigins ==
    QueueInv /\ QueueInv' /\ OrderInv /\ Origins /\ [Next]_vars => Origins'
<1> SUFFICES ASSUME QueueInv, QueueInv', OrderInv, Origins, [Next]_vars PROVE Origins'
  OBVIOUS
<1>1. ASSUME NEW a \in Actors, Spawning(a) PROVE Origins'
  BY <1>1, WaitingOrigins, DrainFileOrigins, TypeOrigins DEF Spawning
<1>2. ASSUME NEW g \in Signals, Sending(g) PROVE Origins'
  BY <1>1, <1>2, WaitingOrigins, InjectOrigins, WakeQueuesOrigins DEF Sending, Actors
<1>3. ASSUME NEW g \in Signals, NEW k \in Keys, Send(g, k) PROVE Origins'
  BY <1>3, WaitingOrigins DEF Actors
<1>4. ASSUME NEW a \in Spawners, NEW k \in Keys, Request(a, k) PROVE Origins'
  BY <1>4, WaitingOrigins DEF Actors
<1>5. ASSUME NEW k \in Keys, SessionEnds(k) PROVE Origins'
  BY <1>5, CalmOrigins DEF SessionEnds, queueVars, actorVars, lockVars
<1>6. CASE Booting
  <2>1. CASE Restart \/ ReplayEnds \/ Serve
    BY <2>1, CalmOrigins DEF Restart, ReplayEnds, Serve, queueVars, actorVars, lockVars
  <2> QED
    BY <1>6, <2>1, ReplayFileOrigins, RequeueOrigins DEF Booting
<1>7. CASE UNCHANGED vars
  BY <1>7, CalmOrigins DEF vars, queueVars, actorVars, lockVars
<1> QED
  BY <1>1, <1>2, <1>3, <1>4, <1>5, <1>6, <1>7, CrashOrigins DEF Next, Actors

(* A sender sends once, and what is refused stays so.                      *)
LEMMA NextPlace ==
    ASSUME QueueInv, [Next]_vars, NEW g \in Signals
    PROVE  /\ pc[g] = "unsent" => pc'[g] \in {"unsent", "probe"}
           /\ pc[g] # "unsent" => pc'[g] # "unsent"
           /\ pc[g] = "refused" => pc'[g] = "refused"
<1>0. g \in Actors /\ g \notin Spawners /\ pc \in [Actors -> Pcs]
  BY ActorsDistinct DEF Actors, QueueInv, TypeOK
<1>1. ASSUME NEW a \in Actors, NEW label, Goto(a, label), pc[a] \notin {"unsent", "refused"},
             label # "unsent"
      PROVE  /\ pc[g] = "unsent" => pc'[g] \in {"unsent", "probe"}
             /\ pc[g] # "unsent" => pc'[g] # "unsent"
             /\ pc[g] = "refused" => pc'[g] = "refused"
  BY <1>0, <1>1 DEF Goto
<1>2. ASSUME NEW a \in Actors, Spawning(a)
      PROVE  UNCHANGED pc \/ \E label : Goto(a, label) /\ label # "unsent"
                                        /\ pc[a] \notin {"unsent", "refused"}
  BY <1>2 DEF Spawning, Lookup, Spawn, SpawnFails, Drain, DrainFile, DrainEnds, Type, Enter,
     Finish, Return
<1>3. ASSUME NEW h \in Signals, Sending(h)
      PROVE  UNCHANGED pc \/ \E label : Goto(h, label) /\ label # "unsent"
                                        /\ pc[h] \notin {"unsent", "refused"}
  BY <1>2, <1>3 DEF Actors, Sending, Probe, Inject, WakeQueues, WakeRefuses, Launch, Return
<1>4. ASSUME NEW h \in Signals, NEW k \in Keys, Send(h, k)
      PROVE  pc[h] = "unsent" /\ pc' = [pc EXCEPT ![h] = "probe"]
  BY <1>4 DEF Send, Goto
<1>5. ASSUME NEW a \in Spawners, NEW k \in Keys, Request(a, k)
      PROVE  pc[a] = "idle" /\ Goto(a, "lookup")
  BY <1>5 DEF Request
<1>6. CASE Crash
  BY <1>0, <1>6 DEF Crash, Resting
<1>7. CASE (\E k \in Keys : SessionEnds(k)) \/ Booting \/ UNCHANGED vars
  BY <1>7 DEF SessionEnds, Booting, Restart, ReplayEnds, Serve, ReplayFile, Requeue, vars,
     actorVars
<1>8. CASE \E h \in Signals, k \in Keys : Send(h, k)
  BY <1>0, <1>4, <1>8
<1>9. CASE \E a \in Spawners, k \in Keys : Request(a, k)
  BY <1>0, <1>1, <1>5, <1>9 DEF Actors
<1>10. CASE \E a \in Actors : Spawning(a)
  BY <1>1, <1>2, <1>10
<1>11. CASE \E h \in Signals : Sending(h)
  BY <1>1, <1>3, <1>11 DEF Actors
<1> QED
  BY <1>6, <1>7, <1>8, <1>9, <1>10, <1>11 DEF Next, Actors

(* In what stage a signal is depends on what it may go to.                 *)
LEMMA StatusMoves ==
    ASSUME QueueInv, QueueInv', CopyInv, OrderInv, Origins, [Next]_vars, NEW g \in Signals
    PROVE  /\ Status(g) \in Box!Stages
           /\ Status(g)' = Status(g) \/ <<Status(g), Status(g)'>> \in Box!Moves
<1>1. Fate(g)
  BY NextFate
<1>2. /\ pc[g] = "unsent" => pc'[g] \in {"unsent", "probe"}
      /\ pc[g] # "unsent" => pc'[g] # "unsent"
      /\ pc[g] = "refused" => pc'[g] = "refused"
  BY NextPlace
<1>3. ~Has(accepted, g) /\ InHand(g) => pc[g] \in {"type", "enter"}
  BY DEF Actors, Origins, OrderInv, Injected, InHand
<1>4. pc[g] = "unsent" => ~Typed(g) /\ ~Has(accepted, g)
  <2>1. Fresh(g) => ~Has(accepted, g) /\ \A s \in Sessions : ~Has(input[s], g)
    BY StoreAt DEF CopyInv, Absent, OrderInv, Injected
  <2> QED
    BY <2>1 DEF Fresh, Typed
<1>5. Has(accepted, g) => ~Fresh(g)
  BY DEF OrderInv, Injected
<1>6. CASE Typed(g)
  BY <1>1, <1>6 DEF Fate, Status, Box!Stages
<1>7. CASE ~Typed(g) /\ Has(accepted, g)
  BY <1>1, <1>5, <1>7 DEF Fate, Somewhere, Status, Box!Stages, Box!Moves
<1>8. CASE ~Typed(g) /\ ~Has(accepted, g)
  <2>1. CASE pc[g] = "unsent"
    BY <1>1, <1>2, <1>3, <1>8, <2>1 DEF Fate, Status, Box!Stages, Box!Moves
  <2>2. CASE pc[g] = "refused"
    BY <1>1, <1>2, <1>3, <1>8, <2>2 DEF Fate, Status, Box!Stages, Box!Moves
  <2>3. CASE pc[g] \notin {"unsent", "refused"}
    BY <1>1, <1>2, <1>8, <2>3 DEF Fate, Status, Box!Stages, Box!Moves
  <2> QED
    BY <2>1, <2>2, <2>3
<1> QED
  BY <1>6, <1>7, <1>8

(* egress.rs:287-300: every signal goes through the stages of Mailbox: it  *)
(* is delivered at once, refused, or queued and then delivered or lost.    *)
(* (That it leaves the stage "sent" needs the fairness, and TLC.)          *)
THEOREM MailboxStages ==
    Spec => Box!Init /\ [][Box!Next]_[g \in Signals |-> Status(g)]
<1>1. Init => Box!Init
  <2> SUFFICES ASSUME Init, NEW g \in Signals PROVE Status(g) = "unsent"
    BY DEF Box!Init
  <2>1. ~Typed(g) /\ ~Has(accepted, g)
    BY DEF Init, Typed, Has
  <2>2. pc[g] = "unsent"
    BY DEF Init, Actors
  <2> QED
    BY <2>1, <2>2 DEF Status
<1>2. Init => Origins
  BY DEF Init, Origins, OnDisk, InReplay, Has
<1>3. QueueInv /\ QueueInv' /\ CopyInv /\ OrderInv /\ Origins /\ [Next]_vars =>
        [Box!Next]_[g \in Signals |-> Status(g)]
  <2> SUFFICES ASSUME QueueInv, QueueInv', CopyInv, OrderInv, Origins, [Next]_vars
               PROVE  Box!Next
    OBVIOUS
  <2>1. \A g \in Signals :
          /\ Status(g)' \in Box!Stages
          /\ Status(g)' = Status(g) \/ <<Status(g), Status(g)'>> \in Box!Moves
    BY StatusMoves DEF Box!Moves, Box!Stages
  <2> QED
    BY <2>1 DEF Box!Next
<1> QED
  BY <1>1, <1>2, <1>3, NextOrigins, InitCopies, NextCopies, OrderInvariance, QueueInvariance, PTL
     DEF Spec
=============================================================================
