-------------------------- MODULE Heartbeat_proofs --------------------------
(***************************************************************************)
(* The lease of a heartbeat excludes and is never lost but by a restart or *)
(* a rename (Safe), and the lanes of two heartbeats stay apart (LaneInv):  *)
(* both are inductive, for any number of heartbeats and of launches at     *)
(* once, and any bound on spawns and on what users do.                     *)
(***************************************************************************)
EXTENDS Heartbeat, TLAPS

-----------------------------------------------------------------------------
(* What the columns' updates preserve. *)

(* A row stays a row under the edits of its columns, and keeps its lease.  *)
LEMMA RowEdits ==
    ASSUME NEW r \in Kept, NEW b \in BOOLEAN, NEW i \in Nat, NEW j \in Nat,
           NEW f \in BOOLEAN
    PROVE  {[r EXCEPT !.enabled = b], [r EXCEPT !.archived = b], [r EXCEPT !.shared = b],
            [r EXCEPT !.terminal = i], [r EXCEPT !.saved = i, !.terminal = j],
            [r EXCEPT !.due = f]}
             \subseteq {q \in Kept : q.leased = r.leased}
BY DEF Kept

(* The lease is a column of its own: taken, the rest of the row stays.     *)
LEMMA LeaseTaken ==
    ASSUME NEW r \in Kept
    PROVE  /\ [r EXCEPT !.leased = TRUE] \in Kept
           /\ [r EXCEPT !.leased = TRUE].exists = TRUE
           /\ [r EXCEPT !.leased = TRUE].leased = TRUE
BY DEF Kept

(* The same when it is given back, with or without a stamp.                *)
LEMMA LeaseReleased ==
    ASSUME NEW r \in Kept, NEW f \in BOOLEAN
    PROVE  /\ [r EXCEPT !.leased = FALSE] \in Kept
           /\ [r EXCEPT !.leased = FALSE].leased = FALSE
           /\ [r EXCEPT !.due = f, !.leased = FALSE] \in Kept
           /\ [r EXCEPT !.due = f, !.leased = FALSE].leased = FALSE
BY DEF Kept

(* A name has a row of all columns, or none.                               *)
LEMMA Existing ==
    ASSUME TypeOK, NEW n \in Names
    PROVE  /\ row[n].exists \in BOOLEAN
           /\ row[n].exists => row[n] \in Kept
           /\ ~row[n].exists => row[n] = NoRow
<1>1. row[n] \in Kept \/ row[n] = NoRow
    BY DEF TypeOK
<1>2. CASE row[n] \in Kept
    <2>1. row[n].exists = TRUE
        BY <1>2 DEF Kept
    <2> QED BY <1>2, <2>1
<1>3. CASE row[n] = NoRow
    <2>1. row[n].exists = FALSE
        BY <1>3 DEF NoRow
    <2> QED BY <1>3, <2>1
<1> QED BY <1>1, <1>2, <1>3

(* An UPDATE writes one row, if there is one of the name.                  *)
LEMMA UpdateKept ==
    ASSUME TypeOK, NEW n \in Names, NEW r, row[n].exists => r \in Kept
    PROVE  /\ Update(row, n, r) \in [Names -> Kept \cup {NoRow}]
           /\ \A m \in Names : m # n => Update(row, n, r)[m] = row[m]
           /\ Update(row, n, r)[n] = IF row[n].exists THEN r ELSE row[n]
BY DEF TypeOK, Update

(* An UPDATE that leaves the lease column alone changes no lease.          *)
LEMMA EditRow ==
    ASSUME TypeOK, NEW n \in Names, NEW r, row' = Update(row, n, r),
           row[n].exists => r \in Kept /\ r.leased = row[n].leased
    PROVE  /\ row' \in [Names -> Kept \cup {NoRow}]
           /\ \A m \in Names : /\ row'[m].exists = row[m].exists
                              /\ (row[m].exists => row'[m].leased = row[m].leased)
<1>1. CASE row[n].exists
    <2>1. r \in Kept /\ r.leased = row[n].leased /\ row[n] \in Kept
        BY <1>1, Existing
    <2>2. r.exists = TRUE /\ row[n].exists = TRUE
        BY <2>1 DEF Kept
    <2>3. /\ row' \in [Names -> Kept \cup {NoRow}] /\ row'[n] = r
          /\ \A m \in Names : m # n => row'[m] = row[m]
        BY <1>1, <2>1, UpdateKept
    <2>4. \A m \in Names : /\ row'[m].exists = row[m].exists
                         /\ (row[m].exists => row'[m].leased = row[m].leased)
        BY <2>1, <2>2, <2>3
    <2> QED BY <2>3, <2>4
<1>2. CASE ~row[n].exists
    <2>1. row' = row
        BY <1>2 DEF Update
    <2> QED BY <2>1 DEF TypeOK
<1> QED BY <1>1, <1>2

(* A task that is told its terminal is still a task.                       *)
LEMMA JobEdits ==
    ASSUME NEW j \in Jobs, NEW c \in Nat, NEW t \in Nat
    PROVE  [j EXCEPT !.conv = c, !.term = t] \in Jobs
BY DEF Jobs

(* The defaults are values of their types.                                 *)
LEMMA Nothing == NoJob \in Jobs /\ NoSession \in Sessions /\ FreshRow \in Kept /\ None \in Nat
BY DEF NoJob, Jobs, Keys, NoSession, Sessions, FreshRow, Kept, None

-----------------------------------------------------------------------------

(* At first no task runs and no lease is taken.                            *)
LEMMA InitSafe == Init => Safe
<1> SUFFICES ASSUME Init PROVE Safe
    OBVIOUS
<1>1. TypeOK
    BY Nothing, ConfiguredAreNames DEF Init, TypeOK, Steps, None
<1>2. InFlight = {}
    BY DEF Init, InFlight
<1>3. \A n \in Names : ~(row[n].exists /\ row[n].leased)
    BY DEF Init, FreshRow, NoRow
<1> QED BY <1>1, <1>2, <1>3 DEF Safe, LeaseOwned, OneInFlight, Held

-----------------------------------------------------------------------------
(* The two ways in which a step of a launch leaves the leases in order.    *)

(* No lease changes and no launch enters or leaves its flight.             *)
LEMMA Quiet ==
    ASSUME Safe, stray' = stray, mixed' = mixed,
           \A n \in Names : /\ row'[n].exists = row[n].exists
                           /\ (row[n].exists => row'[n].leased = row[n].leased),
           InFlight' = InFlight, \A l \in InFlight : job'[l].name = job[l].name
    PROVE  LeaseOwned' /\ OneInFlight' /\ Held'
<1>0. \A l \in InFlight : job[l].name \in Names
    BY DEF Safe, TypeOK, InFlight, Steps
<1>1. LeaseOwned'
  <2> SUFFICES ASSUME NEW n \in Names, row'[n].exists, row'[n].leased, n \notin stray'
               PROVE  \E l \in InFlight' : job'[l].name = n
      BY DEF LeaseOwned
  <2>1. row[n].exists /\ row[n].leased /\ n \notin stray
      OBVIOUS
  <2>2. PICK l \in InFlight : job[l].name = n
      BY <2>1 DEF Safe, LeaseOwned
  <2> QED BY <2>2
<1>2. OneInFlight'
    BY DEF Safe, OneInFlight
<1>3. Held'
    BY <1>0 DEF Safe, Held
<1> QED BY <1>1, <1>2, <1>3

(* A launch in flight gives its lease back and is no longer in flight.     *)
LEMMA Returned ==
    ASSUME Safe, NEW l \in InFlight, NEW r, row' = Update(row, job[l].name, r),
           row[job[l].name].exists => r \in Kept /\ r.leased = FALSE,
           stray' = stray \ {job[l].name}, mixed' = mixed, InFlight' = InFlight \ {l},
           \A o \in InFlight \ {l} : job'[o].name = job[o].name
    PROVE  /\ row' \in [Names -> Kept \cup {NoRow}] /\ stray' \in SUBSET Names
           /\ LeaseOwned' /\ OneInFlight' /\ Held'
<1> DEFINE n == job[l].name
<1>0. n \in Names /\ \A o \in InFlight : job[o].name \in Names
    BY DEF Safe, TypeOK, InFlight, Steps
<1>2. /\ row' \in [Names -> Kept \cup {NoRow}]
      /\ \A m \in Names : m # n => row'[m] = row[m]
      /\ row'[n] = IF row[n].exists THEN r ELSE row[n]
    BY <1>0, UpdateKept DEF Safe
<1>3. ~(row'[n].exists /\ row'[n].leased)
    BY <1>2
<1>4. stray' = stray \ {n}
    OBVIOUS
<1>5. LeaseOwned'
  <2> SUFFICES ASSUME NEW m \in Names, row'[m].exists, row'[m].leased, m \notin stray'
               PROVE  \E o \in InFlight' : job'[o].name = m
      BY DEF LeaseOwned
  <2>1. m # n /\ row[m].exists /\ row[m].leased /\ m \notin stray
      BY <1>2, <1>3, <1>4
  <2>2. PICK o \in InFlight : job[o].name = m
      BY <2>1 DEF Safe, LeaseOwned
  <2> QED BY <2>1, <2>2
<1>6. OneInFlight'
    BY DEF Safe, OneInFlight
<1>7. Held'
  <2> SUFFICES ASSUME NEW o \in InFlight', job'[o].name \notin mixed'
               PROVE  row'[job'[o].name].exists /\ row'[job'[o].name].leased
      BY DEF Held
  <2>1. o # l /\ o \in InFlight /\ job[o].name # n /\ job[o].name \in Names
      BY <1>0 DEF Safe, OneInFlight
  <2> QED BY <2>1, <1>2 DEF Safe, Held
<1> QED BY <1>2, <1>4, <1>5, <1>6, <1>7 DEF Safe, TypeOK

-----------------------------------------------------------------------------
(* The steps of a launch. *)

(* A task that ends is in flight no more, and no other is touched.         *)
LEMMA EndsKeeps ==
    ASSUME TypeOK, NEW l \in Launches, Ends(l)
    PROVE  /\ pc' \in [Launches -> Steps] /\ job' \in [Launches -> Jobs]
           /\ \A o \in Launches : pc'[o] # "idle" => job'[o].name \in Names
           /\ InFlight' = InFlight \ {l}
           /\ \A o \in Launches \ {l} : job'[o] = job[o]
BY Nothing DEF TypeOK, Ends, Goto, Steps, InFlight

(* A tick takes a task for a row that is due, or disables the row.         *)
LEMMA TickKeeps ==
    ASSUME Safe, NEW l \in Launches, NEW n \in Names, Tick(l, n)
    PROVE  Safe'
<1>1. /\ UNCHANGED <<wakeup, slot, owing, jsonl, minted, upsets, stray, mixed, renamed>>
      /\ pc[l] = "idle" /\ row[n] \in Kept
    BY Existing DEF Tick, world, registry, history, Schedulable, Safe
<1>2. CASE n \in wakeup
  <2>1. /\ row' = row /\ pc' = [pc EXCEPT ![l] = "resolve"]
        /\ job' = [job EXCEPT ![l] = [NoJob EXCEPT !.name = n]]
      BY <1>2 DEF Tick, Goto
  <2>2. [NoJob EXCEPT !.name = n] \in Jobs
      BY Nothing DEF Jobs, Keys
  <2>3. TypeOK'
      BY <1>1, <2>1, <2>2 DEF Safe, TypeOK, Steps, NoJob
  <2>4. InFlight' = InFlight /\ \A o \in InFlight : job'[o].name = job[o].name
      BY <1>1, <2>1 DEF Safe, TypeOK, InFlight
  <2> QED BY <1>1, <2>1, <2>3, <2>4, Quiet DEF Safe
<1>3. CASE n \notin wakeup
  <2>1. /\ row' = Update(row, n, [row[n] EXCEPT !.enabled = FALSE])
        /\ UNCHANGED <<pc, job>>
      BY <1>3 DEF Tick, tasks
  <2>2. row[n].exists => /\ [row[n] EXCEPT !.enabled = FALSE] \in Kept
                         /\ [row[n] EXCEPT !.enabled = FALSE].leased = row[n].leased
      BY <1>1, RowEdits
  <2>3. /\ row' \in [Names -> Kept \cup {NoRow}]
        /\ \A m \in Names : /\ row'[m].exists = row[m].exists
                           /\ (row[m].exists => row'[m].leased = row[m].leased)
      BY <2>1, <2>2, EditRow DEF Safe
  <2>4. TypeOK'
      BY <1>1, <2>1, <2>3 DEF Safe, TypeOK
  <2>5. InFlight' = InFlight
      BY <2>1 DEF InFlight
  <2> QED BY <1>1, <2>1, <2>3, <2>4, <2>5, Quiet DEF Safe
<1> QED BY <1>2, <1>3

(* The row read by a launch is that of its heartbeat.                      *)
LEMMA ReadsKeeps ==
    ASSUME Safe, NEW l \in Launches, NEW n \in Names, Reads(l, n),
           pc[l] \in {"idle", "resolve"}, UNCHANGED <<row, world, upsets, history>>
    PROVE  Safe'
<1> DEFINE j == [NoJob EXCEPT !.name = n, !.saved = row[n].saved,
                              !.terminal = row[n].terminal, !.shared = row[n].shared]
<1>1. /\ UNCHANGED <<row, wakeup, slot, owing, jsonl, minted, upsets, stray, mixed, renamed>>
      /\ row[n] \in Kept /\ pc' = [pc EXCEPT ![l] = "acquire"] /\ job' = [job EXCEPT ![l] = j]
    BY Existing DEF Reads, Goto, world, registry, history, Safe
<1>2. j \in Jobs /\ j.name = n
    BY <1>1 DEF Kept, NoJob, Jobs, Keys, None
<1> HIDE DEF j
<1>3. TypeOK'
    BY <1>1, <1>2 DEF Safe, TypeOK, Steps
<1>4. InFlight' = InFlight /\ \A o \in InFlight : job'[o].name = job[o].name
    BY <1>1 DEF Safe, TypeOK, InFlight
<1> QED BY <1>1, <1>3, <1>4, Quiet DEF Safe

(* A task of a tick reads the row anew, or ends.                           *)
LEMMA ResolveKeeps ==
    ASSUME Safe, NEW l \in Launches, Resolve(l)
    PROVE  Safe'
<1> DEFINE n == job[l].name
<1>0. pc[l] = "resolve" /\ n \in Names /\ UNCHANGED <<row, world, upsets, history>>
    BY DEF Resolve, Safe, TypeOK
<1>1. CASE Reads(l, n)
    BY <1>0, <1>1, ReadsKeeps
<1>2. CASE Ends(l)
  <2>1. /\ UNCHANGED <<row, wakeup, slot, owing, jsonl, minted, upsets, stray, mixed, renamed>>
        /\ l \notin InFlight
      BY <1>0 DEF world, registry, history, InFlight
  <2>2. /\ TypeOK' /\ InFlight' = InFlight
        /\ \A o \in InFlight : job'[o].name = job[o].name
      BY <1>2, <2>1, EndsKeeps DEF Safe, TypeOK, InFlight
  <2> QED BY <2>1, <2>2, Quiet DEF Safe
<1> QED BY <1>0, <1>1, <1>2 DEF Resolve

(* A task that takes the lease finds nobody past it.                       *)
LEMMA AcquireKeeps ==
    ASSUME Safe, NEW l \in Launches, Acquire(l)
    PROVE  Safe'
<1> DEFINE n == job[l].name
<1>0. /\ pc[l] = "acquire" /\ n \in Names /\ l \notin InFlight
      /\ UNCHANGED <<wakeup, slot, owing, jsonl, minted, upsets, stray, mixed, renamed>>
    BY DEF Acquire, Safe, TypeOK, InFlight, world, registry, history
<1>1. CASE row[n].exists /\ ~row[n].leased
  <2> DEFINE step == IF job[l].shared THEN "deliver" ELSE "decide"
  <2> DEFINE taken == [row[n] EXCEPT !.leased = TRUE]
  <2>1. /\ row' = Update(row, n, taken)
        /\ pc' = [pc EXCEPT ![l] = step] /\ job' = job
      BY <1>1 DEF Acquire, Goto
  <2>2. taken \in Kept /\ taken.exists = TRUE /\ taken.leased = TRUE
      BY <1>0, <1>1, Existing, LeaseTaken DEF Safe
  <2> HIDE DEF taken
  <2>3. /\ row' \in [Names -> Kept \cup {NoRow}] /\ row'[n] = taken
        /\ \A m \in Names : m # n => row'[m] = row[m]
      BY <1>0, <1>1, <2>1, <2>2, UpdateKept DEF Safe
  <2>4. row'[n].exists = TRUE /\ row'[n].leased = TRUE
      BY <2>2, <2>3
  <2>5. TypeOK'
    <3>1. pc' \in [Launches -> Steps] /\ pc'[l] # "idle"
          /\ \A o \in Launches : o # l => pc'[o] = pc[o]
        BY <2>1 DEF Safe, TypeOK, Steps
    <3> QED BY <1>0, <2>1, <2>3, <3>1 DEF Safe, TypeOK
  <2>6. InFlight' = InFlight \cup {l}
      BY <1>0, <2>1 DEF InFlight, Safe, TypeOK
  <2>7. \A o \in InFlight : job[o].name = n => n \in mixed
      BY <1>1 DEF Safe, Held
  <2>8. LeaseOwned'
    <3> SUFFICES ASSUME NEW m \in Names, row'[m].exists, row'[m].leased, m \notin stray'
                 PROVE  \E o \in InFlight' : job'[o].name = m
        BY DEF LeaseOwned
    <3>1. CASE m = n
        BY <3>1, <2>1, <2>6
    <3>2. CASE m # n
      <4>1. PICK o \in InFlight : job[o].name = m
          BY <3>2, <2>3, <1>0 DEF Safe, LeaseOwned
      <4> QED BY <4>1, <2>1, <2>6
    <3> QED BY <3>1, <3>2
  <2>9. OneInFlight'
    <3> SUFFICES ASSUME NEW o \in InFlight', NEW q \in InFlight', o # q, job[o].name = job[q].name
                 PROVE  job[o].name \in mixed
        BY <1>0, <2>1 DEF OneInFlight
    <3> QED BY <2>6, <2>7 DEF Safe, OneInFlight
  <2>10. Held'
    <3> SUFFICES ASSUME NEW o \in InFlight', job[o].name \notin mixed
                 PROVE  row'[job[o].name].exists /\ row'[job[o].name].leased
        BY <1>0, <2>1 DEF Held
    <3>1. CASE job[o].name = n
        BY <3>1, <2>4
    <3>2. CASE job[o].name # n
      <4>1. o \in InFlight /\ job[o].name \in Names
          BY <3>2, <2>6 DEF Safe, TypeOK, InFlight
      <4> QED BY <3>2, <4>1, <2>3 DEF Safe, Held
    <3> QED BY <3>1, <3>2
  <2> QED BY <2>5, <2>8, <2>9, <2>10 DEF Safe
<1>2. CASE ~(row[n].exists /\ ~row[n].leased)
  <2>1. row' = row /\ Ends(l)
      BY <1>2 DEF Acquire
  <2>2. /\ pc' \in [Launches -> Steps] /\ job' \in [Launches -> Jobs]
        /\ \A o \in Launches : pc'[o] # "idle" => job'[o].name \in Names
        /\ InFlight' = InFlight \ {l}
        /\ \A o \in Launches \ {l} : job'[o] = job[o]
      BY <2>1, EndsKeeps DEF Safe
  <2>3. TypeOK'
      BY <1>0, <2>1, <2>2 DEF Safe, TypeOK
  <2>4. InFlight' = InFlight /\ \A o \in InFlight : job'[o].name = job[o].name
      BY <1>0, <2>2 DEF InFlight
  <2> QED BY <1>0, <2>1, <2>3, <2>4, Quiet DEF Safe
<1> QED BY <1>1, <1>2

(* A step of a launch that stays in flight and leaves the leases alone.    *)
LEMMA Progress ==
    ASSUME Safe, NEW l \in InFlight, NEW step \in Steps \ {"idle"}, NEW j \in Jobs,
           j.name = job[l].name,
           step \in {"deliver", "decide", "fresh", "inject", "resume", "save", "bind", "stamp"},
           pc' = [pc EXCEPT ![l] = step], job' = [job EXCEPT ![l] = j],
           row' \in [Names -> Kept \cup {NoRow}],
           \A m \in Names : /\ row'[m].exists = row[m].exists
                           /\ (row[m].exists => row'[m].leased = row[m].leased),
           slot' \in [Keys -> Sessions], owing' \in SUBSET Keys, minted' \in Nat,
           UNCHANGED <<wakeup, jsonl, upsets, history>>
    PROVE  Safe'
<1>1. UNCHANGED <<wakeup, jsonl, upsets, stray, mixed, renamed>> /\ l \in Launches
    BY DEF history, InFlight
<1>2. job[l].name \in Names
    BY DEF Safe, TypeOK, InFlight
<1>3. TypeOK'
  <2>1. /\ pc' \in [Launches -> Steps] /\ job' \in [Launches -> Jobs]
        /\ \A o \in Launches : pc'[o] # "idle" => job'[o].name \in Names
      BY <1>1, <1>2 DEF Safe, TypeOK
  <2> QED BY <1>1, <2>1 DEF Safe, TypeOK
<1>4. InFlight' = InFlight
    BY <1>1 DEF InFlight, Safe, TypeOK
<1>5. \A o \in InFlight : job'[o].name = job[o].name
    BY <1>1 DEF InFlight, Safe, TypeOK
<1> QED BY <1>1, <1>3, <1>4, <1>5, Quiet DEF Safe

(* The choice of a branch touches pointers only.                           *)
LEMMA DecideKeeps ==
    ASSUME Safe, NEW l \in Launches, Decide(l)
    PROVE  Safe'
<1> DEFINE n == job[l].name
           branch == plan_launch_decision(job[l])
           stale == job[l].terminal # None /\ Bonded(job[l]) = {}
           ghost == job[l].saved # None /\ branch = "fresh"
           r == [row[n] EXCEPT !.terminal = IF stale THEN None ELSE @,
                               !.saved = IF ghost THEN None ELSE @]
<1>1. PICK k \in (IF branch = "inject" THEN Targets(job[l]) ELSE {n}) :
         job' = [job EXCEPT ![l] = [NoJob EXCEPT
                   !.name = n, !.kind = branch,
                   !.conv = IF branch = "resume" THEN job[l].saved ELSE None,
                   !.term = IF branch = "inject" THEN slot[k].id ELSE None]]
    BY DEF Decide
<1>2. /\ pc[l] = "decide" /\ row' = Update(row, n, r) /\ pc' = [pc EXCEPT ![l] = branch]
      /\ UNCHANGED <<wakeup, slot, owing, jsonl, minted, upsets, history>>
      /\ l \in InFlight
    BY DEF Decide, Goto, world, registry, InFlight
<1>3. n \in Names /\ job[l] \in Jobs /\ slot \in [Keys -> Sessions]
    BY <1>2 DEF Safe, TypeOK
<1>4. branch \in {"fresh", "inject", "resume"}
    BY DEF plan_launch_decision
<1> DEFINE j == [NoJob EXCEPT
                   !.name = n, !.kind = branch,
                   !.conv = IF branch = "resume" THEN job[l].saved ELSE None,
                   !.term = IF branch = "inject" THEN slot[k].id ELSE None]
<1>5. j \in Jobs /\ j.name = n
  <2>1. branch = "inject" => slot[k].id \in Nat
      BY <1>1, <1>3 DEF Targets, Bonded, Alive, Registered, Running, Keys, Sessions
  <2> HIDE DEF branch
  <2> QED BY <1>3, <1>4, <2>1, Nothing DEF Jobs, NoJob
<1>6. row[n].exists => r \in Kept /\ r.leased = row[n].leased
  <2> SUFFICES ASSUME row[n] \in Kept PROVE r \in Kept /\ r.leased = row[n].leased
      BY <1>3, Existing DEF Safe
  <2> HIDE DEF stale, ghost
  <2> QED BY Nothing DEF Kept
<1>7. /\ row' \in [Names -> Kept \cup {NoRow}]
      /\ \A m \in Names : /\ row'[m].exists = row[m].exists
                         /\ (row[m].exists => row'[m].leased = row[m].leased)
  <2> HIDE DEF r
  <2> QED BY <1>2, <1>3, <1>6, EditRow DEF Safe
<1>8. branch \in Steps \ {"idle"} /\ job' = [job EXCEPT ![l] = j]
    BY <1>1, <1>4 DEF Steps
<1>9. owing' \in SUBSET Keys /\ minted' \in Nat /\ slot' \in [Keys -> Sessions]
    BY <1>2, <1>3 DEF Safe, TypeOK
<1> HIDE DEF branch, j
<1> QED BY <1>2, <1>4, <1>5, <1>7, <1>8, <1>9, Progress

(* A delivery goes on to its stamp with the lease it has.                  *)
LEMMA DeliverKeeps ==
    ASSUME Safe, NEW l \in Launches, Deliver(l) \/ Inject(l)
    PROVE  Safe'
<1>1. /\ l \in InFlight /\ pc' = [pc EXCEPT ![l] = "stamp"]
      /\ job' = [job EXCEPT ![l] = job[l]] /\ job[l] \in Jobs
      /\ UNCHANGED <<row, wakeup, slot, owing, jsonl, minted, upsets, history>>
    BY DEF Deliver, Inject, InFlight, Goto, world, registry, Safe, TypeOK
<1>2. /\ slot' \in [Keys -> Sessions] /\ owing' \in SUBSET Keys /\ minted' \in Nat
      /\ row' \in [Names -> Kept \cup {NoRow}]
    BY <1>1 DEF Safe, TypeOK
<1> QED BY <1>1, <1>2, Progress DEF Steps

(* The three ways out of a flight: the file is gone, something fails, the  *)
(* fire is stamped.                                                        *)
LEMMA UncomposedKeeps ==
    ASSUME Safe, NEW l \in Launches, Uncomposed(l) \/ Fails(l)
    PROVE  Safe'
<1> DEFINE n == job[l].name
           r == [row[n] EXCEPT !.leased = FALSE]
<1>1. /\ l \in InFlight /\ row' = Update(row, n, r) /\ stray' = stray \ {n}
      /\ UNCHANGED <<wakeup, slot, owing, jsonl, minted, mixed, renamed>>
      /\ upsets' \in Nat
    BY DEF Uncomposed, Fails, GiveBack, InFlight, world, registry, Upset, Safe, TypeOK
<1>2. n \in Names
    BY <1>1 DEF Safe, TypeOK, InFlight
<1>3. row[n].exists => r \in Kept /\ r.leased = FALSE
    BY <1>2, Existing, LeaseReleased DEF Safe
<1>4. /\ pc' \in [Launches -> Steps] /\ job' \in [Launches -> Jobs]
      /\ \A o \in Launches : pc'[o] # "idle" => job'[o].name \in Names
      /\ InFlight' = InFlight \ {l}
      /\ \A o \in Launches \ {l} : job'[o] = job[o]
  <2>1. CASE Ends(l)
      BY <2>1, EndsKeeps DEF Safe
  <2>2. CASE Goto(l, "disable") /\ UNCHANGED job
      BY <2>2, <1>1 DEF Safe, TypeOK, Goto, InFlight, Steps
  <2> QED BY <2>1, <2>2 DEF Uncomposed, Fails
<1> HIDE DEF r
<1>5. \A o \in InFlight \ {l} : job'[o].name = job[o].name
    BY <1>4 DEF InFlight
<1>6. /\ row' \in [Names -> Kept \cup {NoRow}] /\ stray' \in SUBSET Names
      /\ LeaseOwned' /\ OneInFlight' /\ Held'
    BY <1>1, <1>3, <1>4, <1>5, Returned
<1>7. TypeOK'
    BY <1>1, <1>4, <1>6 DEF Safe, TypeOK
<1> QED BY <1>6, <1>7 DEF Safe

(* The stamp gives the lease back in the same UPDATE.                      *)
LEMMA StampKeeps ==
    ASSUME Safe, NEW l \in Launches, Stamp(l)
    PROVE  Safe'
<1> DEFINE n == job[l].name
           r == [row[n] EXCEPT !.due = FALSE, !.leased = FALSE]
<1>1. /\ l \in InFlight /\ row' = Update(row, n, r) /\ stray' = stray \ {n}
      /\ UNCHANGED <<wakeup, slot, owing, jsonl, minted, upsets, mixed, renamed>>
    BY DEF Stamp, InFlight, world, registry
<1>2. n \in Names
    BY <1>1 DEF Safe, TypeOK, InFlight
<1>3. row[n].exists => r \in Kept /\ r.leased = FALSE
  BY <1>2, Existing, LeaseReleased DEF Safe
<1>4. /\ pc' \in [Launches -> Steps] /\ job' \in [Launches -> Jobs]
      /\ \A o \in Launches : pc'[o] # "idle" => job'[o].name \in Names
      /\ InFlight' = InFlight \ {l}
      /\ \A o \in Launches \ {l} : job'[o] = job[o]
  <2>1. CASE Ends(l)
      BY <2>1, EndsKeeps DEF Safe
  <2>2. CASE Goto(l, "point") /\ UNCHANGED job
      BY <2>2, <1>1 DEF Safe, TypeOK, Goto, InFlight, Steps
  <2> QED BY <2>1, <2>2 DEF Stamp
<1> HIDE DEF r
<1>5. \A o \in InFlight \ {l} : job'[o].name = job[o].name
    BY <1>4 DEF InFlight
<1>6. /\ row' \in [Names -> Kept \cup {NoRow}] /\ stray' \in SUBSET Names
      /\ LeaseOwned' /\ OneInFlight' /\ Held'
    BY <1>1, <1>3, <1>4, <1>5, Returned
<1>7. TypeOK'
    BY <1>1, <1>4, <1>6 DEF Safe, TypeOK
<1> QED BY <1>6, <1>7 DEF Safe

(* The disabling of a row comes after its lease was given back.            *)
LEMMA DisableKeeps ==
    ASSUME Safe, NEW l \in Launches, Disable(l)
    PROVE  Safe'
<1> DEFINE n == job[l].name
           r == [row[n] EXCEPT !.enabled = FALSE]
<1>1. /\ l \notin InFlight /\ n \in Names /\ row' = Update(row, n, r) /\ Ends(l)
      /\ UNCHANGED <<wakeup, slot, owing, jsonl, minted, upsets, stray, mixed, renamed>>
    BY DEF Disable, InFlight, world, registry, history, Safe, TypeOK
<1>2. row[n].exists => r \in Kept /\ r.leased = row[n].leased
  <2> SUFFICES ASSUME row[n] \in Kept PROVE r \in Kept /\ r.leased = row[n].leased
      BY <1>1, Existing DEF Safe
  <2> QED BY DEF Kept
<1> HIDE DEF r
<1>3. /\ row' \in [Names -> Kept \cup {NoRow}]
      /\ \A m \in Names : /\ row'[m].exists = row[m].exists
                         /\ (row[m].exists => row'[m].leased = row[m].leased)
    BY <1>1, <1>2, EditRow DEF Safe
<1>4. /\ pc' \in [Launches -> Steps] /\ job' \in [Launches -> Jobs]
      /\ \A o \in Launches : pc'[o] # "idle" => job'[o].name \in Names
      /\ InFlight' = InFlight \ {l}
      /\ \A o \in Launches \ {l} : job'[o] = job[o]
    BY <1>1, EndsKeeps DEF Safe
<1>5. TypeOK'
    BY <1>1, <1>3, <1>4 DEF Safe, TypeOK
<1>6. InFlight' = InFlight /\ \A o \in InFlight : job'[o].name = job[o].name
    BY <1>1, <1>4 DEF InFlight
<1> QED BY <1>1, <1>3, <1>5, <1>6, Quiet DEF Safe

(* Spawning touches no lease. *)
LEMMA ClearKeeps ==
    ASSUME TypeOK, NEW t
    PROVE  /\ ClearTerminal(row, t) \in [Names -> Kept \cup {NoRow}]
           /\ \A m \in Names :
                /\ ClearTerminal(row, t)[m].exists = row[m].exists
                /\ (row[m].exists => ClearTerminal(row, t)[m].leased = row[m].leased)
<1> SUFFICES ASSUME NEW m \in Names
             PROVE  /\ ClearTerminal(row, t)[m] \in Kept \cup {NoRow}
                    /\ ClearTerminal(row, t)[m].exists = row[m].exists
                    /\ (row[m].exists => ClearTerminal(row, t)[m].leased = row[m].leased)
    BY DEF ClearTerminal
<1>1. ClearTerminal(row, t)[m] \in {row[m], [row[m] EXCEPT !.terminal = None]}
    BY DEF ClearTerminal
<1>2. CASE row[m] \in Kept
  <2>1. /\ [row[m] EXCEPT !.terminal = None] \in Kept
        /\ [row[m] EXCEPT !.terminal = None].exists = row[m].exists
        /\ [row[m] EXCEPT !.terminal = None].leased = row[m].leased
      BY <1>2, Nothing DEF Kept
  <2> QED BY <1>1, <1>2, <2>1
<1>3. CASE row[m] = NoRow
  <2>1. ~row[m].exists
      BY <1>3 DEF NoRow
  <2>2. ClearTerminal(row, t)[m] = row[m]
      BY <2>1 DEF ClearTerminal
  <2> QED BY <1>3, <2>1, <2>2
<1> QED BY <1>2, <1>3 DEF TypeOK

(* What a spawn does to rows, registry and task.                           *)
LEMMA SpawnKeeps ==
    ASSUME Safe, NEW l \in InFlight, NEW c \in Nat, Spawn(l, c)
    PROVE  /\ row' \in [Names -> Kept \cup {NoRow}]
           /\ \A m \in Names : /\ row'[m].exists = row[m].exists
                              /\ (row[m].exists => row'[m].leased = row[m].leased)
           /\ slot' \in [Keys -> Sessions] /\ owing' \in SUBSET Keys
           /\ \E t \in Nat : job' = [job EXCEPT ![l] = [@ EXCEPT !.conv = c, !.term = t]]
<1> DEFINE k == KeyOf(l)
<1>1. k \in Keys /\ minted + 1 \in Nat /\ slot[k] \in Sessions /\ l \in Launches
    BY DEF Safe, TypeOK, InFlight, KeyOf, Keys
<1>2. CASE slot[k].alive
  <2>1. UNCHANGED <<row, slot, owing>> /\ slot[k].id \in Nat
        /\ job' = [job EXCEPT ![l].conv = c, ![l].term = slot[k].id]
      BY <1>1, <1>2 DEF Spawn, registry, Sessions
  <2>2. job' = [job EXCEPT ![l] = [@ EXCEPT !.conv = c, !.term = slot[k].id]]
      BY <1>1, <2>1 DEF Safe, TypeOK, Jobs
  <2> QED BY <2>1, <2>2 DEF Safe, TypeOK
<1>3. CASE ~slot[k].alive
  <2>1. /\ job' = [job EXCEPT ![l].conv = c, ![l].term = minted + 1]
        /\ slot' = [slot EXCEPT ![k] = [id |-> minted + 1, conv |-> c, alive |-> TRUE]]
        /\ owing' = IF slot[k] = NoSession THEN owing ELSE owing \cup {k}
        /\ row' = ClearTerminal(row, slot[k].id)
      BY <1>3 DEF Spawn
  <2>2. job' = [job EXCEPT ![l] = [@ EXCEPT !.conv = c, !.term = minted + 1]]
      BY <1>1, <2>1 DEF Safe, TypeOK, Jobs
  <2>3. slot' \in [Keys -> Sessions] /\ owing' \in SUBSET Keys
      BY <1>1, <2>1 DEF Safe, TypeOK, Sessions
  <2>4. /\ row' \in [Names -> Kept \cup {NoRow}]
        /\ \A m \in Names : /\ row'[m].exists = row[m].exists
                           /\ (row[m].exists => row'[m].leased = row[m].leased)
      BY <2>1, ClearKeeps DEF Safe
  <2> QED BY <1>1, <2>2, <2>3, <2>4
<1> QED BY <1>2, <1>3

(* Both spawns stay in flight.                                             *)
LEMMA SpawnsKeep ==
    ASSUME Safe, NEW l \in Launches, Fresh(l) \/ Resume(l)
    PROVE  Safe'
<1> DEFINE step == IF pc[l] = "fresh" THEN "save" ELSE "bind"
<1>1. /\ l \in InFlight /\ pc' = [pc EXCEPT ![l] = step] /\ minted' = minted + 1
      /\ UNCHANGED <<wakeup, jsonl, upsets, history>>
    BY DEF Fresh, Resume, InFlight, Goto, history
<1>2. PICK c \in Nat : Spawn(l, c)
    BY DEF Fresh, Resume, Safe, TypeOK, Jobs
<1>3. PICK t \in Nat : job' = [job EXCEPT ![l] = [@ EXCEPT !.conv = c, !.term = t]]
    BY <1>1, <1>2, SpawnKeeps
<1> DEFINE j == [job[l] EXCEPT !.conv = c, !.term = t]
<1>4. j \in Jobs /\ j.name = job[l].name
  <2>1. job[l] \in Jobs
      BY DEF Safe, TypeOK
  <2> QED BY <2>1, JobEdits DEF Jobs
<1>5. job' = [job EXCEPT ![l] = j] /\ minted' \in Nat
    BY <1>1, <1>3 DEF Safe, TypeOK
<1>6. step \in {"save", "bind"} /\ step \in Steps \ {"idle"}
    BY DEF Steps
<1>7. /\ row' \in [Names -> Kept \cup {NoRow}]
      /\ \A m \in Names : /\ row'[m].exists = row[m].exists
                         /\ (row[m].exists => row'[m].leased = row[m].leased)
      /\ slot' \in [Keys -> Sessions] /\ owing' \in SUBSET Keys
    BY <1>1, <1>2, SpawnKeeps
<1> HIDE DEF j, step
<1> QED BY <1>1, <1>4, <1>5, <1>6, <1>7, Progress

(* The pointers of a fresh session are saved under the lease.              *)
LEMMA SaveKeeps ==
    ASSUME Safe, NEW l \in Launches, Save(l)
    PROVE  Safe'
<1> DEFINE n == job[l].name
           r == [row[n] EXCEPT !.saved = job[l].conv, !.terminal = job[l].term]
           j == [job[l] EXCEPT !.conv = None, !.term = None]
<1>1. /\ l \in InFlight /\ row' = Update(row, n, r) /\ pc' = [pc EXCEPT ![l] = "stamp"]
      /\ job' = [job EXCEPT ![l].conv = None, ![l].term = None]
      /\ UNCHANGED <<wakeup, slot, owing, jsonl, minted, upsets, history>>
    BY DEF Save, InFlight, Goto, world, registry
<1>2. n \in Names /\ job[l] \in Jobs /\ job[l].conv \in Nat /\ job[l].term \in Nat
    BY <1>1 DEF Safe, TypeOK, InFlight, Jobs
<1>3. j \in Jobs /\ j.name = n /\ job' = [job EXCEPT ![l] = j]
    BY <1>1, <1>2, Nothing DEF Jobs, Safe, TypeOK
<1>4. row[n].exists => r \in Kept /\ r.leased = row[n].leased
  <2> SUFFICES ASSUME row[n] \in Kept PROVE r \in Kept /\ r.leased = row[n].leased
      BY <1>2, Existing DEF Safe
  <2> QED BY <1>2 DEF Kept
<1> HIDE DEF r, j
<1>5. /\ row' \in [Names -> Kept \cup {NoRow}]
      /\ \A m \in Names : /\ row'[m].exists = row[m].exists
                         /\ (row[m].exists => row'[m].leased = row[m].leased)
    BY <1>1, <1>2, <1>4, EditRow DEF Safe
<1>6. slot' \in [Keys -> Sessions] /\ owing' \in SUBSET Keys /\ minted' \in Nat
    BY <1>1 DEF Safe, TypeOK
<1> QED BY <1>1, <1>3, <1>5, <1>6, Progress DEF Steps

(* A pointer is bound under the lease, or after it was given back.         *)
LEMMA BindKeeps ==
    ASSUME Safe, NEW l \in Launches, Bind(l)
    PROVE  Safe'
<1> DEFINE n == job[l].name
           r == [row[n] EXCEPT !.terminal = job[l].term]
           j == [job[l] EXCEPT !.conv = None, !.term = None]
<1>1. /\ row' = Update(row, n, r) /\ pc[l] \in {"bind", "point"}
      /\ UNCHANGED <<wakeup, slot, owing, jsonl, minted, upsets, stray, mixed, renamed>>
    BY DEF Bind, world, registry, history
<1>2. n \in Names /\ job[l] \in Jobs /\ job[l].term \in Nat
    BY <1>1 DEF Safe, TypeOK, Jobs
<1>3. row[n].exists => r \in Kept /\ r.leased = row[n].leased
  <2> SUFFICES ASSUME row[n] \in Kept PROVE r \in Kept /\ r.leased = row[n].leased
      BY <1>2, Existing DEF Safe
  <2> QED BY <1>2 DEF Kept
<1>4. /\ row' \in [Names -> Kept \cup {NoRow}]
      /\ \A m \in Names : /\ row'[m].exists = row[m].exists
                         /\ (row[m].exists => row'[m].leased = row[m].leased)
  <2> HIDE DEF r
  <2> QED BY <1>1, <1>2, <1>3, EditRow DEF Safe
<1>5. CASE pc[l] = "bind"
  <2>1. /\ l \in InFlight /\ pc' = [pc EXCEPT ![l] = "stamp"]
        /\ job' = [job EXCEPT ![l].conv = None, ![l].term = None]
      BY <1>5 DEF Bind, Goto, InFlight
  <2>2. j \in Jobs /\ j.name = n /\ job' = [job EXCEPT ![l] = j]
      BY <1>2, <2>1, Nothing DEF Jobs, Safe, TypeOK
  <2>3. slot' \in [Keys -> Sessions] /\ owing' \in SUBSET Keys /\ minted' \in Nat
      BY <1>1 DEF Safe, TypeOK
  <2> HIDE DEF j
  <2> QED BY <1>1, <1>4, <2>1, <2>2, <2>3, Progress DEF Steps, history
<1>6. CASE pc[l] = "point"
  <2>1. l \notin InFlight /\ Ends(l)
      BY <1>6 DEF Bind, InFlight
  <2>2. /\ pc' \in [Launches -> Steps] /\ job' \in [Launches -> Jobs]
        /\ \A o \in Launches : pc'[o] # "idle" => job'[o].name \in Names
        /\ InFlight' = InFlight \ {l}
        /\ \A o \in Launches \ {l} : job'[o] = job[o]
      BY <2>1, EndsKeeps DEF Safe
  <2>3. TypeOK'
      BY <1>1, <1>4, <2>2 DEF Safe, TypeOK
  <2>4. InFlight' = InFlight /\ \A o \in InFlight : job'[o].name = job[o].name
      BY <2>1, <2>2 DEF InFlight
  <2> QED BY <1>1, <1>4, <2>3, <2>4, Quiet DEF Safe
<1> QED BY <1>1, <1>5, <1>6

-----------------------------------------------------------------------------
(* Sessions, users, time. *)

(* Exits, observers and repairs of pointers touch no lease.                *)
LEMMA RegistryKeeps ==
    ASSUME Safe, Registry
    PROVE  Safe'
<1>1. /\ UNCHANGED <<wakeup, minted, pc, job, upsets, stray, mixed, renamed>>
      /\ jsonl' \in SUBSET Nat
    BY DEF Registry, Dies, Observed, Unregister, Persist, ActiveSession, world, registry,
           tasks, history, Safe, TypeOK, Sessions
<1>2. slot' \in [Keys -> Sessions] /\ owing' \in SUBSET Keys
  <2>1. ASSUME NEW k \in Keys, Dies(k) PROVE slot' \in [Keys -> Sessions] /\ owing' = owing
      BY <2>1 DEF Dies, Safe, TypeOK, Sessions
  <2>2. ASSUME NEW k \in Keys, Observed(k)
        PROVE  slot' \in [Keys -> Sessions] /\ owing' \in SUBSET Keys
      BY <2>2, Nothing DEF Observed, Unregister, Safe, TypeOK
  <2>3. ASSUME NEW k \in Keys, Persist(k) PROVE UNCHANGED <<slot, owing>>
      BY <2>3 DEF Persist, registry
  <2>4. ASSUME NEW n \in Names, ActiveSession(n) PROVE UNCHANGED <<slot, owing>>
      BY <2>4 DEF ActiveSession, world, registry
  <2>5. slot \in [Keys -> Sessions] /\ owing \in SUBSET Keys
      BY DEF Safe, TypeOK
  <2> QED BY <2>1, <2>2, <2>3, <2>4, <2>5 DEF Registry
<1>3. /\ row' \in [Names -> Kept \cup {NoRow}]
      /\ \A m \in Names : /\ row'[m].exists = row[m].exists
                         /\ (row[m].exists => row'[m].leased = row[m].leased)
  <2>1. CASE \E k \in Keys : Dies(k) \/ Observed(k) \/ Persist(k)
    <3>1. row' = row \/ \E t : row' = ClearTerminal(row, t)
        BY <2>1 DEF Dies, Observed, Unregister, Persist, registry
    <3> QED BY <3>1, ClearKeeps DEF Safe, TypeOK
  <2>2. CASE \E n \in Names : ActiveSession(n)
    <3>1. PICK n \in Names : ActiveSession(n)
        BY <2>2
    <3>2. PICK t \in Nat : row' = Update(row, n, [row[n] EXCEPT !.terminal = t])
      <4>1. CASE row' = Update(row, n, [row[n] EXCEPT !.terminal = None])
          BY <4>1, Nothing
      <4>2. CASE \E k \in Keys : row' = Update(row, n, [row[n] EXCEPT !.terminal = slot[k].id])
          BY <4>2 DEF Safe, TypeOK, Sessions
      <4> QED BY <3>1, <4>1, <4>2 DEF ActiveSession, Running
    <3> DEFINE r == [row[n] EXCEPT !.terminal = t]
    <3>3. row[n].exists => r \in Kept /\ r.leased = row[n].leased
      <4> SUFFICES ASSUME row[n] \in Kept PROVE r \in Kept /\ r.leased = row[n].leased
          BY Existing DEF Safe
      <4> QED BY DEF Kept
    <3> HIDE DEF r
    <3> QED BY <3>2, <3>3, EditRow DEF Safe, r
  <2> QED BY <2>1, <2>2 DEF Registry
<1>4. TypeOK'
    BY <1>1, <1>2, <1>3 DEF Safe, TypeOK
<1>5. InFlight' = InFlight
    BY <1>1 DEF InFlight
<1> QED BY <1>1, <1>3, <1>4, <1>5, Quiet DEF Safe

(* A row that is removed or renamed is marked if a task is on it.          *)
LEMMA MovesKeep ==
    ASSUME Safe, NEW n \in Names, \/ Remove(n) \/ \E m \in Names : Rename(n, m)
    PROVE  Safe'
<1> DEFINE Moved(m) ==
         /\ UNCHANGED <<slot, owing, jsonl, minted, pc, job>>
         /\ row[n].exists /\ (m # n => ~row[m].exists)
         /\ row' = IF m = n THEN [row EXCEPT ![n] = NoRow]
                   ELSE [row EXCEPT ![n] = NoRow, ![m] = row[n]]
         /\ stray \ {n} \subseteq stray'
         /\ (m # n /\ row[n].leased => m \in stray')
         /\ mixed \subseteq mixed' /\ (Busy(n) => n \in mixed') /\ (m # n /\ Busy(m) => m \in mixed')
         /\ stray' \in SUBSET Names /\ mixed' \in SUBSET Names /\ renamed' \in SUBSET Names
         /\ wakeup' \in SUBSET Names /\ upsets' \in Nat
<1>1. PICK m \in Names : Moved(m)
  <2>1. ASSUME Remove(n) PROVE Moved(n)
      BY <2>1 DEF Remove, Upset, registry, tasks, Safe, TypeOK
  <2>2. ASSUME NEW m \in Names, Rename(n, m) PROVE Moved(m)
    <3>1. m # n
        BY <2>2 DEF Rename
    <3> QED BY <2>2, <3>1 DEF Rename, Upset, registry, tasks, Safe, TypeOK
  <2> QED BY <2>1, <2>2
<1>2. InFlight' = InFlight /\ \A o \in InFlight : job[o].name \in Names /\ Busy(job[o].name)
    BY <1>1 DEF InFlight, Busy, Safe, TypeOK
<1>3. /\ ~row'[n].exists
      /\ (m # n => row'[m] = row[n])
      /\ \A q \in Names \ {n, m} : row'[q] = row[q]
    BY <1>1 DEF Safe, TypeOK, NoRow
<1>4. TypeOK'
    BY <1>1 DEF Safe, TypeOK
<1>5. LeaseOwned'
  <2> SUFFICES ASSUME NEW q \in Names, row'[q].exists, row'[q].leased, q \notin stray'
               PROVE  \E o \in InFlight' : job'[o].name = q
      BY DEF LeaseOwned
  <2>1. q \notin {n, m} /\ row[q].exists /\ row[q].leased /\ q \notin stray
      BY <1>1, <1>3
  <2> QED BY <1>1, <1>2, <2>1 DEF Safe, LeaseOwned
<1>6. OneInFlight'
    BY <1>1, <1>2 DEF Safe, OneInFlight
<1>7. Held'
  <2> SUFFICES ASSUME NEW o \in InFlight, job[o].name \notin mixed'
               PROVE  row'[job[o].name].exists /\ row'[job[o].name].leased
      BY <1>1, <1>2 DEF Held
  <2>1. job[o].name \in Names \ {n, m} /\ job[o].name \notin mixed
      BY <1>1, <1>2
  <2> QED BY <1>3, <2>1 DEF Safe, Held
<1> QED BY <1>4, <1>5, <1>6, <1>7 DEF Safe

(* What a flag or a new time makes of a row.                               *)
LEMMA Flags ==
    ASSUME NEW k \in Kept
    PROVE  /\ [k EXCEPT !.enabled = ~@] \in Kept /\ [k EXCEPT !.enabled = ~@].leased = k.leased
           /\ [k EXCEPT !.archived = ~@] \in Kept /\ [k EXCEPT !.archived = ~@].leased = k.leased
           /\ [k EXCEPT !.shared = ~@] \in Kept /\ [k EXCEPT !.shared = ~@].leased = k.leased
           /\ [k EXCEPT !.due = TRUE] \in Kept /\ [k EXCEPT !.due = TRUE].leased = k.leased
    BY DEF Kept

(* What a boot makes of a row.                                             *)
LEMMA Boots ==
    ASSUME NEW k \in Kept
    PROVE  /\ [k EXCEPT !.terminal = None, !.leased = TRUE] \in Kept
           /\ [k EXCEPT !.terminal = None, !.leased = FALSE] \in Kept
           /\ ~[k EXCEPT !.terminal = None, !.leased = FALSE].leased
    BY Nothing DEF Kept

(* Nor do tabs, flags, files and schedules.                                *)
LEMMA EditsKeep ==
    ASSUME Safe, NEW n \in Names, \/ OpenTab(n) \/ SetFlag(n) \/ Tamper(n) \/ Window(n)
    PROVE  Safe'
<1>1. /\ UNCHANGED <<owing, jsonl, pc, job, stray, mixed, renamed>>
      /\ wakeup' \in SUBSET Names /\ upsets' \in Nat /\ minted' \in Nat
    BY DEF OpenTab, SetFlag, Tamper, Window, Upset, world, registry, tasks, history, Safe, TypeOK
<1>2. slot' \in [Keys -> Sessions]
  <2>1. CASE OpenTab(n)
    <3>1. row[n] \in Kept
        BY <2>1, Existing DEF OpenTab, Safe
    <3>2. row[n].saved \in Nat /\ minted + 1 \in Nat
        BY <3>1 DEF Kept, Safe, TypeOK
    <3>3. [id |-> minted + 1, conv |-> row[n].saved, alive |-> TRUE] \in Sessions
        BY <3>2 DEF Sessions
    <3> QED BY <2>1, <3>3 DEF OpenTab, Safe, TypeOK
  <2>2. CASE SetFlag(n) \/ Tamper(n) \/ Window(n)
      BY <2>2 DEF SetFlag, Tamper, Window, world, registry, Safe, TypeOK
  <2> QED BY <2>1, <2>2
<1>3. /\ row' \in [Names -> Kept \cup {NoRow}]
      /\ \A m \in Names : /\ row'[m].exists = row[m].exists
                         /\ (row[m].exists => row'[m].leased = row[m].leased)
  <2>1. CASE row' = row
      BY <2>1 DEF Safe, TypeOK
  <2>2. CASE \E r \in Kept : /\ row[n].exists /\ r.leased = row[n].leased
                              /\ row' = [row EXCEPT ![n] = r]
    <3>1. PICK r \in Kept : row[n].exists /\ r.leased = row[n].leased /\ row' = [row EXCEPT ![n] = r]
        BY <2>2
    <3>2. row' = Update(row, n, r)
        BY <3>1 DEF Update
    <3> QED BY <3>1, <3>2, EditRow DEF Safe
  <2>3. CASE SetFlag(n)
    <3>1. row[n] \in Kept /\ row[n].exists /\ row \in [Names -> Kept \cup {NoRow}]
        BY <2>3, Existing DEF SetFlag, Safe, TypeOK
    <3>2. \/ row' = [row EXCEPT ![n] = [row[n] EXCEPT !.enabled = ~@]]
          \/ row' = [row EXCEPT ![n] = [row[n] EXCEPT !.archived = ~@]]
          \/ row' = [row EXCEPT ![n] = [row[n] EXCEPT !.shared = ~@]]
      <4>1. PICK f \in {"enabled", "archived", "shared"} : row' = [row EXCEPT ![n][f] = ~@]
          BY <2>3 DEF SetFlag
      <4>2. CASE f = "enabled"
          BY <3>1, <4>1, <4>2
      <4>3. CASE f = "archived"
          BY <3>1, <4>1, <4>3
      <4>4. CASE f = "shared"
          BY <3>1, <4>1, <4>4
      <4> QED BY <4>1, <4>2, <4>3, <4>4
    <3>3. \E r \in Kept : r.leased = row[n].leased /\ row' = [row EXCEPT ![n] = r]
        BY <3>1, <3>2, Flags
    <3> QED BY <2>2, <3>1, <3>3
  <2>4. CASE Window(n)
    <3>1. /\ row[n] \in Kept /\ row[n].exists
          /\ row' = [row EXCEPT ![n] = [row[n] EXCEPT !.due = TRUE]]
        BY <2>4, Existing DEF Window, Update, Safe
    <3> QED BY <2>2, <3>1, Flags
  <2> QED BY <2>1, <2>3, <2>4 DEF OpenTab, Tamper
<1>4. TypeOK'
    BY <1>1, <1>2, <1>3 DEF Safe, TypeOK
<1>5. InFlight' = InFlight
    BY <1>1 DEF InFlight
<1> QED BY <1>1, <1>3, <1>4, <1>5, Quiet DEF Safe

(* A row that is added is free.                                            *)
LEMMA AddKeeps ==
    ASSUME Safe, NEW n \in Names, Add(n)
    PROVE  Safe'
<1>1. /\ UNCHANGED <<slot, owing, jsonl, minted, pc, job, stray, mixed, renamed>>
      /\ ~row[n].exists /\ row' = [row EXCEPT ![n] = FreshRow]
      /\ wakeup' \in SUBSET Names /\ upsets' \in Nat
    BY DEF Add, Upset, registry, tasks, history, Safe, TypeOK
<1>2. /\ row'[n] = FreshRow /\ \A m \in Names : m # n => row'[m] = row[m]
      /\ ~FreshRow.leased
    BY <1>1 DEF Safe, TypeOK, FreshRow
<1>3. TypeOK'
    BY <1>1, Nothing DEF Safe, TypeOK
<1>4. InFlight' = InFlight /\ \A o \in InFlight : job[o].name \in Names
    BY <1>1 DEF InFlight, Safe, TypeOK
<1>5. LeaseOwned'
  <2> SUFFICES ASSUME NEW q \in Names, row'[q].exists, row'[q].leased, q \notin stray
               PROVE  \E o \in InFlight' : job'[o].name = q
      BY <1>1 DEF LeaseOwned
  <2>1. q # n /\ row[q].exists /\ row[q].leased
      BY <1>2
  <2> QED BY <1>1, <1>4, <2>1 DEF Safe, LeaseOwned
<1>6. OneInFlight'
    BY <1>1, <1>4 DEF Safe, OneInFlight
<1>7. Held'
  <2> SUFFICES ASSUME NEW o \in InFlight, job[o].name \notin mixed
               PROVE  row'[job[o].name].exists /\ row'[job[o].name].leased
      BY <1>1, <1>4 DEF Held
  <2>1. row[job[o].name].exists /\ row[job[o].name].leased
      BY DEF Safe, Held
  <2> QED BY <1>1, <1>2, <1>4, <2>1
<1> QED BY <1>3, <1>5, <1>6, <1>7 DEF Safe

(* A restart leaves only leases it marks as stray.                         *)
LEMMA RestartKeeps ==
    ASSUME Safe, Restart
    PROVE  Safe'
<1>1. /\ UNCHANGED <<wakeup, jsonl, minted, renamed>> /\ upsets' \in Nat
      /\ slot' \in [Keys -> Sessions] /\ owing' = {} /\ mixed' = {}
      /\ pc' = [l \in Launches |-> "idle"] /\ job' = [l \in Launches |-> NoJob]
  <2>1. NoSession \in Sessions
      BY Nothing
  <2>2. upsets' \in Nat
    <3>1. Upset
        BY DEF Restart
    <3>2. upsets \in Nat
        BY DEF Safe, TypeOK
    <3> QED BY <3>1, <3>2 DEF Upset
  <2>3. slot' = [k \in Keys |-> NoSession]
      BY DEF Restart
  <2>4. slot' \in [Keys -> Sessions]
      BY <2>1, <2>3
  <2>5. /\ UNCHANGED <<wakeup, jsonl, minted, renamed>> /\ owing' = {} /\ mixed' = {}
        /\ pc' = [l \in Launches |-> "idle"] /\ job' = [l \in Launches |-> NoJob]
      BY DEF Restart
  <2> QED BY <2>2, <2>4, <2>5
<1>2. PICK young \in SUBSET {n \in Names : row[n].exists /\ row[n].leased} :
         /\ row' = [n \in Names |->
                      IF row[n].exists
                      THEN [row[n] EXCEPT !.terminal = None, !.leased = n \in young]
                      ELSE NoRow]
         /\ stray' = young
    BY DEF Restart
<1>3. \A n \in Names : row'[n] \in Kept \cup {NoRow} /\ (row'[n].exists /\ row'[n].leased => n \in young)
  <2> SUFFICES ASSUME NEW n \in Names
               PROVE  row'[n] \in Kept \cup {NoRow} /\ (row'[n].exists /\ row'[n].leased => n \in young)
      OBVIOUS
  <2>1. CASE row[n].exists
    <3>1. row[n] \in Kept
        BY <2>1, Existing DEF Safe
    <3>2. row'[n] = [row[n] EXCEPT !.terminal = None, !.leased = n \in young]
        BY <1>2, <2>1
    <3>3. CASE n \in young
      <4>1. row'[n] = [row[n] EXCEPT !.terminal = None, !.leased = TRUE]
          BY <3>2, <3>3
      <4> QED BY <3>1, <3>3, <4>1, Boots
    <3>4. CASE n \notin young
      <4>1. (n \in young) = FALSE
          BY <3>4
      <4>2. row'[n] = [row[n] EXCEPT !.terminal = None, !.leased = FALSE]
          BY <3>2, <4>1, Zenon
      <4> QED BY <3>1, <4>2, Boots
    <3> QED BY <3>3, <3>4
  <2>2. CASE ~row[n].exists
    <3>1. row'[n] = NoRow
        BY <1>2, <2>2
    <3> QED BY <3>1 DEF NoRow
  <2> QED BY <2>1, <2>2
<1>4. TypeOK'
    BY <1>1, <1>2, <1>3, Nothing DEF Safe, TypeOK, Steps
<1>5. InFlight' = {}
    BY <1>1 DEF InFlight
<1> QED BY <1>2, <1>3, <1>4, <1>5 DEF Safe, LeaseOwned, OneInFlight, Held

-----------------------------------------------------------------------------

(* Every step of tasks, sessions, users and daemon keeps Safe.             *)
LEMMA NextSafe == Safe /\ [Next]_vars => Safe'
<1> SUFFICES ASSUME Safe, [Next]_vars PROVE Safe'
    OBVIOUS
<1>1. CASE Starts
  <2>1. PICK l \in Launches, n \in Names : Tick(l, n) \/ Launch(l, n)
      BY <1>1 DEF Starts
  <2> QED BY <2>1, TickKeeps, ReadsKeeps DEF Launch
<1>2. CASE \E l \in Launches : Run(l) \/ Fails(l)
    BY <1>2, ResolveKeeps, AcquireKeeps, DecideKeeps, DeliverKeeps, UncomposedKeeps, StampKeeps,
       DisableKeeps, SpawnsKeep, SaveKeeps, BindKeeps DEF Run
<1>3. CASE Registry
    BY <1>3, RegistryKeeps
<1>4. CASE Users \/ Time
    BY <1>4, EditsKeep, AddKeeps, MovesKeep, RestartKeeps DEF Users, Time
<1>5. CASE UNCHANGED vars
    BY <1>5 DEF vars, world, registry, tasks, history, Safe, TypeOK, LeaseOwned, OneInFlight,
       Held, InFlight
<1> QED BY <1>1, <1>2, <1>3, <1>4, <1>5 DEF Next

(* Safe holds in every reachable state.                                    *)
THEOREM AlwaysSafe == Spec => []Safe
BY InitSafe, NextSafe, PTL DEF Spec

(* The variables keep their types. *)
THEOREM HeartbeatTypes == Spec => []TypeOK
<1>1. Safe => TypeOK
    BY DEF Safe
<1> QED BY <1>1, AlwaysSafe, PTL

(* No error path, skip or failure keeps a lease: what is leased is being   *)
(* launched, or lost its task to a restart or a rename.                    *)
THEOREM LeasesOwned == Spec => []LeaseOwned
<1>1. Safe => LeaseOwned
    BY DEF Safe
<1> QED BY <1>1, AlwaysSafe, PTL

(* try_acquire_heartbeat keeps every other launch of a heartbeat out until *)
(* the lease is given back.                                                *)
THEOREM LeaseExcludes == Spec => []OneInFlight
<1>1. Safe => OneInFlight
    BY DEF Safe
<1> QED BY <1>1, AlwaysSafe, PTL

-----------------------------------------------------------------------------
(* Every heartbeat has a lane: the terminals and the conversations that    *)
(* its row, the session under its name or a task of its name know of.      *)
(* LanesApart only speaks of the rows; what keeps them apart is that no    *)
(* number is in two lanes, wherever it is on its way, unless a rename has  *)
(* made kin of them.  A tab is in no lane: who finds it running a          *)
(* conversation of its own may point to it, so whoever points to a tab     *)
(* speaks the tab's conversation or has spoken it.                         *)

Kin(n, m) == n = m \/ {n, m} \subseteq renamed
KinAfter(n, m) == n = m \/ {n, m} \subseteq renamed'

PointsTo(n, t) ==
    \/ row[n].exists /\ row[n].terminal = t
    \/ slot[n].id = t
    \/ \E l \in Launches : job[l].name = n /\ t \in {job[l].terminal, job[l].term}

Speaks(n, c) ==
    \/ row[n].exists /\ row[n].saved = c
    \/ slot[n].conv = c
    \/ \E l \in Launches : job[l].name = n /\ c \in {job[l].saved, job[l].conv}

TerminalsApart ==
    \A n, m \in Names : \A t \in Nat \ {None} : PointsTo(n, t) /\ PointsTo(m, t) => Kin(n, m)

ConversationsApart ==
    \A n, m \in Names : \A c \in Nat \ {None} : Speaks(n, c) /\ Speaks(m, c) => Kin(n, m)

TabApart ==
    \A n, m \in Names :
        /\ slot[Tab].id # None /\ PointsTo(n, slot[Tab].id)
        /\ slot[Tab].conv # None /\ Speaks(m, slot[Tab].conv)
        => Kin(n, m)

Minted ==
    /\ \A n \in Names : \A i \in Nat : PointsTo(n, i) \/ Speaks(n, i) => i <= minted
    /\ slot[Tab].id <= minted /\ slot[Tab].conv <= minted

LaneInv == TerminalsApart /\ ConversationsApart /\ TabApart /\ Minted

(* What a lane may hold after a step: nothing, what a kin held, a tab of   *)
(* its own conversation, or, in the lane o alone, a number just minted.    *)
MayPoint(o, n, t) ==
    \/ t = None
    \/ \E k \in Names : PointsTo(k, t) /\ KinAfter(k, n)
    \/ t = slot[Tab].id /\ slot[Tab].conv # None /\ Speaks(n, slot[Tab].conv)
    \/ n = o /\ t = minted + 1 /\ minted' = minted + 1

MaySpeak(o, n, c) ==
    \/ c = None
    \/ \E k \in Names : Speaks(k, c) /\ KinAfter(k, n)
    \/ n = o /\ c = minted + 1 /\ minted' = minted + 1

RowsMay(o) ==
    \A n \in Names : row'[n].exists => /\ MayPoint(o, n, row'[n].terminal)
                                     /\ MaySpeak(o, n, row'[n].saved)

SlotsMay(o) ==
    \A n \in Names : MayPoint(o, n, slot'[n].id) /\ MaySpeak(o, n, slot'[n].conv)

JobMay(o, j) ==
    j.name \in Names => /\ MayPoint(o, j.name, j.terminal) /\ MayPoint(o, j.name, j.term)
                      /\ MaySpeak(o, j.name, j.saved) /\ MaySpeak(o, j.name, j.conv)

JobsMay(o) == \A l \in Launches : JobMay(o, job'[l])

TabMay(o) ==
    \/ slot'[Tab].id = slot[Tab].id /\ slot'[Tab].conv = slot[Tab].conv
    \/ slot'[Tab] = NoSession
    \/ /\ slot'[Tab].id = minted + 1 /\ minted' = minted + 1
       /\ o \in Names /\ Speaks(o, slot'[Tab].conv)
       /\ \A n \in Names : ~PointsTo(n, slot[Tab].id)'

(* Kin of kin are kin, and stay so.                                        *)
LEMMA KinOfKin ==
    ASSUME renamed \subseteq renamed', NEW n, NEW m, NEW k
    PROVE  /\ Kin(n, m) => KinAfter(n, m) /\ Kin(m, n)
           /\ Kin(n, m) /\ Kin(m, k) => Kin(n, k)
           /\ KinAfter(n, m) /\ KinAfter(m, k) => KinAfter(n, k)
           /\ KinAfter(n, m) => KinAfter(m, n)
    BY DEF Kin, KinAfter

(* A step that gives no lane more than it may have keeps the lanes apart.  *)
LEMMA LanesKept ==
    ASSUME TypeOK, TypeOK', LaneInv, NEW o, renamed \subseteq renamed',
           minted' \in {minted, minted + 1}, RowsMay(o), SlotsMay(o), JobsMay(o), TabMay(o)
    PROVE  LaneInv'
<1>0. minted \in Nat /\ slot[Tab].id \in Nat /\ slot[Tab].conv \in Nat
    BY DEF TypeOK, Keys, Sessions
<1>1. ASSUME NEW n \in Names, NEW t \in Nat, PointsTo(n, t)'
      PROVE  MayPoint(o, n, t)
  <2>1. CASE row'[n].exists /\ row'[n].terminal = t
      BY <2>1 DEF RowsMay
  <2>2. CASE slot'[n].id = t
      BY <2>2 DEF SlotsMay
  <2>3. CASE \E l \in Launches : job'[l].name = n /\ t \in {job'[l].terminal, job'[l].term}
      BY <2>3 DEF JobsMay, JobMay
  <2> QED BY <1>1, <2>1, <2>2, <2>3 DEF PointsTo
<1>2. ASSUME NEW n \in Names, NEW c \in Nat, Speaks(n, c)'
      PROVE  MaySpeak(o, n, c)
  <2>1. CASE row'[n].exists /\ row'[n].saved = c
      BY <2>1 DEF RowsMay
  <2>2. CASE slot'[n].conv = c
      BY <2>2 DEF SlotsMay
  <2>3. CASE \E l \in Launches : job'[l].name = n /\ c \in {job'[l].saved, job'[l].conv}
      BY <2>3 DEF JobsMay, JobMay
  <2> QED BY <1>2, <2>1, <2>2, <2>3 DEF Speaks
<1>3. \A k \in Names : \A i \in Nat : PointsTo(k, i) \/ Speaks(k, i) => i # minted + 1
    BY <1>0 DEF LaneInv, Minted
<1>4. slot[Tab].id # minted + 1 /\ slot[Tab].conv # minted + 1
    BY <1>0 DEF LaneInv, Minted
<1>5. TerminalsApart'
  <2> SUFFICES ASSUME NEW n \in Names, NEW m \in Names, NEW t \in Nat \ {None},
                      PointsTo(n, t)', PointsTo(m, t)'
               PROVE  KinAfter(n, m)
      BY DEF TerminalsApart, None, Kin, KinAfter
  <2>1. MayPoint(o, n, t) /\ MayPoint(o, m, t)
      BY <1>1
  <2>2. CASE t = minted + 1
      BY <2>1, <2>2, <1>3, <1>4 DEF MayPoint, KinAfter
  <2>3. CASE t # minted + 1
    <3> DEFINE Heir(q) == \E k \in Names : PointsTo(k, t) /\ KinAfter(k, q)
               Tabbed(q) == t = slot[Tab].id /\ slot[Tab].conv # None /\ Speaks(q, slot[Tab].conv)
    <3>1. (Heir(n) \/ Tabbed(n)) /\ (Heir(m) \/ Tabbed(m))
        BY <2>1, <2>3 DEF MayPoint
    <3>2. CASE Heir(n) /\ Heir(m)
      <4>1. PICK k \in Names : PointsTo(k, t) /\ KinAfter(k, n)
          BY <3>2
      <4>2. PICK q \in Names : PointsTo(q, t) /\ KinAfter(q, m)
          BY <3>2
      <4>3. Kin(k, q)
          BY <4>1, <4>2 DEF LaneInv, TerminalsApart
      <4> QED BY <4>1, <4>2, <4>3, KinOfKin
    <3>3. CASE Heir(n) /\ Tabbed(m)
      <4>1. PICK k \in Names : PointsTo(k, t) /\ KinAfter(k, n)
          BY <3>3
      <4>2. Kin(k, m)
          BY <3>3, <4>1 DEF LaneInv, TabApart
      <4> QED BY <4>1, <4>2, KinOfKin
    <3>4. CASE Tabbed(n) /\ Heir(m)
      <4>1. PICK k \in Names : PointsTo(k, t) /\ KinAfter(k, m)
          BY <3>4
      <4>2. Kin(k, n)
          BY <3>4, <4>1 DEF LaneInv, TabApart
      <4> QED BY <4>1, <4>2, KinOfKin
    <3>5. CASE Tabbed(n) /\ Tabbed(m)
      <4>1. Kin(n, m)
          BY <3>5, <1>0 DEF LaneInv, ConversationsApart
      <4> QED BY <4>1, KinOfKin
    <3> QED BY <3>1, <3>2, <3>3, <3>4, <3>5
  <2> QED BY <2>2, <2>3
<1>6. ConversationsApart'
  <2> SUFFICES ASSUME NEW n \in Names, NEW m \in Names, NEW c \in Nat \ {None},
                      Speaks(n, c)', Speaks(m, c)'
               PROVE  KinAfter(n, m)
      BY DEF ConversationsApart, None, Kin, KinAfter
  <2>1. MaySpeak(o, n, c) /\ MaySpeak(o, m, c)
      BY <1>2
  <2>2. CASE c = minted + 1
      BY <2>1, <2>2, <1>3 DEF MaySpeak, KinAfter
  <2>3. CASE c # minted + 1
    <3>1. PICK k \in Names : Speaks(k, c) /\ KinAfter(k, n)
        BY <2>1, <2>3 DEF MaySpeak
    <3>2. PICK q \in Names : Speaks(q, c) /\ KinAfter(q, m)
        BY <2>1, <2>3 DEF MaySpeak
    <3>3. Kin(k, q)
        BY <3>1, <3>2 DEF LaneInv, ConversationsApart
    <3> QED BY <3>1, <3>2, <3>3, KinOfKin
  <2> QED BY <2>2, <2>3
<1>7. TabApart'
  <2> SUFFICES ASSUME NEW n \in Names, NEW m \in Names,
                      slot'[Tab].id # None, PointsTo(n, slot[Tab].id)',
                      slot'[Tab].conv # None, Speaks(m, slot[Tab].conv)'
               PROVE  KinAfter(n, m)
      BY DEF TabApart, None, Kin, KinAfter
  <2>0. slot'[Tab].id \in Nat /\ slot'[Tab].conv \in Nat
      BY DEF TypeOK, Keys, Sessions
  <2>1. slot'[Tab].id = slot[Tab].id /\ slot'[Tab].conv = slot[Tab].conv
      BY DEF TabMay, NoSession
  <2> DEFINE t == slot[Tab].id
             c == slot[Tab].conv
  <2>2. MayPoint(o, n, t) /\ MaySpeak(o, m, c)
      BY <1>1, <1>2, <2>0, <2>1
  <2>3. PICK q \in Names : Speaks(q, c) /\ KinAfter(q, m)
      BY <1>4, <2>1, <2>2 DEF MaySpeak
  <2>4. CASE \E k \in Names : PointsTo(k, t) /\ KinAfter(k, n)
    <3>1. PICK k \in Names : PointsTo(k, t) /\ KinAfter(k, n)
        BY <2>4
    <3>2. Kin(k, q)
        BY <2>1, <2>3, <3>1 DEF LaneInv, TabApart
    <3> QED BY <2>3, <3>1, <3>2, KinOfKin
  <2>5. CASE Speaks(n, c)
    <3>1. Kin(n, q)
        BY <1>0, <2>1, <2>3, <2>5 DEF LaneInv, ConversationsApart
    <3> QED BY <2>3, <3>1, KinOfKin
  <2> QED BY <1>4, <2>1, <2>2, <2>4, <2>5 DEF MayPoint
<1>8. Minted'
  <2>1. ASSUME NEW n \in Names, NEW i \in Nat, PointsTo(n, i)'
        PROVE  i <= minted'
    <3>1. MayPoint(o, n, i)
        BY <1>1, <2>1
    <3> QED BY <1>0, <3>1 DEF MayPoint, LaneInv, Minted, None
  <2>2. ASSUME NEW n \in Names, NEW i \in Nat, Speaks(n, i)'
        PROVE  i <= minted'
    <3>1. MaySpeak(o, n, i)
        BY <1>2, <2>2
    <3> QED BY <1>0, <3>1 DEF MaySpeak, LaneInv, Minted, None
  <2>3. slot'[Tab].id <= minted' /\ slot'[Tab].conv <= minted'
    <3>1. slot'[Tab].conv \in Nat
        BY DEF TypeOK, Keys, Sessions
    <3> QED BY <1>0, <3>1 DEF TabMay, NoSession, None, LaneInv, Minted
  <2> QED BY <2>1, <2>2, <2>3 DEF Minted
<1> QED BY <1>5, <1>6, <1>7, <1>8 DEF LaneInv

(* What a lane holds it may keep. *)
LEMMA MayKeep ==
    ASSUME NEW o, renamed \subseteq renamed', NEW n \in Names
    PROVE  /\ MayPoint(o, n, None) /\ MaySpeak(o, n, None)
           /\ \A t : PointsTo(n, t) => MayPoint(o, n, t)
           /\ \A c : Speaks(n, c) => MaySpeak(o, n, c)
           /\ row[n].exists => MayPoint(o, n, row[n].terminal) /\ MaySpeak(o, n, row[n].saved)
           /\ MayPoint(o, n, slot[n].id) /\ MaySpeak(o, n, slot[n].conv)
           /\ \A l \in Launches : job[l].name = n =>
                /\ MayPoint(o, n, job[l].terminal) /\ MayPoint(o, n, job[l].term)
                /\ MaySpeak(o, n, job[l].saved) /\ MaySpeak(o, n, job[l].conv)
<1>1. KinAfter(n, n)
    BY DEF KinAfter
<1>2. /\ \A t : PointsTo(n, t) => MayPoint(o, n, t)
      /\ \A c : Speaks(n, c) => MaySpeak(o, n, c)
    BY <1>1 DEF MayPoint, MaySpeak
<1>3. row[n].exists => PointsTo(n, row[n].terminal) /\ Speaks(n, row[n].saved)
    BY DEF PointsTo, Speaks
<1>4. PointsTo(n, slot[n].id) /\ Speaks(n, slot[n].conv)
    BY DEF PointsTo, Speaks
<1>5. \A l \in Launches : job[l].name = n =>
           /\ PointsTo(n, job[l].terminal) /\ PointsTo(n, job[l].term)
           /\ Speaks(n, job[l].saved) /\ Speaks(n, job[l].conv)
    BY DEF PointsTo, Speaks
<1> QED BY <1>2, <1>3, <1>4, <1>5 DEF MayPoint, MaySpeak

(* Rows that are kept, or edited within their lane, stay in it.            *)
LEMMA RowsStay ==
    ASSUME TypeOK, NEW o, renamed \subseteq renamed', NEW n \in Names, NEW r,
           row[n].exists => MayPoint(o, n, r.terminal) /\ MaySpeak(o, n, r.saved),
           row' = Update(row, n, r)
    PROVE  RowsMay(o)
<1>1. ASSUME NEW m \in Names, row'[m].exists
      PROVE  MayPoint(o, m, row'[m].terminal) /\ MaySpeak(o, m, row'[m].saved)
  <2>1. CASE row[n].exists /\ m = n
      BY <2>1 DEF Update, TypeOK
  <2>2. CASE ~(row[n].exists /\ m = n)
    <3>1. row'[m] = row[m]
        BY <2>2 DEF Update, TypeOK
    <3> QED BY <1>1, <3>1, MayKeep
  <2> QED BY <2>1, <2>2
<1> QED BY <1>1 DEF RowsMay

(* The table that is not touched.                                          *)
LEMMA RowsSame ==
    ASSUME NEW o, renamed \subseteq renamed', row' = row
    PROVE  RowsMay(o)
    BY MayKeep DEF RowsMay

(* Pointers that are cleared leave their lanes.                            *)
LEMMA RowsCleared ==
    ASSUME TypeOK, NEW o, renamed \subseteq renamed', NEW t, row' = ClearTerminal(row, t)
    PROVE  RowsMay(o)
<1>1. ASSUME NEW m \in Names, row'[m].exists
      PROVE  MayPoint(o, m, row'[m].terminal) /\ MaySpeak(o, m, row'[m].saved)
  <2>1. CASE row[m].exists /\ row[m].terminal = t
    <3>1. row[m] \in Kept /\ row'[m] = [row[m] EXCEPT !.terminal = None]
        BY <2>1, Existing DEF ClearTerminal
    <3>2. row'[m].terminal = None /\ row'[m].saved = row[m].saved
        BY <3>1 DEF Kept
    <3> QED BY <2>1, <3>2, MayKeep
  <2>2. CASE ~(row[m].exists /\ row[m].terminal = t)
    <3>1. row'[m] = row[m]
        BY <2>2 DEF ClearTerminal
    <3> QED BY <1>1, <3>1, MayKeep
  <2> QED BY <2>1, <2>2
<1> QED BY <1>1 DEF RowsMay

(* Tasks that are kept stay in their lanes, and one that is edited in its. *)
LEMMA JobsStay ==
    ASSUME TypeOK, NEW o, renamed \subseteq renamed', NEW l \in Launches, NEW j,
           JobMay(o, j), job' = [job EXCEPT ![l] = j]
    PROVE  JobsMay(o)
<1>1. ASSUME NEW k \in Launches PROVE JobMay(o, job'[k])
  <2>1. CASE k = l
      BY <2>1 DEF TypeOK
  <2>2. CASE k # l
    <3>1. job'[k] = job[k]
        BY <2>2 DEF TypeOK
    <3> QED BY <3>1, MayKeep DEF JobMay
  <2> QED BY <2>1, <2>2
<1> QED BY <1>1 DEF JobsMay

(* The tasks that are not touched.                                         *)
LEMMA JobsSame ==
    ASSUME NEW o, renamed \subseteq renamed', job' = job
    PROVE  JobsMay(o)
    BY MayKeep DEF JobsMay, JobMay

(* A task that ends holds nothing.                                         *)
LEMMA JobsEnd ==
    ASSUME TypeOK, NEW o, renamed \subseteq renamed', NEW l \in Launches, Ends(l)
    PROVE  JobsMay(o)
<1>1. NoJob.name = Tab
    BY DEF NoJob
<1>2. JobMay(o, NoJob)
    BY <1>1, TabIsNoName DEF JobMay
<1> QED BY <1>2, JobsStay DEF Ends

(* The registry, when nothing is spawned.                                  *)
LEMMA SlotsSame ==
    ASSUME NEW o, renamed \subseteq renamed', slot' = slot
    PROVE  SlotsMay(o) /\ TabMay(o)
    BY MayKeep DEF SlotsMay, TabMay

(* A session that dies, or leaves the registry.                            *)
LEMMA SlotsFade ==
    ASSUME TypeOK, NEW o, renamed \subseteq renamed', NEW k \in Keys,
           \/ slot' = [slot EXCEPT ![k].alive = FALSE]
           \/ slot' = [slot EXCEPT ![k] = NoSession]
    PROVE  SlotsMay(o) /\ TabMay(o)
<1>1. \A q \in Keys : \/ slot'[q].id = slot[q].id /\ slot'[q].conv = slot[q].conv
                     \/ slot'[q] = NoSession
    BY DEF TypeOK, Sessions
<1>2. NoSession.id = None /\ NoSession.conv = None
    BY DEF NoSession
<1>3. ASSUME NEW n \in Names PROVE MayPoint(o, n, slot'[n].id) /\ MaySpeak(o, n, slot'[n].conv)
  <2>1. n \in Keys
      BY DEF Keys
  <2> QED BY <1>1, <1>2, <2>1, MayKeep
<1>4. Tab \in Keys
    BY DEF Keys
<1> QED BY <1>1, <1>3, <1>4 DEF SlotsMay, TabMay

-----------------------------------------------------------------------------
(* The steps. *)

(* At first every lane is empty.                                           *)
LEMMA InitLanes == Init => LaneInv
<1> SUFFICES ASSUME Init PROVE LaneInv
    OBVIOUS
<1>1. \A n \in Names : row[n].exists => row[n].terminal = None /\ row[n].saved = None
    BY DEF Init, FreshRow, NoRow
<1>2. \A k \in Keys : slot[k].id = None /\ slot[k].conv = None
    BY DEF Init, NoSession
<1>3. \A l \in Launches : job[l].name \notin Names
    BY TabIsNoName DEF Init, NoJob
<1>4. \A n \in Names : \A i : PointsTo(n, i) \/ Speaks(n, i) => i = None
    BY <1>1, <1>2, <1>3 DEF PointsTo, Speaks, Keys
<1>5. minted = 0 /\ slot[Tab].id = None /\ slot[Tab].conv = None
    BY <1>2 DEF Init, Keys
<1> QED BY <1>4, <1>5 DEF LaneInv, TerminalsApart, ConversationsApart, TabApart, Minted, None

(* A row is read into a task of its name.                                  *)
LEMMA ReadsLanes ==
    ASSUME TypeOK, NEW o, renamed \subseteq renamed', NEW l \in Launches,
           NEW n \in Names, Reads(l, n)
    PROVE  JobsMay(o)
<1> DEFINE j == [NoJob EXCEPT !.name = n, !.saved = row[n].saved,
                              !.terminal = row[n].terminal, !.shared = row[n].shared]
<1>1. /\ j.name = n /\ j.saved = row[n].saved /\ j.terminal = row[n].terminal
      /\ j.conv = None /\ j.term = None
    BY DEF NoJob
<1>2. job' = [job EXCEPT ![l] = j] /\ row[n].exists
    BY DEF Reads
<1> HIDE DEF j
<1>3. JobMay(o, j)
    BY <1>1, <1>2, MayKeep DEF JobMay
<1> QED BY <1>2, <1>3, JobsStay

(* What a step of a launch leaves alone.                                   *)
LEMMA LanesQuiet ==
    ASSUME TypeOK, TypeOK', LaneInv, renamed' = renamed, minted' = minted,
           \A o : RowsMay(o) /\ JobsMay(o), slot' = slot
    PROVE  LaneInv'
<1>1. SlotsMay(Tab) /\ TabMay(Tab)
    BY SlotsSame
<1> QED BY <1>1, LanesKept

(* A tick takes an empty task, a launch one with the pointers of its row.  *)
LEMMA StartLanes ==
    ASSUME TypeOK, TypeOK', LaneInv, NEW l \in Launches, NEW n \in Names, Tick(l, n) \/ Launch(l, n)
    PROVE  LaneInv'
<1>1. renamed' = renamed /\ minted' = minted /\ slot' = slot
    BY DEF Tick, Launch, world, registry, history
<1>2. ASSUME NEW o PROVE RowsMay(o) /\ JobsMay(o)
  <2>1. CASE Tick(l, n) /\ n \in wakeup
    <3> DEFINE j == [NoJob EXCEPT !.name = n]
    <3>1. row' = row /\ job' = [job EXCEPT ![l] = j]
        BY <2>1 DEF Tick
    <3>2. /\ j.name = n /\ j.saved = None /\ j.terminal = None /\ j.conv = None /\ j.term = None
        BY DEF NoJob
    <3> HIDE DEF j
    <3>3. JobMay(o, j)
        BY <1>1, <3>2, MayKeep DEF JobMay
    <3> QED BY <1>1, <3>1, <3>3, JobsStay, RowsSame
  <2>2. CASE Tick(l, n) /\ n \notin wakeup
    <3> DEFINE r == [row[n] EXCEPT !.enabled = FALSE]
    <3>1. row' = Update(row, n, r) /\ job' = job
        BY <2>2 DEF Tick, tasks
    <3>2. row[n].exists => r.terminal = row[n].terminal /\ r.saved = row[n].saved
        BY Existing DEF Kept
    <3> HIDE DEF r
    <3>3. row[n].exists => MayPoint(o, n, r.terminal) /\ MaySpeak(o, n, r.saved)
        BY <1>1, <3>2, MayKeep
    <3> QED BY <1>1, <3>1, <3>3, RowsStay, JobsSame
  <2>3. CASE Launch(l, n)
    <3>1. row' = row /\ Reads(l, n)
        BY <2>3 DEF Launch
    <3> QED BY <1>1, <3>1, ReadsLanes, RowsSame
  <2> QED BY <2>1, <2>2, <2>3
<1> QED BY <1>1, <1>2, LanesQuiet

(* The steps of a launch that edit no pointer: reading, leasing, failing,  *)
(* writing to a session, stamping.                                         *)
LEMMA PassLanes ==
    ASSUME TypeOK, TypeOK', LaneInv, NEW l \in Launches,
           \/ Resolve(l) \/ Acquire(l) \/ Deliver(l) \/ Inject(l)
           \/ Uncomposed(l) \/ Disable(l) \/ Fails(l) \/ Stamp(l)
    PROVE  LaneInv'
<1> DEFINE n == job[l].name
<1>1. /\ renamed' = renamed /\ minted' = minted /\ slot' = slot
      /\ n \in Names
    BY DEF Resolve, Acquire, Deliver, Inject, Uncomposed, Disable, Fails, Stamp,
           world, registry, history, TypeOK
<1>2. ASSUME NEW o PROVE RowsMay(o)
  <2>1. CASE row' = row
      BY <1>1, <2>1, RowsSame
  <2>2. ASSUME NEW r, row' = Update(row, n, r),
               row[n].exists => r.terminal = row[n].terminal /\ r.saved = row[n].saved
        PROVE  RowsMay(o)
    <3>1. row[n].exists => MayPoint(o, n, r.terminal) /\ MaySpeak(o, n, r.saved)
        BY <1>1, <2>2, MayKeep
    <3> QED BY <1>1, <2>2, <3>1, RowsStay
  <2>3. row[n].exists => row[n] \in Kept
      BY <1>1, Existing
  <2>4. CASE Acquire(l)
    <3> DEFINE r == [row[n] EXCEPT !.leased = TRUE]
    <3>1. row' = row \/ row' = Update(row, n, r)
        BY <2>4 DEF Acquire
    <3>2. row[n].exists => r.terminal = row[n].terminal /\ r.saved = row[n].saved
        BY <2>3 DEF Kept
    <3> QED BY <2>1, <2>2, <3>1, <3>2
  <2>5. CASE Uncomposed(l) \/ Fails(l)
    <3> DEFINE r == [row[n] EXCEPT !.leased = FALSE]
    <3>1. row' = Update(row, n, r)
        BY <2>5 DEF Uncomposed, Fails, GiveBack
    <3>2. row[n].exists => r.terminal = row[n].terminal /\ r.saved = row[n].saved
        BY <2>3 DEF Kept
    <3> QED BY <2>2, <3>1, <3>2
  <2>6. CASE Disable(l)
    <3> DEFINE r == [row[n] EXCEPT !.enabled = FALSE]
    <3>1. row' = Update(row, n, r)
        BY <2>6 DEF Disable
    <3>2. row[n].exists => r.terminal = row[n].terminal /\ r.saved = row[n].saved
        BY <2>3 DEF Kept
    <3> QED BY <2>2, <3>1, <3>2
  <2>7. CASE Stamp(l)
    <3> DEFINE r == [row[n] EXCEPT !.due = FALSE, !.leased = FALSE]
    <3>1. row' = Update(row, n, r)
        BY <2>7 DEF Stamp
    <3>2. row[n].exists => r.terminal = row[n].terminal /\ r.saved = row[n].saved
        BY <2>3 DEF Kept
    <3> QED BY <2>2, <3>1, <3>2
  <2>8. CASE Resolve(l) \/ Deliver(l) \/ Inject(l)
      BY <2>1, <2>8 DEF Resolve, Deliver, Inject
  <2> QED BY <2>4, <2>5, <2>6, <2>7, <2>8
<1>3. ASSUME NEW o PROVE JobsMay(o)
  <2>1. job' = job \/ Ends(l) \/ Reads(l, n)
      BY DEF Resolve, Acquire, Deliver, Inject, Uncomposed, Disable, Fails, Stamp
  <2> QED BY <1>1, <2>1, JobsSame, JobsEnd, ReadsLanes
<1> QED BY <1>1, <1>2, <1>3, LanesQuiet

(* The session to be written to is the one the row pointed to, or one that *)
(* runs the row's conversation: a kin's, or a tab.                         *)
LEMMA DecideLanes ==
    ASSUME TypeOK, TypeOK', LaneInv, NEW l \in Launches, Decide(l)
    PROVE  LaneInv'
<1> DEFINE n == job[l].name
           branch == plan_launch_decision(job[l])
           stale == job[l].terminal # None /\ Bonded(job[l]) = {}
           ghost == job[l].saved # None /\ branch = "fresh"
           r == [row[n] EXCEPT !.terminal = IF stale THEN None ELSE @,
                               !.saved = IF ghost THEN None ELSE @]
<1>1. PICK k \in (IF branch = "inject" THEN Targets(job[l]) ELSE {n}) :
         job' = [job EXCEPT ![l] = [NoJob EXCEPT
                   !.name = n, !.kind = branch,
                   !.conv = IF branch = "resume" THEN job[l].saved ELSE None,
                   !.term = IF branch = "inject" THEN slot[k].id ELSE None]]
    BY DEF Decide
<1>2. /\ renamed' = renamed /\ minted' = minted /\ slot' = slot /\ n \in Names
      /\ row' = Update(row, n, r)
    BY DEF Decide, world, registry, history, TypeOK
<1>3. job[l].saved \in Nat /\ slot \in [Keys -> Sessions]
    BY DEF TypeOK, Jobs
<1>4. ASSUME branch = "inject" PROVE \A o : MayPoint(o, n, slot[k].id)
  <2>1. job[l].saved # None /\ k \in Targets(job[l])
      BY <1>1, <1>4 DEF plan_launch_decision
  <2>2. k \in Keys /\ (slot[k].id = job[l].terminal \/ slot[k].conv = job[l].saved)
    <3>1. \A q \in Bonded(job[l]) : q \in Keys /\ slot[q].id = job[l].terminal
        BY DEF Bonded, Alive, Registered
    <3>2. \A q \in Alive(Running(job[l].saved)) : q \in Keys /\ slot[q].conv = job[l].saved
        BY DEF Alive, Running
    <3> QED BY <2>1, <3>1, <3>2 DEF Targets
  <2>3. Speaks(n, job[l].saved)
      BY DEF Speaks
  <2>4. CASE slot[k].id = job[l].terminal
      BY <1>2, <2>4, MayKeep
  <2>5. CASE slot[k].conv = job[l].saved /\ k = Tab
      BY <2>1, <2>3, <2>5 DEF MayPoint
  <2>6. CASE slot[k].conv = job[l].saved /\ k \in Names
    <3>1. PointsTo(k, slot[k].id) /\ Speaks(k, job[l].saved)
        BY <2>6 DEF PointsTo, Speaks
    <3>2. Kin(k, n)
        BY <1>2, <1>3, <2>1, <2>3, <2>6, <3>1 DEF LaneInv, ConversationsApart
    <3>3. KinAfter(k, n)
        BY <1>2, <3>2, KinOfKin
    <3> QED BY <2>6, <3>1, <3>3 DEF MayPoint
  <2> QED BY <2>2, <2>4, <2>5, <2>6 DEF Keys
<1>5. ASSUME NEW o PROVE JobsMay(o)
  <2> DEFINE j == [NoJob EXCEPT
                   !.name = n, !.kind = branch,
                   !.conv = IF branch = "resume" THEN job[l].saved ELSE None,
                   !.term = IF branch = "inject" THEN slot[k].id ELSE None]
  <2>1. /\ j.name = n /\ j.saved = None /\ j.terminal = None
        /\ j.conv \in {None, job[l].saved}
        /\ j.term = IF branch = "inject" THEN slot[k].id ELSE None
    <3> HIDE DEF branch
    <3> QED BY DEF NoJob
  <2>2. job' = [job EXCEPT ![l] = j]
      BY <1>1
  <2> HIDE DEF j, branch
  <2>3. JobMay(o, j)
      BY <1>2, <1>4, <2>1, MayKeep DEF JobMay
  <2> QED BY <1>2, <2>2, <2>3, JobsStay
<1>6. ASSUME NEW o PROVE RowsMay(o)
  <2>1. row[n].exists => r.terminal \in {None, row[n].terminal} /\ r.saved \in {None, row[n].saved}
    <3> HIDE DEF stale, ghost
    <3> QED BY <1>2, Existing DEF Kept
  <2> HIDE DEF r
  <2>2. row[n].exists => MayPoint(o, n, r.terminal) /\ MaySpeak(o, n, r.saved)
      BY <1>2, <2>1, MayKeep
  <2> QED BY <1>2, <2>2, RowsStay
<1> QED BY <1>2, <1>5, <1>6, LanesQuiet

(* A spawn under the name: the session that is there, or a new one.        *)
LEMMA SpawnLanes ==
    ASSUME TypeOK, TypeOK', LaneInv, NEW l \in Launches, Fresh(l) \/ Resume(l)
    PROVE  LaneInv'
<1> DEFINE n == job[l].name
<1>1. /\ renamed' = renamed /\ minted' = minted + 1
      /\ n \in Names /\ n \in Keys /\ n # Tab /\ KeyOf(l) = n
      /\ job[l] \in Jobs /\ minted \in Nat
    BY TabIsNoName DEF Fresh, Resume, history, TypeOK, Keys, KeyOf
<1>2. PICK c \in Nat : Spawn(l, c) /\ c \in {minted + 1, job[l].conv}
    BY <1>1 DEF Fresh, Resume, Jobs
<1>3. MaySpeak(n, n, c)
  <2>1. CASE c = minted + 1
      BY <1>1, <2>1 DEF MaySpeak
  <2>2. CASE c = job[l].conv
      BY <1>1, <2>2, MayKeep
  <2> QED BY <1>2, <2>1, <2>2
<1>4. MayPoint(n, n, minted + 1)
    BY <1>1 DEF MayPoint
<1>5. CASE slot[n].alive
  <2> DEFINE j == [job[l] EXCEPT !.conv = c, !.term = slot[n].id]
  <2>1. /\ row' = row /\ slot' = slot /\ job' = [job EXCEPT ![l] = j]
      BY <1>1, <1>2, <1>5 DEF Spawn, registry, TypeOK, Jobs
  <2>2. /\ j.name = n /\ j.conv = c /\ j.term = slot[n].id
        /\ j.saved = job[l].saved /\ j.terminal = job[l].terminal
      BY <1>1 DEF Jobs
  <2> HIDE DEF j
  <2>3. JobMay(n, j)
      BY <1>1, <1>3, <2>2, MayKeep DEF JobMay
  <2>4. JobsMay(n) /\ RowsMay(n) /\ SlotsMay(n) /\ TabMay(n)
      BY <1>1, <2>1, <2>3, JobsStay, RowsSame, SlotsSame
  <2> QED BY <1>1, <2>4, LanesKept
<1>6. CASE ~slot[n].alive
  <2> DEFINE j == [job[l] EXCEPT !.conv = c, !.term = minted + 1]
             new == [id |-> minted + 1, conv |-> c, alive |-> TRUE]
  <2>1. /\ row' = ClearTerminal(row, slot[n].id)
        /\ slot' = [slot EXCEPT ![n] = new] /\ job' = [job EXCEPT ![l] = j]
      BY <1>1, <1>2, <1>6 DEF Spawn, TypeOK, Jobs
  <2>2. /\ j.name = n /\ j.conv = c /\ j.term = minted + 1
        /\ j.saved = job[l].saved /\ j.terminal = job[l].terminal
      BY <1>1 DEF Jobs
  <2>3. new.id = minted + 1 /\ new.conv = c
      OBVIOUS
  <2> HIDE DEF j, new
  <2>4. JobMay(n, j)
      BY <1>1, <1>3, <1>4, <2>2, MayKeep DEF JobMay
  <2>5. slot'[n] = new /\ \A m \in Keys \ {n} : slot'[m] = slot[m]
      BY <1>1, <2>1 DEF TypeOK
  <2>6. TabMay(n)
      BY <1>1, <2>5 DEF TabMay, Keys
  <2>7. SlotsMay(n)
    <3>1. ASSUME NEW m \in Names
          PROVE  MayPoint(n, m, slot'[m].id) /\ MaySpeak(n, m, slot'[m].conv)
      <4>1. CASE m = n
          BY <1>3, <1>4, <2>3, <2>5, <4>1
      <4>2. CASE m # n
        <5>1. slot'[m] = slot[m]
            BY <2>5, <4>2 DEF Keys
        <5> QED BY <1>1, <5>1, MayKeep
      <4> QED BY <4>1, <4>2
    <3> QED BY <3>1 DEF SlotsMay
  <2>8. JobsMay(n) /\ RowsMay(n)
      BY <1>1, <2>1, <2>4, JobsStay, RowsCleared
  <2> QED BY <1>1, <2>6, <2>7, <2>8, LanesKept
<1> QED BY <1>5, <1>6

(* What the task made is written to the row of its name.                   *)
LEMMA PointLanes ==
    ASSUME TypeOK, TypeOK', LaneInv, NEW l \in Launches, Save(l) \/ Bind(l)
    PROVE  LaneInv'
<1> DEFINE n == job[l].name
           r == [row[n] EXCEPT !.saved = job[l].conv, !.terminal = job[l].term]
           q == [row[n] EXCEPT !.terminal = job[l].term]
           j == [job[l] EXCEPT !.conv = None, !.term = None]
<1>1. /\ renamed' = renamed /\ minted' = minted /\ slot' = slot
      /\ n \in Names /\ job[l] \in Jobs
    BY DEF Save, Bind, world, registry, history, TypeOK
<1>2. row' = Update(row, n, r) \/ row' = Update(row, n, q)
    BY DEF Save, Bind
<1>3. row[n].exists => /\ r.saved = job[l].conv /\ r.terminal = job[l].term
                       /\ q.saved = row[n].saved /\ q.terminal = job[l].term
    BY <1>1, Existing DEF Kept
<1>4. job' = [job EXCEPT ![l] = j] \/ Ends(l)
    BY <1>1 DEF Save, Bind, TypeOK, Jobs
<1>5. /\ j.name = n /\ j.conv = None /\ j.term = None
      /\ j.saved = job[l].saved /\ j.terminal = job[l].terminal
    BY <1>1 DEF Jobs
<1> HIDE DEF r, q, j
<1>6. ASSUME NEW o PROVE RowsMay(o) /\ JobsMay(o)
  <2>1. row[n].exists => /\ MayPoint(o, n, r.terminal) /\ MaySpeak(o, n, r.saved)
                         /\ MayPoint(o, n, q.terminal) /\ MaySpeak(o, n, q.saved)
      BY <1>1, <1>3, MayKeep
  <2>2. JobMay(o, j)
      BY <1>1, <1>5, MayKeep DEF JobMay
  <2> QED BY <1>1, <1>2, <1>4, <2>1, <2>2, RowsStay, JobsStay, JobsEnd
<1> QED BY <1>1, <1>6, LanesQuiet

(* A pointer is repaired to a session of the row's conversation: a kin's,  *)
(* or a tab.                                                               *)
LEMMA RegistryLanes ==
    ASSUME TypeOK, TypeOK', LaneInv, Registry
    PROVE  LaneInv'
<1>1. renamed' = renamed /\ minted' = minted /\ job' = job
    BY DEF Registry, Dies, Observed, Unregister, Persist, ActiveSession, world, tasks, history
<1>2. ASSUME NEW o PROVE JobsMay(o)
    BY <1>1, JobsSame
<1>3. ASSUME NEW k \in Keys, Dies(k) \/ Observed(k) PROVE LaneInv'
  <2>1. SlotsMay(Tab) /\ TabMay(Tab)
      BY <1>1, <1>3, SlotsFade DEF Dies, Observed, Unregister
  <2>2. RowsMay(Tab)
      BY <1>1, <1>3, RowsSame, RowsCleared DEF Dies, Observed, Unregister
  <2> QED BY <1>1, <1>2, <2>1, <2>2, LanesKept
<1>4. ASSUME NEW k \in Keys, Persist(k) PROVE LaneInv'
  <2>1. row' = row /\ slot' = slot
      BY <1>4 DEF Persist, registry
  <2> QED BY <1>1, <1>2, <2>1, RowsSame, LanesQuiet
<1>5. ASSUME NEW n \in Names, ActiveSession(n) PROVE LaneInv'
  <2> DEFINE r(t) == [row[n] EXCEPT !.terminal = t]
  <2>1. slot' = slot /\ row[n].exists /\ row[n] \in Kept
      BY <1>5, Existing DEF ActiveSession, world, registry
  <2>2. PICK t : row' = Update(row, n, r(t)) /\ \A o : MayPoint(o, n, t)
    <3>1. CASE row' = Update(row, n, r(None))
        BY <1>1, <3>1, MayKeep
    <3>2. CASE \E k \in Keys : /\ row[n].saved # None /\ slot[k].conv = row[n].saved
                               /\ row' = Update(row, n, r(slot[k].id))
      <4>1. PICK k \in Keys : /\ row[n].saved # None /\ slot[k].conv = row[n].saved
                              /\ row' = Update(row, n, r(slot[k].id))
          BY <3>2
      <4>2. Speaks(n, row[n].saved) /\ row[n].saved \in Nat \ {None}
          BY <2>1, <4>1 DEF Speaks, Kept
      <4>3. CASE k = Tab
        <5>1. \A o : MayPoint(o, n, slot[k].id)
            BY <4>1, <4>2, <4>3 DEF MayPoint
        <5> QED BY <4>1, <5>1
      <4>4. CASE k \in Names
        <5>1. PointsTo(k, slot[k].id) /\ Speaks(k, row[n].saved)
            BY <4>1 DEF PointsTo, Speaks
        <5>2. Kin(k, n)
            BY <4>2, <4>4, <5>1 DEF LaneInv, ConversationsApart
        <5>3. KinAfter(k, n)
            BY <1>1, <5>2, KinOfKin
        <5>4. \A o : MayPoint(o, n, slot[k].id)
            BY <4>4, <5>1, <5>3 DEF MayPoint
        <5> QED BY <4>1, <5>4
      <4> QED BY <4>3, <4>4 DEF Keys
    <3> HIDE DEF r
    <3> QED BY <1>5, <3>1, <3>2 DEF ActiveSession, Running, r
  <2>3. r(t).terminal = t /\ r(t).saved = row[n].saved
      BY <2>1 DEF Kept
  <2> HIDE DEF r
  <2>4. ASSUME NEW o PROVE RowsMay(o)
    <3>1. MayPoint(o, n, r(t).terminal) /\ MaySpeak(o, n, r(t).saved)
        BY <1>1, <2>1, <2>2, <2>3, MayKeep
    <3> QED BY <1>1, <2>2, <3>1, RowsStay
  <2> QED BY <1>1, <1>2, <2>1, <2>4, LanesQuiet
<1> QED BY <1>3, <1>4, <1>5 DEF Registry

(* A tab is opened on the conversation of a row.                           *)
LEMMA TabLanes ==
    ASSUME TypeOK, TypeOK', LaneInv, NEW n \in Names, OpenTab(n)
    PROVE  LaneInv'
<1> DEFINE new == [id |-> minted + 1, conv |-> row[n].saved, alive |-> TRUE]
<1>1. /\ renamed' = renamed /\ minted' = minted + 1 /\ row' = row /\ job' = job
      /\ slot' = [slot EXCEPT ![Tab] = new] /\ row[n].exists /\ minted \in Nat
    BY DEF OpenTab, tasks, history, TypeOK
<1>2. new.id = minted + 1 /\ new.conv = row[n].saved
    OBVIOUS
<1> HIDE DEF new
<1>3. slot'[Tab] = new /\ \A m \in Names : slot'[m] = slot[m]
    BY <1>1, TabIsNoName DEF TypeOK, Keys
<1>4. SlotsMay(n)
    BY <1>1, <1>3, MayKeep DEF SlotsMay
<1>5. TabMay(n)
  <2>1. ASSUME NEW m \in Names PROVE ~PointsTo(m, slot[Tab].id)'
    <3>1. PointsTo(m, minted + 1) <=> PointsTo(m, slot[Tab].id)'
        BY <1>1, <1>2, <1>3 DEF PointsTo
    <3> QED BY <1>1, <3>1 DEF LaneInv, Minted
  <2>2. Speaks(n, row[n].saved)
      BY <1>1 DEF Speaks
  <2> QED BY <1>1, <1>2, <1>3, <2>1, <2>2 DEF TabMay
<1> QED BY <1>1, <1>4, <1>5, RowsSame, JobsSame, LanesKept

(* A row that is removed leaves its lane; one that is renamed carries it   *)
(* to its new name, and both are kin from then on.                         *)
LEMMA MoveLanes ==
    ASSUME TypeOK, TypeOK', LaneInv, NEW n \in Names, Remove(n) \/ \E m \in Names : Rename(n, m)
    PROVE  LaneInv'
<1>1. /\ renamed \subseteq renamed' /\ minted' = minted /\ slot' = slot /\ job' = job
    BY DEF Remove, Rename, registry, tasks
<1>2. SlotsMay(Tab) /\ TabMay(Tab) /\ JobsMay(Tab)
    BY <1>1, SlotsSame, JobsSame
<1>3. ~NoRow.exists
    BY DEF NoRow
<1>4. ASSUME NEW q \in Names, row'[q].exists
      PROVE  MayPoint(Tab, q, row'[q].terminal) /\ MaySpeak(Tab, q, row'[q].saved)
  <2>1. CASE row'[q] = row[q]
      BY <1>1, <1>4, <2>1, MayKeep
  <2>2. CASE row'[q] = row[n] /\ row[n].exists /\ {n, q} \subseteq renamed'
    <3>1. PointsTo(n, row[n].terminal) /\ Speaks(n, row[n].saved) /\ KinAfter(n, q)
        BY <2>2 DEF PointsTo, Speaks, KinAfter
    <3> QED BY <2>2, <3>1 DEF MayPoint, MaySpeak
  <2>3. CASE Remove(n)
      BY <1>3, <1>4, <2>1, <2>3 DEF Remove, TypeOK
  <2>4. ASSUME NEW m \in Names, Rename(n, m)
        PROVE  MayPoint(Tab, q, row'[q].terminal) /\ MaySpeak(Tab, q, row'[q].saved)
    <3>1. row' = [row EXCEPT ![n] = NoRow, ![m] = row[n]] /\ {n, m} \subseteq renamed' /\ row[n].exists
        BY <2>4 DEF Rename
    <3> QED BY <1>3, <1>4, <2>1, <2>2, <3>1 DEF TypeOK
  <2> QED BY <2>3, <2>4
<1>5. RowsMay(Tab)
    BY <1>4 DEF RowsMay
<1> QED BY <1>1, <1>2, <1>5, LanesKept

(* A new row points nowhere; flags and times are no pointers.              *)
LEMMA EditLanes ==
    ASSUME TypeOK, TypeOK', LaneInv, NEW n \in Names, Add(n) \/ SetFlag(n) \/ Tamper(n) \/ Window(n)
    PROVE  LaneInv'
<1>1. /\ renamed' = renamed /\ minted' = minted /\ slot' = slot /\ job' = job
    BY DEF Add, SetFlag, Tamper, Window, world, registry, tasks, history
<1>2. ASSUME NEW o, NEW q \in Names, row'[q].exists
      PROVE  MayPoint(o, q, row'[q].terminal) /\ MaySpeak(o, q, row'[q].saved)
  <2>1. CASE row'[q] = row[q]
      BY <1>1, <1>2, <2>1, MayKeep
  <2>2. CASE row'[q] = FreshRow
    <3>1. FreshRow.terminal = None /\ FreshRow.saved = None
        BY DEF FreshRow
    <3> QED BY <1>1, <2>2, <3>1, MayKeep
  <2>3. CASE row[n].exists /\ q = n /\ row'[n].terminal = row[n].terminal /\ row'[n].saved = row[n].saved
      BY <1>1, <2>3, MayKeep
  <2>4. CASE Add(n) \/ Tamper(n)
      BY <2>1, <2>2, <2>4 DEF Add, Tamper, TypeOK
  <2>5. CASE SetFlag(n)
    <3>1. PICK f \in {"enabled", "archived", "shared"} : row' = [row EXCEPT ![n][f] = ~@]
        BY <2>5 DEF SetFlag
    <3>2. row[n].exists /\ row[n] \in Kept /\ row \in [Names -> Kept \cup {NoRow}]
        BY <2>5, Existing DEF SetFlag, TypeOK
    <3>3. q # n => row'[q] = row[q]
        BY <3>1, <3>2
    <3>4. row'[n] = [row[n] EXCEPT ![f] = ~@]
        BY <3>1, <3>2
    <3>5. row'[n].terminal = row[n].terminal /\ row'[n].saved = row[n].saved
        BY <3>2, <3>4 DEF Kept
    <3> QED BY <2>1, <2>3, <3>2, <3>3, <3>5
  <2>6. CASE Window(n)
    <3>1. row[n].exists /\ row[n] \in Kept /\ row \in [Names -> Kept \cup {NoRow}]
        BY <2>6, Existing DEF Window, TypeOK
    <3>2. row' = [row EXCEPT ![n] = [row[n] EXCEPT !.due = TRUE]]
        BY <2>6, <3>1 DEF Window, Update
    <3>3. row'[n].terminal = row[n].terminal /\ row'[n].saved = row[n].saved
        BY <3>1, <3>2 DEF Kept
    <3> QED BY <2>1, <2>3, <3>1, <3>2, <3>3
  <2> QED BY <2>4, <2>5, <2>6
<1>3. ASSUME NEW o PROVE RowsMay(o)
    BY <1>2 DEF RowsMay
<1> QED BY <1>1, <1>3, JobsSame, LanesQuiet

(* A boot clears the pointers, and nothing runs.                           *)
LEMMA RestartLanes ==
    ASSUME TypeOK, TypeOK', LaneInv, Restart
    PROVE  LaneInv'
<1>1. /\ renamed' = renamed /\ minted' = minted /\ slot' = [k \in Keys |-> NoSession]
      /\ job' = [l \in Launches |-> NoJob]
    BY DEF Restart
<1>2. NoSession.id = None /\ NoSession.conv = None /\ NoJob.name = Tab
    BY DEF NoSession, NoJob
<1>3. SlotsMay(Tab) /\ TabMay(Tab) /\ JobsMay(Tab)
    BY <1>1, <1>2, MayKeep, TabIsNoName DEF SlotsMay, TabMay, JobsMay, JobMay, Keys
<1>4. ASSUME NEW q \in Names, row'[q].exists
      PROVE  row[q].exists /\ row'[q].terminal = None /\ row'[q].saved = row[q].saved
  <2>1. PICK young : row' = [n \in Names |->
                      IF row[n].exists
                      THEN [row[n] EXCEPT !.terminal = None, !.leased = n \in young]
                      ELSE NoRow]
      BY DEF Restart
  <2>2. row[q].exists
      BY <1>4, <2>1 DEF NoRow
  <2>3. row'[q] = [row[q] EXCEPT !.terminal = None, !.leased = q \in young]
      BY <2>1, <2>2
  <2>4. row[q] \in Kept
      BY <2>2, Existing
  <2> QED BY <2>2, <2>3, <2>4 DEF Kept
<1>5. RowsMay(Tab)
    BY <1>1, <1>4, MayKeep DEF RowsMay
<1> QED BY <1>1, <1>3, <1>5, LanesKept

(* Every step keeps the lanes apart.                                       *)
LEMMA NextLanes == Safe /\ Safe' /\ LaneInv /\ [Next]_vars => LaneInv'
<1> SUFFICES ASSUME TypeOK, TypeOK', LaneInv, [Next]_vars PROVE LaneInv'
    BY DEF Safe
<1>1. CASE Starts
    BY <1>1, StartLanes DEF Starts
<1>2. CASE \E l \in Launches : Run(l) \/ Fails(l)
    BY <1>2, PassLanes, DecideLanes, SpawnLanes, PointLanes DEF Run
<1>3. CASE Registry
    BY <1>3, RegistryLanes
<1>4. CASE Users \/ Time
    BY <1>4, TabLanes, MoveLanes, EditLanes, RestartLanes DEF Users, Time
<1>5. CASE UNCHANGED vars
  <2>1. UNCHANGED <<row, slot, minted, job, renamed>>
      BY <1>5 DEF vars, world, registry, tasks, history
  <2> QED BY <2>1, RowsSame, JobsSame, LanesQuiet
<1> QED BY <1>1, <1>2, <1>3, <1>4, <1>5 DEF Next

(* No two heartbeats point to one terminal, unless the rename of one has   *)
(* left its session under its old name.                                    *)
THEOREM HeartbeatLanes == Spec => []LanesApart
<1>1. ASSUME TypeOK, LaneInv PROVE LanesApart
  <2> SUFFICES ASSUME NEW n \in Names, NEW m \in Names, n # m, row[n].exists, row[m].exists,
                      row[n].terminal # None, row[n].terminal = row[m].terminal
               PROVE  {n, m} \subseteq renamed
      BY DEF LanesApart
  <2>1. row[n].terminal \in Nat \ {None}
      BY <1>1, Existing DEF Kept
  <2>2. PointsTo(n, row[n].terminal) /\ PointsTo(m, row[n].terminal)
      BY DEF PointsTo
  <2>3. Kin(n, m)
      BY <1>1, <2>1, <2>2 DEF LaneInv, TerminalsApart
  <2> QED BY <2>3 DEF Kin
<1>2. Safe /\ LaneInv => LanesApart
    BY <1>1 DEF Safe
<1> QED BY <1>2, InitLanes, NextLanes, AlwaysSafe, PTL DEF Spec

=============================================================================
