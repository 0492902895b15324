---------------------------- MODULE PendingLive ----------------------------
(***************************************************************************)
(* Delivery of live signals to workspace agents: the egress of the         *)
(* awareness bus (k2-core awareness/egress.rs), the providers it calls     *)
(* (k2-daemon providers.rs), the queue on disk for agents that are offline *)
(* (pending_live.rs), the spawn paths that drain it (spawn.rs,             *)
(* v2_spawn.rs), and its replay when the daemon boots (main.rs).           *)
(*                                                                         *)
(* An actor is the request that sends a signal, named by the signal, or a  *)
(* request that spawns a session.  A step is one hold of the registry's or *)
(* the queue's mutex, one write to a PTY, or one file.  The registry is    *)
(* seen from here as a slot per key; SessionMap has the detail.            *)
(***************************************************************************)
EXTENDS Naturals, Sequences, FiniteSets

CONSTANTS Signals,     \* live signals that may be sent, each at most once
          Keys,        \* workspace ids: registry keys and directory names
          Sessions,    \* sessions that may be spawned, each at most once
          Endpoints,   \* requests to /cli/sessions/v2/spawn
          Ensures,     \* requests that spawn through the shared helper
          MaxCrashes,  \* bound on the crashes of the daemon
          NoSession, NoKey, Nobody

Spawners == Endpoints \cup Ensures
Actors   == Signals \cup Spawners

ASSUME ActorsDistinct == /\ Signals \cap Spawners = {}
                         /\ Endpoints \cap Ensures = {}
                         /\ Nobody \notin Actors
                         /\ NoSession \notin Sessions
                         /\ NoKey \notin Keys
                         /\ "enter" \notin Signals

ASSUME CrashesBounded == MaxCrashes \in Nat

VARIABLES
    phase,       \* the daemon: up, down, or booting
    crashes,     \* how often it crashed
    slot,        \* the registry: key -> live session
    born,        \* the sessions spawned so far
    disk,        \* the queue: the files of a key, in the order of their names
    counter,     \* PENDING_STATE, the in-memory count of a key's files
    left,        \* how many files at the front of a key's directory were passed
                 \* over: by the drain or the replay that goes through it, or
                 \* by the last one, and are on disk and not counted since
    replayed,    \* what replay_all read and main has yet to enqueue again
    pc, key, mine, hand,  \* an actor's place, key, session, and signals to type
    injectLock,  \* who holds the slot of the inject provider
    wakeLock,    \* who holds the slot of the wake provider
    input,       \* what was typed into a session: signals and Enters
    accepted,    \* history: the signals the queue accepted, in order
    overtaken    \* history: the signals a replay passed over

daemonVars == <<phase, crashes>>
sessVars   == <<slot, born>>
queueVars  == <<disk, counter, left, replayed, accepted, overtaken>>
lockVars   == <<injectLock, wakeLock>>
actorVars  == <<pc, key, mine, hand>>
vars == <<daemonVars, sessVars, queueVars, lockVars, actorVars, input>>

Resting == {"unsent", "idle", "sent", "refused"}
Pcs == Resting \cup {"probe", "inject", "wake", "launch", "lookup", "spawn",
                     "drain", "draining", "type", "enter"}

Goto(a, label) == pc' = [pc EXCEPT ![a] = label]

(* The queue's mutex is held while a drain goes through the files.         *)
QueueLocked == \E a \in Actors : pc[a] = "draining"

(* drain_directory goes through a key's files in the order of their names. *)
(* One it can read it removes; one it cannot read or parse it leaves in    *)
(* place, and a directory it cannot list it leaves as it is.               *)
Unread(k) == left[k] < Len(disk[k])
NextFile(k) == disk[k][left[k] + 1]

Without(files, i) ==
    [j \in 1..(Len(files) - 1) |-> IF j < i THEN files[j] ELSE files[j + 1]]

Remove(k) == /\ disk' = [disk EXCEPT ![k] = Without(@, left[k] + 1)]
             /\ UNCHANGED left
PassOver(k) == /\ left' = [left EXCEPT ![k] = @ + 1]
               /\ UNCHANGED disk

Init ==
    /\ phase = "up" /\ crashes = 0
    /\ slot = [k \in Keys |-> NoSession]
    /\ born = {}
    /\ disk = [k \in Keys |-> <<>>]
    /\ counter = [k \in Keys |-> 0]
    /\ left = [k \in Keys |-> 0]
    /\ replayed = [k \in Keys |-> <<>>]
    /\ accepted = <<>>
    /\ overtaken = {}
    /\ pc = [a \in Actors |-> IF a \in Signals THEN "unsent" ELSE "idle"]
    /\ key = [a \in Actors |-> NoKey]
    /\ mine = [a \in Actors |-> NoSession]
    /\ hand = [a \in Actors |-> <<>>]
    /\ injectLock = Nobody /\ wakeLock = Nobody
    /\ input = [s \in Sessions |-> <<>>]

-----------------------------------------------------------------------------
(* A sender: deliver_to_agent for a signal of Delivery::Live. *)

Send(g, k) ==
    /\ phase = "up" /\ pc[g] = "unsent"
    /\ key' = [key EXCEPT ![g] = k]
    /\ Goto(g, "probe")
    /\ UNCHANGED <<daemonVars, sessVars, queueVars, lockVars, mine, hand, input>>

(* is_agent_live, under the inject provider's lock; the plan is made of    *)
(* its answer and not made again.                                          *)
Probe(g) ==
    /\ pc[g] = "probe"
    /\ injectLock = Nobody
    /\ Goto(g, IF slot[key[g]] # NoSession THEN "inject" ELSE "wake")
    /\ UNCHANGED <<daemonVars, sessVars, queueVars, lockVars, key, mine, hand, input>>

(* Mutant: an inject that finds no session waits for one.                  *)
InjectWaits(g) ==
    /\ pc[g] = "inject"
    /\ injectLock = Nobody /\ slot[key[g]] # NoSession
    /\ mine' = [mine EXCEPT ![g] = slot[key[g]]]
    /\ hand' = [hand EXCEPT ![g] = <<g>>]
    /\ injectLock' = g
    /\ Goto(g, "type")
    /\ UNCHANGED <<daemonVars, sessVars, queueVars, wakeLock, key, input>>

(* try_inject looks the session up again.  If it is gone, the error is     *)
(* logged and the signal is left to the audit trail.                       *)
Inject(g) ==
    /\ pc[g] = "inject"
    /\ injectLock = Nobody
    /\ IF slot[key[g]] = NoSession
       THEN Goto(g, "refused") /\ UNCHANGED <<mine, hand, injectLock>>
       ELSE /\ mine' = [mine EXCEPT ![g] = slot[key[g]]]
            /\ hand' = [hand EXCEPT ![g] = <<g>>]
            /\ injectLock' = g
            /\ Goto(g, "type")
    /\ UNCHANGED <<daemonVars, sessVars, queueVars, wakeLock, key, input>>

Enqueue(g, k) ==
    /\ disk' = [disk EXCEPT ![k] = Append(@, g)]
    /\ counter' = [counter EXCEPT ![k] = @ + 1]

(* DaemonWakeProvider::wake, first stage.  The provider's lock is held     *)
(* until wake returns, so file names are taken in the order of the writes. *)
WakeQueues(g) ==
    /\ pc[g] = "wake"
    /\ wakeLock = Nobody /\ ~QueueLocked
    /\ Enqueue(g, key[g])
    /\ accepted' = Append(accepted, g)
    /\ wakeLock' = g
    /\ Goto(g, "launch")
    /\ UNCHANGED <<daemonVars, sessVars, left, replayed, overtaken, injectLock,
                   key, mine, hand, input>>

WakeRefuses(g) ==
    /\ pc[g] = "wake"
    /\ wakeLock = Nobody /\ ~QueueLocked
    /\ Goto(g, "refused")
    /\ UNCHANGED <<daemonVars, sessVars, queueVars, lockVars, key, mine, hand, input>>

-----------------------------------------------------------------------------
(* Spawning, by a sender that wakes its target or by a request. *)

(* An actor's request returns; the locks it holds are released.            *)
Return(a) ==
    /\ Goto(a, IF a \in Signals THEN "sent" ELSE "idle")
    /\ key' = [key EXCEPT ![a] = NoKey]
    /\ mine' = [mine EXCEPT ![a] = NoSession]
    /\ injectLock' = IF injectLock = a THEN Nobody ELSE injectLock
    /\ wakeLock' = IF wakeLock = a THEN Nobody ELSE wakeLock
    /\ UNCHANGED hand

Request(a, k) ==
    /\ phase = "up" /\ pc[a] = "idle"
    /\ key' = [key EXCEPT ![a] = k]
    /\ Goto(a, "lookup")
    /\ UNCHANGED <<daemonVars, sessVars, queueVars, lockVars, mine, hand, input>>

(* try_auto_launch: skip when a session is live, and when the workspace or *)
(* its launch profile is unusable.                                         *)
Launch(g) ==
    /\ pc[g] = "launch"
    /\ \/ Return(g)
       \/ /\ slot[key[g]] = NoSession
          /\ Goto(g, "lookup")
          /\ UNCHANGED <<lockVars, key, mine, hand>>
    /\ UNCHANGED <<daemonVars, sessVars, queueVars, input>>

(* A live session is reused, and its queue is not drained.                 *)
Lookup(a) ==
    /\ pc[a] = "lookup"
    /\ IF slot[key[a]] # NoSession
       THEN Return(a)
       ELSE Goto(a, "spawn") /\ UNCHANGED <<lockVars, key, mine, hand>>
    /\ UNCHANGED <<daemonVars, sessVars, queueVars, input>>

(* Spawn and register, displacing what another actor registered meanwhile. *)
Spawn(a) ==
    /\ pc[a] = "spawn"
    /\ \E s \in Sessions \ born :
         /\ born' = born \cup {s}
         /\ slot' = [slot EXCEPT ![key[a]] = s]
         /\ mine' = [mine EXCEPT ![a] = s]
    /\ Goto(a, "drain")
    /\ UNCHANGED <<daemonVars, queueVars, lockVars, key, hand, input>>

SpawnFails(a) ==
    /\ pc[a] = "spawn"
    /\ Return(a)
    /\ UNCHANGED <<daemonVars, sessVars, queueVars, input>>

(* drain_for_agent: nothing to do when the counter says so; otherwise go   *)
(* through the directory from its front, and clear the counter.            *)
Drain(a) ==
    /\ pc[a] = "drain"
    /\ ~QueueLocked
    /\ IF counter[key[a]] = 0
       THEN Goto(a, "type") /\ UNCHANGED left
       ELSE Goto(a, "draining") /\ left' = [left EXCEPT ![key[a]] = 0]
    /\ UNCHANGED <<daemonVars, sessVars, disk, counter, replayed, accepted, overtaken,
                   lockVars, key, mine, hand, input>>

(* Mutant: the newest file first.                                          *)
DrainFileNewest(a) ==
    /\ pc[a] = "draining" /\ Unread(key[a])
    /\ LET files == disk[key[a]] IN
         /\ hand' = [hand EXCEPT ![a] = Append(@, files[Len(files)])]
         /\ disk' = [disk EXCEPT ![key[a]] = Without(files, Len(files))]
    /\ UNCHANGED <<daemonVars, sessVars, counter, left, replayed, accepted, overtaken,
                   lockVars, pc, key, mine, input>>

DrainFile(a) ==
    /\ pc[a] = "draining" /\ Unread(key[a])
    /\ \/ Remove(key[a]) /\ hand' = [hand EXCEPT ![a] = Append(@, NextFile(key[a]))]
       \/ PassOver(key[a]) /\ UNCHANGED hand
    /\ UNCHANGED <<daemonVars, sessVars, counter, replayed, accepted, overtaken,
                   lockVars, pc, key, mine, input>>

(* Mutant: a drain may stop before the last file, and clears the counter.  *)
DrainEndsEarly(a) ==
    /\ pc[a] = "draining"
    /\ counter' = [counter EXCEPT ![key[a]] = 0]
    /\ Goto(a, "type")
    /\ UNCHANGED <<daemonVars, sessVars, disk, left, replayed, accepted, overtaken,
                   lockVars, key, mine, hand, input>>

(* The counter is cleared whatever was left in place.                      *)
DrainEnds(a) ==
    /\ pc[a] = "draining" /\ ~Unread(key[a])
    /\ counter' = [counter EXCEPT ![key[a]] = 0]
    /\ Goto(a, "type")
    /\ UNCHANGED <<daemonVars, sessVars, disk, left, replayed, accepted, overtaken,
                   lockVars, key, mine, hand, input>>

-----------------------------------------------------------------------------
(* Typing into a session: the body of a signal, then Enter 150 ms later.   *)
(* The helper's drain leaves the Enter out.                                *)

PressesEnter(a) == a \in Endpoints \/ injectLock = a

(* Mutant: a signal for a session that ended meanwhile is dropped.         *)
TypeIfLive(a) ==
    /\ pc[a] = "type"
    /\ hand[a] # <<>>
    /\ input' = IF slot[key[a]] = mine[a]
                THEN [input EXCEPT ![mine[a]] = Append(@, Head(hand[a]))]
                ELSE input
    /\ hand' = [hand EXCEPT ![a] = Tail(@)]
    /\ Goto(a, IF PressesEnter(a) THEN "enter" ELSE "type")
    /\ UNCHANGED <<daemonVars, sessVars, queueVars, lockVars, key, mine>>

Type(a) ==
    /\ pc[a] = "type"
    /\ hand[a] # <<>>
    /\ input' = [input EXCEPT ![mine[a]] = Append(@, Head(hand[a]))]
    /\ hand' = [hand EXCEPT ![a] = Tail(@)]
    /\ Goto(a, IF PressesEnter(a) THEN "enter" ELSE "type")
    /\ UNCHANGED <<daemonVars, sessVars, queueVars, lockVars, key, mine>>

Enter(a) ==
    /\ pc[a] = "enter"
    /\ input' = [input EXCEPT ![mine[a]] = Append(@, "enter")]
    /\ Goto(a, "type")
    /\ UNCHANGED <<daemonVars, sessVars, queueVars, lockVars, key, mine, hand>>

Finish(a) ==
    /\ pc[a] = "type"
    /\ hand[a] = <<>>
    /\ Return(a)
    /\ UNCHANGED <<daemonVars, sessVars, queueVars, input>>

(* A session ends and leaves the registry.                                 *)
SessionEnds(k) ==
    /\ phase = "up" /\ slot[k] # NoSession
    /\ slot' = [slot EXCEPT ![k] = NoSession]
    /\ UNCHANGED <<daemonVars, born, queueVars, lockVars, actorVars, input>>

-----------------------------------------------------------------------------
(* Crash and boot. *)

(* What is in memory is gone, the sessions with it; the files stay.        *)
Crash ==
    /\ phase # "down" /\ crashes < MaxCrashes
    /\ phase' = "down" /\ crashes' = crashes + 1
    /\ slot' = [k \in Keys |-> NoSession]
    /\ counter' = [k \in Keys |-> 0]
    /\ left' = [k \in Keys |-> 0]
    /\ replayed' = [k \in Keys |-> <<>>]
    /\ injectLock' = Nobody /\ wakeLock' = Nobody
    /\ pc' = [a \in Actors |-> IF pc[a] \in Resting THEN pc[a]
                               ELSE IF a \in Signals THEN "refused" ELSE "idle"]
    /\ key' = [a \in Actors |-> NoKey]
    /\ mine' = [a \in Actors |-> NoSession]
    /\ hand' = [a \in Actors |-> <<>>]
    /\ UNCHANGED <<born, disk, accepted, overtaken, input>>

Restart == /\ phase = "down"
           /\ phase' = "replaying"
           /\ UNCHANGED <<crashes, sessVars, queueVars, lockVars, actorVars, input>>

(* Mutant: the replay leaves the files, for main writes them again anyway. *)
ReplayFileStays(k) ==
    /\ phase = "replaying" /\ Unread(k)
    /\ replayed' = [replayed EXCEPT ![k] = Append(@, NextFile(k))]
    /\ PassOver(k)
    /\ UNCHANGED <<daemonVars, sessVars, counter, accepted, overtaken,
                   lockVars, actorVars, input>>

(* replay_all: drain_directory, for one directory after another.           *)
ReplayFile(k) ==
    /\ phase = "replaying" /\ Unread(k)
    /\ \A j \in Keys \ {k} : left[j] > 0 \/ replayed[j] # <<>> => ~Unread(j)
    /\ \/ /\ Remove(k)
          /\ replayed' = [replayed EXCEPT ![k] = Append(@, NextFile(k))]
          /\ UNCHANGED overtaken
       \/ /\ PassOver(k)
          /\ overtaken' = overtaken \cup {NextFile(k)}
          /\ UNCHANGED replayed
    /\ UNCHANGED <<daemonVars, sessVars, counter, accepted, lockVars, actorVars, input>>

(* The replay is over.  The first access to PENDING_STATE counts the files *)
(* that are left, and none in a directory it cannot list; nothing has      *)
(* changed them by then, so they are counted here.                         *)
ReplayEnds ==
    /\ phase = "replaying"
    /\ \A k \in Keys : ~Unread(k)
    /\ phase' = "requeueing"
    /\ \E unlisted \in SUBSET Keys :
         /\ counter' = [k \in Keys |-> IF k \in unlisted THEN 0 ELSE Len(disk[k])]
         /\ left' = [k \in Keys |-> IF k \in unlisted THEN Len(disk[k]) ELSE 0]
    /\ UNCHANGED <<crashes, sessVars, disk, replayed, accepted, overtaken, lockVars,
                   actorVars, input>>

(* Mutant: the whole batch is enqueued as one signal.                      *)
RequeueWhole(k) ==
    /\ phase = "requeueing"
    /\ replayed[k] # <<>>
    /\ replayed' = [replayed EXCEPT ![k] = <<>>]
    /\ Enqueue(replayed[k], k)
    /\ UNCHANGED <<daemonVars, sessVars, left, accepted, overtaken, lockVars, actorVars, input>>

(* main enqueues each again; an error of enqueue's is ignored.             *)
Requeue(k) ==
    /\ phase = "requeueing"
    /\ replayed[k] # <<>>
    /\ replayed' = [replayed EXCEPT ![k] = Tail(@)]
    /\ \/ Enqueue(Head(replayed[k]), k)
       \/ UNCHANGED <<disk, counter>>
    /\ UNCHANGED <<daemonVars, sessVars, left, accepted, overtaken, lockVars, actorVars, input>>

Serve ==
    /\ phase = "requeueing"
    /\ \A k \in Keys : replayed[k] = <<>>
    /\ phase' = "up"
    /\ UNCHANGED <<crashes, sessVars, queueVars, lockVars, actorVars, input>>

Booting == Restart \/ ReplayEnds \/ Serve \/ \E k \in Keys : ReplayFile(k) \/ Requeue(k)

-----------------------------------------------------------------------------

Spawning(a) == \/ Lookup(a) \/ Spawn(a) \/ SpawnFails(a)
               \/ Drain(a) \/ DrainFile(a) \/ DrainEnds(a)
               \/ Type(a) \/ Enter(a) \/ Finish(a)

Sending(g) == \/ Probe(g) \/ Inject(g) \/ WakeQueues(g) \/ WakeRefuses(g)
              \/ Launch(g) \/ Spawning(g)

Next == \/ \E g \in Signals : Sending(g) \/ \E k \in Keys : Send(g, k)
        \/ \E a \in Spawners : Spawning(a) \/ \E k \in Keys : Request(a, k)
        \/ \E k \in Keys : SessionEnds(k)
        \/ Crash
        \/ Booting

Spec == Init /\ [][Next]_vars

(* A request that has work runs, and a daemon that is restarted boots.     *)
(* Nothing is assumed of what arrives, of sessions' ends, or of crashes.   *)
Fairness == /\ \A g \in Signals : WF_vars(Sending(g))
            /\ \A a \in Spawners : WF_vars(Spawning(a))
            /\ WF_vars(Booting)

FairSpec == Spec /\ Fairness

-----------------------------------------------------------------------------

TypeOK ==
    /\ phase \in {"up", "down", "replaying", "requeueing"}
    /\ crashes \in 0..MaxCrashes
    /\ slot \in [Keys -> Sessions \cup {NoSession}]
    /\ born \subseteq Sessions
    /\ disk \in [Keys -> Seq(Signals)]
    /\ counter \in [Keys -> Nat]
    /\ left \in [Keys -> Nat]
    /\ replayed \in [Keys -> Seq(Signals)]
    /\ accepted \in Seq(Signals)
    /\ overtaken \subseteq Signals
    /\ pc \in [Actors -> Pcs]
    /\ key \in [Actors -> Keys \cup {NoKey}]
    /\ mine \in [Actors -> Sessions \cup {NoSession}]
    /\ hand \in [Actors -> Seq(Signals)]
    /\ injectLock \in Actors \cup {Nobody}
    /\ wakeLock \in Actors \cup {Nobody}
    /\ input \in [Sessions -> Seq(Signals \cup {"enter"})]

Has(seq, g) == \E i \in DOMAIN seq : seq[i] = g

Typed(g)    == \E s \in Sessions : Has(input[s], g)
OnDisk(g)   == \E k \in Keys : Has(disk[k], g)
InReplay(g) == \E k \in Keys : Has(replayed[k], g)
InHand(g)   == \E a \in Actors : Has(hand[a], g)

(* pending_live.rs:53-58, 160-162: the counter goes with the disk, so that *)
(* a drain may trust it.  What the code keeps of this: while the daemon    *)
(* serves and the queue's mutex is free, a file no counter stands for is   *)
(* one of those at the front of its directory that a failing read left     *)
(* there, in the last drain or the boot's scan; that there can be such     *)
(* files, which the next drain may skip, is against the quoted lines.      *)
CounterIsDisk ==
    phase = "up" /\ ~QueueLocked => \A k \in Keys : counter[k] + left[k] = Len(disk[k])

(* No signal is doubled: across retries, drains, replays and crashes there *)
(* is at most one copy of it in files, in memory, and in all that was ever *)
(* typed into sessions.                                                    *)
Copies(g) ==
    LET At(seq) == {i \in DOMAIN seq : seq[i] = g}
        In(tag, f) == UNION {{<<tag, x, i>> : i \in At(f[x])} : x \in DOMAIN f}
    IN  In("disk", disk) \cup In("replayed", replayed) \cup In("hand", hand)
          \cup In("input", input)

OneCopy == \A g \in Signals : Cardinality(Copies(g)) <= 1

(* providers.rs:73-76: a session that drains the queue is typed the        *)
(* signals in the order the queue accepted them, replays included; unless  *)
(* a replay passed the second of two over, left it in place, and gave the  *)
(* first a newer name.                                                     *)
DrainedInOrder ==
    \A s \in Sessions : \A i, j \in DOMAIN input[s] : \A m, n \in DOMAIN accepted :
        /\ i < j
        /\ input[s][i] = accepted[m]
        /\ input[s][j] = accepted[n]
        => m < n \/ input[s][i] \in overtaken

(* pending_live.rs:3-7: what the queue accepted survives; it is lost only  *)
(* by a crash, or where main ignores an error as it enqueues again.        *)
LostOnlyByCrash ==
    [][\A g \in Signals :
         LET Kept == OnDisk(g) \/ InReplay(g) \/ InHand(g) \/ Typed(g) IN
         Has(accepted, g) /\ Kept /\ ~Kept' => phase' = "down" \/ phase = "requeueing"]_vars

-----------------------------------------------------------------------------
(* The delivery of signals implements Mailbox. *)

Status(g) ==
    IF Typed(g) THEN "delivered"
    ELSE IF Has(accepted, g)
         THEN IF OnDisk(g) \/ InReplay(g) \/ InHand(g) THEN "queued" ELSE "lost"
    ELSE IF pc[g] \in {"unsent", "refused"} THEN pc[g]
    ELSE "sent"

Box == INSTANCE Mailbox WITH status <- [g \in Signals |-> Status(g)]

(* egress.rs:287-300: a live signal is injected once, queued for its       *)
(* target, or refused; and no sender is left waiting on the providers'     *)
(* locks, which are held over the settle delay and over a whole spawn.     *)
ImplementsMailbox == Box!Spec
=============================================================================
