---------------------------- MODULE ActiveReaper ----------------------------
(***************************************************************************)
(* The task that closes the chats of dormant workspaces (k2-daemon         *)
(* active_reaper.rs), the routes that change what it decides on            *)
(* (db_routes.rs), and the Active set it reads (k2-core active.rs).        *)
(*                                                                         *)
(* A step is one hold of the database's, the registry's or the             *)
(* dismissals' mutex: a pass of the reaper is spread over several of them, *)
(* with the routes running in between.  The registry is a set of names     *)
(* here (SessionMap has the detail).  Time is abstracted: `recent' is what *)
(* the activity window lets through, `ripe' the timers whose deadline has  *)
(* passed, and `clock' counts the seconds only to tell them apart.  A pass *)
(* may start at any time, by the tick or by the notification of a          *)
(* dismissal.  The resume target a close writes first is read by nothing   *)
(* here and left out.  The rows and the heartbeats are read as if there    *)
(* were none, or fewer, when the database fails.                           *)
(***************************************************************************)
EXTENDS Naturals, FiniteSets

CONSTANTS Workspaces,  \* project ids
          Names,       \* registry keys
          Owner,       \* the workspace a key's session resolves to by its cwd
          Chat,        \* the key of a workspace's canonical chat: its own id
          MaxClock,    \* bound on the seconds told apart
          MaxSpawns,   \* bound on the sessions spawned
          MaxFaults,   \* bound on the reads that fail
          Nobody, NoName

ASSUME NamesOwned == /\ Owner \in [Names -> Workspaces]
                     /\ Chat \in [Workspaces -> Names]
                     /\ \A w \in Workspaces : Owner[Chat[w]] = w
                     /\ Nobody \notin Workspaces
                     /\ NoName \notin Names

ASSUME BoundsAreNumbers == MaxClock \in Nat /\ MaxSpawns \in Nat /\ MaxFaults \in Nat

VARIABLES
    clock,       \* wall clock, in the seconds of unixepoch()
    pinned,      \* projects.manually_active
    stamp,       \* projects.last_interaction_at, 0 for NULL
    recent,      \* workspaces whose stamp is inside the activity window
    warm,        \* workspaces with an enabled heartbeat
    live,        \* the registry: names with a session
    spawns,      \* how many sessions were spawned
    dismissing,  \* dismiss requests between their UPDATE and the arming
    pending,     \* pending_dismiss
    pc,          \* where the reaper is in its pass
    snap,        \* the Snapshot of the pass
    armed,       \* the domain of the map of timers
    forced,      \* timers armed by a dismissal
    ripe,        \* timers whose deadline has passed
    seen,        \* armed_interaction_secs of a timer
    fires,       \* to_fire
    check,       \* the workspace re-checked, and what the re-check found
    faults,      \* reads that failed so far
    asked        \* history: workspaces dismissed, and neither closed nor
                 \* spared since

rowVars   == <<clock, pinned, stamp, recent, warm>>
sessVars  == <<live, spawns>>
timerVars == <<armed, forced, ripe, seen>>
passVars  == <<pc, snap, fires, check, faults>>
vars == <<rowVars, sessVars, timerVars, passVars, dismissing, pending, asked>>

NamesOf(w) == {n \in Names : Owner[n] = w}
InActiveSet(w) == w \in pinned \cup recent

(* Mutant: only canonical chats are candidates.                           *)
CandidatesChat(w) == {Chat[w]} \cap live

(* One candidate per workspace: its canonical chat, otherwise whichever of *)
(* its sessions the iteration over the map meets first.                    *)
Candidates(w) == IF Chat[w] \in live THEN {Chat[w]} ELSE NamesOf(w) \cap live

EmptySnapshot == [active |-> {}, stamp |-> [w \in Workspaces |-> 0], warm |-> {},
                  chat |-> [w \in Workspaces |-> NoName]]

NoCheck == [ws |-> Nobody, active |-> FALSE]

Init ==
    /\ clock = 1
    /\ pinned = {} /\ recent = {} /\ warm = {}
    /\ stamp = [w \in Workspaces |-> 0]
    /\ live = {} /\ spawns = 0
    /\ dismissing = {} /\ pending = {}
    /\ pc = "asleep" /\ snap = EmptySnapshot
    /\ armed = {} /\ forced = {} /\ ripe = {}
    /\ seen = [w \in Workspaces |-> 0]
    /\ fires = {} /\ check = NoCheck /\ faults = 0
    /\ asked = {}

-----------------------------------------------------------------------------
(* The requests, and what happens to sessions meanwhile. *)

(* /cli/projects/activate, touch-interaction, and a heartbeat's firing.    *)
Activate(w) ==
    /\ stamp' = [stamp EXCEPT ![w] = clock]
    /\ recent' = recent \cup {w}
    /\ UNCHANGED <<clock, pinned, warm, sessVars, timerVars, passVars, dismissing,
                   pending, asked>>

ClearInteraction(w) ==
    /\ stamp' = [stamp EXCEPT ![w] = 0]
    /\ recent' = recent \ {w}
    /\ UNCHANGED <<clock, pinned, warm, sessVars, timerVars, passVars, dismissing,
                   pending, asked>>

Pin(w) ==
    /\ pinned' = pinned \cup {w}
    /\ UNCHANGED <<clock, stamp, recent, warm, sessVars, timerVars, passVars,
                   dismissing, pending, asked>>

Unpin(w) ==
    /\ pinned' = pinned \ {w}
    /\ UNCHANGED <<clock, stamp, recent, warm, sessVars, timerVars, passVars,
                   dismissing, pending, asked>>

(* /cli/projects/dismiss: the UPDATE, then the arming. *)
Dismiss(w) ==
    /\ pinned' = pinned \ {w}
    /\ dismissing' = dismissing \cup {w}
    /\ UNCHANGED <<clock, stamp, recent, warm, sessVars, timerVars, passVars,
                   pending, asked>>

ArmDismissGrace(w) ==
    /\ w \in dismissing
    /\ dismissing' = dismissing \ {w}
    /\ pending' = pending \cup {w}
    /\ asked' = asked \cup {w}
    /\ UNCHANGED <<rowVars, sessVars, timerVars, passVars>>

SetHeartbeat(w) ==
    /\ \/ warm' = warm \cup {w}
       \/ warm' = warm \ {w}
    /\ UNCHANGED <<clock, pinned, stamp, recent, sessVars, timerVars, passVars,
                   dismissing, pending, asked>>

Spawn(n) ==
    /\ n \notin live /\ spawns < MaxSpawns
    /\ live' = live \cup {n} /\ spawns' = spawns + 1
    /\ UNCHANGED <<rowVars, timerVars, passVars, dismissing, pending, asked>>

SessionEnds(n) ==
    /\ n \in live
    /\ live' = live \ {n}
    /\ UNCHANGED <<rowVars, spawns, timerVars, passVars, dismissing, pending, asked>>

Second ==
    /\ clock < MaxClock
    /\ clock' = clock + 1
    /\ UNCHANGED <<pinned, stamp, recent, warm, sessVars, timerVars, passVars,
                   dismissing, pending, asked>>

(* The activity window, of hours, passes a workspace's stamp. *)
AgeOut(w) ==
    /\ w \in recent /\ stamp[w] < clock
    /\ recent' = recent \ {w}
    /\ UNCHANGED <<clock, pinned, stamp, warm, sessVars, timerVars, passVars,
                   dismissing, pending, asked>>

(* The grace of a timer, of seconds, passes. *)
Ripen(w) ==
    /\ w \in armed /\ w \notin ripe
    /\ ripe' = ripe \cup {w}
    /\ UNCHANGED <<rowVars, sessVars, armed, forced, seen, passVars, dismissing,
                   pending, asked>>

-----------------------------------------------------------------------------
(* A pass of the reaper. *)

(* What a read found of what there was.                                    *)
Reads(found, there) ==
    \/ found = there /\ UNCHANGED faults
    \/ found # there /\ faults < MaxFaults /\ faults' = faults + 1

RowsRead == [EmptySnapshot EXCEPT !.active = pinned \cup recent, !.stamp = stamp]

TakeRows ==
    /\ pc = "asleep"
    /\ \E found \in {RowsRead, EmptySnapshot} : Reads(found, RowsRead) /\ snap' = found
    /\ pc' = "warm"
    /\ UNCHANGED <<rowVars, sessVars, timerVars, fires, check, dismissing, pending, asked>>

TakeWarm ==
    /\ pc = "warm"
    /\ \E found \in SUBSET warm : Reads(found, warm) /\ snap' = [snap EXCEPT !.warm = found]
    /\ pc' = "chats"
    /\ UNCHANGED <<rowVars, sessVars, timerVars, fires, check, dismissing, pending, asked>>

TakeChats ==
    /\ pc = "chats"
    /\ \E chat \in [Workspaces -> Names \cup {NoName}] :
         /\ \A w \in Workspaces :
              IF Candidates(w) = {} THEN chat[w] = NoName ELSE chat[w] \in Candidates(w)
         /\ snap' = [snap EXCEPT !.chat = chat]
    /\ pc' = "judge"
    /\ UNCHANGED <<rowVars, sessVars, timerVars, fires, check, faults, dismissing, pending, asked>>

HasChat(w) == snap.chat[w] # NoName

(* interaction_advanced since the timer was armed *)
Reactivated(w) == w \in forced /\ w \notin pending /\ snap.stamp[w] > seen[w]

(* Mutant: a heartbeat does not keep a workspace.                         *)
SparedUnlessWarm(w) ==
    \/ Reactivated(w)
    \/ w \in snap.active /\ w \notin forced /\ w \notin pending

Spared(w) == \/ w \in snap.warm
             \/ Reactivated(w)
             \/ w \in snap.active /\ w \notin forced /\ w \notin pending

Eligible == {w \in Workspaces : HasChat(w) /\ ~Spared(w)}

(* The dismissals are taken, timers of spared and of closed chats are      *)
(* dropped, new ones armed, and those that are due collected.  The stamps  *)
(* of the snapshot are not read again.                                     *)
Judge ==
    LET new == Eligible \ armed IN
    /\ pc = "judge"
    /\ pending' = {}
    /\ armed' = Eligible
    /\ forced' = (forced \cap Eligible) \cup (new \cap pending)
    /\ ripe' = (ripe \cap Eligible) \ new
    /\ seen' = [w \in Workspaces |->
                  IF w \in new THEN snap.stamp[w] ELSE IF w \in Eligible THEN seen[w] ELSE 0]
    /\ fires' = Eligible \cap armed \cap ripe
    /\ asked' = asked \cap Eligible
    /\ snap' = [snap EXCEPT !.stamp = EmptySnapshot.stamp]
    /\ pc' = "fire"
    /\ UNCHANGED <<rowVars, sessVars, check, faults, dismissing>>

(* The re-check reads the rows, then the heartbeats. *)
RecheckRows(w) ==
    /\ pc = "fire" /\ w \in fires
    /\ \E found \in {InActiveSet(w), FALSE} :
         Reads(found, InActiveSet(w)) /\ check' = [ws |-> w, active |-> found]
    /\ pc' = "recheck"
    /\ UNCHANGED <<rowVars, sessVars, timerVars, snap, fires, dismissing, pending, asked>>

Disarm(w) ==
    /\ armed' = armed \ {w}
    /\ forced' = forced \ {w}
    /\ ripe' = ripe \ {w}
    /\ fires' = fires \ {w}
    /\ asked' = asked \ ({w} \ pending)
    /\ seen' = [seen EXCEPT ![w] = 0]

(* Mutant: the re-check does not look at the Active set.                  *)
SparedIfWarm(w, found) == w \in found

SparedAgain(w, found) == w \in found \/ (check.active /\ w \notin forced)

(* Mutant: the re-check that spares a workspace leaves its timer forced.  *)
SkipForgets(w) ==
    /\ pc = "recheck" /\ w = check.ws
    /\ SparedAgain(w, warm)
    /\ armed' = armed \ {w} /\ fires' = fires \ {w}
    /\ pc' = "fire" /\ check' = NoCheck
    /\ UNCHANGED <<rowVars, sessVars, forced, ripe, seen, snap, faults, dismissing, pending, asked>>

Skip(w) ==
    /\ pc = "recheck" /\ w = check.ws
    /\ SparedAgain(w, warm)
    /\ Disarm(w)
    /\ pc' = "fire" /\ check' = NoCheck
    /\ UNCHANGED <<rowVars, sessVars, snap, faults, dismissing, pending>>

Condemn(w) ==
    /\ pc = "recheck" /\ w = check.ws
    /\ \E found \in SUBSET warm : Reads(found, warm) /\ ~SparedAgain(w, found)
    /\ pc' = "close"
    /\ UNCHANGED <<rowVars, sessVars, timerVars, snap, fires, check, dismissing,
                   pending, asked>>

(* Mutant: a timer that fired stays in the map.                           *)
CloseKeepsTimer(w) ==
    /\ pc = "close" /\ w = check.ws
    /\ live' = live \ {snap.chat[w]}
    /\ fires' = fires \ {w}
    /\ pc' = "fire" /\ check' = NoCheck
    /\ asked' = asked \ ({w} \ pending)
    /\ UNCHANGED <<rowVars, spawns, armed, forced, ripe, seen, snap, faults, dismissing, pending>>

(* unregister by name: whatever session has the name by now.               *)
Close(w) ==
    /\ pc = "close" /\ w = check.ws
    /\ live' = live \ {snap.chat[w]}
    /\ Disarm(w)
    /\ pc' = "fire" /\ check' = NoCheck
    /\ UNCHANGED <<rowVars, spawns, snap, faults, dismissing, pending>>

PassEnds ==
    /\ pc = "fire" /\ fires = {}
    /\ pc' = "asleep" /\ snap' = EmptySnapshot
    /\ UNCHANGED <<rowVars, sessVars, timerVars, fires, check, faults, dismissing, pending, asked>>

Requests == \E w \in Workspaces :
    \/ Activate(w) \/ ClearInteraction(w) \/ Pin(w) \/ Unpin(w)
    \/ Dismiss(w) \/ ArmDismissGrace(w) \/ SetHeartbeat(w)

Sessions == \E n \in Names : Spawn(n) \/ SessionEnds(n)

Time == Second \/ \E w \in Workspaces : AgeOut(w) \/ Ripen(w)

Reaper ==
    \/ TakeRows \/ TakeWarm \/ TakeChats \/ Judge \/ PassEnds
    \/ \E w \in Workspaces : RecheckRows(w) \/ Skip(w) \/ Condemn(w) \/ Close(w)

Next == Requests \/ Sessions \/ Time \/ Reaper

Spec == Init /\ [][Next]_vars

(* The runtime keeps running the task, whose awaits are all bounded, and a *)
(* grace of seconds passes.  Nothing makes users act or windows pass.      *)
FairSpec ==
    /\ Spec
    /\ WF_vars(Reaper)
    /\ \A w \in Workspaces : WF_vars(Ripen(w)) /\ WF_vars(ArmDismissGrace(w))

-----------------------------------------------------------------------------
(* Properties *)

Snapshots == [active : SUBSET Workspaces, stamp : [Workspaces -> Nat],
              warm : SUBSET Workspaces, chat : [Workspaces -> Names \cup {NoName}]]

(* The shape of the state: a timer is forced or ripe only while it is in   *)
(* the map (active_reaper.rs:174-190), and only timers in the map fire.    *)
TypeOK ==
    /\ clock \in Nat /\ spawns \in Nat /\ faults \in 0 .. MaxFaults
    /\ pinned \in SUBSET Workspaces /\ recent \in SUBSET Workspaces
    /\ warm \in SUBSET Workspaces /\ live \in SUBSET Names
    /\ stamp \in [Workspaces -> Nat] /\ seen \in [Workspaces -> Nat]
    /\ dismissing \in SUBSET Workspaces /\ pending \in SUBSET Workspaces
    /\ pc \in {"asleep", "warm", "chats", "judge", "fire", "recheck", "close"}
    /\ snap \in Snapshots
    /\ armed \in SUBSET Workspaces
    /\ forced \in SUBSET armed /\ ripe \in SUBSET armed
    /\ fires \in SUBSET (armed \cap ripe)
    /\ check \in [ws : Workspaces \cup {Nobody}, active : BOOLEAN]
    /\ pc \in {"recheck", "close"} => check.ws \in fires
    /\ asked \in SUBSET Workspaces

(* active_reaper.rs:96-101: what forces a timer is a dismissal of its own  *)
(* workspace, and none that an earlier close has been made for, or that a  *)
(* cancelled timer had come from.                                          *)
ForcedWasAsked == forced \cup pending \subseteq asked

(* active_reaper.rs:13-18: whatever the pass is about to close had a       *)
(* session, no heartbeat, and a place outside the Active set, unless a     *)
(* user dismissed it, all as its snapshot found it; what that found wanted *)
(* is not on the list.                                                     *)
FiresJustified ==
    \A w \in fires : /\ HasChat(w)
                     /\ w \notin snap.warm
                     /\ w \in snap.active => w \in asked

(* What the proofs need besides: a chat in the snapshot is one of its      *)
(* workspace's names, a timer about to close an Active workspace's session *)
(* is a forced one, and nothing is listed while a snapshot is taken.       *)
SnapshotOwned == \A w \in Workspaces : HasChat(w) => Owner[snap.chat[w]] = w

CondemnedForced == pc = "close" => (check.active => check.ws \in forced)

ListedWhileFiring == fires # {} => pc \in {"fire", "recheck", "close"}

Safe == /\ TypeOK /\ ForcedWasAsked /\ FiresJustified
        /\ SnapshotOwned /\ CondemnedForced /\ ListedWhileFiring

ClosesFor(w) == pc = "close" /\ pc' # "close" /\ w = check.ws

(* active_reaper.rs:397-405: a session is closed whose workspace was in    *)
(* the Active set when that was read again only if it was dismissed, once  *)
(* for every close.                                                        *)
ReapIsJustified ==
    [][\A w \in Workspaces : ClosesFor(w) =>
         /\ check.active => w \in asked
         /\ Owner[snap.chat[w]] = w]_vars

Dormant(w) == w \notin pinned \cup recent \cup warm

(* active_reaper.rs:36-45: a workspace that stays dormant loses all its    *)
(* sessions, one to a pass, those of tabs as well as the chat.             *)
DormantReaped ==
    \A w \in Workspaces : (<>[]Dormant(w)) => <>[](NamesOf(w) \cap live = {})
=============================================================================
