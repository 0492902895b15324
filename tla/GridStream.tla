----------------------------- MODULE GridStream -----------------------------
(***************************************************************************)
(* How the grid of one session reaches its viewers: the shared emitter     *)
(* (k2-daemon grid_emitter.rs), the forwarding of its frames by each       *)
(* grid-WS connection (sessions_grid_ws.rs), the frames themselves         *)
(* (k2-core terminal/grid_snapshot.rs) and the mirror the client keeps     *)
(* (src/renderer/terminal-v2/TerminalPane.tsx).                            *)
(*                                                                         *)
(* The terminal is alacritty's: a row is the number of the change that     *)
(* last wrote it, the scrollback the number of its lines.  It remembers    *)
(* which rows were damaged since someone last asked, scrolling damages     *)
(* them all (docs/terminal-rendering-research.md:117), and asking forgets. *)
(* The bytes of the child change it under its lock; the Wakeup event is    *)
(* sent after that.  The end of the session is SessionMap's, the size of   *)
(* the grid ActiveViewer's.                                                *)
(***************************************************************************)
EXTENDS Naturals, Sequences, FiniteSets

CONSTANTS Rows,       \* number of rows of the screen
          Viewers,    \* grid-WS connections
          FramesCap,  \* FRAMES_CAP
          EventsCap,  \* EVENT_CHANNEL_CAPACITY
          MaxChanges  \* bound on changes of the terminal

ASSUME RowsArePositive == Rows \in Nat \ {0}
ASSUME CapsArePositive == FramesCap \in Nat \ {0} /\ EventsCap \in Nat \ {0}
ASSUME MaxChangesIsNat == MaxChanges \in Nat

Lines == 1..Rows

VARIABLES
    grid, hist,        \* the terminal: its rows, the length of its scrollback
    damage, full,      \* the damaged rows, or all
    clock,             \* changes so far
    owed,              \* a change whose Wakeup has yet to be sent
    wakeups,           \* Wakeups queued at the emitter's subscription
    emitter, st,       \* the emitter task, and its EmitState
    hand,              \* the frame it has encoded
    at,                \* where a viewer is
    queue, lagged,     \* a viewer's receiver of frames
    frame_floor,       \* what its snapshot covers
    mirror,            \* what its client shows
    starved,           \* history: viewers whose damage was drained
    deaf               \* history: a Wakeup missed by an emitter just spawned

termVars    == <<grid, hist, damage, full, clock>>
emitterVars == <<emitter, st, hand>>
viewerVars  == <<at, queue, lagged, frame_floor, mirror>>
vars == <<termVars, owed, wakeups, emitterVars, viewerVars, starved, deaf>>

EmitState == [has_emitted |-> FALSE, version |-> 0, last_history_size |-> 0]

NoFrame == [version |-> 0, kind |-> "none"]

Nothing == [grid |-> [r \in Lines |-> 0], scrollback |-> 0, time |-> 0]

Init ==
    /\ grid = [r \in Lines |-> 0] /\ hist = 0 /\ damage = {} /\ full = TRUE
    /\ clock = 0 /\ owed = FALSE /\ wakeups = 0
    /\ emitter = "none" /\ st = EmitState /\ hand = NoFrame
    /\ at = [v \in Viewers |-> "away"]
    /\ queue = [v \in Viewers |-> <<>>] /\ lagged = [v \in Viewers |-> FALSE]
    /\ frame_floor = [v \in Viewers |-> 0]
    /\ mirror = [v \in Viewers |-> Nothing]
    /\ starved = {} /\ deaf = FALSE

-----------------------------------------------------------------------------
(* The terminal and its child. *)

Write(r) ==
    /\ clock < MaxChanges
    /\ clock' = clock + 1
    /\ grid' = [grid EXCEPT ![r] = clock']
    /\ damage' = damage \cup {r}
    /\ owed' = TRUE
    /\ UNCHANGED <<hist, full, wakeups, emitterVars, viewerVars, starved, deaf>>

Scroll ==
    /\ clock < MaxChanges
    /\ clock' = clock + 1
    /\ grid' = [r \in Lines |-> IF r = Rows THEN clock' ELSE grid[r + 1]]
    /\ hist' = hist + 1
    /\ full' = TRUE
    /\ owed' = TRUE
    /\ UNCHANGED <<damage, wakeups, emitterVars, viewerVars, starved, deaf>>

(* A Wakeup is heard by an emitter that has subscribed.                    *)
Wakeup ==
    /\ owed /\ owed' = FALSE
    /\ wakeups' = IF emitter \in {"none", "spawned"} THEN wakeups ELSE wakeups + 1
    /\ deaf' = (deaf \/ emitter = "spawned")
    /\ UNCHANGED <<termVars, emitterVars, viewerVars, starved>>

-----------------------------------------------------------------------------
(* The emitter. *)

Receivers == {v \in Viewers : at[v] # "away"}

(* What a snapshot of the terminal is, taken under both locks.             *)
snapshot_term == [grid |-> grid, scrollback |-> hist, time |-> clock]

ResetDamage == damage' = {} /\ full' = FALSE /\ UNCHANGED <<grid, hist, clock>>

(* Whether the next frame is a snapshot, a delta, or nothing.              *)
build_emit ==
    IF ~st.has_emitted \/ full THEN "snapshot"
    ELSE IF damage = {} /\ hist <= st.last_history_size THEN "skip" ELSE "delta"

Appended == IF hist > st.last_history_size THEN hist - st.last_history_size ELSE 0

EmitterSubscribes ==
    /\ emitter = "spawned" /\ emitter' = "listening"
    /\ UNCHANGED <<termVars, owed, wakeups, st, hand, viewerVars, starved, deaf>>

(* A Wakeup, or the news of many missed; the receivers are counted before  *)
(* any lock is taken.                                                      *)
Wakes ==
    /\ emitter = "listening" /\ wakeups > 0
    /\ wakeups' = IF wakeups > EventsCap THEN EventsCap ELSE wakeups - 1
    /\ emitter' = IF Receivers = {} THEN "drain" ELSE "emit"
    /\ deaf' = FALSE
    /\ UNCHANGED <<termVars, owed, st, hand, viewerVars, starved>>

drain_damage ==
    /\ emitter = "drain" /\ emitter' = "listening"
    /\ ResetDamage
    /\ st' = [st EXCEPT !.last_history_size = hist]
    /\ starved' = starved \cup {v \in Viewers : at[v] = "streaming"}
    /\ UNCHANGED <<owed, wakeups, hand, viewerVars, deaf>>

(* One pass under the locks.                                               *)
Emit ==
    /\ emitter = "emit"
    /\ ResetDamage
    /\ IF build_emit = "skip"
       THEN emitter' = "listening" /\ UNCHANGED <<st, hand>>
       ELSE /\ st' = [has_emitted |-> TRUE, version |-> st.version + 1,
                      last_history_size |-> hist]
            /\ hand' = IF build_emit = "snapshot"
                       THEN [version |-> st'.version, kind |-> "snapshot", of |-> snapshot_term]
                       ELSE [version |-> st'.version, kind |-> "delta", appended |-> Appended,
                             rows |-> [r \in damage |-> grid[r]], time |-> clock]
            /\ emitter' = "send"
    /\ UNCHANGED <<owed, wakeups, viewerVars, starved, deaf>>

(* Mutant: a channel without a capacity.                                   *)
SendUnbounded ==
    /\ emitter = "send" /\ emitter' = "listening"
    /\ hand' = NoFrame
    /\ queue' = [v \in Viewers |-> IF v \in Receivers THEN Append(queue[v], hand) ELSE queue[v]]
    /\ UNCHANGED <<termVars, owed, wakeups, st, at, lagged, frame_floor, mirror, starved, deaf>>

(* The frame goes to every receiver there is by now; one that is full      *)
(* loses its oldest.                                                       *)
Send ==
    /\ emitter = "send" /\ emitter' = "listening"
    /\ hand' = NoFrame
    /\ queue' = [v \in Viewers |->
                   IF v \notin Receivers THEN queue[v]
                   ELSE IF Len(queue[v]) = FramesCap THEN Append(Tail(queue[v]), hand)
                   ELSE Append(queue[v], hand)]
    /\ lagged' = [v \in Viewers |->
                   lagged[v] \/ (v \in Receivers /\ Len(queue[v]) = FramesCap)]
    /\ UNCHANGED <<termVars, owed, wakeups, st, at, frame_floor, mirror, starved, deaf>>

-----------------------------------------------------------------------------
(* The viewers. *)

(* attach: the receiver is there before the snapshot is taken, and the     *)
(* emitter, if this is the first viewer of all, is spawned.                *)
Attach(v) ==
    /\ at[v] = "away" /\ at' = [at EXCEPT ![v] = "joined"]
    /\ emitter' = IF emitter = "none" THEN "spawned" ELSE emitter
    /\ UNCHANGED <<termVars, owed, wakeups, st, hand, queue, lagged, frame_floor, mirror,
                   starved, deaf>>

(* Mutant: the stamp is the version of the next frame.                     *)
SnapshotAhead(v) ==
    /\ mirror' = [mirror EXCEPT ![v] = snapshot_term]
    /\ frame_floor' = [frame_floor EXCEPT ![v] = st.version + 1]
    /\ starved' = starved \ {v}

(* A full snapshot that disturbs nobody, stamped with the version.         *)
Snapshot(v) ==
    /\ mirror' = [mirror EXCEPT ![v] = snapshot_term]
    /\ frame_floor' = [frame_floor EXCEPT ![v] = st.version]
    /\ starved' = starved \ {v}

FirstSnapshot(v) ==
    /\ at[v] = "joined" /\ at' = [at EXCEPT ![v] = "streaming"]
    /\ Snapshot(v)
    /\ UNCHANGED <<termVars, owed, wakeups, emitterVars, queue, lagged, deaf>>

(* The client replaces its mirror by a snapshot, and merges a delta.       *)
mergeDelta(prev, f) ==
    [grid |-> [r \in Lines |-> IF r \in DOMAIN f.rows THEN f.rows[r] ELSE prev.grid[r]],
     scrollback |-> prev.scrollback + f.appended,
     time |-> f.time]

Shown(prev, f) == IF f.kind = "snapshot" THEN f.of ELSE mergeDelta(prev, f)

(* Mutant: no frame is too old.                                            *)
FreshAlways(v, f) == TRUE

Fresh(v, f) == f.version > frame_floor[v]

Forward(v) ==
    /\ at[v] = "streaming" /\ ~lagged[v] /\ queue[v] # <<>>
    /\ LET f == Head(queue[v]) IN
       mirror' = [mirror EXCEPT ![v] = IF Fresh(v, f) THEN Shown(@, f) ELSE @]
    /\ queue' = [queue EXCEPT ![v] = Tail(@)]
    /\ UNCHANGED <<termVars, owed, wakeups, emitterVars, at, lagged, frame_floor, starved, deaf>>

(* Mutant: what was lost is skipped.                                       *)
RecoverSkips(v) ==
    /\ at[v] = "streaming" /\ lagged[v]
    /\ lagged' = [lagged EXCEPT ![v] = FALSE]
    /\ UNCHANGED <<termVars, owed, wakeups, emitterVars, at, queue, frame_floor, mirror,
                   starved, deaf>>

(* Frames were lost: a fresh snapshot; those that are left follow it.      *)
Recover(v) ==
    /\ at[v] = "streaming" /\ lagged[v]
    /\ Snapshot(v)
    /\ lagged' = [lagged EXCEPT ![v] = FALSE]
    /\ UNCHANGED <<termVars, owed, wakeups, emitterVars, at, queue, deaf>>

Detach(v) ==
    /\ at[v] # "away" /\ at' = [at EXCEPT ![v] = "away"]
    /\ queue' = [queue EXCEPT ![v] = <<>>] /\ lagged' = [lagged EXCEPT ![v] = FALSE]
    /\ frame_floor' = [frame_floor EXCEPT ![v] = 0]
    /\ mirror' = [mirror EXCEPT ![v] = Nothing]
    /\ starved' = starved \ {v}
    /\ UNCHANGED <<termVars, owed, wakeups, emitterVars, deaf>>

-----------------------------------------------------------------------------

Emitting == EmitterSubscribes \/ Wakes \/ drain_damage \/ Emit \/ Send

Streaming(v) == FirstSnapshot(v) \/ Forward(v) \/ Recover(v)

Next ==
    \/ \E r \in Lines : Write(r)
    \/ Scroll
    \/ Wakeup
    \/ Emitting
    \/ \E v \in Viewers : Attach(v) \/ Streaming(v) \/ Detach(v)

Spec == Init /\ [][Next]_vars

(* The IO thread sends the Wakeup of what it has parsed, and the emitter   *)
(* and the connections are tasks that run when they have something to do.  *)
FairSpec ==
    /\ Spec
    /\ WF_vars(Wakeup) /\ WF_vars(Emitting)
    /\ \A v \in Viewers : WF_vars(Streaming(v))

-----------------------------------------------------------------------------
(* Properties *)

Screens == [Lines -> Nat]

Pictures == [grid : Screens, scrollback : Nat, time : Nat]

FrameOK(f) ==
    /\ f.version \in Nat
    /\ \/ f.kind = "snapshot" /\ f.of \in Pictures
       \/ /\ f.kind = "delta" /\ f.appended \in Nat /\ f.time \in Nat
          /\ DOMAIN f.rows \subseteq Lines /\ \A r \in DOMAIN f.rows : f.rows[r] \in Nat

TypeOK ==
    /\ grid \in Screens /\ hist \in Nat /\ clock \in Nat
    /\ damage \in SUBSET Lines /\ full \in BOOLEAN
    /\ owed \in BOOLEAN /\ wakeups \in Nat
    /\ emitter \in {"none", "spawned", "listening", "drain", "emit", "send"}
    /\ st \in [has_emitted : BOOLEAN, version : Nat, last_history_size : Nat]
    /\ emitter = "send" => FrameOK(hand)
    /\ at \in [Viewers -> {"away", "joined", "streaming"}]
    /\ \A v \in Viewers : /\ Len(queue[v]) <= FramesCap
                          /\ \A i \in 1..Len(queue[v]) : FrameOK(queue[v][i])
    /\ lagged \in [Viewers -> BOOLEAN] /\ frame_floor \in [Viewers -> Nat]
    /\ mirror \in [Viewers -> Pictures]
    /\ starved \in SUBSET Viewers /\ deaf \in BOOLEAN

(* A viewer whose frames have all arrived.                                 *)
CaughtUp(v) == at[v] = "streaming" /\ queue[v] = <<>> /\ ~lagged[v] /\ emitter # "send"

(* grid_emitter.rs:3-18, 22-41: no viewer's mirror silently misses rows:   *)
(* what differs from the terminal is damaged still, and so of a frame to   *)
(* come, however attaching, leaving, lagging and emitting interleave.      *)
(* (Only a viewer that attached between the count of the receivers and the *)
(* drain has none of this.)                                                *)
NoRowMissed ==
    \A v \in Viewers : CaughtUp(v) /\ v \notin starved /\ ~full =>
        /\ mirror[v].scrollback = hist
        /\ \A r \in Lines \ damage : mirror[v].grid[r] = grid[r]

(* grid_emitter.rs:35-41: the stamp is exact: no frame takes a mirror back *)
(* to what the terminal was before the snapshot it was given.              *)
NeverBack ==
    [][\A v \in Viewers : at[v] = "streaming" /\ at'[v] = "streaming"
          => mirror[v].time <= mirror'[v].time]_vars

(* grid_emitter.rs:146-151, sessions_grid_ws.rs: when the child falls      *)
(* silent every viewer comes to show what it last wrote, however far the   *)
(* emitter or the viewer has lagged.                                       *)
Converges ==
    \A v \in Viewers :
        []<>(\/ at[v] # "streaming" \/ v \in starved \/ deaf
             \/ mirror[v] = snapshot_term)

=============================================================================
