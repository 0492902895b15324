-------------------------- MODULE GridStream_proofs --------------------------
(***************************************************************************)
(* No viewer's mirror misses a row or goes back, for any number of rows,   *)
(* viewers, changes and capacities.                                        *)
(*                                                                         *)
(* A cell is a row or, as number 0, the scrollback.  What a viewer comes   *)
(* to show in a cell is what the last frame on its way says of it, if one  *)
(* does, and what its mirror has otherwise; frames its floor covers do not *)
(* count.  That is what the terminal has there, unless the cell is damaged *)
(* and a frame to come will say so.                                        *)
(***************************************************************************)
EXTENDS GridStream, TLAPS

Cells == Lines \cup {0}

Part(pic, c) == IF c = 0 THEN pic.scrollback ELSE pic.grid[c]

(* The frames as a set, and what is a sequence of them.                    *)
Frames ==
    [version : Nat, kind : {"snapshot"}, of : Pictures]
      \cup UNION {[version : Nat, kind : {"delta"}, appended : Nat, rows : [D -> Nat],
                   time : Nat] : D \in SUBSET Lines}

FramesQueued ==
    /\ queue \in [Viewers -> Seq(Frames)]
    /\ hand \in Frames \cup {NoFrame} /\ (emitter = "send" => hand \in Frames)

(* Whether a frame says something of a cell, and what.                     *)
Covers(f, c) == f.kind = "snapshot" \/ c \in DOMAIN f.rows

Cell(f, c) == IF f.kind = "snapshot" THEN Part(f.of, c) ELSE f.rows[c]

Time(f) == IF f.kind = "snapshot" THEN f.of.time ELSE f.time

(* The frames on their way to a viewer, were it attached.                  *)
Coming(v) == IF emitter = "send" THEN Append(queue[v], hand) ELSE queue[v]

(* The frames q, those above the floor, make x of what is base in cell c.  *)
Yields(q, floor, base, c, x) ==
    \/ /\ \A j \in 1..Len(q) : q[j].version > floor => ~Covers(q[j], c)
       /\ x = base
    \/ \E i \in 1..Len(q) :
         /\ q[i].version > floor /\ Covers(q[i], c) /\ x = Cell(q[i], c)
         /\ \A j \in 1..Len(q) : j > i /\ q[j].version > floor => ~Covers(q[j], c)

(* The emitter's count of the scrollback is right unless all is damaged.   *)
HistoryKnown == ~full => st.last_history_size = hist

(* What is known of the frames q on their way to a mirror that shows the   *)
(* time shown: none is ahead of the emitter's version, deltas carry no     *)
(* scrollback, for whatever scrolls damages everything, and they come in   *)
(* the order of the times they were taken at, none of those above the      *)
(* floor before what is shown.                                             *)
Known(q, version) ==
    \A i \in 1..Len(q) :
        /\ q[i].version <= version
        /\ q[i].kind = "delta" => q[i].appended = 0

InOrder(q, floor, shown, now) ==
    /\ shown <= now
    /\ \A i \in 1..Len(q) :
         /\ Time(q[i]) <= now
         /\ q[i].version > floor => shown <= Time(q[i])
         /\ \A j \in 1..Len(q) : i < j => Time(q[i]) <= Time(q[j])

FramesKnown ==
    \A v \in Viewers : frame_floor[v] <= st.version /\ Known(Coming(v), st.version)

TimesInOrder ==
    \A v \in Viewers : InOrder(Coming(v), frame_floor[v], mirror[v].time, clock)

(* What is not damaged is shown, or on its way.                            *)
CellsComing ==
    \A v \in Viewers :
        at[v] = "streaming" /\ ~lagged[v] /\ v \notin starved /\ ~full =>
            \A c \in Cells \ damage :
                Yields(Coming(v), frame_floor[v], Part(mirror[v], c), c, Part(snapshot_term, c))

GridInv ==
    /\ TypeOK /\ FramesQueued /\ HistoryKnown /\ FramesKnown
    /\ TimesInOrder /\ CellsComing
-----------------------------------------------------------------------------
(* Frames and sequences of them. *)

(* What a frame is made of, by its kind.                                   *)
LEMMA FrameFacts ==
    ASSUME NEW f \in Frames
    PROVE  /\ f.version \in Nat /\ f.kind \in {"snapshot", "delta"}
           /\ f.kind = "snapshot" => f.of \in Pictures
           /\ f.kind = "delta" =>
                /\ f.appended \in Nat /\ f.time \in Nat
                /\ DOMAIN f.rows \subseteq Lines
                /\ \A r \in DOMAIN f.rows : f.rows[r] \in Nat
           /\ FrameOK(f) /\ Time(f) \in Nat
  BY DEF Frames, FrameOK, Time, Pictures

(* The elements of a sequence that a frame was appended to.                *)
LEMMA FrameAdded ==
    ASSUME NEW q \in Seq(Frames), NEW f \in Frames
    PROVE  /\ Append(q, f) \in Seq(Frames)
           /\ Len(q) \in Nat /\ Len(Append(q, f)) = Len(q) + 1
           /\ \A i \in 1..Len(q) : Append(q, f)[i] = q[i] /\ q[i] \in Frames
           /\ Append(q, f)[Len(q) + 1] = f
  OBVIOUS

(* And of one whose first was taken.                                       *)
LEMMA FrameTaken ==
    ASSUME NEW q \in Seq(Frames), q # <<>>
    PROVE  /\ Tail(q) \in Seq(Frames) /\ Head(q) \in Frames
           /\ Len(q) \in Nat \ {0} /\ Len(Tail(q)) = Len(q) - 1
           /\ \A i \in 1..Len(q) - 1 : Tail(q)[i] = q[i + 1] /\ i + 1 \in 1..Len(q)
           /\ Head(q) = q[1] /\ 1 \in 1..Len(q)
  OBVIOUS

(* A frame that speaks of a cell decides it.                               *)
LEMMA YieldsLast ==
    ASSUME NEW q \in Seq(Frames), NEW f \in Frames, NEW floor \in Nat, NEW base,
           NEW c, f.version > floor, Covers(f, c)
    PROVE  Yields(Append(q, f), floor, base, c, Cell(f, c))
<1>1. Len(q) + 1 \in 1..Len(Append(q, f))
  BY FrameAdded
<1>2. \A j \in 1..Len(Append(q, f)) : ~(j > Len(q) + 1)
  BY FrameAdded
<1> QED
  BY <1>1, <1>2, FrameAdded DEF Yields

(* One that does not leaves what was coming.                               *)
LEMMA YieldsOther ==
    ASSUME NEW q \in Seq(Frames), NEW f \in Frames, NEW floor \in Nat, NEW base,
           NEW c, NEW x, Yields(q, floor, base, c, x), ~Covers(f, c)
    PROVE  Yields(Append(q, f), floor, base, c, x)
<1>0. \A j \in 1..Len(Append(q, f)) : j \in 1..Len(q) \/ j = Len(q) + 1
  BY FrameAdded
<1>1. CASE (\A j \in 1..Len(q) : q[j].version > floor => ~Covers(q[j], c)) /\ x = base
  BY <1>0, <1>1, FrameAdded DEF Yields
<1>2. ASSUME NEW i \in 1..Len(q), q[i].version > floor, Covers(q[i], c), x = Cell(q[i], c),
             \A j \in 1..Len(q) : j > i /\ q[j].version > floor => ~Covers(q[j], c)
      PROVE  Yields(Append(q, f), floor, base, c, x)
  <2>1. i \in 1..Len(Append(q, f)) /\ Append(q, f)[i] = q[i]
    BY FrameAdded
  <2>2. \A j \in 1..Len(Append(q, f)) :
           j > i /\ Append(q, f)[j].version > floor => ~Covers(Append(q, f)[j], c)
    BY <1>0, <1>2, FrameAdded
  <2> QED
    BY <1>2, <2>1, <2>2 DEF Yields
<1> QED
  BY <1>1, <1>2 DEF Yields

(* The first frame, once forwarded, is in the mirror.                      *)
LEMMA YieldsRest ==
    ASSUME NEW q \in Seq(Frames), q # <<>>, NEW floor \in Nat, NEW base, NEW new,
           NEW c, NEW x, Yields(q, floor, base, c, x),
           new = IF Head(q).version > floor /\ Covers(Head(q), c)
                 THEN Cell(Head(q), c) ELSE base
    PROVE  Yields(Tail(q), floor, new, c, x)
<1>0. Len(Tail(q)) \in Nat
  BY FrameTaken
<1>1. CASE (\A j \in 1..Len(q) : q[j].version > floor => ~Covers(q[j], c)) /\ x = base
  <2>1. new = base
    BY <1>1, FrameTaken
  <2>2. \A j \in 1..Len(Tail(q)) : Tail(q)[j].version > floor => ~Covers(Tail(q)[j], c)
    BY <1>1, FrameTaken
  <2> QED
    BY <1>1, <2>1, <2>2 DEF Yields
<1>2. ASSUME NEW i \in 1..Len(q), q[i].version > floor, Covers(q[i], c), x = Cell(q[i], c),
             \A j \in 1..Len(q) : j > i /\ q[j].version > floor => ~Covers(q[j], c)
      PROVE  Yields(Tail(q), floor, new, c, x)
  <2>1. CASE i = 1
    <3>1. new = x
      BY <1>2, <2>1, FrameTaken
    <3>2. \A j \in 1..Len(Tail(q)) : Tail(q)[j].version > floor => ~Covers(Tail(q)[j], c)
      BY <1>2, <2>1, FrameTaken
    <3> QED
      BY <3>1, <3>2 DEF Yields
  <2>2. CASE i # 1
    <3>1. i - 1 \in 1..Len(Tail(q)) /\ Tail(q)[i - 1] = q[i]
      <4>1. i - 1 \in 1..Len(q) - 1
        BY <2>2, FrameTaken
      <4>2. (i - 1) + 1 = i
        OBVIOUS
      <4> QED
        BY <4>1, <4>2, FrameTaken
    <3>2. \A j \in 1..Len(Tail(q)) :
             j > i - 1 /\ Tail(q)[j].version > floor => ~Covers(Tail(q)[j], c)
      <4> TAKE j \in 1..Len(Tail(q))
      <4>1. Tail(q)[j] = q[j + 1] /\ j + 1 \in 1..Len(q)
        BY FrameTaken
      <4>2. j > i - 1 => j + 1 > i
        OBVIOUS
      <4> QED
        BY <1>2, <4>1, <4>2
    <3> QED
      BY <1>2, <3>1, <3>2 DEF Yields
  <2> QED
    BY <2>1, <2>2
<1> QED
  BY <1>1, <1>2 DEF Yields

(* Frames that are all too old change nothing.                             *)
LEMMA YieldsStale ==
    ASSUME NEW q \in Seq(Frames), NEW floor \in Nat, NEW c, NEW x,
           \A j \in 1..Len(q) : q[j].version <= floor
    PROVE  Yields(q, floor, x, c, x)
<1>1. \A j \in 1..Len(q) : ~(q[j].version > floor)
  <2> TAKE j \in 1..Len(q)
  <2>1. q[j].version \in Nat
    BY FrameFacts
  <2> QED
    BY <2>1
<1> QED
  BY <1>1 DEF Yields

(* Nothing on its way: the mirror is it.                                   *)
LEMMA YieldsNow ==
    ASSUME NEW floor, NEW base, NEW c, NEW x, Yields(<<>>, floor, base, c, x)
    PROVE  x = base
  BY DEF Yields

(* What is known of frames stays so as one is added,                       *)
LEMMA KnownAdded ==
    ASSUME NEW q \in Seq(Frames), NEW f \in Frames, NEW version \in Nat, NEW newer \in Nat,
           Known(q, version), version <= newer, f.version <= newer,
           f.kind = "delta" => f.appended = 0
    PROVE  Known(Append(q, f), newer)
<1> SUFFICES ASSUME NEW i \in 1..Len(Append(q, f))
             PROVE  /\ Append(q, f)[i].version <= newer
                    /\ Append(q, f)[i].kind = "delta" => Append(q, f)[i].appended = 0
  BY DEF Known
<1>1. CASE i \in 1..Len(q)
  <2>1. Append(q, f)[i] = q[i] /\ q[i].version \in Nat
    BY <1>1, FrameAdded, FrameFacts
  <2> QED
    BY <1>1, <2>1 DEF Known
<1>2. CASE i = Len(q) + 1
  BY <1>2, FrameAdded
<1> QED
  BY <1>1, <1>2, FrameAdded

(* and as the first is taken.                                              *)
LEMMA KnownTaken ==
    ASSUME NEW q \in Seq(Frames), q # <<>>, NEW version \in Nat, Known(q, version)
    PROVE  Known(Tail(q), version)
  BY FrameTaken DEF Known

(* or as the last is not sent.                                             *)
LEMMA KnownPrefix ==
    ASSUME NEW q \in Seq(Frames), NEW f \in Frames, NEW version \in Nat,
           Known(Append(q, f), version)
    PROVE  Known(q, version)
<1>1. \A i \in 1..Len(q) : i \in 1..Len(Append(q, f)) /\ Append(q, f)[i] = q[i]
  BY FrameAdded
<1> QED
  BY <1>1 DEF Known

(* The order is kept by a frame taken later than all others,               *)
LEMMA OrderAdded ==
    ASSUME NEW q \in Seq(Frames), NEW f \in Frames, NEW floor \in Nat, NEW shown \in Nat,
           NEW now \in Nat, InOrder(q, floor, shown, now), Time(f) = now
    PROVE  InOrder(Append(q, f), floor, shown, now)
<1>1. \A i \in 1..Len(Append(q, f)) :
        \/ i \in 1..Len(q) /\ Append(q, f)[i] = q[i]
        \/ i = Len(q) + 1 /\ Append(q, f)[i] = f
  BY FrameAdded
<1>2. ASSUME NEW i \in 1..Len(Append(q, f))
      PROVE  /\ Time(Append(q, f)[i]) <= now
             /\ Append(q, f)[i].version > floor => shown <= Time(Append(q, f)[i])
  BY <1>1 DEF InOrder
<1>3. ASSUME NEW i \in 1..Len(Append(q, f)), NEW j \in 1..Len(Append(q, f)), i < j
      PROVE  Time(Append(q, f)[i]) <= Time(Append(q, f)[j])
  <2>1. i \in 1..Len(q) /\ Append(q, f)[i] = q[i]
    BY <1>1, <1>3, FrameAdded
  <2> QED
    BY <1>1, <2>1, <1>3 DEF InOrder
<1> QED
  BY <1>2, <1>3 DEF InOrder

(* by taking the first, whether or not it is shown,                        *)
LEMMA OrderTaken ==
    ASSUME NEW q \in Seq(Frames), q # <<>>, NEW floor \in Nat, NEW shown \in Nat,
           NEW now \in Nat, InOrder(q, floor, shown, now)
    PROVE  /\ InOrder(Tail(q), floor, shown, now)
           /\ Head(q).version > floor =>
                InOrder(Tail(q), floor, Time(Head(q)), now) /\ shown <= Time(Head(q))
<1>1. \A i \in 1..Len(Tail(q)) : Tail(q)[i] = q[i + 1] /\ i + 1 \in 1..Len(q) /\ 1 < i + 1
  BY FrameTaken
<1>2. \A i, j \in 1..Len(Tail(q)) : i < j => i + 1 < j + 1
  OBVIOUS
<1> QED
  BY <1>1, <1>2, FrameTaken DEF InOrder

(* by leaving the last out,                                                *)
LEMMA OrderPrefix ==
    ASSUME NEW q \in Seq(Frames), NEW f \in Frames, NEW floor \in Nat, NEW shown \in Nat,
           NEW now \in Nat, InOrder(Append(q, f), floor, shown, now)
    PROVE  InOrder(q, floor, shown, now)
<1>1. \A i \in 1..Len(q) : i \in 1..Len(Append(q, f)) /\ Append(q, f)[i] = q[i]
  BY FrameAdded
<1> QED
  BY <1>1 DEF InOrder

(* by a snapshot that all on their way are covered by,                     *)
LEMMA OrderStale ==
    ASSUME NEW q \in Seq(Frames), NEW floor \in Nat, NEW shown \in Nat,
           NEW now \in Nat, InOrder(q, floor, shown, now), NEW version \in Nat,
           Known(q, version)
    PROVE  InOrder(q, version, now, now)
<1>1. \A i \in 1..Len(q) : ~(q[i].version > version)
  <2> TAKE i \in 1..Len(q)
  <2>1. q[i].version \in Nat
    BY FrameFacts
  <2> QED
    BY <2>1 DEF Known
<1> QED
  BY <1>1 DEF InOrder

(* and by time.                                                            *)
LEMMA OrderLater ==
    ASSUME NEW q \in Seq(Frames), NEW floor \in Nat, NEW shown \in Nat,
           NEW now \in Nat, InOrder(q, floor, shown, now), NEW later \in Nat, now <= later
    PROVE  InOrder(q, floor, shown, later)
<1>1. \A i \in 1..Len(q) : Time(q[i]) \in Nat
  BY FrameFacts
<1> QED
  BY <1>1 DEF InOrder

-----------------------------------------------------------------------------
(* What is coming, before and after a step. *)

(* The types of what the invariant speaks of.                              *)
LEMMA ComingType ==
    ASSUME GridInv, NEW v \in Viewers
    PROVE  /\ Coming(v) \in Seq(Frames) /\ queue[v] \in Seq(Frames)
           /\ frame_floor[v] \in Nat /\ st.version \in Nat /\ clock \in Nat
           /\ mirror[v] \in Pictures /\ mirror[v].time \in Nat
<1>1. Coming(v) \in Seq(Frames)
  BY FrameAdded DEF GridInv, FramesQueued, Coming
<1> QED
  BY <1>1 DEF GridInv, FramesQueued, TypeOK, Pictures

(* A step that neither sends nor shows keeps what is known of frames.      *)
LEMMA FramesStill ==
    ASSUME GridInv, UNCHANGED <<queue, hand, st, frame_floor, mirror>>,
           emitter' = "send" <=> emitter = "send", clock' \in Nat, clock <= clock'
    PROVE  /\ \A v \in Viewers : Coming(v)' = Coming(v)
           /\ FramesQueued' /\ FramesKnown' /\ TimesInOrder'
<1>1. \A v \in Viewers : Coming(v)' = Coming(v)
  BY DEF Coming
<1>2. FramesQueued' /\ FramesKnown'
  BY <1>1 DEF GridInv, FramesQueued, FramesKnown
<1>3. TimesInOrder'
  BY <1>1, ComingType, OrderLater DEF GridInv, TimesInOrder
<1> QED
  BY <1>1, <1>2, <1>3

(* A full grid, or a damaged cell, is owed a frame: nothing is claimed.    *)
LEMMA WriteKeeps ==
    ASSUME GridInv, NEW r \in Lines, Write(r)
    PROVE  GridInv'
<1>1. /\ clock' = clock + 1 /\ clock' \in Nat /\ clock <= clock'
      /\ grid' = [grid EXCEPT ![r] = clock'] /\ damage' = damage \cup {r}
      /\ UNCHANGED <<hist, full, emitterVars, viewerVars, starved>>
  BY DEF Write, GridInv, TypeOK
<1>2. TypeOK'
  BY <1>1 DEF Write, GridInv, TypeOK, FrameOK, Screens, emitterVars, viewerVars
<1>3. /\ \A v \in Viewers : Coming(v)' = Coming(v)
      /\ FramesQueued' /\ FramesKnown' /\ TimesInOrder'
  BY <1>1, FramesStill DEF emitterVars, viewerVars
<1>4. HistoryKnown'
  BY <1>1 DEF GridInv, HistoryKnown, emitterVars
<1>5. CellsComing'
  <2>1. ASSUME NEW c \in Cells \ damage' PROVE Part(snapshot_term, c)' = Part(snapshot_term, c)
    BY <1>1, <2>1 DEF Part, snapshot_term, Cells, GridInv, TypeOK, Screens
  <2> QED
    BY <1>1, <1>3, <2>1 DEF GridInv, CellsComing, emitterVars, viewerVars
<1> QED
  BY <1>2, <1>3, <1>4, <1>5 DEF GridInv

(* A scroll damages every row: nothing is claimed until an emit.           *)
LEMMA ScrollKeeps ==
    ASSUME GridInv, Scroll
    PROVE  GridInv'
<1>1. /\ clock' = clock + 1 /\ clock' \in Nat /\ clock <= clock'
      /\ grid' = [l \in Lines |-> IF l = Rows THEN clock' ELSE grid[l + 1]]
      /\ hist' = hist + 1 /\ full' = TRUE
      /\ UNCHANGED <<damage, emitterVars, viewerVars, starved>>
  BY DEF Scroll, GridInv, TypeOK
<1>2. TypeOK'
  <2>1. grid' \in Screens
    BY <1>1, RowsArePositive DEF GridInv, TypeOK, Screens, Lines
  <2> QED
    BY <1>1, <2>1 DEF Scroll, GridInv, TypeOK, FrameOK, emitterVars, viewerVars
<1>3. FramesQueued' /\ FramesKnown' /\ TimesInOrder'
  BY <1>1, FramesStill DEF emitterVars, viewerVars
<1>4. HistoryKnown' /\ CellsComing'
  BY <1>1 DEF HistoryKnown, CellsComing
<1> QED
  BY <1>2, <1>3, <1>4 DEF GridInv

(* Wakeups, and the emitter's way to its locks, touch no frame.            *)
LEMMA WakeKeeps ==
    ASSUME GridInv, Wakeup \/ EmitterSubscribes \/ Wakes
    PROVE  GridInv'
<1>1. /\ UNCHANGED <<termVars, st, hand, viewerVars, starved>>
      /\ emitter' = "send" <=> emitter = "send"
      /\ emitter' \in {"none", "spawned", "listening", "drain", "emit", "send"}
  BY DEF Wakeup, EmitterSubscribes, Wakes, emitterVars, GridInv, TypeOK
<1>2. TypeOK'
  <2>1. wakeups' \in Nat
    BY CapsArePositive DEF Wakeup, EmitterSubscribes, Wakes, GridInv, TypeOK
  <2>2. owed' \in BOOLEAN /\ deaf' \in BOOLEAN
    BY DEF Wakeup, EmitterSubscribes, Wakes, GridInv, TypeOK
  <2> QED
    BY <1>1, <2>1, <2>2 DEF GridInv, TypeOK, FrameOK, termVars, viewerVars
<1>3. /\ \A v \in Viewers : Coming(v)' = Coming(v)
      /\ FramesQueued' /\ FramesKnown' /\ TimesInOrder'
  BY <1>1, FramesStill DEF termVars, viewerVars, GridInv, TypeOK
<1>4. HistoryKnown' /\ CellsComing'
  BY <1>1, <1>3 DEF GridInv, HistoryKnown, CellsComing, snapshot_term, termVars, viewerVars
<1> QED
  BY <1>2, <1>3, <1>4 DEF GridInv

(* Damage that is drained starves whoever streams.                         *)
LEMMA DrainKeeps ==
    ASSUME GridInv, drain_damage
    PROVE  GridInv'
<1>1. /\ UNCHANGED <<grid, hist, clock, owed, wakeups, hand, viewerVars, deaf>>
      /\ emitter = "drain" /\ emitter' = "listening" /\ damage' = {} /\ full' = FALSE
      /\ st' = [st EXCEPT !.last_history_size = hist]
      /\ starved' = starved \cup {v \in Viewers : at[v] = "streaming"}
  BY DEF drain_damage, ResetDamage
<1>2. TypeOK'
  <2>1. st' \in [has_emitted : BOOLEAN, version : Nat, last_history_size : Nat]
    BY <1>1 DEF GridInv, TypeOK
  <2>2. \A v \in Viewers : \A i \in 1..Len(queue'[v]) : FrameOK(queue'[v][i])
    BY <1>1 DEF GridInv, TypeOK, viewerVars
  <2> QED
    BY <1>1, <2>1, <2>2 DEF GridInv, TypeOK, viewerVars
<1>3. \A v \in Viewers : Coming(v)' = Coming(v)
  BY <1>1 DEF Coming, viewerVars
<1>4. FramesQueued' /\ FramesKnown' /\ TimesInOrder'
  BY <1>1, <1>3 DEF GridInv, FramesQueued, FramesKnown, TimesInOrder, TypeOK, viewerVars
<1>5. HistoryKnown' /\ CellsComing'
  BY <1>1 DEF GridInv, TypeOK, HistoryKnown, CellsComing, viewerVars
<1> QED
  BY <1>2, <1>4, <1>5 DEF GridInv

(* The frame an emitter makes: what it says of a cell is what is there,    *)
(* and it says something of all that is damaged.                           *)
LEMMA EmitMakes ==
    ASSUME GridInv, Emit, build_emit # "skip"
    PROVE  /\ hand' \in Frames /\ hand'.version = st.version + 1 /\ Time(hand') = clock
           /\ hand'.kind = "delta" => ~full /\ hand'.appended = 0
           /\ \A c \in Cells :
                /\ Covers(hand', c) => Cell(hand', c) = Part(snapshot_term, c)
                /\ full \/ c \in damage => Covers(hand', c)
<1>0. /\ grid \in Screens /\ hist \in Nat /\ clock \in Nat /\ damage \in SUBSET Lines
      /\ st.version + 1 \in Nat /\ st.last_history_size \in Nat /\ snapshot_term \in Pictures
  BY DEF GridInv, TypeOK, snapshot_term, Pictures
<1>1. CASE build_emit = "snapshot"
  <2>1. hand' = [version |-> st.version + 1, kind |-> "snapshot", of |-> snapshot_term]
    BY <1>1 DEF Emit
  <2>2. hand' \in Frames
    BY <1>0, <2>1 DEF Frames
  <2> QED
    BY <2>1, <2>2 DEF Time, Covers, Cell, snapshot_term
<1>2. CASE build_emit # "snapshot"
  <2>0. ~full /\ st.last_history_size = hist
    BY <1>2 DEF build_emit, GridInv, HistoryKnown
  <2>1. hand' = [version |-> st.version + 1, kind |-> "delta", appended |-> 0,
                 rows |-> [r \in damage |-> grid[r]], time |-> clock]
    BY <1>0, <1>2, <2>0 DEF Emit, Appended
  <2>2. hand' \in Frames
    <3>1. hand' \in [version : Nat, kind : {"delta"}, appended : Nat, rows : [damage -> Nat],
                     time : Nat]
      BY <1>0, <2>1 DEF Screens
    <3> QED
      BY <1>0, <3>1 DEF Frames
  <2>3. \A c \in Cells : Covers(hand', c) <=> c \in damage
    BY <2>1 DEF Covers
  <2>4. \A c \in damage : Cell(hand', c) = Part(snapshot_term, c)
    BY <1>0, <2>1 DEF Cell, Part, snapshot_term, Lines
  <2> QED
    BY <2>0, <2>1, <2>2, <2>3, <2>4 DEF Time
<1> QED
  BY <1>1, <1>2

(* The frame an emit makes speaks of every cell that was damaged.          *)
LEMMA EmitKeeps ==
    ASSUME GridInv, Emit
    PROVE  GridInv'
<1>1. /\ UNCHANGED <<grid, hist, clock, owed, wakeups, viewerVars, starved, deaf>>
      /\ emitter = "emit" /\ damage' = {} /\ full' = FALSE
  BY DEF Emit, ResetDamage
<1>2. CASE build_emit = "skip"
  <2>1. emitter' = "listening" /\ UNCHANGED <<st, hand>> /\ ~full /\ damage = {}
    BY <1>2 DEF Emit, build_emit
  <2>2. TypeOK'
    <3>1. \A v \in Viewers : \A i \in 1..Len(queue'[v]) : FrameOK(queue'[v][i])
      BY <1>1 DEF GridInv, TypeOK, viewerVars
    <3> QED
      BY <1>1, <2>1, <3>1 DEF GridInv, TypeOK, viewerVars
  <2>3. /\ \A v \in Viewers : Coming(v)' = Coming(v)
        /\ FramesQueued' /\ FramesKnown' /\ TimesInOrder'
    BY <1>1, <2>1, FramesStill DEF viewerVars, GridInv, TypeOK
  <2>4. HistoryKnown' /\ CellsComing'
    BY <1>1, <2>1, <2>3 DEF GridInv, HistoryKnown, CellsComing, snapshot_term, viewerVars
  <2> QED
    BY <2>2, <2>3, <2>4 DEF GridInv
<1>3. CASE build_emit # "skip"
  <2>1. /\ emitter' = "send"
        /\ st' = [has_emitted |-> TRUE, version |-> st.version + 1, last_history_size |-> hist]
    BY <1>3 DEF Emit
  <2>2. /\ hand' \in Frames /\ hand'.version = st.version + 1 /\ Time(hand') = clock
        /\ hand'.kind = "delta" => ~full /\ hand'.appended = 0
        /\ \A c \in Cells : /\ Covers(hand', c) => Cell(hand', c) = Part(snapshot_term, c)
                            /\ full \/ c \in damage => Covers(hand', c)
    BY <1>3, EmitMakes
  <2>3. TypeOK' /\ FramesQueued' /\ HistoryKnown'
    <3>1. FrameOK(hand')
      BY <2>2, FrameFacts
    <3>2. \A v \in Viewers : \A i \in 1..Len(queue'[v]) : FrameOK(queue'[v][i])
      BY <1>1 DEF GridInv, TypeOK, viewerVars
    <3>3. st' \in [has_emitted : BOOLEAN, version : Nat, last_history_size : Nat]
      BY <2>1 DEF GridInv, TypeOK
    <3>4. TypeOK'
      BY <1>1, <2>1, <3>1, <3>2, <3>3 DEF GridInv, TypeOK, viewerVars
    <3> QED
      BY <1>1, <2>1, <2>2, <3>4 DEF GridInv, FramesQueued, HistoryKnown, viewerVars
  <2>4. \A v \in Viewers : Coming(v)' = Append(Coming(v), hand')
    BY <1>1, <2>1 DEF Coming, viewerVars
  <2>5. FramesKnown'
    <3> SUFFICES ASSUME NEW v \in Viewers
                 PROVE  frame_floor[v] <= st'.version /\ Known(Append(Coming(v), hand'), st'.version)
      BY <1>1, <2>4 DEF FramesKnown, viewerVars
    <3>1. /\ frame_floor[v] <= st.version /\ Known(Coming(v), st.version)
          /\ st'.version = st.version + 1
      BY <2>1 DEF GridInv, FramesKnown
    <3> QED
      BY <3>1, <2>2, ComingType, KnownAdded
  <2>6. TimesInOrder'
    BY <1>1, <2>2, <2>4, ComingType, OrderAdded DEF GridInv, TimesInOrder, viewerVars
  <2>7. CellsComing'
    <3> SUFFICES ASSUME NEW v \in Viewers, NEW c \in Cells,
                        at[v] = "streaming", ~lagged[v], v \notin starved
                 PROVE  Yields(Append(Coming(v), hand'), frame_floor[v], Part(mirror[v], c), c,
                               Part(snapshot_term, c))
      BY <1>1, <2>4 DEF CellsComing, snapshot_term, viewerVars
    <3>1. /\ Coming(v) \in Seq(Frames) /\ frame_floor[v] \in Nat
          /\ hand'.version > frame_floor[v]
      BY <2>2, ComingType DEF GridInv, FramesKnown
    <3>2. CASE Covers(hand', c)
      BY <2>2, <3>1, <3>2, YieldsLast
    <3>3. CASE ~Covers(hand', c)
      <4>1. Yields(Coming(v), frame_floor[v], Part(mirror[v], c), c, Part(snapshot_term, c))
        BY <2>2, <3>3 DEF GridInv, CellsComing
      <4> QED
        BY <2>2, <3>1, <3>3, <4>1, YieldsOther
    <3> QED
      BY <3>2, <3>3
  <2> QED
    BY <2>3, <2>5, <2>6, <2>7 DEF GridInv
<1> QED
  BY <1>2, <1>3

(* Sending moves the frame from the emitter's hand to the viewers; one     *)
(* that loses a frame by it has lagged.                                    *)
LEMMA SendKeeps ==
    ASSUME GridInv, Send
    PROVE  GridInv'
<1>1. /\ UNCHANGED <<termVars, owed, wakeups, st, at, frame_floor, mirror, starved, deaf>>
      /\ emitter = "send" /\ emitter' = "listening" /\ hand' = NoFrame /\ hand \in Frames
  BY DEF Send, GridInv, FramesQueued
<1>2. ASSUME NEW v \in Viewers
      PROVE  /\ Coming(v) = Append(queue[v], hand) /\ Coming(v)' = queue'[v]
             /\ queue'[v] \in Seq(Frames) /\ Len(queue'[v]) <= FramesCap
             /\ lagged'[v] \in BOOLEAN /\ (~lagged'[v] => ~lagged[v])
             /\ \/ at[v] = "away" /\ queue'[v] = queue[v]
                \/ at[v] # "away" /\ queue'[v] = Coming(v)
                \/ lagged'[v] /\ queue'[v] = Tail(Coming(v))
  <2>0. /\ queue[v] \in Seq(Frames) /\ Len(queue[v]) \in Nat /\ Len(queue[v]) <= FramesCap
        /\ FramesCap \in Nat \ {0}
    BY CapsArePositive, ComingType DEF GridInv, TypeOK
  <2>1. Coming(v) = Append(queue[v], hand) /\ Coming(v)' = queue'[v]
    BY <1>1 DEF Coming
  <2>2. CASE v \notin Receivers
    <3>1. queue'[v] = queue[v] /\ lagged'[v] = lagged[v] /\ at[v] = "away"
      BY <2>2 DEF Send, Receivers, GridInv, TypeOK
    <3> QED
      BY <2>0, <2>1, <3>1 DEF GridInv, TypeOK
  <2>3. CASE v \in Receivers /\ Len(queue[v]) # FramesCap
    <3>1. /\ queue'[v] = Append(queue[v], hand) /\ lagged'[v] = lagged[v] /\ at[v] # "away"
      BY <2>3 DEF Send, Receivers, GridInv, TypeOK
    <3> QED
      BY <1>1, <2>0, <2>1, <2>3, <3>1, FrameAdded DEF GridInv, TypeOK
  <2>4. CASE v \in Receivers /\ Len(queue[v]) = FramesCap
    <3>1. queue'[v] = Append(Tail(queue[v]), hand) /\ lagged'[v]
      BY <2>4 DEF Send, Receivers, GridInv, TypeOK
    <3>2. queue[v] # <<>>
      BY <2>0, <2>4
    <3>3. Append(Tail(queue[v]), hand) = Tail(Append(queue[v], hand))
      BY <1>1, <2>0, <3>2
    <3>4. Len(queue'[v]) = FramesCap /\ queue'[v] \in Seq(Frames)
      BY <1>1, <2>0, <2>4, <3>1, <3>2, FrameTaken, FrameAdded
    <3>5. lagged'[v] \in BOOLEAN
      BY DEF Send, Receivers, GridInv, TypeOK
    <3> QED
      BY <2>0, <2>1, <3>1, <3>3, <3>4, <3>5
  <2> QED
    BY <2>2, <2>3, <2>4
<1>3. TypeOK' /\ FramesQueued' /\ HistoryKnown'
  <2>1. queue' \in [Viewers -> Seq(Frames)]
    BY <1>2 DEF Send
  <2>2. lagged' \in [Viewers -> BOOLEAN]
    BY <1>2 DEF Send
  <2>3. \A v \in Viewers : \A i \in 1..Len(queue'[v]) : FrameOK(queue'[v][i])
    BY <2>1, FrameFacts
  <2> QED
    BY <1>1, <1>2, <2>1, <2>2, <2>3 DEF GridInv, TypeOK, FrameOK, FramesQueued,
       HistoryKnown, termVars
<1>4. FramesKnown' /\ TimesInOrder'
  <2> SUFFICES ASSUME NEW v \in Viewers
               PROVE  /\ frame_floor[v] <= st.version /\ Known(queue'[v], st.version)
                      /\ InOrder(queue'[v], frame_floor[v], mirror[v].time, clock)
    BY <1>1, <1>2 DEF FramesKnown, TimesInOrder, termVars
  <2>1. /\ frame_floor[v] <= st.version /\ Known(Coming(v), st.version)
        /\ InOrder(Coming(v), frame_floor[v], mirror[v].time, clock)
    BY DEF GridInv, FramesKnown, TimesInOrder
  <2>2. CASE queue'[v] = queue[v]
    <3>1. Coming(v) = Append(queue[v], hand)
      BY <1>2
    <3> QED
      BY <1>1, <2>1, <2>2, <3>1, ComingType, KnownPrefix, OrderPrefix
  <2>3. CASE queue'[v] = Coming(v)
    BY <2>1, <2>3
  <2>4. CASE queue'[v] = Tail(Coming(v))
    <3>1. Coming(v) # <<>>
      BY <1>1, <1>2, ComingType
    <3> QED
      BY <2>1, <2>4, <3>1, ComingType, KnownTaken, OrderTaken
  <2> QED
    BY <1>2, <2>2, <2>3, <2>4
<1>5. CellsComing'
  <2> SUFFICES ASSUME NEW v \in Viewers, at[v] = "streaming", ~lagged'[v], v \notin starved, ~full,
                      NEW c \in Cells \ damage
               PROVE  Yields(queue'[v], frame_floor[v], Part(mirror[v], c), c,
                             Part(snapshot_term, c))
    BY <1>1, <1>2 DEF CellsComing, snapshot_term, termVars
  <2>1. ~lagged[v] /\ queue'[v] = Coming(v)
    BY <1>2
  <2> QED
    BY <2>1 DEF GridInv, CellsComing
<1> QED
  BY <1>3, <1>4, <1>5 DEF GridInv

-----------------------------------------------------------------------------
(* The viewers. *)

(* A viewer that joins has no picture yet, and so no claim.                *)
LEMMA AttachKeeps ==
    ASSUME GridInv, NEW v \in Viewers, Attach(v)
    PROVE  GridInv'
<1>1. /\ UNCHANGED <<termVars, owed, wakeups, st, hand, queue, lagged, frame_floor, mirror,
                     starved, deaf>>
      /\ at' = [at EXCEPT ![v] = "joined"] /\ (emitter' = "send" <=> emitter = "send")
      /\ emitter' \in {"none", "spawned", "listening", "drain", "emit", "send"}
  BY DEF Attach, GridInv, TypeOK
<1>2. TypeOK'
  BY <1>1 DEF GridInv, TypeOK, FrameOK, termVars
<1>3. /\ \A u \in Viewers : Coming(u)' = Coming(u)
      /\ FramesQueued' /\ FramesKnown' /\ TimesInOrder'
  <2>1. clock' \in Nat /\ clock <= clock'
    BY <1>1 DEF termVars, GridInv, TypeOK
  <2> QED
    BY <1>1, <2>1, FramesStill DEF termVars
<1>4. HistoryKnown' /\ CellsComing'
  BY <1>1, <1>3 DEF GridInv, TypeOK, HistoryKnown, CellsComing, snapshot_term, termVars
<1> QED
  BY <1>2, <1>3, <1>4 DEF GridInv

(* A snapshot shows all there is, and all that is coming is older.         *)
LEMMA SnapshotKeeps ==
    ASSUME GridInv, NEW v \in Viewers, Snapshot(v),
           UNCHANGED <<termVars, owed, wakeups, emitterVars, queue, deaf>>,
           \A u \in Viewers \ {v} : at'[u] = at[u] /\ lagged'[u] = lagged[u],
           at' \in [Viewers -> {"away", "joined", "streaming"}],
           lagged' \in [Viewers -> BOOLEAN]
    PROVE  GridInv'
<1>1. /\ mirror' = [mirror EXCEPT ![v] = snapshot_term]
      /\ frame_floor' = [frame_floor EXCEPT ![v] = st.version] /\ starved' = starved \ {v}
      /\ snapshot_term \in Pictures /\ st.version \in Nat /\ snapshot_term.time = clock
  BY DEF Snapshot, snapshot_term, Pictures, GridInv, TypeOK
<1>2. TypeOK' /\ FramesQueued' /\ HistoryKnown'
  BY <1>1 DEF GridInv, TypeOK, FrameOK, FramesQueued, HistoryKnown, termVars, emitterVars
<1>3. \A u \in Viewers : Coming(u)' = Coming(u)
  BY DEF Coming, emitterVars
<1>4. FramesKnown'
  BY <1>1, <1>3 DEF GridInv, TypeOK, FramesKnown, emitterVars
<1>5. TimesInOrder'
  <2> SUFFICES ASSUME NEW u \in Viewers
               PROVE  InOrder(Coming(u), frame_floor'[u], mirror'[u].time, clock)
    BY <1>3 DEF TimesInOrder, termVars
  <2>1. InOrder(Coming(u), frame_floor[u], mirror[u].time, clock) /\ Known(Coming(u), st.version)
    BY DEF GridInv, TimesInOrder, FramesKnown
  <2>2. CASE u = v
    <3>1. frame_floor'[u] = st.version /\ mirror'[u].time = clock
      BY <1>1, <2>2 DEF GridInv, TypeOK
    <3> QED
      BY <2>1, <3>1, ComingType, OrderStale
  <2>3. CASE u # v
    BY <1>1, <2>1, <2>3 DEF GridInv, TypeOK
  <2> QED
    BY <2>2, <2>3
<1>6. CellsComing'
  <2> SUFFICES ASSUME NEW u \in Viewers, at'[u] = "streaming", ~lagged'[u], u \notin starved',
                      ~full, NEW c \in Cells \ damage
               PROVE  Yields(Coming(u), frame_floor'[u], Part(mirror'[u], c), c,
                             Part(snapshot_term, c))
    BY <1>3 DEF CellsComing, snapshot_term, termVars
  <2>1. CASE u = v
    <3>1. frame_floor'[u] = st.version /\ mirror'[u] = snapshot_term
      BY <1>1, <2>1 DEF GridInv, TypeOK
    <3>2. \A j \in 1..Len(Coming(u)) : Coming(u)[j].version <= st.version
      BY DEF GridInv, FramesKnown, Known
    <3> QED
      BY <3>1, <3>2, ComingType, YieldsStale
  <2>2. CASE u # v
    BY <1>1, <2>2 DEF GridInv, TypeOK, CellsComing
  <2> QED
    BY <2>1, <2>2
<1> QED
  BY <1>2, <1>4, <1>5, <1>6 DEF GridInv

(* Both snapshots of a viewer are Snapshot; it clears its lag.             *)
LEMMA FirstSnapshotKeeps ==
    ASSUME GridInv, NEW v \in Viewers, FirstSnapshot(v)
    PROVE  GridInv'
<1>1. /\ Snapshot(v) /\ UNCHANGED <<termVars, owed, wakeups, emitterVars, queue, deaf>>
      /\ UNCHANGED lagged /\ at' = [at EXCEPT ![v] = "streaming"]
  BY DEF FirstSnapshot
<1> QED
  BY <1>1, SnapshotKeeps DEF GridInv, TypeOK

(* The same for the snapshot that recovers from a lag.                     *)
LEMMA RecoverKeeps ==
    ASSUME GridInv, NEW v \in Viewers, Recover(v)
    PROVE  GridInv'
<1>1. /\ Snapshot(v) /\ UNCHANGED <<termVars, owed, wakeups, emitterVars, queue, deaf>>
      /\ UNCHANGED at /\ lagged' = [lagged EXCEPT ![v] = FALSE]
  BY DEF Recover
<1> QED
  BY <1>1, SnapshotKeeps DEF GridInv, TypeOK

(* What a mirror shows after a frame.                                      *)
LEMMA ShownCells ==
    ASSUME NEW prev \in Pictures, NEW f \in Frames, f.kind = "delta" => f.appended = 0
    PROVE  /\ Shown(prev, f) \in Pictures /\ Shown(prev, f).time = Time(f)
           /\ \A c \in Cells : Part(Shown(prev, f), c) =
                               IF Covers(f, c) THEN Cell(f, c) ELSE Part(prev, c)
<1>1. CASE f.kind = "snapshot"
  BY <1>1, FrameFacts DEF Shown, Time, Covers, Cell
<1>2. CASE f.kind # "snapshot"
  <2>1. /\ f.kind = "delta" /\ f.appended = 0 /\ f.time \in Nat
        /\ \A r \in DOMAIN f.rows : r \in Lines /\ f.rows[r] \in Nat
    BY <1>2, FrameFacts
  <2>2. prev.scrollback + 0 = prev.scrollback /\ prev.grid \in Screens
    BY DEF Pictures
  <2>3. Shown(prev, f) = [grid |-> [r \in Lines |-> IF r \in DOMAIN f.rows THEN f.rows[r]
                                                   ELSE prev.grid[r]],
                          scrollback |-> prev.scrollback, time |-> f.time]
    BY <1>2, <2>1, <2>2 DEF Shown, mergeDelta
  <2>4. Shown(prev, f) \in Pictures /\ Shown(prev, f).time = Time(f)
    BY <1>2, <2>1, <2>2, <2>3 DEF Pictures, Screens, Time
  <2>5. ASSUME NEW c \in Cells
        PROVE  Part(Shown(prev, f), c) = IF Covers(f, c) THEN Cell(f, c) ELSE Part(prev, c)
    <3>1. CASE c = 0
      <4>1. c \notin DOMAIN f.rows
        BY <2>1, <3>1 DEF Lines
      <4> QED
        BY <1>2, <2>3, <3>1, <4>1 DEF Part, Covers
    <3>2. CASE c # 0
      BY <1>2, <2>3, <3>2 DEF Part, Covers, Cell, Cells
    <3> QED
      BY <3>1, <3>2
  <2> QED
    BY <2>4, <2>5
<1> QED
  BY <1>1, <1>2

(* Forwarding takes the first of what is coming into the mirror.           *)
LEMMA ForwardShows ==
    ASSUME GridInv, NEW v \in Viewers, Forward(v)
    PROVE  /\ UNCHANGED <<termVars, owed, wakeups, emitterVars, at, lagged, frame_floor,
                          starved, deaf>>
           /\ queue[v] # <<>> /\ queue' = [queue EXCEPT ![v] = Tail(@)]
           /\ Coming(v) # <<>> /\ Coming(v)' = Tail(Coming(v))
           /\ \A u \in Viewers \ {v} : Coming(u)' = Coming(u) /\ mirror'[u] = mirror[u]
           /\ mirror' \in [Viewers -> Pictures]
           /\ mirror'[v].time = IF Head(Coming(v)).version > frame_floor[v]
                                THEN Time(Head(Coming(v))) ELSE mirror[v].time
           /\ \A c \in Cells : Part(mirror'[v], c) =
                 IF Head(Coming(v)).version > frame_floor[v] /\ Covers(Head(Coming(v)), c)
                 THEN Cell(Head(Coming(v)), c) ELSE Part(mirror[v], c)
<1>1. /\ UNCHANGED <<termVars, owed, wakeups, emitterVars, at, lagged, frame_floor,
                     starved, deaf>>
      /\ queue[v] # <<>> /\ queue' = [queue EXCEPT ![v] = Tail(@)]
      /\ queue[v] \in Seq(Frames) /\ queue \in [Viewers -> Seq(Frames)]
      /\ emitter = "send" => hand \in Frames
      /\ mirror[v] \in Pictures /\ mirror \in [Viewers -> Pictures]
  BY DEF Forward, GridInv, FramesQueued, TypeOK
<1>2. /\ Coming(v) # <<>> /\ Coming(v)' = Tail(Coming(v))
      /\ Head(Coming(v)) = Head(queue[v]) /\ Head(queue[v]) \in Frames
  <2>1. CASE emitter = "send"
    <3>1. ASSUME NEW q \in Seq(Frames), q # <<>>, NEW f \in Frames
          PROVE  /\ Append(q, f) # <<>> /\ Head(Append(q, f)) = Head(q)
                 /\ Tail(Append(q, f)) = Append(Tail(q), f)
      BY <3>1
    <3> QED
      BY <1>1, <2>1, <3>1, FrameTaken DEF Coming, emitterVars
  <2>2. CASE emitter # "send"
    BY <1>1, <2>2, FrameTaken DEF Coming, emitterVars
  <2> QED
    BY <2>1, <2>2
<1>3. mirror' = [mirror EXCEPT ![v] = IF Head(queue[v]).version > frame_floor[v]
                                      THEN Shown(@, Head(queue[v])) ELSE @]
  BY DEF Forward, Fresh
<1>4. Head(queue[v]).kind = "delta" => Head(queue[v]).appended = 0
  <2>1. Known(Coming(v), st.version) /\ 1 \in 1..Len(Coming(v)) /\ Coming(v)[1] = Head(Coming(v))
    BY <1>2, ComingType, FrameTaken DEF GridInv, FramesKnown
  <2> QED
    BY <1>2, <2>1 DEF Known
<1>5. mirror'[v] = IF Head(queue[v]).version > frame_floor[v]
                   THEN Shown(mirror[v], Head(queue[v])) ELSE mirror[v]
  BY <1>1, <1>3
<1>6. \A u \in Viewers \ {v} : Coming(u)' = Coming(u) /\ mirror'[u] = mirror[u]
  BY <1>1, <1>3 DEF Coming, emitterVars
<1>7. mirror' \in [Viewers -> Pictures]
  BY <1>1, <1>2, <1>3, <1>4, ShownCells
<1>8. /\ Shown(mirror[v], Head(queue[v])).time = Time(Head(queue[v]))
      /\ \A c \in Cells : Part(Shown(mirror[v], Head(queue[v])), c) =
            IF Covers(Head(queue[v]), c) THEN Cell(Head(queue[v]), c) ELSE Part(mirror[v], c)
  BY <1>1, <1>2, <1>4, ShownCells
<1>9. CASE Head(queue[v]).version > frame_floor[v]
  <2>1. mirror'[v] = Shown(mirror[v], Head(queue[v]))
    BY <1>5, <1>9
  <2>2. mirror'[v].time = Time(Head(Coming(v)))
    BY <1>2, <1>8, <2>1
  <2>3. \A c \in Cells : Part(mirror'[v], c) =
          IF Covers(Head(Coming(v)), c) THEN Cell(Head(Coming(v)), c) ELSE Part(mirror[v], c)
    BY <1>2, <1>8, <2>1
  <2> QED
    BY <1>1, <1>2, <1>6, <1>7, <1>9, <2>2, <2>3
<1>10. CASE ~(Head(queue[v]).version > frame_floor[v])
  <2>1. mirror'[v] = mirror[v]
    BY <1>5, <1>10
  <2> QED
    BY <1>1, <1>2, <1>6, <1>7, <1>10, <2>1
<1> QED
  BY <1>9, <1>10

(* Taking the first frame into the mirror leaves what is yielded.          *)
LEMMA ForwardKeeps ==
    ASSUME GridInv, NEW v \in Viewers, Forward(v)
    PROVE  GridInv'
<1>1. /\ UNCHANGED <<termVars, owed, wakeups, emitterVars, at, lagged, frame_floor,
                     starved, deaf>>
      /\ queue[v] # <<>> /\ queue' = [queue EXCEPT ![v] = Tail(@)]
      /\ Coming(v) # <<>> /\ Coming(v)' = Tail(Coming(v))
      /\ \A u \in Viewers \ {v} : Coming(u)' = Coming(u) /\ mirror'[u] = mirror[u]
      /\ mirror' \in [Viewers -> Pictures]
  BY ForwardShows
<1>2. /\ mirror'[v].time = IF Head(Coming(v)).version > frame_floor[v]
                           THEN Time(Head(Coming(v))) ELSE mirror[v].time
      /\ \A c \in Cells : Part(mirror'[v], c) =
            IF Head(Coming(v)).version > frame_floor[v] /\ Covers(Head(Coming(v)), c)
            THEN Cell(Head(Coming(v)), c) ELSE Part(mirror[v], c)
  BY ForwardShows
<1>3. TypeOK' /\ FramesQueued' /\ HistoryKnown'
  <2>1. /\ Tail(queue[v]) \in Seq(Frames) /\ Len(Tail(queue[v])) <= FramesCap
    BY <1>1, FrameTaken, ComingType, CapsArePositive DEF GridInv, TypeOK
  <2>2. /\ queue' \in [Viewers -> Seq(Frames)]
        /\ \A u \in Viewers : Len(queue'[u]) <= FramesCap
    BY <1>1, <2>1 DEF GridInv, TypeOK, FramesQueued
  <2>3. \A u \in Viewers : \A i \in 1..Len(queue'[u]) : FrameOK(queue'[u][i])
    BY <2>2, FrameFacts
  <2>4. emitter' = "send" => FrameOK(hand')
    BY <1>1 DEF GridInv, TypeOK, emitterVars
  <2>5. TypeOK'
    BY <1>1, <2>2, <2>3, <2>4 DEF GridInv, TypeOK, termVars, emitterVars
  <2> QED
    BY <1>1, <2>2, <2>5 DEF GridInv, FramesQueued, HistoryKnown, termVars, emitterVars
<1>4. FramesKnown' /\ TimesInOrder'
  <2> SUFFICES ASSUME NEW u \in Viewers
               PROVE  /\ frame_floor[u] <= st.version /\ Known(Coming(u)', st.version)
                      /\ InOrder(Coming(u)', frame_floor[u], mirror'[u].time, clock)
    BY <1>1 DEF FramesKnown, TimesInOrder, termVars, emitterVars
  <2>1. /\ frame_floor[u] <= st.version /\ Known(Coming(u), st.version)
        /\ InOrder(Coming(u), frame_floor[u], mirror[u].time, clock)
    BY DEF GridInv, FramesKnown, TimesInOrder
  <2>2. CASE u = v
    BY <1>1, <1>2, <2>1, <2>2, ComingType, KnownTaken, OrderTaken
  <2>3. CASE u # v
    BY <1>1, <2>1, <2>3
  <2> QED
    BY <2>2, <2>3
<1>5. CellsComing'
  <2> SUFFICES ASSUME NEW u \in Viewers, at[u] = "streaming", ~lagged[u], u \notin starved,
                      ~full, NEW c \in Cells \ damage
               PROVE  Yields(Coming(u)', frame_floor[u], Part(mirror'[u], c), c,
                             Part(snapshot_term, c))
    BY <1>1 DEF CellsComing, snapshot_term, termVars
  <2>1. Yields(Coming(u), frame_floor[u], Part(mirror[u], c), c, Part(snapshot_term, c))
    BY DEF GridInv, CellsComing
  <2>2. CASE u = v
    <3>1. /\ Coming(v) \in Seq(Frames) /\ Coming(v) # <<>> /\ frame_floor[v] \in Nat
          /\ Yields(Coming(v), frame_floor[v], Part(mirror[v], c), c, Part(snapshot_term, c))
      BY <1>1, <2>1, <2>2, ComingType
    <3>2. Part(mirror'[v], c) =
            IF Head(Coming(v)).version > frame_floor[v] /\ Covers(Head(Coming(v)), c)
            THEN Cell(Head(Coming(v)), c) ELSE Part(mirror[v], c)
      BY <1>2
    <3>3. Yields(Tail(Coming(v)), frame_floor[v], Part(mirror'[v], c), c, Part(snapshot_term, c))
      BY <3>1, <3>2, YieldsRest
    <3> QED
      BY <1>1, <2>2, <3>3
  <2>3. CASE u # v
    BY <1>1, <2>1, <2>3
  <2> QED
    BY <2>2, <2>3
<1> QED
  BY <1>3, <1>4, <1>5 DEF GridInv

(* A viewer that leaves is owed nothing; its receiver is gone.             *)
LEMMA DetachKeeps ==
    ASSUME GridInv, NEW v \in Viewers, Detach(v)
    PROVE  GridInv'
<1>1. /\ UNCHANGED <<termVars, owed, wakeups, emitterVars, deaf>>
      /\ at' = [at EXCEPT ![v] = "away"] /\ queue' = [queue EXCEPT ![v] = <<>>]
      /\ lagged' = [lagged EXCEPT ![v] = FALSE] /\ frame_floor' = [frame_floor EXCEPT ![v] = 0]
      /\ mirror' = [mirror EXCEPT ![v] = Nothing] /\ starved' = starved \ {v}
      /\ Nothing \in Pictures /\ Nothing.time = 0
      /\ <<>> \in Seq(Frames) /\ Len(<<>>) = 0
  BY DEF Detach, Nothing, Pictures, Screens
<1>2. TypeOK' /\ FramesQueued' /\ HistoryKnown'
  BY <1>1, CapsArePositive DEF GridInv, TypeOK, FrameOK, FramesQueued, HistoryKnown, termVars,
     emitterVars
<1>3. \A u \in Viewers \ {v} : Coming(u)' = Coming(u)
  BY <1>1 DEF Coming, emitterVars, GridInv, FramesQueued
<1>4. \A i \in 1..Len(Coming(v)') :
        emitter = "send" /\ i = 1 /\ Coming(v)'[i] = hand /\ hand \in Frames
  BY <1>1, FrameAdded DEF Coming, emitterVars, GridInv, FramesQueued
<1>5. emitter = "send" =>
        /\ hand.version <= st.version
        /\ hand.kind = "delta" => hand.appended = 0
        /\ Time(hand) <= clock /\ Time(hand) \in Nat
  <2> SUFFICES ASSUME emitter = "send"
               PROVE  /\ hand.version <= st.version
                      /\ hand.kind = "delta" => hand.appended = 0
                      /\ Time(hand) <= clock /\ Time(hand) \in Nat
    OBVIOUS
  <2>1. hand \in Frames /\ Coming(v) = Append(queue[v], hand) /\ queue[v] \in Seq(Frames)
    BY ComingType DEF Coming, GridInv, FramesQueued
  <2>2. Coming(v)[Len(queue[v]) + 1] = hand /\ Len(queue[v]) + 1 \in 1..Len(Coming(v))
    BY <2>1, FrameAdded
  <2>3. Known(Coming(v), st.version) /\ InOrder(Coming(v), frame_floor[v], mirror[v].time, clock)
    BY DEF GridInv, FramesKnown, TimesInOrder
  <2> QED
    BY <2>1, <2>2, <2>3, FrameFacts DEF Known, InOrder
<1>6. FramesKnown' /\ TimesInOrder'
  <2> SUFFICES ASSUME NEW u \in Viewers
               PROVE  /\ frame_floor'[u] <= st.version /\ Known(Coming(u)', st.version)
                      /\ InOrder(Coming(u)', frame_floor'[u], mirror'[u].time, clock)
    BY <1>1 DEF FramesKnown, TimesInOrder, termVars, emitterVars
  <2>1. /\ frame_floor[u] <= st.version /\ Known(Coming(u), st.version)
        /\ InOrder(Coming(u), frame_floor[u], mirror[u].time, clock)
    BY DEF GridInv, FramesKnown, TimesInOrder
  <2>2. CASE u = v
    <3>1. frame_floor'[u] = 0 /\ mirror'[u].time = 0 /\ st.version \in Nat /\ clock \in Nat
      BY <1>1, <2>2, ComingType DEF GridInv, TypeOK
    <3>2. \A i \in 1..Len(Coming(v)') :
            /\ i = 1 /\ Coming(v)'[i].version <= st.version
            /\ Coming(v)'[i].kind = "delta" => Coming(v)'[i].appended = 0
            /\ Time(Coming(v)'[i]) <= clock /\ 0 <= Time(Coming(v)'[i])
      BY <1>4, <1>5
    <3>3. Known(Coming(v)', st.version)
      BY <3>2 DEF Known
    <3>4. InOrder(Coming(v)', 0, 0, clock)
      BY <3>1, <3>2 DEF InOrder
    <3> QED
      BY <2>2, <3>1, <3>3, <3>4
  <2>3. CASE u # v
    BY <1>1, <1>3, <2>1, <2>3 DEF GridInv, TypeOK
  <2> QED
    BY <2>2, <2>3
<1>7. CellsComing'
  <2> SUFFICES ASSUME NEW u \in Viewers, at'[u] = "streaming", ~lagged'[u], u \notin starved',
                      ~full, NEW c \in Cells \ damage
               PROVE  Yields(Coming(u)', frame_floor'[u], Part(mirror'[u], c), c,
                             Part(snapshot_term, c))
    BY <1>1 DEF CellsComing, snapshot_term, termVars
  <2>1. u # v /\ at[u] = "streaming" /\ ~lagged[u] /\ u \notin starved
    BY <1>1 DEF GridInv, TypeOK
  <2> QED
    BY <1>1, <1>3, <2>1 DEF GridInv, TypeOK, CellsComing
<1> QED
  BY <1>2, <1>6, <1>7 DEF GridInv

-----------------------------------------------------------------------------
(* The theorems. *)

(* Before anyone attaches nothing is in flight, and all is damaged.        *)
LEMMA InitGrid == Init => GridInv
<1> SUFFICES ASSUME Init PROVE GridInv
  OBVIOUS
<1> USE DEF Init
<1>0. <<>> \in Seq(Frames) /\ Len(<<>>) = 0
  OBVIOUS
<1>1. TypeOK
  <2>1. grid \in Screens /\ Nothing \in Pictures
    BY DEF Screens, Pictures, Nothing
  <2>2. st \in [has_emitted : BOOLEAN, version : Nat, last_history_size : Nat]
    BY DEF EmitState
  <2>3. \A v \in Viewers : queue[v] = <<>> /\ Len(queue[v]) = 0 /\ 0 <= FramesCap
    BY <1>0, CapsArePositive
  <2>4. \A v \in Viewers : /\ Len(queue[v]) <= FramesCap
                           /\ \A i \in 1..Len(queue[v]) : FrameOK(queue[v][i])
    BY <2>3
  <2> QED
    BY <2>1, <2>2, <2>4 DEF TypeOK
<1>6. FramesQueued
  BY <1>0 DEF FramesQueued
<1>2. HistoryKnown /\ CellsComing
  BY DEF HistoryKnown, CellsComing
<1>3. \A v \in Viewers : Coming(v) = <<>>
  BY DEF Coming
<1>4. FramesKnown
  BY <1>0, <1>3 DEF FramesKnown, Known, EmitState
<1>5. TimesInOrder
  BY <1>0, <1>3 DEF TimesInOrder, InOrder, Nothing
<1> QED
  BY <1>1, <1>2, <1>4, <1>5, <1>6 DEF GridInv

(* Every action keeps the invariant, the cases in the lemmas above.        *)
LEMMA NextGrid == GridInv /\ [Next]_vars => GridInv'
<1> SUFFICES ASSUME GridInv, [Next]_vars PROVE GridInv'
  OBVIOUS
<1>1. ASSUME NEW r \in Lines, Write(r) PROVE GridInv'
  BY <1>1, WriteKeeps
<1>2. CASE Scroll \/ Wakeup
  BY <1>2, ScrollKeeps, WakeKeeps
<1>3. CASE Emitting
  BY <1>3, WakeKeeps, DrainKeeps, EmitKeeps, SendKeeps DEF Emitting
<1>4. ASSUME NEW v \in Viewers, Attach(v) \/ Streaming(v) \/ Detach(v) PROVE GridInv'
  BY <1>4, AttachKeeps, FirstSnapshotKeeps, ForwardKeeps, RecoverKeeps, DetachKeeps
     DEF Streaming
<1>5. CASE UNCHANGED vars
  <2>1. \A v \in Viewers : Coming(v)' = Coming(v)
    BY <1>5 DEF Coming, vars, emitterVars, viewerVars
  <2> QED
    BY <1>5, <2>1 DEF vars, termVars, emitterVars, viewerVars, GridInv, TypeOK, FrameOK,
       FramesQueued, HistoryKnown, FramesKnown, TimesInOrder, CellsComing, snapshot_term
<1> QED
  BY <1>1, <1>2, <1>3, <1>4, <1>5 DEF Next

(* Every variable keeps its type, and no channel its bound exceeds.        *)
THEOREM GridTypes == Spec => []TypeOK
<1>1. GridInv => TypeOK
  BY DEF GridInv
<1> QED
  BY <1>1, InitGrid, NextGrid, PTL DEF Spec

(* grid_emitter.rs:3-18, 22-41: what a caught-up viewer shows differs from *)
(* the terminal in damaged rows only, and those are in a frame to come.    *)
THEOREM RowsReach == Spec => []NoRowMissed
<1>1. ASSUME GridInv, NEW v \in Viewers, CaughtUp(v), v \notin starved, ~full
      PROVE  /\ mirror[v].scrollback = hist
             /\ \A r \in Lines \ damage : mirror[v].grid[r] = grid[r]
  <2>1. Coming(v) = <<>> /\ at[v] = "streaming" /\ ~lagged[v]
    BY <1>1 DEF CaughtUp, Coming
  <2>2. \A c \in Cells \ damage : Part(snapshot_term, c) = Part(mirror[v], c)
    BY <1>1, <2>1, YieldsNow DEF GridInv, CellsComing
  <2>3. 0 \notin Lines /\ damage \in SUBSET Lines
    BY <1>1 DEF Lines, GridInv, TypeOK
  <2>4. mirror[v].scrollback = hist
    BY <2>2, <2>3 DEF Cells, Part, snapshot_term
  <2>5. \A r \in Lines \ damage : mirror[v].grid[r] = grid[r]
    BY <2>2, <2>3 DEF Cells, Part, snapshot_term
  <2> QED
    BY <2>4, <2>5
<1>2. GridInv => NoRowMissed
  BY <1>1 DEF NoRowMissed
<1> QED
  BY <1>2, InitGrid, NextGrid, PTL DEF Spec

(* grid_emitter.rs:35-41: no step takes a streaming viewer's mirror back.  *)
THEOREM MirrorsAdvance == Spec => NeverBack
<1>1. ASSUME GridInv, [Next]_vars, NEW v \in Viewers, at[v] = "streaming", at'[v] = "streaming"
      PROVE  mirror[v].time <= mirror'[v].time
  <2>0. mirror[v].time \in Nat /\ mirror[v].time <= clock
    BY <1>1, ComingType DEF GridInv, TimesInOrder, InOrder
  <2>1. CASE mirror'[v] = mirror[v]
    BY <2>0, <2>1
  <2>2. ASSUME NEW u \in Viewers, Forward(u) PROVE mirror[v].time <= mirror'[v].time
    <3>1. CASE u = v
      <4>1. InOrder(Coming(v), frame_floor[v], mirror[v].time, clock) /\ Coming(v) # <<>>
        BY <1>1, <2>2, <3>1, ForwardShows DEF GridInv, TimesInOrder
      <4>2. mirror'[v].time = IF Head(Coming(v)).version > frame_floor[v]
                              THEN Time(Head(Coming(v))) ELSE mirror[v].time
        BY <1>1, <2>2, <3>1, ForwardShows
      <4>3. Head(Coming(v)).version > frame_floor[v] => mirror[v].time <= Time(Head(Coming(v)))
        BY <1>1, <4>1, ComingType, OrderTaken
      <4> QED
        BY <2>0, <4>2, <4>3
    <3>2. CASE u # v
      BY <1>1, <2>0, <2>2, <3>2, ForwardShows
    <3> QED
      BY <3>1, <3>2
  <2>3. ASSUME NEW u \in Viewers, FirstSnapshot(u) \/ Recover(u)
        PROVE  mirror[v].time <= mirror'[v].time
    <3>1. mirror' = [mirror EXCEPT ![u] = snapshot_term] /\ snapshot_term.time = clock
      BY <2>3 DEF FirstSnapshot, Recover, Snapshot, snapshot_term
    <3> QED
      BY <1>1, <2>0, <3>1 DEF GridInv, TypeOK
  <2>4. ASSUME NEW u \in Viewers, Detach(u) PROVE mirror[v].time <= mirror'[v].time
    <3>1. u # v
      BY <1>1, <2>4 DEF Detach, GridInv, TypeOK
    <3> QED
      BY <1>1, <2>0, <2>4, <3>1 DEF Detach, GridInv, TypeOK
  <2> QED
    BY <1>1, <2>1, <2>2, <2>3, <2>4 DEF Next, Emitting, Streaming, Write, Scroll, Wakeup,
       EmitterSubscribes, Wakes, drain_damage, Emit, Send, Attach, viewerVars, vars
<1>2. GridInv /\ [Next]_vars =>
        [\A v \in Viewers : at[v] = "streaming" /\ at'[v] = "streaming"
           => mirror[v].time <= mirror'[v].time]_vars
  BY <1>1
<1> QED
  BY <1>2, InitGrid, NextGrid, PTL DEF Spec, NeverBack
=============================================================================
