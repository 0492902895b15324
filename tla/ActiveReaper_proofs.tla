------------------------ MODULE ActiveReaper_proofs ------------------------
(***************************************************************************)
(* ActiveReaper closes only what it may: Safe is inductive, and the action *)
(* property about closes follows from it.  For any set of workspaces and   *)
(* of names, so for passes that fire several timers too.                   *)
(***************************************************************************)
EXTENDS ActiveReaper, TLAPS

(* No timer is armed and no pass under way at boot.                        *)
LEMMA InitSafe == Init => Safe
BY NamesOwned, BoundsAreNumbers DEF Init, Safe, TypeOK, ForcedWasAsked, FiresJustified, SnapshotOwned,
   CondemnedForced, ListedWhileFiring, EmptySnapshot, Snapshots, HasChat, NoCheck

(* Requests, sessions and time: no step of theirs touches a timer but to   *)
(* ripen it, and none ends a dismissal.                                    *)
LEMMA RequestsKeep ==
    ASSUME Safe, Requests
    PROVE  Safe'
<1> PICK w \in Workspaces :
         \/ Activate(w) \/ ClearInteraction(w) \/ Pin(w) \/ Unpin(w)
         \/ Dismiss(w) \/ ArmDismissGrace(w) \/ SetHeartbeat(w)
    BY DEF Requests
<1> USE DEF Safe, TypeOK
<1>1. /\ UNCHANGED <<live, spawns, armed, forced, ripe, seen, pc, snap, fires, check, faults>>
      /\ clock' \in Nat /\ stamp' \in [Workspaces -> Nat]
      /\ pinned' \in SUBSET Workspaces /\ recent' \in SUBSET Workspaces
      /\ warm' \in SUBSET Workspaces /\ dismissing' \in SUBSET Workspaces
    BY DEF Activate, ClearInteraction, Pin, Unpin, Dismiss, ArmDismissGrace, SetHeartbeat,
           sessVars, timerVars, passVars, rowVars
<1>2. /\ asked' \in SUBSET Workspaces /\ asked \subseteq asked'
      /\ pending' \in SUBSET Workspaces /\ pending' \subseteq pending \cup asked'
    BY DEF Activate, ClearInteraction, Pin, Unpin, Dismiss, ArmDismissGrace, SetHeartbeat
<1>3. TypeOK'
    BY <1>1, <1>2
<1>4. ForcedWasAsked'
    BY <1>1, <1>2 DEF ForcedWasAsked
<1>5. FiresJustified'
    BY <1>1, <1>2 DEF FiresJustified, HasChat
<1>6. SnapshotOwned' /\ CondemnedForced' /\ ListedWhileFiring'
    BY <1>1 DEF SnapshotOwned, CondemnedForced, ListedWhileFiring, HasChat
<1> QED BY <1>3, <1>4, <1>5, <1>6

(* Neither do sessions that come and go, nor time.                         *)
LEMMA OthersKeep ==
    ASSUME Safe, Sessions \/ Time
    PROVE  Safe'
<1> USE DEF Safe, TypeOK
<1>1. /\ UNCHANGED <<pinned, stamp, warm, armed, forced, seen, pc, snap, fires, check,
                     faults, dismissing, pending, asked>>
      /\ clock' \in Nat /\ spawns' \in Nat
      /\ recent' \in SUBSET Workspaces /\ live' \in SUBSET Names
      /\ ripe' \in SUBSET armed /\ ripe \subseteq ripe'
    BY DEF Sessions, Time, Spawn, SessionEnds, Second, AgeOut, Ripen,
           sessVars, timerVars, passVars, rowVars
<1>2. TypeOK'
    BY <1>1
<1>3. ForcedWasAsked' /\ FiresJustified' /\ SnapshotOwned' /\ CondemnedForced'
      /\ ListedWhileFiring'
    BY <1>1 DEF ForcedWasAsked, FiresJustified, SnapshotOwned, CondemnedForced,
                ListedWhileFiring, HasChat
<1> QED BY <1>2, <1>3

(* No more reads fail than may.                                            *)
LEMMA ReadsCount ==
    ASSUME TypeOK, NEW found, NEW there, Reads(found, there)
    PROVE  faults' \in 0 .. MaxFaults
BY BoundsAreNumbers DEF Reads, TypeOK

(* While the snapshot is taken nothing is listed to fire.                  *)
LEMMA SnapshotKeeps ==
    ASSUME Safe, TakeRows \/ TakeWarm \/ TakeChats
    PROVE  Safe'
<1> USE DEF Safe, TypeOK
<1>1. /\ UNCHANGED <<rowVars, sessVars, timerVars, fires, check, dismissing, pending, asked>>
      /\ fires = {}
      /\ pc' \in {"warm", "chats", "judge"}
    BY DEF TakeRows, TakeWarm, TakeChats, ListedWhileFiring
<1>2. faults' \in 0 .. MaxFaults
  <2>1. CASE TakeRows
    BY <2>1, ReadsCount DEF TakeRows
  <2>2. CASE TakeWarm
    BY <2>2, ReadsCount DEF TakeWarm
  <2>3. CASE TakeChats
    BY <2>3 DEF TakeChats
  <2> QED BY <2>1, <2>2, <2>3
<1>3. snap' \in Snapshots /\ SnapshotOwned'
  <2>1. CASE TakeRows
    <3>1. snap' \in {RowsRead, EmptySnapshot}
      BY <2>1 DEF TakeRows
    <3>2. RowsRead \in Snapshots /\ EmptySnapshot \in Snapshots
      BY NamesOwned DEF RowsRead, Snapshots, EmptySnapshot
    <3>3. \A w \in Workspaces : RowsRead.chat[w] = NoName /\ EmptySnapshot.chat[w] = NoName
      BY DEF RowsRead, EmptySnapshot
    <3> QED BY <3>1, <3>2, <3>3 DEF SnapshotOwned, HasChat
  <2>2. CASE TakeWarm
    BY <2>2 DEF TakeWarm, Snapshots, SnapshotOwned, HasChat
  <2>3. CASE TakeChats
    <3>1. PICK chat \in [Workspaces -> Names \cup {NoName}] :
             /\ \A w \in Workspaces :
                  IF Candidates(w) = {} THEN chat[w] = NoName ELSE chat[w] \in Candidates(w)
             /\ snap' = [snap EXCEPT !.chat = chat]
      BY <2>3 DEF TakeChats
    <3>2. \A w \in Workspaces : chat[w] # NoName => Owner[chat[w]] = w
      BY <3>1, NamesOwned DEF Candidates, NamesOf
    <3>3. snap'.chat = chat /\ snap' \in Snapshots
      BY <3>1 DEF Snapshots
    <3> QED BY <3>2, <3>3 DEF SnapshotOwned, HasChat
  <2> QED BY <2>1, <2>2, <2>3
<1>4. TypeOK'
    BY <1>1, <1>2, <1>3 DEF rowVars, sessVars, timerVars
<1>5. ForcedWasAsked' /\ FiresJustified' /\ CondemnedForced' /\ ListedWhileFiring'
    BY <1>1 DEF ForcedWasAsked, FiresJustified, CondemnedForced, ListedWhileFiring, timerVars
<1> QED BY <1>3, <1>4, <1>5

(* Judging arms, keeps and drops timers, and lists those that fire; it     *)
(* spares the Active, so that what it lists of those was dismissed.        *)
LEMMA JudgeKeeps ==
    ASSUME Safe, Judge
    PROVE  Safe'
<1> USE DEF Safe, TypeOK
<1>1. /\ UNCHANGED <<rowVars, sessVars, check, faults, dismissing>>
      /\ pc' = "fire" /\ pending' = {}
      /\ snap' = [snap EXCEPT !.stamp = EmptySnapshot.stamp]
      /\ asked' = asked \cap Eligible
      /\ armed' = Eligible
      /\ forced' = (forced \cap Eligible) \cup ((Eligible \ armed) \cap pending)
      /\ ripe' = (ripe \cap Eligible) \ (Eligible \ armed)
      /\ seen' = [w \in Workspaces |->
                    IF w \in Eligible \ armed THEN snap.stamp[w]
                    ELSE IF w \in Eligible THEN seen[w] ELSE 0]
      /\ fires' = Eligible \cap armed \cap ripe
    BY DEF Judge
<1>2. Eligible \in SUBSET Workspaces
    BY DEF Eligible
<1>3. seen' \in [Workspaces -> Nat]
    BY <1>1 DEF Snapshots
<1>4. /\ snap' \in Snapshots /\ UNCHANGED <<snap.active, snap.warm, snap.chat>>
    BY <1>1 DEF Snapshots, EmptySnapshot
<1>5. TypeOK'
    BY <1>1, <1>2, <1>3, <1>4 DEF rowVars, sessVars
<1>6. ForcedWasAsked'
    BY <1>1 DEF ForcedWasAsked
<1>7. FiresJustified'
  <2> SUFFICES ASSUME NEW w \in fires'
               PROVE  HasChat(w) /\ w \notin snap.warm /\ (w \in snap.active => w \in asked)
    BY <1>1, <1>4 DEF FiresJustified, HasChat
  <2>1. w \in Workspaces /\ HasChat(w) /\ ~Spared(w)
    BY <1>1 DEF Eligible
  <2>2. w \in snap.active => w \in forced \cup pending
    BY <2>1 DEF Spared
  <2> QED BY <2>1, <2>2 DEF Spared, ForcedWasAsked
<1>8. SnapshotOwned' /\ CondemnedForced' /\ ListedWhileFiring'
    BY <1>1, <1>4 DEF SnapshotOwned, CondemnedForced, ListedWhileFiring, HasChat
<1> QED BY <1>5, <1>6, <1>7, <1>8

(* The re-check of one timer on the list, which it spares or condemns.     *)
LEMMA FiringKeeps ==
    ASSUME Safe, NEW w \in Workspaces, RecheckRows(w) \/ Skip(w) \/ Condemn(w)
    PROVE  Safe'
<1> USE DEF Safe, TypeOK
<1>1. /\ UNCHANGED <<rowVars, sessVars, snap, dismissing, pending>>
      /\ seen' \in [Workspaces -> Nat] /\ faults' \in 0 .. MaxFaults
      /\ asked' \in SUBSET Workspaces
      /\ \A v \in asked : v \in fires' \cup forced' \cup pending => v \in asked'
      /\ armed' \subseteq armed /\ forced' \subseteq forced \cap armed'
      /\ ripe' \subseteq ripe \cap armed' /\ fires' \subseteq fires \cap armed' \cap ripe'
      /\ pc' \in {"fire", "recheck", "close"}
      /\ check' \in [ws : Workspaces \cup {Nobody}, active : BOOLEAN]
      /\ pc' \in {"recheck", "close"} => check'.ws \in fires'
  <2>1. CASE RecheckRows(w)
    <3>1. PICK found \in {InActiveSet(w), FALSE} :
             Reads(found, InActiveSet(w)) /\ check' = [ws |-> w, active |-> found]
      BY <2>1 DEF RecheckRows
    <3>2. found \in BOOLEAN
      <4>1. InActiveSet(w) \in BOOLEAN
        BY DEF InActiveSet
      <4> HIDE DEF InActiveSet
      <4> QED BY <4>1
    <3>3. check' \in [ws : Workspaces \cup {Nobody}, active : BOOLEAN] /\ check'.ws = w
      BY <3>1, <3>2
    <3>4. faults' \in 0 .. MaxFaults
      BY <3>1, ReadsCount
    <3> QED BY <2>1, <3>3, <3>4 DEF RecheckRows, timerVars
  <2>2. CASE Skip(w)
    BY <2>2 DEF Skip, Disarm, NoCheck
  <2>3. CASE Condemn(w)
    BY <2>3, ReadsCount DEF Condemn, timerVars
  <2> QED BY <2>1, <2>2, <2>3
<1>2. TypeOK'
    BY <1>1 DEF rowVars, sessVars
<1>3. CondemnedForced'
    BY DEF RecheckRows, Skip, Condemn, CondemnedForced, SparedAgain, timerVars
<1>4. ForcedWasAsked' /\ FiresJustified' /\ SnapshotOwned' /\ ListedWhileFiring'
    BY <1>1 DEF ForcedWasAsked, FiresJustified, SnapshotOwned, ListedWhileFiring, HasChat
<1> QED BY <1>2, <1>3, <1>4

(* Closing one session of those listed.                                    *)
LEMMA CloseKeeps ==
    ASSUME Safe, NEW w \in Workspaces, Close(w)
    PROVE  Safe'
<1> USE DEF Safe, TypeOK
<1>1. /\ UNCHANGED <<rowVars, spawns, snap, faults, dismissing, pending>>
      /\ seen' \in [Workspaces -> Nat]
      /\ live' \in SUBSET Names
      /\ armed' = armed \ {w} /\ forced' = forced \ {w}
      /\ ripe' = ripe \ {w} /\ fires' = fires \ {w}
      /\ pc' = "fire" /\ check' = NoCheck
      /\ asked' \in SUBSET Workspaces
      /\ \A v \in asked : v # w \/ v \in pending => v \in asked'
    BY DEF Close, Disarm
<1>2. TypeOK'
    BY <1>1 DEF rowVars, NoCheck
<1>3. ForcedWasAsked' /\ FiresJustified'
    BY <1>1 DEF ForcedWasAsked, FiresJustified, HasChat
<1>4. SnapshotOwned' /\ CondemnedForced' /\ ListedWhileFiring'
    BY <1>1 DEF SnapshotOwned, CondemnedForced, ListedWhileFiring, HasChat
<1> QED BY <1>2, <1>3, <1>4

(* The end of a pass forgets the snapshot and what it listed.              *)
LEMMA PassEndsKeeps ==
    ASSUME Safe, PassEnds
    PROVE  Safe'
<1> USE DEF Safe, TypeOK
<1>1. /\ UNCHANGED <<rowVars, sessVars, timerVars, fires, check, faults, dismissing, pending, asked>>
      /\ fires = {} /\ pc' = "asleep" /\ snap' = EmptySnapshot
    BY DEF PassEnds
<1>2. TypeOK' /\ SnapshotOwned'
    BY <1>1 DEF rowVars, sessVars, timerVars, EmptySnapshot, Snapshots, SnapshotOwned, HasChat
<1>3. ForcedWasAsked' /\ FiresJustified' /\ CondemnedForced' /\ ListedWhileFiring'
    BY <1>1 DEF ForcedWasAsked, FiresJustified, CondemnedForced, ListedWhileFiring, timerVars
<1> QED BY <1>2, <1>3

(* A stutter.                                                              *)
LEMMA StutterKeeps == Safe /\ UNCHANGED vars => Safe'
BY DEF vars, rowVars, sessVars, timerVars, passVars, Safe, TypeOK, ForcedWasAsked,
   FiresJustified, SnapshotOwned, CondemnedForced, ListedWhileFiring, HasChat

(* Every action keeps Safe, the cases in the lemmas above.                 *)
LEMMA StepSafe == Safe /\ [Next]_vars => Safe'
<1> SUFFICES ASSUME Safe, [Next]_vars PROVE Safe'
    OBVIOUS
<1>1. CASE Requests
    BY <1>1, RequestsKeep
<1>2. CASE Sessions \/ Time
    BY <1>2, OthersKeep
<1>3. CASE Reaper
    BY <1>3, SnapshotKeeps, JudgeKeeps, FiringKeeps, CloseKeeps, PassEndsKeeps DEF Reaper
<1>4. CASE UNCHANGED vars
    BY <1>4, StutterKeeps
<1> QED BY <1>1, <1>2, <1>3, <1>4 DEF Next

(* Safe always holds.                                                      *)
LEMMA AlwaysSafe == Spec => []Safe
BY InitSafe, StepSafe, PTL DEF Spec

(* Every variable keeps its type.                                          *)
THEOREM ReaperTypes == Spec => []TypeOK
<1>1. Safe => TypeOK
    BY DEF Safe
<1> QED BY <1>1, AlwaysSafe, PTL

(* active_reaper.rs:96-108: a timer is forced, and one to come will be,    *)
(* because of a dismissal of that workspace no close has yet been made for.*)
THEOREM ForcedAsked == Spec => []ForcedWasAsked
<1>1. Safe => ForcedWasAsked
    BY DEF Safe
<1> QED BY <1>1, AlwaysSafe, PTL

(* active_reaper.rs:13-18: what a pass is about to close had a session and *)
(* no heartbeat, and was outside the Active set or dismissed.              *)
THEOREM ReaperSafe == Spec => []FiresJustified
<1>1. Safe => FiresJustified
    BY DEF Safe
<1> QED BY <1>1, AlwaysSafe, PTL

(* No session of a workspace in the Active set is closed but for a         *)
(* dismissal of that workspace, and one of another workspace never.        *)
THEOREM ReaperJustified == Spec => ReapIsJustified
<1>1. ASSUME Safe, [Next]_vars, NEW w \in Workspaces, ClosesFor(w)
      PROVE  (check.active => w \in asked) /\ Owner[snap.chat[w]] = w
  <2>1. w \in fires /\ HasChat(w)
    BY <1>1 DEF ClosesFor, Safe, TypeOK, FiresJustified
  <2>2. check.active => w \in forced
    BY <1>1 DEF ClosesFor, Safe, CondemnedForced
  <2> QED BY <1>1, <2>1, <2>2 DEF Safe, ForcedWasAsked, SnapshotOwned
<1>2. Safe /\ [Next]_vars =>
        [\A w \in Workspaces : ClosesFor(w) =>
            /\ check.active => w \in asked
            /\ Owner[snap.chat[w]] = w]_vars
    BY <1>1
<1> QED BY <1>2, InitSafe, StepSafe, PTL DEF Spec, ReapIsJustified
=============================================================================
