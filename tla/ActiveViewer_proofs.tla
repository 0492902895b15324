------------------------ MODULE ActiveViewer_proofs ------------------------
(***************************************************************************)
(* One viewer drives: the claim has a living connection behind it, and the *)
(* terminal the size its holder asked for, unless a request overrode it.   *)
(* For any viewers, requests and sizes.                                    *)
(***************************************************************************)
EXTENDS ActiveViewer, TLAPS

(* ActiveDrives is about the moments nobody resizes.  What leads there: a  *)
(* resize that is not crossed is alone; a viewer's is the holder's, if the *)
(* holder has asked for anything, and it sets the size that the holder has *)
(* asked for, the child's first.                                           *)
OneResize == ~crossed => \A u, v \in Resizing : u = v

Drive ==
    ~crossed /\ ~overridden /\ active # Unclaimed /\ asked[active] # None =>
        /\ Resizing \subseteq {active}
        /\ active \in Resizing =>
             /\ want[active] = asked[active]
             /\ pc[active] = "reshape" => window = want[active]
        /\ active \notin Resizing => window = asked[active] /\ term = asked[active]

Safe == TypeOK /\ ClaimIsLive /\ OneResize /\ Drive

(* What the inductive invariant is there for.                              *)
LEMMA SafeMeans == Safe => TypeOK /\ ClaimIsLive /\ ActiveDrives
BY DEF Safe, Drive, ActiveDrives

(* At first nobody has a claim and no size is recorded.                    *)
LEMMA InitSafe == Init => Safe
BY UnclaimedIsNoId, SizesAreSizes
   DEF Init, Safe, TypeOK, ClaimIsLive, OneResize, Drive, Resizing, Handlers, Sized, None

(* A handler that takes a size to the session: the claim is v's already,   *)
(* or nobody's.                                                            *)
LEMMA DrivesKeeps ==
    ASSUME Safe, NEW v \in Viewers, NEW s \in Sized, pc[v] = "ready",
           active' = v \/ (active' = active /\ active \in {Unclaimed, v}),
           Drives(v, s), my' \in [Viewers -> Sized],
           UNCHANGED <<recorded, window, term>>
    PROVE  Safe'
<1> USE DEF Safe, TypeOK, Handlers
<1>1. CASE s = None
  <2>1. UNCHANGED <<pc, want, crossed, overridden, Resizing>> /\ asked' = [asked EXCEPT ![v] = None]
    BY <1>1 DEF Drives, Resizing
  <2>2. TypeOK'
    BY <2>1 DEF Sized
  <2>3. ClaimIsLive' /\ OneResize'
    BY <2>1, UnclaimedIsNoId DEF ClaimIsLive, OneResize
  <2>4. Drive'
    BY <2>1 DEF Drive
  <2> QED BY <2>2, <2>3, <2>4
<1>2. CASE s # None
  <2>1. /\ asked' = [asked EXCEPT ![v] = s] /\ want' = [want EXCEPT ![v] = s]
        /\ pc' = [pc EXCEPT ![v] = "record"] /\ crossed' = (Resizing # {}) /\ overridden' = FALSE
    BY <1>2 DEF Drives, Goto
  <2>2. s \in Sizes
    BY <1>2 DEF Sized
  <2>3. Resizing' = Resizing \cup {v} /\ v \notin Resizing
    BY <2>1 DEF Resizing
  <2>4. TypeOK'
    <3>1. pc' \in [Handlers -> {"away", "ready", "record", "notify", "reshape",
                                "release", "leave", "gone"}]
      BY <2>1
    <3>2. /\ want' \in [Handlers -> Sized] /\ asked' \in [Viewers -> Sized]
          /\ \A h \in Resizing' : want'[h] \in Sizes
      BY <2>1, <2>2, <2>3 DEF Sized
    <3>3. crossed' \in BOOLEAN /\ overridden' \in BOOLEAN
      BY <2>1
    <3> QED BY <3>1, <3>2, <3>3
  <2>5. ClaimIsLive' /\ OneResize'
    BY <2>1, <2>3, UnclaimedIsNoId DEF ClaimIsLive, OneResize
  <2>6. Drive'
    BY <2>1, <2>3 DEF Drive
  <2> QED BY <2>4, <2>5, <2>6
<1> QED BY <1>1, <1>2

(* A handler that moves on without touching a size.                        *)
LEMMA MovesKeeps ==
    ASSUME Safe, NEW v \in Viewers,
           UNCHANGED <<window, term, want, crossed, overridden>>,
           recorded' \in Sized, my' \in [Viewers -> Sized], asked' \in [Viewers -> Sized],
           \A u \in Viewers : u = active' => asked'[u] = asked[u],
           NEW step \in {"away", "ready", "record", "notify", "release", "leave", "gone"},
           pc' = [pc EXCEPT ![v] = step],
           step \in {"record", "notify"} <=> v \in Resizing, pc[v] # "reshape",
           active' = active \/ active' = Unclaimed,
           active' = v => step \notin {"away", "gone"}
    PROVE  Safe'
<1> USE DEF Safe, TypeOK, Handlers
<1>1. Resizing' = Resizing
    BY DEF Resizing
<1>2. TypeOK'
    BY <1>1
<1>3. ClaimIsLive' /\ OneResize' /\ Drive'
    BY <1>1 DEF ClaimIsLive, OneResize, Drive
<1> QED BY <1>2, <1>3

(* The notice of a resize changes nothing of the claim.                    *)
LEMMA NotifyKeeps ==
    ASSUME Safe, NEW h \in Handlers, Notify(h)
    PROVE  Safe'
<1> USE DEF Safe, TypeOK, Handlers
<1>1. Resizing' = Resizing /\ h \in Resizing
    BY DEF Notify, Goto, Resizing
<1>2. TypeOK' /\ ClaimIsLive' /\ OneResize'
    BY <1>1 DEF Notify, Goto, ClaimIsLive, OneResize
<1>3. Drive'
    BY <1>1 DEF Notify, Goto, Drive
<1> QED BY <1>2, <1>3

(* The terminal takes the size its viewer asked for.                       *)
LEMMA ReshapeKeeps ==
    ASSUME Safe, NEW h \in Handlers, Reshape(h)
    PROVE  Safe'
<1> USE DEF Safe, TypeOK, Handlers
<1>1. Resizing' = Resizing \ {h} /\ h \in Resizing /\ want[h] \in Sizes
    BY DEF Reshape, Goto, Resizing
<1>2. TypeOK' /\ ClaimIsLive' /\ OneResize'
    BY <1>1 DEF Reshape, Goto, ClaimIsLive, OneResize, Sized, None
<1>3. Drive'
    BY <1>1 DEF Reshape, Goto, Drive
<1> QED BY <1>2, <1>3

(* A request's resize is alone, or crosses what runs; it is no viewer's.   *)
LEMMA OverrideKeeps ==
    ASSUME Safe, NEW r \in Requests, NEW s \in Sizes, Override(r, s)
    PROVE  Safe'
<1> USE DEF Safe, TypeOK, Handlers
<1>1. Resizing' = Resizing \cup {r} /\ r \notin Resizing
    BY DEF Override, Goto, Resizing
<1>2. TypeOK'
  <2>1. pc' \in [Handlers -> {"away", "ready", "record", "notify", "reshape",
                              "release", "leave", "gone"}]
    BY DEF Override, Goto
  <2>2. want' \in [Handlers -> Sized] /\ \A h \in Resizing' : want'[h] \in Sizes
    BY <1>1 DEF Override, Sized
  <2>3. crossed' \in BOOLEAN /\ overridden' \in BOOLEAN
    BY DEF Override
  <2> QED BY <2>1, <2>2, <2>3 DEF Override
<1>3. ClaimIsLive' /\ OneResize'
    BY <1>1 DEF Override, Goto, ClaimIsLive, OneResize
<1>4. Drive'
    BY DEF Override, Drive
<1> QED BY <1>2, <1>3, <1>4

(* Every step keeps the invariant.                                         *)
LEMMA StepSafe == Safe /\ [Next]_vars => Safe'
<1> SUFFICES ASSUME Safe, [Next]_vars PROVE Safe'
    OBVIOUS
<1> USE DEF Goto
<1>1. ASSUME NEW v \in Viewers, Connect(v) PROVE Safe'
  <2> QED BY <1>1, MovesKeeps DEF Connect, Safe, TypeOK, Resizing, Handlers
<1>2. ASSUME NEW v \in Viewers, Record(v) PROVE Safe'
  <2>1. want[v] \in Sized
    BY <1>2 DEF Record, Safe, TypeOK, Handlers
  <2> QED BY <1>2, <2>1, MovesKeeps DEF Record, Safe, TypeOK, Resizing, Handlers
<1>3. ASSUME NEW v \in Viewers, Release(v) \/ Leave(v) PROVE Safe'
  <2> QED BY <1>3, MovesKeeps DEF Release, Leave, Safe, TypeOK, Resizing, Handlers
<1>4. ASSUME NEW v \in Viewers, Clear(v) PROVE Safe'
  <2> DEFINE step == IF pc[v] = "release" THEN "ready" ELSE "gone"
  <2>1. /\ UNCHANGED <<recorded, window, term, want, crossed, overridden>>
        /\ pc' = [pc EXCEPT ![v] = step] /\ pc[v] \in {"release", "leave"}
        /\ active' = IF active = v THEN Unclaimed ELSE active
        /\ asked' = [asked EXCEPT ![v] = None]
        /\ my' = my \/ my' = [my EXCEPT ![v] = None]
    BY <1>4 DEF Clear, Withdraw
  <2>2. step \in {"ready", "gone"} /\ active' # v
    BY <2>1, UnclaimedIsNoId
  <2>3. /\ v \notin Resizing /\ recorded' \in Sized
        /\ my' \in [Viewers -> Sized] /\ asked' \in [Viewers -> Sized]
        /\ \A u \in Viewers \ {v} : asked'[u] = asked[u]
    BY <2>1 DEF Resizing, Safe, TypeOK, Sized
  <2> HIDE DEF step
  <2> QED BY <2>1, <2>2, <2>3, MovesKeeps
<1>5. ASSUME NEW v \in Viewers, NEW s \in Sizes \cup {None}, Claim(v, s) PROVE Safe'
  <2> QED BY <1>5, DrivesKeeps DEF Claim, Safe, TypeOK, Sized
<1>6. ASSUME NEW v \in Viewers, Input(v) PROVE Safe'
  <2>1. my[v] \in Sized
    BY DEF Safe, TypeOK
  <2> QED BY <1>6, <2>1, DrivesKeeps DEF Input, Safe, TypeOK
<1>7. ASSUME NEW v \in Viewers, NEW s \in Sizes, Resize(v, s) PROVE Safe'
  <2>1. s \in Sized /\ my' \in [Viewers -> Sized]
    BY <1>7 DEF Resize, Sized, Safe, TypeOK
  <2>2. CASE active \in {Unclaimed, v}
    BY <1>7, <2>1, <2>2, DrivesKeeps DEF Resize
  <2>3. CASE active \notin {Unclaimed, v}
    <3>1. UNCHANGED <<active, recorded, window, term, pc, want, asked, crossed, overridden, Resizing>>
      BY <1>7, <2>3 DEF Resize, Resizing
    <3> QED BY <2>1, <3>1 DEF Safe, TypeOK, ClaimIsLive, OneResize, Drive
  <2> QED BY <2>2, <2>3
<1>8. CASE UNCHANGED vars
  <2>1. UNCHANGED Resizing
    BY <1>8 DEF vars, Resizing
  <2> QED BY <1>8, <2>1 DEF vars, Safe, TypeOK, ClaimIsLive, OneResize, Drive
<1> QED BY <1>1, <1>2, <1>3, <1>4, <1>5, <1>6, <1>7, <1>8, NotifyKeeps, ReshapeKeeps, OverrideKeeps
        DEF Next, Handling

(* It holds in every reachable state.                                      *)
LEMMA AlwaysSafe == Spec => []Safe
BY InitSafe, StepSafe, PTL DEF Spec

(* Every variable keeps its type. *)
THEOREM ViewerTypes == Spec => []TypeOK
BY SafeMeans, AlwaysSafe, PTL

(* sessions_grid_ws.rs:778-787: no claim outlives its connection.          *)
THEOREM ClaimsLive == Spec => []ClaimIsLive
BY SafeMeans, AlwaysSafe, PTL

(* sessions_grid_ws.rs:198-257: no other viewer has a say in the size      *)
(* while one is active; a request (terminal_routes.rs:341) has, until a    *)
(* viewer next resizes or claims.                                          *)
THEOREM HolderDrives == Spec => []ActiveDrives
BY SafeMeans, AlwaysSafe, PTL

(* sessions_grid_ws.rs:206-207: nobody else's release clears a claim.      *)
THEOREM ClaimsKept == Spec => ClaimIsKept
<1>1. TypeOK /\ [Next]_vars =>
        [\A v \in Viewers :
            active = v /\ active' = Unclaimed => pc[v] \in {"release", "leave"}]_vars
  <2> SUFFICES ASSUME TypeOK, Next, NEW v \in Viewers, active = v, active' = Unclaimed
               PROVE  pc[v] \in {"release", "leave"}
    OBVIOUS
  <2> QED BY UnclaimedIsNoId
          DEF Next, Handling, Connect, Input, Record, Notify, Reshape, Release, Leave, Clear,
              Claim, Resize, Override
<1> QED BY <1>1, ViewerTypes, PTL DEF Spec, ClaimIsKept
=============================================================================
