---------------------------- MODULE ActiveViewer ----------------------------
(***************************************************************************)
(* Who drives the size of a terminal several viewers look at: the claim in *)
(* a session's active_subscriber and the Input, Resize and SetActive       *)
(* messages of the grid-WS connections (k2-daemon sessions_grid_ws.rs),    *)
(* and the HTTP route that resizes without a look at the claim             *)
(* (terminal_routes.rs), down to DaemonPtySession::resize (k2-core         *)
(* terminal/daemon_pty.rs).                                                *)
(*                                                                         *)
(* A connection handles its messages one after the other, and connections  *)
(* and requests run in parallel.  A connection's id is its own, and stored *)
(* by nobody else: to load the claim and then store the id, or not, is one *)
(* step.  The sizes are columns and rows together, 0 is no size.           *)
(***************************************************************************)
EXTENDS Naturals

CONSTANTS Viewers,  \* subscriber ids: one for every connection there ever is
          Requests, \* requests to /cli/sessions/resize that may run at a time
          Sizes,    \* the sizes they ask for
          Unclaimed \* no subscriber's id

ASSUME UnclaimedIsNoId == Unclaimed \notin Viewers
ASSUME RequestsAreNoViewers == Requests \cap Viewers = {}
ASSUME SizesAreSizes == Sizes \subseteq Nat \ {0}

VARIABLES
    active,    \* active_subscriber
    recorded,  \* active_cols and active_rows
    window,    \* the size the kernel has told the child
    term,      \* the size of the grid
    pc,        \* where a connection or a request is in its handler
    my,        \* my_cols and my_rows: a connection's last Resize
    want,      \* the size a handler is about to set
    asked,     \* history: a viewer's size the session last took
    crossed,   \* history: the last resize began while another ran
    overridden \* history: the last resize was a request's

vars == <<active, recorded, window, term, pc, my, want, asked, crossed, overridden>>

None == 0

Handlers == Viewers \cup Requests

Init ==
    /\ active = Unclaimed /\ recorded = None
    /\ \E s \in Sizes : window = s /\ term = s
    /\ pc = [h \in Handlers |-> IF h \in Viewers THEN "away" ELSE "ready"]
    /\ my = [v \in Viewers |-> None] /\ want = [h \in Handlers |-> None]
    /\ asked = [v \in Viewers |-> None]
    /\ crossed = FALSE /\ overridden = FALSE

-----------------------------------------------------------------------------

Goto(h, step) == pc' = [pc EXCEPT ![h] = step]

Resizing == {h \in Handlers : pc[h] \in {"record", "notify", "reshape"}}

(* Mutant: no size is a size.                                              *)
DrivesBlind(v, s) ==
    /\ asked' = [asked EXCEPT ![v] = s]
    /\ Goto(v, "record") /\ want' = [want EXCEPT ![v] = s]
    /\ crossed' = (Resizing # {}) /\ overridden' = FALSE

(* A handler goes on to resize to s, which is what the session now owes    *)
(* its viewer; or there is no size to go by.                               *)
Drives(v, s) ==
    /\ asked' = [asked EXCEPT ![v] = s]
    /\ IF s = None
       THEN UNCHANGED <<pc, want, crossed, overridden>>
       ELSE /\ Goto(v, "record") /\ want' = [want EXCEPT ![v] = s]
            /\ crossed' = (Resizing # {}) /\ overridden' = FALSE

Connect(v) ==
    /\ pc[v] = "away" /\ Goto(v, "ready")
    /\ UNCHANGED <<active, recorded, window, term, my, want, asked, crossed, overridden>>

(* SetActive with active: the most recent claim wins, an old client's      *)
(* without a size.  Whoever has the claim already does nothing.            *)
Claim(v, s) ==
    /\ pc[v] = "ready" /\ active # v
    /\ active' = v
    /\ Drives(v, s)
    /\ UNCHANGED <<recorded, window, term, my>>

(* Input: to type is to claim, at the size of one's last Resize.           *)
Input(v) ==
    /\ pc[v] = "ready" /\ active # v
    /\ active' = v
    /\ Drives(v, my[v])
    /\ UNCHANGED <<recorded, window, term, my>>

(* Mutant: any viewer resizes.                                             *)
ResizeUngated(v, s) ==
    /\ pc[v] = "ready"
    /\ my' = [my EXCEPT ![v] = s]
    /\ Drives(v, s)
    /\ UNCHANGED <<active, recorded, window, term>>

Resize(v, s) ==
    /\ pc[v] = "ready"
    /\ my' = [my EXCEPT ![v] = s]
    /\ IF active \in {Unclaimed, v}
       THEN Drives(v, s)
       ELSE UNCHANGED <<pc, want, asked, crossed, overridden>>
    /\ UNCHANGED <<active, recorded, window, term>>

(* /cli/sessions/resize: whoever has the claim is not asked, and the size  *)
(* is not stored as the active viewer's.                                   *)
Override(r, s) ==
    /\ pc[r] = "ready" /\ Goto(r, "notify")
    /\ want' = [want EXCEPT ![r] = s]
    /\ crossed' = (Resizing # {}) /\ overridden' = TRUE
    /\ UNCHANGED <<active, recorded, window, term, my, asked>>

(* active_cols and active_rows are stored; then resize.                    *)
Record(v) ==
    /\ pc[v] = "record" /\ Goto(v, "notify")
    /\ recorded' = want[v]
    /\ UNCHANGED <<active, window, term, my, want, asked, crossed, overridden>>

(* DaemonPtySession::resize: SIGWINCH under one lock, the grid under       *)
(* another.                                                                *)
Notify(h) ==
    /\ pc[h] = "notify" /\ Goto(h, "reshape")
    /\ window' = want[h]
    /\ UNCHANGED <<active, recorded, term, my, want, asked, crossed, overridden>>

Reshape(h) ==
    /\ pc[h] = "reshape" /\ Goto(h, "ready")
    /\ term' = want[h]
    /\ want' = [want EXCEPT ![h] = None]
    /\ UNCHANGED <<active, recorded, window, my, asked, crossed, overridden>>

(* SetActive without active: whoever has the claim clears it, unless it    *)
(* was taken since.                                                        *)
Release(v) ==
    /\ pc[v] = "ready" /\ active = v /\ Goto(v, "release")
    /\ UNCHANGED <<active, recorded, window, term, my, want, asked, crossed, overridden>>

(* The connection ends.                                                    *)
Leave(v) ==
    /\ pc[v] = "ready" /\ Goto(v, "leave")
    /\ UNCHANGED <<active, recorded, window, term, my, want, asked, crossed, overridden>>

(* What v leaves behind: it is owed no size; a connection's variables go   *)
(* with it.                                                                *)
Withdraw(v) ==
    /\ asked' = [asked EXCEPT ![v] = None]
    /\ \/ pc[v] = "release" /\ Goto(v, "ready") /\ UNCHANGED my
       \/ pc[v] = "leave" /\ Goto(v, "gone") /\ my' = [my EXCEPT ![v] = None]

(* Mutants: the claim is cleared whoever has it; it is not cleared.        *)
ClearBlind(v) ==
    /\ pc[v] \in {"release", "leave"}
    /\ active' = Unclaimed
    /\ Withdraw(v)
    /\ UNCHANGED <<recorded, window, term, want, crossed, overridden>>

ClearNot(v) ==
    /\ pc[v] \in {"release", "leave"}
    /\ Withdraw(v)
    /\ UNCHANGED <<active, recorded, window, term, want, crossed, overridden>>

(* The compare_exchange of both.                                           *)
Clear(v) ==
    /\ pc[v] \in {"release", "leave"}
    /\ active' = IF active = v THEN Unclaimed ELSE active
    /\ Withdraw(v)
    /\ UNCHANGED <<recorded, window, term, want, crossed, overridden>>

Handling(v) ==
    \/ Connect(v) \/ Input(v) \/ Record(v)
    \/ Release(v) \/ Leave(v) \/ Clear(v)
    \/ \E s \in Sizes \cup {None} : Claim(v, s)
    \/ \E s \in Sizes : Resize(v, s)

Next == \/ \E v \in Viewers : Handling(v)
        \/ \E r \in Requests : \E s \in Sizes : Override(r, s)
        \/ \E h \in Handlers : Notify(h) \/ Reshape(h)

Spec == Init /\ [][Next]_vars

-----------------------------------------------------------------------------
(* Properties *)

Sized == Sizes \cup {None}

TypeOK ==
    /\ active \in Viewers \cup {Unclaimed}
    /\ recorded \in Sized /\ window \in Sizes /\ term \in Sizes
    /\ pc \in [Handlers -> {"away", "ready", "record", "notify", "reshape",
                            "release", "leave", "gone"}]
    /\ my \in [Viewers -> Sized] /\ want \in [Handlers -> Sized] /\ asked \in [Viewers -> Sized]
    /\ \A h \in Resizing : want[h] \in Sizes
    /\ crossed \in BOOLEAN /\ overridden \in BOOLEAN

(* daemon_pty.rs:272-281: a claim has a living connection behind it.  One  *)
(* that had none would keep every other viewer from sizing the terminal    *)
(* until somebody typed.                                                   *)
ClaimIsLive ==
    active # Unclaimed => pc[active] \notin {"away", "gone"}

(* sessions_grid_ws.rs:206-207, 778-787: a viewer's claim ends when it     *)
(* gives it up itself, or another viewer claims; a release that was        *)
(* overtaken clears nobody's.                                              *)
ClaimIsKept ==
    [][\A v \in Viewers :
          active = v /\ active' = Unclaimed => pc[v] \in {"release", "leave"}]_vars

(* sessions_grid_ws.rs:198-205, 660-672: among viewers the active one      *)
(* drives the size: when nobody is resizing, child and grid have the size  *)
(* of its last Resize or claim.  It is not said of a last resize that      *)
(* crossed another, nor after one from the route, which overrides the      *)
(* active viewer until it resizes again or another claims.                 *)
ActiveDrives ==
    (active # Unclaimed /\ asked[active] # None /\ Resizing = {} /\ ~crossed /\ ~overridden)
        => window = asked[active] /\ term = asked[active]

=============================================================================
