--------------------------- MODULE SessionEvents ---------------------------
(***************************************************************************)
(* The lifecycle events of sessions, from the registry to the tabs of a    *)
(* window: the emission of register and unregister (k2-daemon              *)
(* v2_session_map.rs), the broadcast channel (session_events.rs), the      *)
(* WebSocket task of a subscriber (session_events_ws.rs), and the windows  *)
(* that adopt and drop tabs (renderer stores/tabs.ts,                      *)
(* session-events.ts).                                                     *)
(*                                                                         *)
(* A handler changes the map in one step and emits in a later one, so      *)
(* those of two handlers may cross.  A window reads the list of sessions   *)
(* before it subscribes and again at every hello, by requests whose        *)
(* answers cross the events on the socket.  The buffer of the channel and  *)
(* the socket behind it are one queue of capacity Cap.  Tabs a window      *)
(* opens or closes by itself are left out.                                 *)
(***************************************************************************)
EXTENDS Naturals, Sequences, FiniteSets

CONSTANTS Names,     \* tabs' sessions, all in the windows' workspace
          Windows,   \* subscribers with the workspace's path
          Apps,      \* subscribers with an empty path
          Cap,       \* EVENT_CHANNEL_CAP
          MaxOps,    \* bound on registrations and removals
          MaxDrops   \* bound on connections and requests lost

Clients == Windows \cup Apps

ASSUME ClientsDistinct == Windows \cap Apps = {}
ASSUME Bounds == Cap \in Nat \ {0} /\ MaxOps \in Nat /\ MaxDrops \in Nat

VARIABLES
    live,     \* the registry's names
    ops,      \* registrations and removals so far
    newest,   \* history: the latest change of a name that was emitted
    unsent,   \* events of handlers that are past the map, not at the channel
    mode,     \* a client's socket: loading, down, refused, attached
    queue,    \* what is on its way to a client
    fetches,  \* its requests for the list: their number, and the answer
    greeted,  \* how many requests it made
    drops,    \* connections and requests lost so far
    tabs,     \* the tabs it shows
    excused   \* history: names whose events it lost or got out of order,
              \* or that a list it did not get would have shown

serverVars == <<live, ops, newest, unsent>>
clientVars == <<fetches, greeted, tabs>>
vars == <<serverVars, clientVars, mode, queue, drops, excused>>

(* A request for the list of sessions, on its way to the daemon.           *)
Request(i) == [id |-> i, answered |-> FALSE, list |-> {}]

Event(kind, n) == [kind |-> kind, name |-> n, op |-> ops]

Init ==
    /\ live = {} /\ ops = 0 /\ unsent = {}
    /\ newest = [n \in Names |-> 0]
    /\ mode = [c \in Clients |-> IF c \in Windows THEN "loading" ELSE "down"]
    /\ queue = [c \in Clients |-> <<>>]
    /\ fetches = [c \in Clients |->
                    IF c \in Windows THEN {Request(0)} ELSE {}]
    /\ greeted = [c \in Clients |-> 0]
    /\ drops = 0
    /\ tabs = [c \in Clients |-> {}]
    /\ excused = [c \in Clients |-> {}]

-----------------------------------------------------------------------------
(* The daemon *)

Register(n) ==
    /\ ops < MaxOps
    /\ live' = live \cup {n}
    /\ ops' = ops + 1
    /\ unsent' = unsent \cup {Event("session_added", n)}
    /\ UNCHANGED <<newest, clientVars, mode, queue, drops, excused>>

Unregister(n) ==
    /\ n \in live /\ ops < MaxOps
    /\ live' = live \ {n}
    /\ ops' = ops + 1
    /\ unsent' = unsent \cup {Event("session_removed", n)}
    /\ UNCHANGED <<newest, clientVars, mode, queue, drops, excused>>

(* Mutant: a channel without a capacity. *)
PushUnbounded(q, e) == Append(q, e)

(* The channel: a full buffer loses its oldest event, and the task of the  *)
(* subscriber that finds out goes on with the next.                        *)
Push(q, e) == IF Len(q) < Cap THEN Append(q, e) ELSE Append(Tail(q), e)

LostBy(q) == IF Len(q) = Cap THEN {Head(q).name} ELSE {}

Subscribed(c) == mode[c] \in {"greeting", "attached"}

(* A later change of the name has been emitted already.                    *)
Late(e) == e.op < newest[e.name]

Emit(e) ==
    /\ unsent' = unsent \ {e}
    /\ queue' = [c \in Clients |->
                   IF Subscribed(c) THEN Push(queue[c], e) ELSE queue[c]]
    /\ excused' = [c \in Clients |->
                     IF Subscribed(c)
                     THEN excused[c] \cup LostBy(queue[c])
                                     \cup (IF Late(e) THEN {e.name} ELSE {})
                     ELSE excused[c]]
    /\ newest' = [newest EXCEPT ![e.name] = IF Late(e) THEN @ ELSE e.op]
    /\ UNCHANGED <<live, ops, clientVars, mode, drops>>

(* The handshake: subscribe, then the hello.                               *)
Attach(c) ==
    /\ mode[c] = "down" /\ c \in Windows
    /\ mode' = [mode EXCEPT ![c] = "greeting"]
    /\ excused' = [excused EXCEPT ![c] = {}]
    /\ UNCHANGED <<serverVars, clientVars, queue, drops>>

(* A request without a path is answered with an error and closed.          *)
Refuse(c) ==
    /\ mode[c] = "down" /\ c \in Apps
    /\ mode' = [mode EXCEPT ![c] = "refused"]
    /\ UNCHANGED <<serverVars, clientVars, queue, drops, excused>>

(* GET /cli/sessions/list-for-workspace *)
Answer(c) ==
    \E f \in fetches[c] :
        /\ ~f.answered
        /\ fetches' = [fetches EXCEPT ![c] = (@ \ {f}) \cup {[f EXCEPT !.answered = TRUE, !.list = live]}]
        /\ UNCHANGED <<serverVars, greeted, tabs, mode, queue, drops, excused>>

-----------------------------------------------------------------------------
(* The renderer *)

Backoff(c) ==
    /\ mode[c] = "refused"
    /\ mode' = [mode EXCEPT ![c] = "down"]
    /\ UNCHANGED <<serverVars, clientVars, queue, drops, excused>>

Drop(c) ==
    /\ Subscribed(c) /\ drops < MaxDrops
    /\ mode' = [mode EXCEPT ![c] = "down"]
    /\ queue' = [queue EXCEPT ![c] = <<>>]
    /\ drops' = drops + 1
    /\ UNCHANGED <<serverVars, clientVars, excused>>

(* Mutant: only the first hello reads the list.                            *)
GreetOnce(c) ==
    /\ mode[c] = "greeting"
    /\ mode' = [mode EXCEPT ![c] = "attached"]
    /\ greeted' = [greeted EXCEPT ![c] = @ + 1]
    /\ fetches' = [fetches EXCEPT ![c] =
         IF greeted[c] > 0 THEN @ ELSE @ \cup {Request(1)}]
    /\ UNCHANGED <<serverVars, queue, tabs, drops, excused>>

Greet(c) ==
    /\ mode[c] = "greeting"
    /\ mode' = [mode EXCEPT ![c] = "attached"]
    /\ greeted' = [greeted EXCEPT ![c] = @ + 1]
    /\ fetches' = [fetches EXCEPT ![c] = @ \cup {Request(greeted[c] + 1)}]
    /\ UNCHANGED <<serverVars, queue, tabs, drops, excused>>

Receive(c) ==
    /\ mode[c] = "attached" /\ queue[c] # <<>>
    /\ queue' = [queue EXCEPT ![c] = Tail(@)]
    /\ LET e == Head(queue[c]) IN
       tabs' = [tabs EXCEPT ![c] =
                  IF e.kind = "session_added" THEN @ \cup {e.name} ELSE @ \ {e.name}]
    /\ UNCHANGED <<serverVars, fetches, greeted, mode, drops, excused>>

(* Mutant: the list replaces the tabs.                                     *)
AdoptReplaces(c) ==
    \E f \in fetches[c] :
        /\ f.answered
        /\ fetches' = [fetches EXCEPT ![c] = @ \ {f}]
        /\ tabs' = [tabs EXCEPT ![c] = f.list]
        /\ mode' = [mode EXCEPT ![c] = IF @ = "loading" THEN "down" ELSE @]
        /\ UNCHANGED <<serverVars, greeted, queue, drops, excused>>

(* A list is adopted: tabs are added, none dropped; the one read while the *)
(* workspace loads is followed by the subscription.                        *)
Adopt(c) ==
    \E f \in fetches[c] :
        /\ f.answered
        /\ fetches' = [fetches EXCEPT ![c] = @ \ {f}]
        /\ tabs' = [tabs EXCEPT ![c] = @ \cup f.list]
        /\ mode' = [mode EXCEPT ![c] = IF @ = "loading" THEN "down" ELSE @]
        /\ UNCHANGED <<serverVars, greeted, queue, drops, excused>>

(* The request fails: a window that loads subscribes nevertheless, and one *)
(* that was greeted goes on without the list.  Nothing asks again before   *)
(* the next hello: what the list would have added is excused.              *)
FetchFails(c) ==
    \E f \in fetches[c] :
        /\ ~f.answered /\ drops < MaxDrops
        /\ fetches' = [fetches EXCEPT ![c] = @ \ {f}]
        /\ mode' = [mode EXCEPT ![c] = IF @ = "loading" THEN "down" ELSE @]
        /\ excused' = [excused EXCEPT ![c] = @ \cup (live \ tabs[c])]
        /\ drops' = drops + 1
        /\ UNCHANGED <<serverVars, greeted, queue, tabs>>

Daemon == \E n \in Names : Register(n) \/ Unregister(n)

Sent == \E e \in unsent : Emit(e)

Client(c) ==
    \/ Attach(c) \/ Refuse(c) \/ Answer(c)
    \/ Backoff(c) \/ Greet(c) \/ Receive(c) \/ Adopt(c)

Next == Daemon \/ Sent \/ \E c \in Clients : Client(c) \/ Drop(c) \/ FetchFails(c)

Spec == Init /\ [][Next]_vars

(* Handlers come to their emission, and tasks and windows keep running.    *)
FairSpec == Spec /\ WF_vars(Sent) /\ \A c \in Clients : WF_vars(Client(c))

-----------------------------------------------------------------------------
(* Properties *)

Events == [kind : {"session_added", "session_removed"}, name : Names, op : Nat]
Fetches == [id : Nat, answered : BOOLEAN, list : SUBSET Names]

(* Types, and the capacity of session_events.rs:36: a buffer of a          *)
(* subscriber that does not read never grows beyond it.                    *)
TypeOK ==
    /\ live \in SUBSET Names /\ ops \in Nat /\ drops \in Nat
    /\ unsent \in SUBSET Events /\ newest \in [Names -> Nat]
    /\ mode \in [Clients -> {"loading", "down", "refused", "greeting", "attached"}]
    /\ queue \in [Clients -> Seq(Events)]
    /\ \A c \in Clients : Len(queue[c]) <= IF Subscribed(c) THEN Cap ELSE 0
    /\ fetches \in [Clients -> SUBSET Fetches]
    /\ greeted \in [Clients -> Nat]
    /\ tabs \in [Clients -> SUBSET Names]
    /\ excused \in [Clients -> SUBSET Names]

(* Nothing is on its way to client c. *)
Settled(c) == /\ mode[c] = "attached" /\ queue[c] = <<>>
              /\ fetches[c] = {} /\ unsent = {}

(* session_events.rs:11-18: once everything on its way has arrived, a      *)
(* window shows a tab for every live session, whenever it connected.  It   *)
(* is not said of three kinds, until the next hello: a name whose event    *)
(* was lost to lag, one whose events were emitted in another order than    *)
(* the map changed, and one that was live and not shown when the request   *)
(* for the list failed.                                                    *)
NoSessionMissed ==
    \A c \in Clients : Settled(c) => live \subseteq tabs[c] \cup excused[c]

(* session_events.rs:11-18: a session that stays live is shown by every    *)
(* window that stays attached, but for the three kinds that                *)
(* NoSessionMissed leaves out.                                             *)
SessionsSurface ==
    \A c \in Windows, n \in Names :
        (<>[](n \in live /\ mode[c] = "attached" /\ n \notin excused[c]))
            => <>[](n \in tabs[c])
=============================================================================
