----------------------------- MODULE SessionMap -----------------------------
(***************************************************************************)
(* The daemon's registry of live terminal sessions                         *)
(* (crates/k2-daemon/src/v2_session_map.rs) and the request handlers and   *)
(* background tasks that race on it: the two find-or-spawn paths           *)
(* (v2_spawn.rs, spawn.rs), their wrappers (canonical_session.rs,          *)
(* pinned_chat.rs), the close and reap endpoints, the child-exit observer  *)
(* task, and the kill-and-reap of DaemonPtySession (k2-core                *)
(* terminal/daemon_pty.rs).                                                *)
(*                                                                         *)
(* The registry's mutex and the database mutex are each held for one       *)
(* step only, and so is every atomic: everything between two of them can   *)
(* interleave with every other actor.  An actor is a request being         *)
(* handled (a Caller) or the observer task of a session, named by the      *)
(* session it observes.                                                    *)
(***************************************************************************)
EXTENDS Naturals, FiniteSets

CONSTANTS Keys,        \* registry keys
          Workspaces,  \* those that are project ids; the rest are ad-hoc tabs
          Sessions,    \* the PTY sessions a run may spawn, each at most once
          Callers,     \* request handlers running concurrently
          Viewers,     \* grid-WS connections
          Requests,    \* the kinds of request that arrive
          NoSession,   \* "None", and SQL NULL in a session-valued column
          NoKey        \* the key of an actor that has none

ASSUME SessionsDistinct == /\ Workspaces \subseteq Keys
                           /\ NoSession \notin Sessions
                           /\ NoKey \notin Keys
                           /\ Sessions \cap Callers = {}

VARIABLES
    map,       \* v2_session_map: key -> registered session
    child,     \* the child process of each session
    killed,    \* DaemonPtySession::killed, the gate of kill()
    exitFlag,  \* DaemonPtySession::child_exited
    emitter,   \* the shared grid emitter task of each session
    joining,   \* the session a grid-WS connection looked up and shakes hands for
    watching,  \* the session a grid-WS connection is subscribed to
    pc,        \* where each actor is
    op,        \* the request an actor serves
    key,       \* the registry key it works on
    held,      \* the session it looked up or spawned
    gone,      \* the session its unregister removed or its register displaced
    active,    \* workspace_sessions.active_terminal_id, one row a workspace
    terminal,  \* workspace_sessions.terminal_id
    running    \* workspace_sessions.status = 'running'

ptyVars   == <<child, killed, exitFlag>>
viewVars  == <<emitter, joining, watching>>
actorVars == <<pc, op, key, held, gone>>
rowVars   == <<active, terminal, running>>
vars      == <<map, ptyVars, viewVars, actorVars, rowVars>>

Actors == Callers \cup Sessions

(* The requests: the two spawn endpoints, the two ensure helpers, the      *)
(* forced re-spawn of a pinned chat, close with and without force, and     *)
(* the reap of dead entries.                                               *)
AllRequests == {"spawn", "canonical", "pinned", "respawn",
                "close", "forceClose", "reap"}

Ops == AllRequests \cup {"none", "observe"}

ASSUME RequestsKnown == Requests \subseteq AllRequests

(* An actor inside unregister, between the removal and the kill.           *)
UnregisterPcs == {"cleanup", "killRemoved"}
KillPcs       == {"killRemoved", "killDisplaced", "killHeld"}
ReapPcs       == {"reapRemoved", "reapDisplaced", "reapHeld"}
ObserverPcs   == {"none", "starting", "listening", "notified", "done"}
CallerPcs     == {"idle", "peek", "lookup", "check", "recheck", "fork",
                  "insert", "stamp", "observe", "lock"}
Pcs == CallerPcs \cup ObserverPcs \cup UnregisterPcs \cup KillPcs \cup ReapPcs
         \cup {"remove"}

Registered(s) == \E k \in Keys : map[k] = s

(* Strong references: the map, handlers, connections and the emitter.      *)
(* The observer task holds a Weak one.                                     *)
StronglyHeld(s) == \/ Registered(s)
                   \/ \E c \in Callers : s \in {held[c], gone[c]}
                   \/ \E t \in Sessions : gone[t] = s
                   \/ \E v \in Viewers : s \in {joining[v], watching[v]}
                   \/ emitter[s] # "none"

(* The observer's receiver lives from its subscription until it returns.   *)
ObserverSubscribed(s) == pc[s] \notin {"none", "starting", "done"}

(* broadcast::Sender::receiver_count of the session's event channel.       *)
SubscriberCount(s) == Cardinality({v \in Viewers : watching[v] = s})
                        + (IF ObserverSubscribed(s) THEN 1 ELSE 0)
                        + (IF emitter[s] = "running" THEN 1 ELSE 0)

IsChildAlive(s) == ~exitFlag[s]

-----------------------------------------------------------------------------
(* Control flow of an actor. *)

Goto(a, label) == pc' = [pc EXCEPT ![a] = label]

(* A handler returns: its references drop with its stack frame.            *)
Return(c) == /\ pc'   = [pc EXCEPT ![c] = "idle"]
             /\ op'   = [op EXCEPT ![c] = "none"]
             /\ key'  = [key EXCEPT ![c] = NoKey]
             /\ held' = [held EXCEPT ![c] = NoSession]
             /\ gone' = [gone EXCEPT ![c] = NoSession]

Keep(a, label) == Goto(a, label) /\ UNCHANGED <<op, key, held, gone>>

(* What follows the call of unregister in each of its callers.             *)
AfterUnregister(o) ==
    IF o = "observe" THEN "done"
    ELSE IF o \in {"spawn", "respawn"} THEN "killHeld"
    ELSE IF o \in {"canonical", "pinned"} THEN "fork"
    ELSE "idle"

(* What follows the kill at each place that calls kill().                  *)
AfterKill(a) ==
    IF pc[a] \in {"killRemoved", "reapRemoved"} THEN AfterUnregister(op[a])
    ELSE IF pc[a] \in {"killDisplaced", "reapDisplaced"}
         THEN IF op[a] = "spawn" THEN "stamp" ELSE "observe"
    ELSE IF op[a] = "spawn" THEN "recheck" ELSE "lookup"

Init ==
    /\ map = [k \in Keys |-> NoSession]
    /\ child = [s \in Sessions |-> "unborn"]
    /\ killed = [s \in Sessions |-> FALSE]
    /\ exitFlag = [s \in Sessions |-> FALSE]
    /\ emitter = [s \in Sessions |-> "none"]
    /\ joining = [v \in Viewers |-> NoSession]
    /\ watching = [v \in Viewers |-> NoSession]
    /\ pc = [a \in Actors |-> IF a \in Callers THEN "idle" ELSE "none"]
    /\ op = [a \in Actors |-> IF a \in Callers THEN "none" ELSE "observe"]
    /\ key = [a \in Actors |-> NoKey]
    /\ held = [a \in Actors |-> NoSession]
    /\ gone = [a \in Actors |-> NoSession]
    /\ active = [w \in Workspaces |-> NoSession]
    /\ terminal = [w \in Workspaces |-> NoSession]
    /\ running = [w \in Workspaces |-> FALSE]

(* An actor moves on after a kill or an empty unregister, dropping the     *)
(* reference it killed through.                                            *)
MoveOn(a, label) ==
    IF label = "idle"
    THEN Return(a)
    ELSE /\ Goto(a, label)
         /\ gone' = [gone EXCEPT ![a] = NoSession]
         /\ op' = [op EXCEPT ![a] =
                     IF op[a] = "respawn" /\ label = "lookup" THEN "pinned" ELSE @]
         /\ UNCHANGED <<key, held>>

-----------------------------------------------------------------------------
(* The request handlers. *)

(* A request for key k arrives; the ensure helpers serve workspaces only.  *)
(* ensure_canonical_session first looks the session up itself, without a   *)
(* liveness check.                                                         *)
Begin(c, o, k) ==
    /\ pc[c] = "idle"
    /\ o \in {"canonical", "pinned", "respawn"} => k \in Workspaces
    /\ pc' = [pc EXCEPT ![c] = IF o = "canonical" THEN "peek" ELSE "lookup"]
    /\ op' = [op EXCEPT ![c] = o]
    /\ key' = [key EXCEPT ![c] = k]
    /\ UNCHANGED <<map, ptyVars, viewVars, held, gone, rowVars>>

Peek(c) ==
    /\ pc[c] = "peek"
    /\ LET found == map[key[c]] IN
         /\ held' = [held EXCEPT ![c] = found]
         /\ Goto(c, IF found = NoSession THEN "lookup" ELSE "stamp")
    /\ UNCHANGED <<map, ptyVars, viewVars, op, key, gone, rowVars>>

(* lookup_by_agent_name under the map's mutex.                             *)
Found(c) ==
    /\ pc[c] = "lookup"
    /\ map[key[c]] # NoSession
    /\ held' = [held EXCEPT ![c] = map[key[c]]]
    /\ Goto(c, IF op[c] \in {"respawn", "forceClose"} THEN "remove" ELSE "check")
    /\ UNCHANGED <<map, ptyVars, viewVars, op, key, gone, rowVars>>

(* Without an entry the spawning requests spawn, and a forced re-spawn     *)
(* goes on as any ensure; close calls unregister all the same.             *)
NotFound(c) ==
    /\ pc[c] = "lookup"
    /\ map[key[c]] = NoSession
    /\ \/ op[c] \in {"spawn", "canonical", "pinned"} /\ Keep(c, "fork")
       \/ op[c] \in {"close", "forceClose"} /\ Keep(c, "remove")
       \/ op[c] = "reap" /\ Return(c)
       \/ /\ op[c] = "respawn"
          /\ op' = [op EXCEPT ![c] = "pinned"]
          /\ UNCHANGED <<pc, key, held, gone>>
    /\ UNCHANGED <<map, ptyVars, viewVars, rowVars>>

(* What the handler does with the session it found: reuse a live one,      *)
(* evict a dead one, refuse to close an attached one.                      *)
Reuse(c) ==
    /\ pc[c] = "check"
    /\ IsChildAlive(held[c])
    /\ \/ op[c] = "spawn" /\ Keep(c, "recheck")
       \/ op[c] = "canonical" /\ Keep(c, "lock")
       \/ op[c] = "pinned" /\ Keep(c, "stamp")
       \/ op[c] = "reap" /\ Return(c)
    /\ UNCHANGED <<map, ptyVars, viewVars, rowVars>>

Evict(c) ==
    /\ pc[c] = "check"
    /\ op[c] \in {"spawn", "canonical", "pinned", "reap"}
    /\ ~IsChildAlive(held[c])
    /\ Keep(c, "remove")
    /\ UNCHANGED <<map, ptyVars, viewVars, rowVars>>

CloseGuard(c) ==
    /\ pc[c] = "check"
    /\ op[c] = "close"
    /\ \/ SubscriberCount(held[c]) = 0 /\ Keep(c, "remove")
       \/ SubscriberCount(held[c]) # 0 /\ Return(c)
    /\ UNCHANGED <<map, ptyVars, viewVars, rowVars>>

(* handle_v2_spawn reads the flag a second time before it reuses.          *)
Recheck(c) ==
    /\ pc[c] = "recheck"
    /\ \/ IsChildAlive(held[c]) /\ Return(c)
       \/ ~IsChildAlive(held[c]) /\ Keep(c, "fork")
    /\ UNCHANGED <<map, ptyVars, viewVars, rowVars>>

(* DaemonPtySession::spawn: a fresh session, or an error the handler       *)
(* returns.                                                                *)
Fork(c) ==
    /\ pc[c] = "fork"
    /\ \E s \in Sessions :
         /\ child[s] = "unborn"
         /\ child' = [child EXCEPT ![s] = "alive"]
         /\ held' = [held EXCEPT ![c] = s]
    /\ Goto(c, "insert")
    /\ UNCHANGED <<map, killed, exitFlag, viewVars, op, key, gone, rowVars>>

ForkFails(c) ==
    /\ pc[c] = "fork"
    /\ Return(c)
    /\ UNCHANGED <<map, ptyVars, viewVars, rowVars>>

(* Mutants: register drops the session it displaces; register lists the    *)
(* session under every name.                                               *)
InsertLeaks(c) ==
    /\ pc[c] = "insert"
    /\ map' = [map EXCEPT ![key[c]] = held[c]]
    /\ Goto(c, IF op[c] = "spawn" THEN "stamp" ELSE "observe")
    /\ UNCHANGED <<ptyVars, viewVars, op, key, held, gone, rowVars>>

InsertMirrors(c) ==
    /\ pc[c] = "insert"
    /\ map' = [k \in Keys |-> held[c]]
    /\ gone' = [gone EXCEPT ![c] = map[key[c]]]
    /\ Goto(c, IF map[key[c]] # NoSession THEN "killDisplaced"
               ELSE IF op[c] = "spawn" THEN "stamp" ELSE "observe")
    /\ UNCHANGED <<ptyVars, viewVars, op, key, held, rowVars>>

(* register: insert under the mutex; a displaced session is killed after   *)
(* the mutex is released.                                                  *)
Insert(c) ==
    /\ pc[c] = "insert"
    /\ map' = [map EXCEPT ![key[c]] = held[c]]
    /\ gone' = [gone EXCEPT ![c] = map[key[c]]]
    /\ Goto(c, IF map[key[c]] # NoSession THEN "killDisplaced"
               ELSE IF op[c] = "spawn" THEN "stamp" ELSE "observe")
    /\ UNCHANGED <<ptyVars, viewVars, op, key, held, rowVars>>

(* spawn_child_exit_observer: a detached task that has yet to subscribe.   *)
Observe(c) ==
    /\ pc[c] = "observe"
    /\ key' = [key EXCEPT ![held[c]] = key[c],
                          ![c] = IF op[c] = "spawn" THEN NoKey ELSE @]
    /\ LET next == IF op[c] = "spawn" THEN "idle"
                   ELSE IF op[c] = "canonical" THEN "lock" ELSE "stamp"
       IN  pc' = [pc EXCEPT ![held[c]] = "starting", ![c] = next]
    /\ op' = [op EXCEPT ![c] = IF op[c] = "spawn" THEN "none" ELSE @]
    /\ held' = [held EXCEPT ![c] = IF op[c] = "spawn" THEN NoSession ELSE @]
    /\ UNCHANGED <<map, ptyVars, viewVars, gone, rowVars>>

(* k2so_agents_lock: the workspace's row names this terminal and runs.     *)
Lock(c) ==
    /\ pc[c] = "lock"
    /\ terminal' = [terminal EXCEPT ![key[c]] = held[c]]
    /\ running' = [running EXCEPT ![key[c]] = TRUE]
    /\ Keep(c, "stamp")
    /\ UNCHANGED <<map, ptyVars, viewVars, active>>

(* Mutant: the key is stamped where the session id belongs.                *)
StampKey(c) ==
    /\ pc[c] = "stamp"
    /\ op[c] # "spawn"
    /\ active' = [active EXCEPT ![key[c]] = key[c]]
    /\ Return(c)
    /\ UNCHANGED <<map, ptyVars, viewVars, terminal, running>>

(* The active_terminal_id stamp.  handle_v2_spawn stamps only when its     *)
(* argv resumes the conversation the row of its workspace names (a tab's   *)
(* workspace comes from its cwd); the ensure helpers always do, a reused   *)
(* session included.                                                       *)
Stamp(c) ==
    /\ pc[c] = "stamp"
    /\ IF op[c] = "spawn"
       THEN /\ \/ UNCHANGED active
               \/ \E w \in Workspaces :
                    /\ key[c] \in Workspaces => w = key[c]
                    /\ active' = [active EXCEPT ![w] = held[c]]
            /\ Keep(c, "observe")
       ELSE /\ active' = [active EXCEPT ![key[c]] = held[c]]
            /\ Return(c)
    /\ UNCHANGED <<map, ptyVars, viewVars, terminal, running>>

-----------------------------------------------------------------------------
(* unregister: removal by name, row cleanup, kill. *)

(* Mutant: the entry is read and torn down, and stays listed.              *)
RemoveEntryStays(a) ==
    /\ pc[a] = "remove"
    /\ map[key[a]] # NoSession
    /\ gone' = [gone EXCEPT ![a] = map[key[a]]]
    /\ Goto(a, "cleanup")
    /\ UNCHANGED <<map, ptyVars, viewVars, op, key, held, rowVars>>

RemoveEntry(a) ==
    /\ pc[a] = "remove"
    /\ map[key[a]] # NoSession
    /\ map' = [map EXCEPT ![key[a]] = NoSession]
    /\ gone' = [gone EXCEPT ![a] = map[key[a]]]
    /\ Goto(a, "cleanup")
    /\ UNCHANGED <<ptyVars, viewVars, op, key, held, rowVars>>

RemoveNothing(a) ==
    /\ pc[a] = "remove"
    /\ map[key[a]] = NoSession
    /\ MoveOn(a, AfterUnregister(op[a]))
    /\ UNCHANGED <<map, ptyVars, viewVars, rowVars>>

(* Mutant: unregister ends after the row cleanup, without the kill.        *)
CleanupOnly(a) ==
    /\ pc[a] = "cleanup"
    /\ active' = [w \in Workspaces |->
                    IF active[w] = gone[a] THEN NoSession ELSE active[w]]
    /\ MoveOn(a, AfterUnregister(op[a]))
    /\ UNCHANGED <<map, ptyVars, viewVars, terminal, running>>

(* One hold of the database mutex: null the pointers at the terminal, then *)
(* put the matching rows to sleep.                                         *)
Cleanup(a) ==
    /\ pc[a] = "cleanup"
    /\ active' = [w \in Workspaces |->
                    IF active[w] = gone[a] THEN NoSession ELSE active[w]]
    /\ running' = [w \in Workspaces |->
                     running[w] /\ gone[a] \notin {terminal[w], active'[w]}]
    /\ Keep(a, "killRemoved")
    /\ UNCHANGED <<map, ptyVars, viewVars, terminal>>

-----------------------------------------------------------------------------
(* DaemonPtySession::kill *)

Victim(a) == IF pc[a] \in {"killHeld", "reapHeld"} THEN held[a] ELSE gone[a]

ReapOf(label) == IF label = "killRemoved" THEN "reapRemoved"
                 ELSE IF label = "killDisplaced" THEN "reapDisplaced"
                 ELSE "reapHeld"

(* Mutant: kill() without its gate.                                        *)
WinKillUngated(a) ==
    /\ pc[a] \in KillPcs
    /\ killed' = [killed EXCEPT ![Victim(a)] = TRUE]
    /\ Keep(a, ReapOf(pc[a]))
    /\ UNCHANGED <<map, child, exitFlag, viewVars, rowVars>>

(* The compare_exchange: one caller goes on to signal and reap.            *)
WinKill(a) ==
    /\ pc[a] \in KillPcs
    /\ ~killed[Victim(a)]
    /\ killed' = [killed EXCEPT ![Victim(a)] = TRUE]
    /\ Keep(a, ReapOf(pc[a]))
    /\ UNCHANGED <<map, child, exitFlag, viewVars, rowVars>>

LoseKill(a) ==
    /\ pc[a] \in KillPcs
    /\ killed[Victim(a)]
    /\ MoveOn(a, AfterKill(a))
    /\ UNCHANGED <<map, ptyVars, viewVars, rowVars>>

(* Mutant: kill() waits for the observer's flag in place of the child.     *)
ReapWaits(a) ==
    /\ pc[a] \in ReapPcs
    /\ exitFlag[Victim(a)]
    /\ MoveOn(a, AfterKill(a))
    /\ UNCHANGED <<map, ptyVars, viewVars, rowVars>>

(* The signals and the reap ended: the child is gone.  The waitpid of      *)
(* kill() and that of the IO thread race for the exit status.  A child     *)
(* still alive here is reaped by kill(), and no ChildExit event is sent;   *)
(* where the IO thread was first, ChildExits came before this step.        *)
Reap(a) ==
    /\ pc[a] \in ReapPcs
    /\ child' = [child EXCEPT ![Victim(a)] = "exited"]
    /\ MoveOn(a, AfterKill(a))
    /\ UNCHANGED <<map, killed, exitFlag, viewVars, rowVars>>

-----------------------------------------------------------------------------
(* The child process, the observer task, and the viewers. *)

(* The child exits, on its own or by a signal of kill(), and the IO thread *)
(* broadcasts ChildExit to the receivers subscribed at that moment: the    *)
(* observer is due to run, the emitter task ends.                          *)
ChildExits(s) ==
    /\ child[s] = "alive"
    /\ child' = [child EXCEPT ![s] = "exited"]
    /\ emitter' = [emitter EXCEPT ![s] = IF @ = "running" THEN "none" ELSE @]
    /\ pc' = [pc EXCEPT ![s] = IF @ = "listening" THEN "notified" ELSE @]
    /\ UNCHANGED <<map, killed, exitFlag, joining, watching, op, key, held, gone, rowVars>>

Subscribe(s) ==
    /\ pc[s] = "starting"
    /\ Keep(s, IF StronglyHeld(s) THEN "listening" ELSE "done")
    /\ UNCHANGED <<map, ptyVars, viewVars, rowVars>>

(* Mutant: the observer flags the exit and leaves the entry.               *)
ObserveExitFlagsOnly(s) ==
    /\ pc[s] = "notified"
    /\ exitFlag' = [exitFlag EXCEPT ![s] = @ \/ StronglyHeld(s)]
    /\ Keep(s, "done")
    /\ UNCHANGED <<map, child, killed, viewVars, rowVars>>

(* ChildExit arrives: flag the session if it still exists, then unregister *)
(* the NAME it was registered under.                                       *)
ObserveExit(s) ==
    /\ pc[s] = "notified"
    /\ exitFlag' = [exitFlag EXCEPT ![s] = @ \/ StronglyHeld(s)]
    /\ Keep(s, "remove")
    /\ UNCHANGED <<map, child, killed, viewVars, rowVars>>

(* The channel closed: the session was dropped and its IO thread ended.    *)
ChannelCloses(s) ==
    /\ pc[s] = "listening"
    /\ child[s] = "exited"
    /\ ~StronglyHeld(s)
    /\ Keep(s, "done")
    /\ UNCHANGED <<map, ptyVars, viewVars, rowVars>>

(* A grid-WS connection looks its session up by id and keeps it over the   *)
(* WebSocket handshake; then it subscribes, and joins the session's shared *)
(* emitter, spawning the task if there is none.                            *)
Connect(v, s) ==
    /\ joining[v] = NoSession /\ watching[v] = NoSession
    /\ Registered(s)
    /\ joining' = [joining EXCEPT ![v] = s]
    /\ UNCHANGED <<map, ptyVars, emitter, watching, actorVars, rowVars>>

Attach(v) ==
    /\ joining[v] # NoSession
    /\ watching' = [watching EXCEPT ![v] = joining[v]]
    /\ joining' = [joining EXCEPT ![v] = NoSession]
    /\ emitter' = [emitter EXCEPT ![joining[v]] = IF @ = "none" THEN "starting" ELSE @]
    /\ UNCHANGED <<map, ptyVars, actorVars, rowVars>>

(* The handshake fails, the client leaves, or the connection saw the exit. *)
Detach(v) ==
    /\ joining[v] # NoSession \/ watching[v] # NoSession
    /\ joining' = [joining EXCEPT ![v] = NoSession]
    /\ watching' = [watching EXCEPT ![v] = NoSession]
    /\ UNCHANGED <<map, ptyVars, emitter, actorVars, rowVars>>

(* The emitter task is polled for the first time and subscribes.  It holds *)
(* the session until ChildExit or the end of the channel, which it keeps   *)
(* open itself.                                                            *)
EmitterStarts(s) ==
    /\ emitter[s] = "starting"
    /\ emitter' = [emitter EXCEPT ![s] = "running"]
    /\ UNCHANGED <<map, ptyVars, joining, watching, actorVars, rowVars>>

-----------------------------------------------------------------------------

Unregistering(a) == \/ RemoveEntry(a) \/ RemoveNothing(a) \/ Cleanup(a)
                    \/ WinKill(a) \/ LoseKill(a) \/ Reap(a)

Handling(c) == \/ Peek(c) \/ Found(c) \/ NotFound(c)
               \/ Reuse(c) \/ Evict(c) \/ CloseGuard(c) \/ Recheck(c)
               \/ Fork(c) \/ ForkFails(c) \/ Insert(c) \/ Stamp(c)
               \/ Observe(c) \/ Lock(c) \/ Unregistering(c)

Observing(s) == \/ Subscribe(s) \/ ObserveExit(s) \/ ChannelCloses(s)
                \/ Unregistering(s)

Next == \/ \E c \in Callers : \/ \E o \in Requests, k \in Keys : Begin(c, o, k)
                              \/ Handling(c)
        \/ \E s \in Sessions : Observing(s) \/ ChildExits(s) \/ EmitterStarts(s)
        \/ \E v \in Viewers : \/ Attach(v) \/ Detach(v)
                              \/ \E s \in Sessions : Connect(v, s)

Spec == Init /\ [][Next]_vars

(* A thread that has work runs, and so does a spawned tokio task.  Nothing *)
(* is assumed of arriving requests, of viewers, or of a child's exit.      *)
Fairness == /\ \A c \in Callers : WF_vars(Handling(c))
            /\ \A s \in Sessions : WF_vars(Observing(s)) /\ WF_vars(EmitterStarts(s))

FairSpec == Spec /\ Fairness

-----------------------------------------------------------------------------
(* Types. *)

TypeOK ==
    /\ map \in [Keys -> Sessions \cup {NoSession}]
    /\ child \in [Sessions -> {"unborn", "alive", "exited"}]
    /\ killed \in [Sessions -> BOOLEAN]
    /\ exitFlag \in [Sessions -> BOOLEAN]
    /\ emitter \in [Sessions -> {"none", "starting", "running"}]
    /\ joining \in [Viewers -> Sessions \cup {NoSession}]
    /\ watching \in [Viewers -> Sessions \cup {NoSession}]
    /\ pc \in [Actors -> Pcs]
    /\ op \in [Actors -> Ops]
    /\ key \in [Actors -> Keys \cup {NoKey}]
    /\ held \in [Actors -> Sessions \cup {NoSession}]
    /\ gone \in [Actors -> Sessions \cup {NoSession}]
    /\ active \in [Workspaces -> Sessions \cup {NoSession}]
    /\ terminal \in [Workspaces -> Sessions \cup {NoSession}]
    /\ running \in [Workspaces -> BOOLEAN]

-----------------------------------------------------------------------------
(* Safety. *)

(* Actor a is bound to register s, or to kill it.                          *)
InCustody(a, s) ==
    \/ pc[a] = "insert" /\ held[a] = s
    \/ pc[a] \in {"cleanup", "killRemoved", "killDisplaced"} /\ gone[a] = s

(* v2_session_map.rs:50-54 and 242-252: no agent child is orphaned.  A     *)
(* child nobody has begun to kill is in the map, where a close can reach   *)
(* it, or in the hands of an actor that will register or kill it; so the   *)
(* kill in Drop never finds work to do.                                    *)
NoOrphanChild ==
    \A s \in Sessions :
        child[s] = "alive" /\ ~killed[s] =>
            Registered(s) \/ \E a \in Actors : InCustody(a, s)

(* daemon_pty.rs:787-791: one call runs the signals and the waitpid, so a  *)
(* recycled pid is never waited for.                                       *)
OneReaper ==
    \A a, b \in Actors :
        pc[a] \in ReapPcs /\ pc[b] \in ReapPcs /\ Victim(a) = Victim(b) => a = b

(* The map never lists a session whose teardown has begun: whoever looks   *)
(* up a name gets a session nobody was killing at that moment.             *)
RegisteredNotKilled == \A s \in Sessions : Registered(s) => ~killed[s]

(* One slot a session: closing one name cannot tear down another's.        *)
OneSlotPerSession ==
    \A k, l \in Keys : map[k] = map[l] /\ map[k] # NoSession => k = l

-----------------------------------------------------------------------------
(* The inductive invariant behind the safety properties. *)

(* An actor stays on its own control path, with the data that path needs.  *)
NeedsGone == {"cleanup", "killRemoved", "reapRemoved",
              "killDisplaced", "reapDisplaced"}
NeedsHeld == {"check", "recheck", "insert", "stamp", "observe", "lock",
              "killDisplaced", "reapDisplaced", "killHeld", "reapHeld"}

CallerOK(p, o, k, h, g) ==
    /\ p \in Pcs \ ObserverPcs
    /\ o \in AllRequests \cup {"none"}
    /\ p \in {"peek", "lock"} => o = "canonical"
    /\ p \in {"idle", "peek"} => h = NoSession
    /\ p # "idle" => k \in Keys
    /\ p \in NeedsGone => g \in Sessions
    /\ p \in NeedsHeld => h \in Sessions
    /\ /\ p \in {"remove", "cleanup", "killRemoved", "reapRemoved"}
       /\ o \in {"spawn", "respawn"}
       => h \in Sessions

ObserverOK(p, o, k, h, g) ==
    /\ p \in ObserverPcs \cup {"remove", "cleanup", "killRemoved", "reapRemoved"}
    /\ o = "observe"
    /\ h = NoSession
    /\ p # "none" => k \in Keys
    /\ p \in NeedsGone => g \in Sessions

ActorShape ==
    /\ \A c \in Callers : CallerOK(pc[c], op[c], key[c], held[c], gone[c])
    /\ \A s \in Sessions : ObserverOK(pc[s], op[s], key[s], held[s], gone[s])

Shape == TypeOK /\ ActorShape

(* Nothing refers to a session that was not spawned.                       *)
UnbornUnknown ==
    \A s \in Sessions : child[s] = "unborn" =>
        /\ ~Registered(s) /\ ~killed[s] /\ pc[s] = "none"
        /\ \A a \in Actors : held[a] # s /\ gone[a] # s

(* A spawned session is its handler's alone until the insert.              *)
InsertExclusive ==
    \A c \in Callers : pc[c] = "insert" =>
        /\ ~Registered(held[c]) /\ ~killed[held[c]]
        /\ \A a \in Actors : gone[a] # held[c] /\ (a # c => held[a] # held[c])

(* Its observer task is not spawned before its handler does it, once.      *)
PreObserve(c) == \/ pc[c] \in {"insert", "killDisplaced", "reapDisplaced", "observe"}
                 \/ pc[c] = "stamp" /\ op[c] = "spawn"

ObserverUnspawned ==
    \A c \in Callers : PreObserve(c) =>
        /\ pc[held[c]] = "none"
        /\ \A d \in Callers : PreObserve(d) /\ held[d] = held[c] => c = d

(* What left the map stays out of it.                                      *)
GoneUnregistered ==
    \A a \in Actors : gone[a] # NoSession => ~Registered(gone[a])

(* A session looked up under a key is under that key or nowhere, so the    *)
(* removal of that key unregisters it.                                     *)
LookedUpBy(c) ==
    /\ pc[c] \in {"check", "remove"} =>
          \A k \in Keys : map[k] = held[c] /\ held[c] # NoSession => k = key[c]
    /\ /\ pc[c] \in {"lookup", "cleanup", "killRemoved", "reapRemoved",
                     "killHeld", "reapHeld"}
       /\ held[c] # NoSession
       => ~Registered(held[c])

LookedUp == \A c \in Callers : LookedUpBy(c)

ReaperKilled == \A a \in Actors : pc[a] \in ReapPcs => killed[Victim(a)]

Custody == /\ UnbornUnknown
           /\ InsertExclusive
           /\ ObserverUnspawned
           /\ GoneUnregistered
           /\ LookedUp
           /\ ReaperKilled
           /\ OneSlotPerSession
           /\ RegisteredNotKilled
           /\ OneReaper
           /\ NoOrphanChild

IInv == Shape /\ Custody

-----------------------------------------------------------------------------
(* Liveness. *)

(* The leak the kill in unregister and register was written against: a     *)
(* session that has left the registry loses its child.                     *)
LeftRegistryDies ==
    \A s \in Sessions :
        child[s] = "alive" /\ ~Registered(s) ~> child[s] = "exited" \/ Registered(s)

(* An exit the observer was told of frees the slot: no later request finds *)
(* that session.                                                           *)
ObservedExitLeavesMap ==
    \A s \in Sessions : pc[s] = "notified" ~> ~Registered(s)

(* Every request returns: nobody waits for a session another is killing.   *)
RequestsReturn == \A c \in Callers : pc[c] # "idle" ~> pc[c] = "idle"

-----------------------------------------------------------------------------
(* The handlers implement the registry of SessionLife: a session is        *)
(* finished once its kill has run to the end.                              *)

Stage(s) ==
    IF child[s] = "unborn" THEN "unborn"
    ELSE IF Registered(s) THEN "listed"
    ELSE IF \E c \in Callers : pc[c] = "insert" /\ held[c] = s THEN "owned"
    ELSE IF killed[s] /\ child[s] = "exited" THEN "finished"
    ELSE "condemned"

Life == INSTANCE SessionLife WITH slot <- map,
                                  stage <- [s \in Sessions |-> Stage(s)]

(* v2_session_map.rs:50-54, 230-252: every session passes once through     *)
(* spawn, registration, removal and kill, in that order, whatever the      *)
(* handlers and observers interleave; and no removed session keeps a child.*)
ImplementsLife == Life!Spec

-----------------------------------------------------------------------------
(* What comments of the code say of it, and the code does not do.  Each is *)
(* the property of a run that ends in a counterexample.                    *)

(* spawn.rs:228-230: the observer makes the slot release "when the child   *)
(* PID dies".  It never tears down a session whose child lives.            *)
ObserverSparesTheLiving ==
    \A s \in Sessions : pc[s] = "killRemoved" => child[gone[s]] = "exited"
=============================================================================
