----------------------------- MODULE Heartbeat -----------------------------
(***************************************************************************)
(* The heartbeats of one workspace: the rows of workspace_heartbeats       *)
(* (k2-core db/schema.rs, heartbeats/mod.rs), the scheduler's tick         *)
(* (k2-daemon triage.rs), and smart_launch (heartbeat_launch.rs) from the  *)
(* row it reads to the lease it gives back, with the headless spawn        *)
(* (wake_headless.rs), the exits of sessions and the restart of the daemon *)
(* (main.rs).                                                              *)
(*                                                                         *)
(* Every launch is a task of its own: those of a tick, those of the Launch *)
(* button, those a timed-out tick has left behind.  Nothing but a row's    *)
(* lease keeps them apart, and what they read of the row they read before  *)
(* they have it.  concurrency_policy has no setter: it is forbid.          *)
(* A conversation (the agent's session id) is not a terminal (the          *)
(* daemon's): both are numbers.  A row is due until it is fired after    *)
(* its schedule has come round.                                            *)
(***************************************************************************)
EXTENDS Naturals, FiniteSets

CONSTANTS Names,       \* names of heartbeats
          Configured,  \* those with a row at first
          Launches,    \* tasks
          Tab,         \* the registry's key of a tab the user opens
          MaxSpawns,   \* bound on terminals and conversations
          MaxUpsets    \* bound on edits, failures, restarts and schedules
                       \* that come round, together

ASSUME TabIsNoName == Tab \notin Names
ASSUME ConfiguredAreNames == Configured \subseteq Names

None == 0
NoRow == [exists |-> FALSE]
NoSession == [id |-> None, conv |-> None, alive |-> FALSE]

Keys == Names \cup {Tab}

VARIABLES
    row,      \* the table
    wakeup,   \* the names whose WAKEUP.md is there
    slot,     \* the session registry, by key
    owing,    \* the keys whose last session's observer has yet to run
    jsonl,    \* the conversations that have a file
    minted,   \* terminals and conversations so far
    pc, job,  \* a task and what it has read or made
    upsets,
    stray,    \* history: names whose lease has lost its task
    mixed,    \* history: names renamed or removed under a task
    renamed   \* history: names of renamed heartbeats, old and new

registry == <<slot, owing>>
world == <<wakeup, registry, jsonl, minted>>
tasks == <<pc, job>>
history == <<stray, mixed, renamed>>
vars == <<row, world, tasks, upsets, history>>

FreshRow == [exists |-> TRUE, enabled |-> TRUE, archived |-> FALSE, due |-> TRUE,
             leased |-> FALSE, saved |-> None, terminal |-> None, shared |-> FALSE]

NoJob == [name |-> Tab, saved |-> None, terminal |-> None,
          shared |-> FALSE, kind |-> "none", conv |-> None, term |-> None]

Init ==
    /\ row = [n \in Names |-> IF n \in Configured THEN FreshRow ELSE NoRow]
    /\ wakeup = Configured
    /\ slot = [k \in Keys |-> NoSession] /\ owing = {}
    /\ jsonl = {} /\ minted = 0
    /\ pc = [l \in Launches |-> "idle"] /\ job = [l \in Launches |-> NoJob]
    /\ upsets = 0
    /\ stray = {} /\ mixed = {} /\ renamed = {}

-----------------------------------------------------------------------------
(* Helpers *)

(* An UPDATE ... WHERE name = n: no row, if the name is gone.              *)
Update(rows, n, r) == IF rows[n].exists THEN [rows EXCEPT ![n] = r] ELSE rows

ClearTerminal(rows, t) ==
    [n \in Names |-> IF rows[n].exists /\ rows[n].terminal = t
                     THEN [rows[n] EXCEPT !.terminal = None] ELSE rows[n]]

Registered(t) == {k \in Keys : slot[k] # NoSession /\ slot[k].id = t}
Running(c) == {k \in Keys : slot[k] # NoSession /\ slot[k].conv = c}
Alive(ks) == {k \in ks : slot[k].alive}

(* Past the lease, and not yet done with it. *)
InFlight ==
    {l \in Launches : pc[l] \in {"deliver", "decide", "fresh", "inject", "resume",
                                "save", "bind", "stamp"}}

Goto(l, step) == pc' = [pc EXCEPT ![l] = step]

Ends(l) == Goto(l, "idle") /\ job' = [job EXCEPT ![l] = NoJob]

-----------------------------------------------------------------------------
(* Launches *)

Schedulable(n) == row[n].exists /\ row[n].enabled /\ ~row[n].archived

(* The tick lists what is due; a row without its file is disabled.         *)
Tick(l, n) ==
    /\ pc[l] = "idle" /\ Schedulable(n) /\ row[n].due
    /\ IF n \in wakeup
       THEN /\ Goto(l, "resolve")
            /\ job' = [job EXCEPT ![l] = [NoJob EXCEPT !.name = n]]
            /\ UNCHANGED row
       ELSE /\ row' = Update(row, n, [row[n] EXCEPT !.enabled = FALSE])
            /\ UNCHANGED tasks
    /\ UNCHANGED <<world, upsets, history>>

(* The row is read, before the lease. *)
Reads(l, n) ==
    /\ row[n].exists /\ ~row[n].archived /\ n \in wakeup
    /\ Goto(l, "acquire")
    /\ job' = [job EXCEPT ![l] = [NoJob EXCEPT
                 !.name = n, !.saved = row[n].saved,
                 !.terminal = row[n].terminal, !.shared = row[n].shared]]

(* The Launch button and the CLI do not ask the schedule.                  *)
Launch(l, n) ==
    /\ pc[l] = "idle" /\ Reads(l, n)
    /\ UNCHANGED <<row, world, upsets, history>>

Resolve(l) ==
    /\ pc[l] = "resolve"
    /\ LET n == job[l].name IN
       \/ Reads(l, n)
       \/ ~(row[n].exists /\ ~row[n].archived /\ n \in wakeup) /\ Ends(l)
    /\ UNCHANGED <<row, world, upsets, history>>

(* Mutant: the lease is taken whoever has it.                              *)
AcquireAlways(l) ==
    LET n == job[l].name IN
    /\ pc[l] = "acquire"
    /\ IF row[n].exists
       THEN /\ row' = Update(row, n, [row[n] EXCEPT !.leased = TRUE])
            /\ Goto(l, IF job[l].shared THEN "deliver" ELSE "decide")
            /\ UNCHANGED job
       ELSE Ends(l) /\ UNCHANGED row
    /\ UNCHANGED <<world, upsets, history>>

Acquire(l) ==
    LET n == job[l].name IN
    /\ pc[l] = "acquire"
    /\ IF row[n].exists /\ ~row[n].leased
       THEN /\ row' = Update(row, n, [row[n] EXCEPT !.leased = TRUE])
            /\ Goto(l, IF job[l].shared THEN "deliver" ELSE "decide")
            /\ UNCHANGED job
       ELSE Ends(l) /\ UNCHANGED row
    /\ UNCHANGED <<world, upsets, history>>

(* The living sessions that could be written to: the one the row pointed   *)
(* to, else one that runs the conversation, a tab before the others.       *)
Bonded(hb) == Alive(Registered(hb.terminal))

Targets(hb) ==
    LET running == Alive(Running(hb.saved)) IN
    IF Bonded(hb) # {} THEN Bonded(hb) ELSE IF Tab \in running THEN {Tab} ELSE running

plan_launch_decision(hb) ==
    CASE hb.saved = None -> "fresh"
      [] hb.saved # None /\ Targets(hb) # {} -> "inject"
      [] hb.saved # None /\ Targets(hb) = {} ->
           IF hb.saved \in jsonl THEN "resume" ELSE "fresh"

(* The branch, from the row read before the lease and the registry now.    *)
Decide(l) ==
    LET n == job[l].name
        hb == job[l]
        branch == plan_launch_decision(hb)
        stale == hb.terminal # None /\ Bonded(hb) = {}
        ghost == hb.saved # None /\ branch = "fresh"
    IN
    /\ pc[l] = "decide"
    /\ \E k \in IF branch = "inject" THEN Targets(hb) ELSE {n} :
         job' = [job EXCEPT ![l] = [NoJob EXCEPT
                   !.name = n, !.kind = branch,
                   !.conv = IF branch = "resume" THEN hb.saved ELSE None,
                   !.term = IF branch = "inject" THEN slot[k].id ELSE None]]
    /\ row' = Update(row, n, [row[n] EXCEPT !.terminal = IF stale THEN None ELSE @,
                                            !.saved = IF ghost THEN None ELSE @])
    /\ Goto(l, branch)
    /\ UNCHANGED <<world, upsets, history>>

Upset == upsets < MaxUpsets /\ upsets' = upsets + 1

(* UPDATE ... SET in_flight_started_at = NULL. *)
GiveBack(n) ==
    /\ row' = Update(row, n, [row[n] EXCEPT !.leased = FALSE])
    /\ stray' = stray \ {n}

(* Mutant: the task forgets what it is to disable.                         *)
UncomposedForgets(l) ==
    /\ pc[l] \in {"deliver", "fresh", "resume", "inject"} /\ job[l].name \notin wakeup
    /\ GiveBack(job[l].name)
    /\ job' = [job EXCEPT ![l] = NoJob]
    /\ Goto(l, IF pc[l] = "inject" THEN "idle" ELSE "disable")
    /\ UNCHANGED <<world, upsets, mixed, renamed>>

(* The file went away: the lease is given back, then the row disabled,     *)
(* unless a living session was to be written to.                           *)
Uncomposed(l) ==
    /\ pc[l] \in {"deliver", "fresh", "resume", "inject"} /\ job[l].name \notin wakeup
    /\ GiveBack(job[l].name)
    /\ IF pc[l] = "inject" THEN Ends(l) ELSE Goto(l, "disable") /\ UNCHANGED job
    /\ UNCHANGED <<world, upsets, mixed, renamed>>

Disable(l) ==
    /\ pc[l] = "disable"
    /\ LET n == job[l].name IN row' = Update(row, n, [row[n] EXCEPT !.enabled = FALSE])
    /\ Ends(l)
    /\ UNCHANGED <<world, upsets, history>>

(* Mutant: an error path returns without the lease.                        *)
FailsLeased(l) ==
    /\ pc[l] \in {"deliver", "fresh", "resume", "inject"} /\ Upset
    /\ Ends(l)
    /\ UNCHANGED <<row, world, history>>

(* Whatever else fails ends in the release of the lease.                   *)
Fails(l) ==
    /\ pc[l] \in {"deliver", "fresh", "resume", "inject"} /\ Upset
    /\ GiveBack(job[l].name)
    /\ Ends(l)
    /\ UNCHANGED <<world, mixed, renamed>>

(* Delivery into the workspace's own chat, which is not modelled here.     *)
Deliver(l) ==
    /\ pc[l] = "deliver" /\ job[l].name \in wakeup
    /\ Goto(l, "stamp")
    /\ UNCHANGED <<job, row, world, upsets, history>>

Inject(l) ==
    /\ pc[l] = "inject" /\ job[l].name \in wakeup
    /\ Goto(l, "stamp")
    /\ UNCHANGED <<job, row, world, upsets, history>>

(* Mutant: the key of the workspace's chat.                                *)
KeyOfChat(l) == Tab

(* The key a launch spawns under.                                          *)
KeyOf(l) == job[l].name

(* Spawn a session of conversation c, unless the key has a living one; one *)
(* that died is unregistered first, before its observer does.              *)
Spawn(l, c) ==
    LET k == KeyOf(l) IN
    IF slot[k].alive
    THEN /\ job' = [job EXCEPT ![l].conv = c, ![l].term = slot[k].id]
         /\ UNCHANGED <<row, registry>>
    ELSE /\ job' = [job EXCEPT ![l].conv = c, ![l].term = minted + 1]
         /\ slot' = [slot EXCEPT ![k] = [id |-> minted + 1, conv |-> c, alive |-> TRUE]]
         /\ owing' = IF slot[k] = NoSession THEN owing ELSE owing \cup {k}
         /\ row' = ClearTerminal(row, slot[k].id)

(* A fresh conversation, whose id is chosen before the spawn.              *)
Fresh(l) ==
    /\ pc[l] = "fresh" /\ job[l].name \in wakeup /\ minted < MaxSpawns
    /\ Spawn(l, minted + 1)
    /\ minted' = minted + 1
    /\ Goto(l, "save")
    /\ UNCHANGED <<wakeup, jsonl, upsets, history>>

Save(l) ==
    /\ pc[l] = "save"
    /\ LET n == job[l].name IN
       row' = Update(row, n, [row[n] EXCEPT !.saved = job[l].conv,
                                            !.terminal = job[l].term])
    /\ Goto(l, "stamp")
    /\ job' = [job EXCEPT ![l].conv = None, ![l].term = None]
    /\ UNCHANGED <<world, upsets, history>>

Resume(l) ==
    /\ pc[l] = "resume" /\ job[l].name \in wakeup /\ minted < MaxSpawns
    /\ Spawn(l, job[l].conv)
    /\ minted' = minted + 1
    /\ Goto(l, "bind")
    /\ UNCHANGED <<wakeup, jsonl, upsets, history>>

(* Before the stamp when a session was resumed, after it when one was      *)
(* written to.                                                             *)
Bind(l) ==
    /\ pc[l] \in {"bind", "point"}
    /\ LET n == job[l].name IN
       row' = Update(row, n, [row[n] EXCEPT !.terminal = job[l].term])
    /\ IF pc[l] = "bind"
       THEN /\ Goto(l, "stamp")
            /\ job' = [job EXCEPT ![l].conv = None, ![l].term = None]
       ELSE Ends(l)
    /\ UNCHANGED <<world, upsets, history>>

Stamp(l) ==
    LET n == job[l].name IN
    /\ pc[l] = "stamp"
    /\ row' = Update(row, n, [row[n] EXCEPT !.due = FALSE, !.leased = FALSE])
    /\ stray' = stray \ {n}
    /\ IF job[l].kind = "inject" THEN Goto(l, "point") /\ UNCHANGED job ELSE Ends(l)
    /\ UNCHANGED <<world, upsets, mixed, renamed>>

-----------------------------------------------------------------------------
(* Sessions *)

(* A child exits; its observer takes what is under the name out of the     *)
(* registry and clears the rows that point to it, in that order: a launch  *)
(* in between finds no session for the pointer and clears it itself.       *)
Dies(k) ==
    /\ slot[k].alive
    /\ slot' = [slot EXCEPT ![k].alive = FALSE]
    /\ UNCHANGED <<row, wakeup, owing, jsonl, minted, tasks, upsets, history>>

Unregister(k) ==
    /\ slot' = [slot EXCEPT ![k] = NoSession]
    /\ row' = IF slot[k] = NoSession THEN row ELSE ClearTerminal(row, slot[k].id)
    /\ UNCHANGED <<wakeup, jsonl, minted, tasks, upsets, history>>

Observed(k) ==
    \/ /\ k \in owing /\ owing' = owing \ {k}
       /\ Unregister(k)
    \/ /\ slot[k] # NoSession /\ ~slot[k].alive
       /\ Unregister(k) /\ UNCHANGED owing

(* The agent writes the file of its conversation.                          *)
Persist(k) ==
    /\ slot[k].alive /\ slot[k].conv \notin jsonl
    /\ jsonl' = jsonl \cup {slot[k].conv}
    /\ UNCHANGED <<row, wakeup, registry, minted, tasks, upsets, history>>

(* GET /cli/heartbeat/active-session: a pointer to no session is cleared,  *)
(* and a session that runs the conversation is pointed to.                 *)
ActiveSession(n) ==
    LET running == IF row[n].saved = None THEN {} ELSE Running(row[n].saved) IN
    /\ row[n].exists
    /\ Registered(row[n].terminal) = {}
    /\ IF running = {}
       THEN row' = Update(row, n, [row[n] EXCEPT !.terminal = None])
       ELSE \E k \in running : row' = Update(row, n, [row[n] EXCEPT !.terminal = slot[k].id])
    /\ UNCHANGED <<world, tasks, upsets, history>>

-----------------------------------------------------------------------------
(* Users, time, and the daemon *)

Busy(n) == \E l \in Launches : pc[l] # "idle" /\ job[l].name = n

(* A tab that resumes the heartbeat's conversation; that it ran nowhere    *)
(* was looked up before.                                                   *)
OpenTab(n) ==
    /\ Upset /\ row[n].exists /\ row[n].saved \in jsonl
    /\ slot[Tab] = NoSession /\ minted < MaxSpawns
    /\ slot' = [slot EXCEPT ![Tab] = [id |-> minted + 1, conv |-> row[n].saved, alive |-> TRUE]]
    /\ minted' = minted + 1
    /\ UNCHANGED <<row, wakeup, owing, jsonl, tasks, history>>

Add(n) ==
    /\ Upset /\ ~row[n].exists
    /\ row' = [row EXCEPT ![n] = FreshRow]
    /\ wakeup' = wakeup \cup {n}
    /\ UNCHANGED <<registry, jsonl, minted, tasks, history>>

Remove(n) ==
    /\ Upset /\ row[n].exists
    /\ row' = [row EXCEPT ![n] = NoRow]
    /\ wakeup' = wakeup \ {n}
    /\ stray' = stray \ {n}
    /\ mixed' = IF Busy(n) THEN mixed \cup {n} ELSE mixed
    /\ UNCHANGED <<registry, jsonl, minted, tasks, renamed>>

(* The folder moves with the row, unless there is one of the new name.     *)
Rename(n, m) ==
    /\ Upset /\ row[n].exists /\ ~row[m].exists
    /\ row' = [row EXCEPT ![n] = NoRow, ![m] = row[n]]
    /\ wakeup' = IF n \in wakeup /\ m \notin wakeup THEN (wakeup \ {n}) \cup {m} ELSE wakeup
    /\ stray' = (stray \ {n}) \cup (IF row[n].leased THEN {m} ELSE {})
    /\ mixed' = mixed \cup (IF Busy(n) \/ Busy(m) THEN {n, m} ELSE {})
    /\ renamed' = renamed \cup {n, m}
    /\ UNCHANGED <<registry, jsonl, minted, tasks>>

(* Enable, archive, unarchive, deliver into the chat or not.               *)
SetFlag(n) ==
    /\ Upset /\ row[n].exists
    /\ \E f \in {"enabled", "archived", "shared"} :
         row' = [row EXCEPT ![n][f] = ~@]
    /\ UNCHANGED <<world, tasks, history>>

(* The file is deleted or written by hand.                                 *)
Tamper(n) ==
    /\ Upset
    /\ wakeup' = IF n \in wakeup THEN wakeup \ {n} ELSE wakeup \cup {n}
    /\ UNCHANGED <<row, registry, jsonl, minted, tasks, history>>

(* The next scheduled time comes.                                          *)
Window(n) ==
    /\ Upset /\ row[n].exists /\ ~row[n].due
    /\ row' = Update(row, n, [row[n] EXCEPT !.due = TRUE])
    /\ UNCHANGED <<world, tasks, history>>

(* The daemon ends, with all that is in memory, and boots: pointers to     *)
(* terminals are cleared, and the leases taken more than five minutes      *)
(* before.                                                                 *)
Restart ==
    /\ Upset
    /\ slot' = [k \in Keys |-> NoSession] /\ owing' = {}
    /\ pc' = [l \in Launches |-> "idle"] /\ job' = [l \in Launches |-> NoJob]
    /\ \E young \in SUBSET {n \in Names : row[n].exists /\ row[n].leased} :
         /\ row' = [n \in Names |->
                      IF row[n].exists
                      THEN [row[n] EXCEPT !.terminal = None, !.leased = n \in young]
                      ELSE NoRow]
         /\ stray' = young
    /\ mixed' = {}
    /\ UNCHANGED <<wakeup, jsonl, minted, renamed>>

Run(l) ==
    \/ Resolve(l) \/ Acquire(l) \/ Decide(l)
    \/ Deliver(l) \/ Fresh(l) \/ Save(l) \/ Resume(l) \/ Inject(l) \/ Bind(l)
    \/ Stamp(l) \/ Uncomposed(l) \/ Disable(l)

Starts == \E l \in Launches, n \in Names : Tick(l, n) \/ Launch(l, n)

Registry ==
    \/ \E k \in Keys : Dies(k) \/ Observed(k) \/ Persist(k)
    \/ \E n \in Names : ActiveSession(n)

Users ==
    \E n \in Names :
        \/ OpenTab(n) \/ Add(n) \/ Remove(n) \/ SetFlag(n) \/ Tamper(n)
        \/ \E m \in Names : Rename(n, m)

Time == Restart \/ \E n \in Names : Window(n)

Next == Starts \/ (\E l \in Launches : Run(l) \/ Fails(l)) \/ Registry \/ Users \/ Time

Spec == Init /\ [][Next]_vars

(* cron or launchd calls the tick for ever, which finds a task of its own  *)
(* for every heartbeat, and tasks are not stopped.                         *)
FairSpec ==
    /\ Spec
    /\ \A l \in Launches : WF_vars(Run(l))
    /\ \A n \in Names : SF_vars(\E l \in Launches : Tick(l, n))

-----------------------------------------------------------------------------
(* Properties *)

Kept == [exists : {TRUE}, enabled : BOOLEAN, archived : BOOLEAN,
         due : BOOLEAN, leased : BOOLEAN, saved : Nat,
         terminal : Nat, shared : BOOLEAN]

Sessions == [id : Nat, conv : Nat, alive : BOOLEAN]

Jobs == [name : Keys, saved : Nat, terminal : Nat, shared : BOOLEAN,
         kind : {"none", "fresh", "inject", "resume"}, conv : Nat, term : Nat]

Steps == {"idle", "resolve", "acquire", "decide", "deliver", "fresh", "inject", "resume",
          "save", "bind", "stamp", "point", "disable"}

TypeOK ==
    /\ row \in [Names -> Kept \cup {NoRow}] /\ wakeup \in SUBSET Names
    /\ slot \in [Keys -> Sessions] /\ owing \in SUBSET Keys
    /\ minted \in Nat /\ jsonl \in SUBSET Nat /\ upsets \in Nat
    /\ pc \in [Launches -> Steps] /\ job \in [Launches -> Jobs]
    /\ \A l \in Launches : pc[l] # "idle" => job[l].name \in Names
    /\ stray \in SUBSET Names /\ mixed \in SUBSET Names /\ renamed \in SUBSET Names

(* heartbeat_launch.rs: every path of a launch that took the lease gives   *)
(* it back: a lease that is taken has its task, unless the daemon was      *)
(* restarted or the row renamed under it.                                  *)
LeaseOwned ==
    \A n \in Names : row[n].exists /\ row[n].leased /\ n \notin stray
        => \E l \in InFlight : job[l].name = n

(* schema.rs:1776-1784: of the tasks that launch a heartbeat one is past   *)
(* the lease, unless its row was renamed or removed under it.              *)
OneInFlight ==
    \A l, o \in InFlight :
        l # o /\ job[l].name = job[o].name => job[l].name \in mixed

(* What keeps the second away: whoever is past the lease has it.           *)
Held ==
    \A l \in InFlight :
        job[l].name \notin mixed => row[job[l].name].exists /\ row[job[l].name].leased

Safe == TypeOK /\ LeaseOwned /\ OneInFlight /\ Held

(* heartbeat_launch.rs:626-634, wake_headless.rs: every heartbeat spawns   *)
(* under a key of its own, so that no two of them point to one terminal,   *)
(* unless the rename of one has left its session under its old name.       *)
LanesApart ==
    \A n, m \in Names :
        n # m /\ row[n].exists /\ row[m].exists /\ row[n].terminal # None
            => row[n].terminal # row[m].terminal \/ {n, m} \subseteq renamed

(* triage.rs, cron.rs: a heartbeat that stays scheduled, whose file stays  *)
(* and whose lease was not lost, is fired each time its schedule comes     *)
(* round, whatever failed, was skipped or was launched by hand before.     *)
DueFires ==
    \A n \in Names :
        <>[](Schedulable(n) /\ n \in wakeup /\ n \notin stray /\ minted < MaxSpawns)
            => []<>(row[n].exists => ~row[n].due)

(* main.rs:250-256: no crash of the daemon leaves a heartbeat that never   *)
(* fires again.                                                            *)
NeverDark ==
    \A n \in Names :
        <>[](Schedulable(n) /\ n \in wakeup /\ minted < MaxSpawns)
            => []<>(row[n].exists => ~row[n].due)
=============================================================================
