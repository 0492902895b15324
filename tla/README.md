# K2SO: a TLA+ model of the daemon

K2SO is a desktop workspace for coding agents. A background daemon (`k2-daemon`, with its library
`k2-core`) owns the agents' terminal sessions; the Tauri window, the command line and remote companions
are clients of its HTTP and WebSocket routes. This directory models the parts of the daemon where
several threads, tasks and processes meet. Paths below are relative to `src/crates/` unless they begin
with `src/`.

## Inventory

| Part | State | Operations | Interacts with | What makes it correct |
| --- | --- | --- | --- | --- |
| Session registry (`k2-daemon/src/v2_session_map.rs`, `session_lookup.rs`) | one mutex-protected map from a name to a shared session | `register`, `unregister`, lookups, snapshots | everything below; writes `workspace_sessions` and emits events | no session leaves the map with a living child and no owner; a listed session is not being torn down; one slot a session |
| Find-or-spawn endpoints (`v2_spawn.rs`, `spawn.rs`, `canonical_session.rs`, `pinned_chat.rs`) | none of their own | look up, evict a dead entry, spawn, register, stamp pointers, start the observer | registry, PTY, database | concurrent requests for one name converge; no leaked or doubled session |
| PTY session (`k2-core/src/terminal/daemon_pty.rs`) | child process, `killed` and `child_exited` flags, event broadcast | spawn, kill and reap, subscribe | IO thread of the emulator; all holders of the session | exactly one reaper; the exit is eventually known |
| Child-exit observer (`v2_spawn.rs:630-672`) | one detached task a session | subscribe, wait for `ChildExit`, flag, unregister | PTY, registry | frees the slot of the session it watches, and no other |
| Grid WebSocket and emitter (`sessions_grid_ws.rs`, `grid_emitter.rs`, `k2-core/src/terminal/grid_snapshot.rs`) | receivers of frames, one shared emitter task a session and its frame version, the claim of the active viewer | attach, emit, forward, recover from lag, claim, resize, release | PTY, terminal | no viewer's picture misses a row, goes back or stays behind; one viewer drives the size, and it is connected |
| Workspace rows (`k2-core/src/workspace/session.rs`, `db/schema.rs`) | `active_terminal_id`, `terminal_id`, `status` | upsert, stamp, clear | registry and endpoints | point at a live session or at nothing |
| Pending-live queue (`pending_live.rs`, `signal_format.rs`) | files under a directory per agent | enqueue, drain, replay at boot | awareness bus, spawn | no signal delivered twice, none lost but by a crash; order kept |
| Awareness bus (`k2-core/src/awareness/`) | roster, budget, inboxes | egress: inject, wake or inbox | queue, registry, file system | each signal reaches its target once |
| Providers and wake (`providers.rs`, `wake_headless.rs`) | none | inject, auto-launch | bus, spawn | an offline target is woken |
| Workspace messages (`workspace_msg.rs`) | none | deliver live, verify, retry, fall back | registry, inbox | not lost, not doubled |
| Idle reaper (`active_reaper.rs`) | pending dismissals, timers | arm, snapshot, judge, re-check, close | registry, `projects` rows, heartbeats | closes a session of an Active workspace only for a dismissal; dormant workspaces lose all of theirs |
| Lifecycle events (`session_events.rs`, `session_events_ws.rs`; `src/renderer/stores/session-events.ts`, `tabs.ts`) | bounded broadcast; a window's tabs | emit, subscribe, stream, reconnect, reconcile | registry | a window shows every live session |
| Heartbeats (`k2-core/src/heartbeats/`, `heartbeat_launch.rs`, `triage.rs`) | a row's lease, saved conversation and terminal | tick, acquire, decide, inject, resume, fresh fire, stamp, release; add, remove, rename | spawn, registry, database | one launch a heartbeat at a time; every path gives the lease back; what is due is fired |
| Watchdog (`k2-core/src/session/watchdog.rs`) | escalation per session | nudge, kill | the legacy registry only | |
| Tunnel (`k2-core/src/tunnel/`) | lease, connector state | acquire, reconnect | cloud service (external) | one holder of a lease |
| Daemon lifecycle (`port_claim.rs`, `main.rs`) | port file, boot status | claim, start | operating system | one daemon a port |
| The rest: companion proxy, routes, skills, clone, migrations, settings, git, LLM, themes, the Tauri shell and renderer, the CLI | files and configuration | a request at a time | | listed in `PROJECT.json`, not modelled |

What is hard in this code: every handler looks the registry up under one hold of a mutex and changes it
under another, with a process spawn (hundreds of milliseconds) in between; teardown is three critical
sections (map, database, kill) and has five callers; the exit of a child is told by a broadcast to
whoever has subscribed by then, from a task that may not have run yet; names are reused and sessions are
not, but the observer acts on the name; the queue for offline agents is a directory that survives
crashes. `PROJECT.json` lists each hazard at its line.

## Modules

| Module | What it is |
| --- | --- |
| `SessionMap` | the registry, its request handlers, the observer, kill and reap, viewers and the emitter |
| `SessionLife` | what the registry promises: a slot per key and one passage per session; `SessionMap` implements it |
| `MCSessionMap` | the symmetry set of TLC's instances |
| `SessionMap_proofs` | control shape, custody, the safety theorems, and the passages of `SessionLife` |
| `PendingLive` | the delivery of live signals: egress, providers, queue on disk, drains at spawn, crash and replay at boot |
| `Mailbox` | what a sender is promised about a signal; `PendingLive` implements it |
| `MCPendingLive` | the module TLC runs for `PendingLive` |
| `PendingLive_proofs` | types, and what the counter counts |
| `PendingLive_safety` | no signal is doubled, lost or reordered, and each goes through the stages of `Mailbox` |
| `ActiveReaper` | the Active set, dismissals, timers and the passes of the reaper |
| `MCActiveReaper` | the owners of names in TLC's instance |
| `ActiveReaper_proofs` | the reaper closes only what it may |
| `SessionEvents` | the lifecycle broadcast, its subscribers and the reconciliation of a window's tabs |
| `SessionEvents_proofs` | a live session a window does not show is on its way to it |
| `Heartbeat` | the rows of heartbeats, the scheduler's tick and every path of a launch |
| `MCHeartbeat` | the symmetry set of TLC's instance |
| `Heartbeat_proofs` | the lease is owned and excludes, and lanes stay apart |
| `GridStream` | the terminal's damage, the shared emitter, frames, and the mirrors of viewers |
| `GridStream_proofs` | what a viewer has not seen is on its way to it, and no frame takes it back |
| `ActiveViewer` | the claim of the active viewer, the resizes that go with it, and the HTTP route that resizes without it |
| `MCActiveViewer` | the symmetry set of TLC's instance |
| `ActiveViewer_proofs` | claims are live, and their holder drives |

### SessionMap and the code

An actor is a request being handled (`Callers`) or the observer task of a session. Its `pc` says which
critical section comes next; `op`, `key`, `held` and `gone` are the locals of the handler: the request,
the registry key, the session it looked up or spawned, and the session its `unregister` removed or its
`register` displaced. A step is one hold of the map's mutex, one hold of the database's mutex, one
atomic, or the spawn or reap of a process; everything between two steps interleaves.

| Actions | Code |
| --- | --- |
| `Begin`, `Peek` | a request arrives; `ensure_canonical_session` looks up without a liveness check (`canonical_session.rs:150-163`) |
| `Found`, `NotFound`, `Reuse`, `Evict`, `Recheck`, `CloseGuard` | lookup and what each handler does with its result (`v2_spawn.rs:140-184`, `554-603`, `spawn.rs:157-179`, `terminal_routes.rs:642-663`) |
| `Fork`, `ForkFails`, `Insert` | `DaemonPtySession::spawn`, `register` with the session it displaces (`v2_session_map.rs:43-62`) |
| `Lock`, `Stamp` | `k2so_agents_lock` and the `active_terminal_id` stamps |
| `RemoveEntry`, `RemoveNothing`, `Cleanup` | `unregister` (`v2_session_map.rs:173-243`) |
| `WinKill`, `LoseKill`, `Reap` | the compare-exchange of `kill()`, then its signals and `waitpid` (`daemon_pty.rs:794-871`) |
| `Observe`, `Subscribe`, `ObserveExit`, `ChannelCloses` | the observer task: spawned, first polled, told, or its channel gone |
| `ChildExits` | the child ends and the IO thread broadcasts to the receivers of that moment |
| `Connect`, `Attach`, `Detach`, `EmitterStarts` | a grid connection and the shared emitter task |

Abstractions. A key that is a workspace's project id has a `workspace_sessions` row (the ensure helpers
insert it before they spawn); ad-hoc tabs have none, but the stamp of `handle_v2_spawn` may hit any row,
because it takes the workspace from the request's directory. A session is spawned at most once
(`SessionId::new` is a fresh UUID), so `Sessions` bounds the spawns of a run. Which of the two `waitpid`
calls gets the exit status is a choice: in `Reap` on a living child, `kill()` does, and the IO thread
sends no `ChildExit`; in `ChildExits` before it, the IO thread does. The emitter's exit on `ChildExit` is
folded into `ChildExits`. Command lines, labels, grid contents, the lifecycle events and the
`workspace_tab_sessions` row are left out.

### PendingLive and the code

An actor is the request that sends a signal, named by the signal, or a request that spawns a session. Its
`pc` says which hold of a mutex, write to a PTY or file comes next; `hand` holds the signals it has yet to
type. The registry is seen as a slot per key; two spawns may still race, and the later one displaces.

| Actions | Code |
| --- | --- |
| `Send`, `Probe`, `Inject` | `deliver_to_agent`, `is_agent_live` and the plan made of it, `try_inject` (`egress.rs:287-448`) |
| `WakeQueues`, `WakeRefuses`, `Launch` | `DaemonWakeProvider::wake` and `try_auto_launch` (`providers.rs:99-244`) |
| `Request`, `Lookup`, `Spawn`, `SpawnFails` | `handle_v2_spawn` and the shared spawn helper (`v2_spawn.rs`, `spawn.rs`) |
| `Drain`, `DrainFile`, `DrainEnds` | `drain_for_agent` and `drain_directory` (`pending_live.rs:153-171`, `334-371`): a file is read and removed (`Remove`), or cannot be read or parsed and stays (`PassOver`) |
| `Type`, `Enter`, `Finish` | the inject provider and the two drain loops (`providers.rs:46-48`, `v2_spawn.rs:477-484`, `spawn.rs:239-244`) |
| `Crash`, `Restart`, `ReplayFile`, `ReplayEnds`, `Requeue`, `Serve` | the daemon dies at any point; at boot `replay_all` and `main` (`main.rs:644-690`) run behind the readiness gate |

Assumptions. Keys are workspace ids, on which `sanitize` is the identity and under which the counter is
kept. File names order the files as they were written: the wake provider's lock is held from the clock
reading to the end of the write, and the clock does not go back. A file that can be read can be removed; any
file may fail to be read or parsed, in any drain or replay, and a directory that cannot be listed is one all of
whose files fail (at the boot's scan it counts as empty; that single entries of a listing fail there is left
out). Enqueueing and spawning may fail. A write to a PTY whose child has ended succeeds, as it does in the code
(`daemon_pty.rs:618-620` hands the bytes to a channel). Legacy directory names and their migration, fan-out
to several agents, the audit row, the bus and the inbox are left out; none of them changes what is queued
or typed. `input` is what was typed into a session over its life, whether or not the session still lives.

A drain or a replay goes through a directory from the oldest file to the newest; `left` is how many it has
passed over, which are then at the front. When it is over they are still there, and `drain_for_agent` clears
the counter all the same: `left` is then what is on disk and not counted, until the next drain that looks, or
the next boot. `replay_all` takes one directory after the other, and the counter is set by the first access
after it, which scans what is left. `overtaken` is a history variable: the signals a replay passed over, which
keep their names while those behind them get newer ones.

`ImplementsMailbox` includes liveness: every signal sent is decided. Senders of one daemon wait for each
other on the provider locks, so this is where a lock held for ever, or an inject that waits, would show.
Nothing promises that a queued signal is delivered, because nothing spawns its workspace but a request.

### ActiveReaper and the code

The reaper is a task that alternates between sleep and a pass; `pc` says where in a pass it is, and every
read or write of something shared (the rows under the database's mutex, the warm set, the registry, the
map of pending dismissals) is a step of its own, so requests and sessions interleave with it.

| Actions | Code |
| --- | --- |
| `Activate`, `ClearInteraction`, `Pin`, `Unpin`, `Dismiss`, `SetHeartbeat` | the routes (`db_routes.rs:943-987`) and the statements they run |
| `ArmDismissGrace` | the second half of a dismissal (`active_reaper.rs:93-107`), after its `UPDATE` |
| `TakeRows`, `TakeWarm`, `TakeChats` | `collect_snapshot` (`active_reaper.rs:455-516`): one candidate a workspace |
| `Judge` | from the snapshot and the dismissals taken to the timers kept, armed, and fired (`:263-374`) |
| `RecheckRows`, `Skip`, `Condemn`, `Close`, `PassEnds` | the re-check before a timer fires, and `unregister` by name (`:380-443`) |
| `Second`, `AgeOut`, `Ripen`, `Spawn`, `SessionEnds` | time, and the registry as the reaper sees it |

A stamp has seconds, so two requests can leave the same one. The rest of time is a choice: a stamp ages out
of the window, and a timer ripens, whenever they like. `asked` is a history variable: the workspaces
dismissed, and neither closed nor spared since, so that a dismissal whose timer was cancelled justifies nothing.

A read that fails counts as one that found nothing: no rows, hence an empty Active set and no stamps
(`:386`, `:456`), and no heartbeats, or those before the row that failed (`:522-537`). `Reads` makes each of the
four reads of a pass fail, at most `MaxFaults` times in a behaviour. That a blocking task panics (the arms of
`spawn_blocking(...)`'s error) is left out, and so is that a session's directory stops resolving to its workspace.

### SessionEvents and the code

The daemon changes the map and announces the change in two steps (`Register` or `Unregister`, then `Emit`).
A subscriber is attached, being greeted, fetching the list of sessions, down, or waiting to reconnect;
`queue` is its place in the broadcast, and a full one loses its oldest event (`LostBy`), which the handler
notes and skips (`session_events_ws.rs:143-152`). A window that greets fetches `/sessions` and adopts what
it does not know (`tabs.ts:4333-4365`) while deltas go on arriving; it never drops a tab for being absent
from that list. `Windows` subscribe with a path, `Apps` with an empty one and are refused. `excused` is a
history variable: the names of which a window lost an event to lag, or got two in another order than the map
changed, or which were live and not shown when its request for the list failed (`FetchFails`), and has not
reconnected since. All three are gaps of the code. `heartbeat` events of background fires carry an empty path and
reach no window; they are not of the two kinds modelled.

### Heartbeat and the code

A launch is a task (`Launches`): one of the scheduler's pool, a request of the button, or one of the command
line. `job` is what it has read of the row, before it has the lease. A step is one hold of the database's
or the registry's mutex, one spawn, or one check of a file.

| Actions | Code |
| --- | --- |
| `Tick`, `Launch`, `Resolve` | `k2so_agents_heartbeat_tick`, the launch route, `resolve_row` |
| `Acquire` | `try_acquire_heartbeat` (`schema.rs:1776-1823`) |
| `Decide` | bond, stale and ghost columns, `plan_launch_decision` (`heartbeat_launch.rs:117-335`) |
| `Deliver`, `Inject`, `Fresh`, `Resume`, `Save`, `Bind`, `Stamp` | the branches and what each writes back |
| `Fails`, `Uncomposed`, `Disable` | each failure on the way |
| `ActiveSession`, `OpenTab` | the routes that ask for, and open, a heartbeat's terminal |
| `Add`, `Remove`, `Rename`, `SetFlag`, `Tamper` | edits of rows and of the wake-up file at any moment |
| `Dies`, `Observed`, `Persist`, `Window`, `Restart` | the child, its observer, the conversation's file, the schedule, the daemon |

`Restart` keeps a lease or sweeps it, for the sweep at boot spares those younger than five minutes. Edits,
deaths, schedules and restarts are *upsets*, at most `MaxUpsets` of them in a behaviour; terminals and conversations are
numbered, at most `MaxSpawns`. `stray`, `mixed` and `renamed` are history variables for what the properties
excuse: leases that lost their task, rows renamed or removed under a launch, rows that were renamed.

### GridStream and the code

A row of the terminal is the number of the change that last wrote it. The terminal keeps which rows are
damaged; the emitter, woken by the `Wakeup` the IO thread sends after it has let go of the lock, takes the damage
with both locks held and makes a snapshot, a delta or nothing of it (`build_emit`), under the next
version. It then sends the frame to whoever receives by then. A viewer subscribes first, then takes a
snapshot of its own, which resets no damage and is stamped with the version so far: frames up to this
floor are dropped (`sessions_grid_ws.rs:364-399`, `472`). One that lagged takes another. Scrolling damages
every row (`docs/terminal-rendering-research.md:117`), so `scrollback_appended` is always empty and the
stamp of the scrollback is exact.

`starved` and `deaf` are history variables for two gaps of the code. The emitter counts its receivers
before it takes a lock (`grid_emitter.rs:174`); if there are none it drains the damage, and a viewer that
attached in between never gets those rows until they change again. And a `Wakeup` between the spawn of the
emitter and its subscription (`:113`, `:131`) is heard by nobody until the next one.

### ActiveViewer and the code

A connection handles a message at a time and the connections run in parallel; `pc` is where in a handler one
is. `Claim`, `Input` and `Resize` are the messages that take a size to the session (`sessions_grid_ws.rs:198-257`,
`642-720`); then come the stores of `active_cols` and `active_rows` (`Record`), the kernel's window
(`Notify`) and the grid (`Reshape`), each under a lock of its own. `Release` and `Leave` give the claim up
by a compare-exchange (`Clear`). `Override` is `/cli/sessions/resize` (`terminal_routes.rs:313-345`), one of
`Requests` at a time: it goes straight to `DaemonPtySession::resize`, looks at no claim and stores no size.

`asked` is a history variable: the size the session last took from a viewer that has not left or released since.
`crossed` is one too: the last resize, a viewer's or a request's, began while another ran. Overlapping ones can
leave the kernel's window and the grid at different sizes (`daemon_pty.rs:649`, `:656`), and a `Resize` that
passed its gate lands after another's claim. So is `overridden`: the last resize was a request's.

### Runs

| Run | Instance | Shows |
| --- | --- | --- |
| `registry` | a workspace and a tab, 2 sessions, 2 handlers: spawn, canonical ensure, forced re-spawn | `TypeOK`, `NoOrphanChild`, `OneSlotPerSession`, `RegisteredNotKilled` |
| `registry_close` | one tab, 2 sessions, 2 handlers, a viewer, spawn, guarded close, reap | `OneReaper` |
| `registry_live` | one workspace, concurrent ensures, weak fairness | `LeftRegistryDies`, `ObservedExitLeavesMap`, `RequestsReturn`, `ImplementsLife` |
| `queue` | 2 signals to one workspace, 2 sessions, a spawn request, 2 crashes, any file unreadable, weak fairness | `TypeOK`, `CounterIsDisk`, `OneCopy`, `DrainedInOrder`, `LostOnlyByCrash`, `ImplementsMailbox` |
| `reaper` | one workspace with a chat and a tab, stamps 0 to 2, 2 spawns, one failing read, weak fairness of the reaper | `TypeOK`, `ForcedWasAsked`, `FiresJustified`, `ReapIsJustified`, `DormantReaped` |
| `events` | two tabs, a window and the app-level socket, a buffer of 2, 3 changes, one lost connection or request | `TypeOK`, `NoSessionMissed`, `SessionsSurface` |
| `heartbeat` | one heartbeat and a free name, 2 launches, an upset at any moment | `TypeOK`, `LeaseOwned`, `OneInFlight`, `LanesApart` |
| `heartbeat_live` | one heartbeat, 2 launches, fair scheduling | `DueFires` |
| `grid` | 2 rows, 2 viewers, 3 changes, channels of one frame and one event, fair tasks | `TypeOK`, `NoRowMissed`, `NeverBack`, `Converges` |
| `viewers` | 2 connections, 2 requests of the HTTP route, 2 sizes | `TypeOK`, `ClaimIsLive`, `ActiveDrives`, `ClaimIsKept` |

Two sessions and two handlers are enough for a displacement, a displaced observer meeting its
successor, an eviction racing a spawn and two callers of `kill()` on one session; the theorems lift the
bound for safety. Sessions never come back, so runs are finite and end in states where no spawn is
possible; requests can always arrive and fail to spawn, hence no deadlock.

In `queue`, two signals are the least that can be reordered or meet on the locks; two sessions the least
for a displacement during a drain; two crashes reach every point of a drain and of the boot after it. One
workspace is enough: what two of them share is the mutex and the providers' locks, and two senders to one
workspace meet on these just the same; the theorems are about any number. Spawns by the shared helper
happen through wakes, so `Ensures` is empty there. A signal is sent at most once and a session spawned at most once. The request
to spawn can always arrive, hence no deadlock.

In `reaper`, one workspace is enough because nothing but the order of a pass relates two; the theorems are
about any number. Two seconds and no stamp at all tell before and after the snapshot apart, two spawns let
the chat and the tab both live, or one name be taken again, and a failing read may be any of
the four of a pass. In `events`, three changes are the least for remove, add and remove of one name around a
fetch, or two names of which one is lost. In `heartbeat`, three tasks would add a second loser for one
lease and nothing else; the second name is there to be renamed to, added and bound. In `grid`, channels of
capacity one make every second frame a lag, and three changes put one before, one during and one after an
attach. In `viewers`, the second connection is the one that
claims between a release and its compare-exchange of the first, and three or four resizes may overlap.
`viewers` may stop: connections end and are not replaced.

Two runs end in a counterexample that parts a comment from the code:

| Run | Trace in a sentence |
| --- | --- |
| `observer_by_name` | two spawns of one name; the first session's observer unregisters the name and kills the second, whose child lives |
| `lease_kept` | the daemon crashes during a launch and is back within five minutes: the sweep spares the lease, and the heartbeat is skipped for ever |

### Known divergences

These behaviours are in the models and contradict what a comment says. No property forbids them and no run is kept for
them, but whoever changes the code near by should know of them.

- Two concurrent ensures find nothing, both spawn, and the second `register` kills the session the first
  returned, where `pinned_chat.rs:183-184` says the second reuses it.
- An unforced close of a living session nobody watches is refused, for the observer and the emitter count
  as receivers (`session_lookup.rs:113-115` says they do not).
- `unregister` nulls `active_terminal_id` before the `UPDATE` that matches on it, so a row that names an
  older terminal stays `running` (`v2_session_map.rs:226-236`).
- A stamp of `active_terminal_id` may follow the removal of its session (`pinned_chat.rs:206`), and a child
  that exits before its observer subscribed is never flagged for the reap passes (`terminal_routes.rs:591`).
- The shared spawn helper types a drained signal without the Enter that submits it (`spawn.rs:243`;
  `signal_format.rs:19-20`).
- A drain clears the counter with unreadable files left on disk, which later drains then skip
  (`pending_live.rs:53-58`, `160-162` say the counter never lags the disk); and a replay that passes over a file
  gives those behind it newer names, so a later signal may be delivered first.
- `/cli/sessions/resize` sets a session's size whoever has the claim, and the active viewer's is not back
  before it resizes again or another claims (`daemon_pty.rs:272-277`: its dimensions drive the PTY's resize).
- A read of the heartbeats that fails counts as none, so the keep-warm gate, which `active_reaper.rs:397-398` says
  always spares, passes; and one of the rows that fails when a dismissal arms its timer makes the next pass take the
  interaction for a newer one and cancel it.
- A session that ends between the liveness probe and the inject leaves the signal neither typed nor queued
  (`egress.rs:438-440` says it is queued).
- A crash during boot between `replay_all` and the enqueues loses the queue (`main.rs:646-648` says it
  stays on disk).
- An activation in the second of the dismissal, or before the reaper's next pass, or a pin, does not cancel
  the forced timer (`active_reaper.rs:98-99` says it does), and a second dismissal of a workspace whose
  timer was cancelled in the same pass is lost.
- The app-level event subscriber is refused at every attempt (`session_events_ws.rs:78-84`), and a lagged
  subscriber gets no fresh snapshot (`session_events.rs:32-36` says it does).
- A tick that listed a heartbeat before an overlapping tick stamped it fires it again once the lease is
  free (`triage.rs:170-171` says the lease prevents this). A rename during a launch keeps the lease
  (`heartbeats/mod.rs:479`).

### Fairness

`Fairness` is weak fairness of each handler and each observer (a thread with work runs; a spawned tokio
task is polled) and of the emitter's first poll. Nothing is assumed of requests, viewers or the child's
own exit. `PendingLive` assumes the same of senders, spawners and a booting daemon, and nothing of sends,
crashes or the end of sessions. `ActiveReaper` assumes weak fairness of the reaper's loop and of a timer's
ripening; `SessionEvents` that the daemon announces what it did and that every client goes on handling
what arrived and reconnecting; `GridStream` that the IO thread sends the Wakeup of what it parsed and that
the emitter and the connections run. `Heartbeat` assumes weak fairness of each launch, and strong fairness
of the tick of each name: the scheduler comes round for ever, and the pool of tasks, though it may be full
each time it does, is not full always. Nothing is assumed of users, children, schedules or crashes. `Reap` is part of a handler's progress: `kill()` ends with SIGKILL to the process group and a
bounded wait, after which the child is gone.

## Proofs

Every invariant and every action property of the passing runs is a theorem, and of the two refinements the
part that safety covers. Each rests on the named assumptions its module declares about the constants, and on
nothing else: on no finiteness, no bound of a run, and no fairness.

`SessionMap_proofs` proves, for every `Keys`, `Workspaces`, `Sessions`, `Callers`,
`Viewers` and `Requests` (finite or not), under the assumptions `SessionsDistinct` and `RequestsKnown` of
`SessionMap` only:

- `Invariance`: `Spec => []IInv`;
- `TypeCorrect`: `Spec => []TypeOK`;
- `NoOrphan`: `Spec => []NoOrphanChild`;
- `SingleReaper`: `Spec => []OneReaper`;
- `ListedUnkilled`: `Spec => []RegisteredNotKilled`;
- `ListedOnce`: `Spec => []OneSlotPerSession`;
- `LifePassages`: `Spec => Life!Init /\ [][Life!Next]_<<map, [s \in Sessions |-> Stage(s)]>>`.

None of the four properties is inductive. `RegisteredNotKilled` needs to know that a session in the hands
of an actor about to kill it has left the map for good, which is `GoneUnregistered`; that needs that no
handler can register it again, which is `InsertExclusive` (a session is its spawner's alone until the
insert) and `UnbornUnknown` (nothing refers to a session not yet spawned); and for the eviction paths,
which kill the session they looked up and not the one they removed, `LookedUp`: what was looked up under a
key is under that key or nowhere, so removing the key unregisters it. `ObserverUnspawned` keeps the two
actors of a session apart, `ReaperKilled` ties a reaper to the flag it won, and `ActorShape` keeps each
actor on its own control path. `IInv` is their conjunction.

The proof has two layers. `NextShape` proves `Shape` (types and control) from the observation that each
action moves one actor along its path. `NextCustody` then has one lemma per action: most actions are
*quiet* for custody (they change no session's place) and follow from `QuietCustody`; `Fork`, `Insert`,
`ObserveExit`, `RemoveEntry` and `WinKill` are proved by themselves, one step per conjunct.

`LifePassages` is the safety part of `ImplementsLife`. `StageOf` gives a session's stage before and after a
step, `LifeSteps` what a step of `SessionLife` is in these terms. A fork, an insert, a removal and a won
kill are proved by themselves; every other step moves no session in or out of a slot or of its owner's hands and so at most
finishes one (`StageFinishes`). Custody is what makes the passages one-way: the session an insert lists was
nobody else's, so it was neither listed nor condemned, and the one it displaces was in that slot alone.

`PendingLive_proofs` proves, for every `Signals`, `Keys`, `Sessions`, `Endpoints`, `Ensures` and
`MaxCrashes`, under `ActorsDistinct` and `CrashesBounded` only:

- `QueueTypes`: `Spec => []TypeOK`;
- `QueueCounter`: `Spec => []CounterIsDisk`.

`CounterIsDisk` is not that the counter is the number of files, which the code does not keep: the counter and the
files passed over together are. It says nothing while a drain is at work or the daemon boots, so it is not
inductive. `QueueInv` is: `Counted` says what the counter is then (as stated for every key but the one being
drained, zero until the boot has gone through every file, and as stated again from the boot's scan on), and
`OneDrain` and `WorkWhileUp` (requests work only while the daemon serves) that there is at most one such key and none
during a boot. There is one lemma per action; a return and a step on to the spawn share theirs.

`PendingLive_safety` proves, from the same assumptions, `QueueOneCopy`: `Spec => []OneCopy`. `Store` sees
the files of a key, what a boot has read of them, the hands of the actors and what was typed into the
sessions as one function from places to sequences, and `Single` says that a signal is at one position of
one place. That is not inductive: a sender that has yet to type or queue its signal must find it nowhere, which
`CopyInv` adds (`Fresh`). Types and control come from `QueueInv`. Three facts about `Store` carry the
steps, each with a lemma of its own: an entry that moves to the end of another place (`MoveKeeps`; the head, or the
first file that was not passed over), a signal
that comes from nowhere (`GainKeeps`), and places that lose (`LoseKeeps`); every action is one of the three.

The same module proves:

- `QueueOrder`: `Spec => []DrainedInOrder`;
- `QueueLosses`: `Spec => LostOnlyByCrash`;
- `MailboxStages`: `Spec => Box!Init /\ [][Box!Next]_[g \in Signals |-> Status(g)]`.

Order in a session's input is no invariant by itself. `OrderInv` says that files, replayed files, hands and
inputs are each in the order of acceptance (`FilesSorted`, `HandsSorted`, `InputsSorted`) and, where one
feeds another, that what feeds goes behind what is there: a draining hand before the files left, a session's
input before the hand that types into it, and, as a boot enqueues again, what is back on disk before what is
left to enqueue, but for signals a replay passed over, which keep their place in front of what gets a newer name
(`overtaken`). Two facts keep others out of that chain: a session has one drainer (`OneDrainer`), because it is
spawned once and its spawner drains; and what is injected is never queued (`Injected`), so an inject in between
does not count. `QueueLosses` needs one argument per step about where each signal goes (`Fate`). For `MailboxStages`,
`Origins` says that a signal never accepted is with its own sender only, so that a step of a drain or
a boot cannot be mistaken for an injection. That the stages are reached is liveness and model-checked.

`ActiveReaper_proofs` proves, for any workspaces, names, owners and bounds:

- `ReaperTypes`, `ForcedAsked`, `ReaperSafe`: `Spec => []TypeOK`, `[]ForcedWasAsked`, `[]FiresJustified`;
- `ReaperJustified`: `Spec => ReapIsJustified`.

What is needed besides is where a decision came from: a chat in the snapshot is one of its workspace's names
(`SnapshotOwned`), a timer about to close an Active workspace's session is a forced one
(`CondemnedForced`), and nothing is listed while a snapshot is taken (`ListedWhileFiring`), so that what was
listed was judged with the snapshot at hand. Both properties speak of what was read; `MaxFaults` may be any
number.

`Heartbeat_proofs` proves, for any names, launches and bounds: `HeartbeatTypes` (`[]TypeOK`), `LeasesOwned`
(`[]LeaseOwned`) and `LeaseExcludes` (`[]OneInFlight`). `OneInFlight` is not inductive: a second launch is kept
out because whoever is past the lease has it (`Held`), unless its row was renamed or removed under it. The lemmas
`Quiet`, `Returned` and `EditRow` say what a step does that moves no lease, gives one back, or edits a row's
other columns; every action is one of these, or `Acquire`.

`HeartbeatLanes` is `[]LanesApart`. The row's pointer comes from what a launch has read, found in the registry
or spawned some steps before, so the invariant is about all of these: the *lane* of a name is the terminals
and the conversations its row, its slot in the registry and the jobs of its launches hold. `LaneInv` says that lanes
share no terminal (`TerminalsApart`) and no conversation (`ConversationsApart`) unless the names are kin by a
rename; that a tab a user opened, which may run any lane's conversation, is pointed to by that lane only
(`TabApart`); and that numbers in use are not those still to be minted (`Minted`). The last is what the code's fresh UUIDs
give. `MayPoint` and `MaySpeak` say what a lane may hold after a step; one lemma shows they suffice, and
each action satisfies them.

`ActiveViewer_proofs` proves, for any viewers, requests and sizes: `ViewerTypes`, `ClaimsLive` (`[]ClaimIsLive`),
`HolderDrives` (`[]ActiveDrives`) and `ClaimsKept` (`ClaimIsKept`). `ActiveDrives` speaks of moments when
nobody resizes; `Drive` says what leads there: an uncrossed resize is alone (`OneResize`), it is a request's
(`overridden`) or the holder's if the holder has asked for a size, and then it is on its way to that size, the
kernel's window first.

`GridStream_proofs` proves, for any viewers, rows, capacities and bounds: `GridTypes` (`[]TypeOK`),
`RowsReach` (`[]NoRowMissed`) and `MirrorsAdvance` (`NeverBack`). `NoRowMissed` speaks of a viewer to whom nothing is on its
way. `GridInv` says what is on its way: the frames in its queue and the one the emitter is about to
send (`Coming`), and that the last of them above the viewer's floor that covers a row, or the mirror if none
does, has the row as the terminal had it when damage was last taken (`CellsComing`). Every undamaged row is
unchanged since. This needs that no frame is ahead of the emitter's version and that deltas carry no scrollback
(`FramesKnown`), that the emitter's count of the scrollback is right unless everything is damaged
(`HistoryKnown`), and, for `NeverBack`, that frames come in the order of the times they show and none above the
floor is older than the mirror (`TimesInOrder`).

`SessionEvents_proofs` proves, for any names, subscribers, capacity and bounds: `EventsTypes` (`[]TypeOK`, with the capacity
of each queue) and `NothingMissed` (`[]NoSessionMissed`). A live session that an attached client neither shows nor is
excused for is on its way: as a registration not emitted, an announcement in its queue, or a request for the
list that is unanswered or whose answer has it (`Coming`). That is inductive only if no removal of the
session's earlier life arrives last: a removal in a queue has an announcement behind it, there or unsent
(`Readded`), and one that is unsent was overtaken by a registration emitted already, in which case its own
emission is late, or to be emitted too (`Overtaken`). TLC checked the five parts with four changes and with
two losses before they were proved.

Not proved, and why. `LeftRegistryDies`, `ObservedExitLeavesMap`, `RequestsReturn`, `DormantReaped`, `DueFires`,
`Converges`, `SessionsSurface` and the fairness of `SessionLife` and `Mailbox` in the two refinements need fairness or
ENABLED, which the prover does not handle; they stay with TLC, on the instances above. So do the two
counterexamples, which are about one behaviour each.

## Not modelled

- Workspace messages (`workspace_msg.rs`): a delivery is verified by what the recipient's screen shows, and
  a retry after the session died may deliver twice. Whether it does depends on the text, which is data here.
- The tunnel, the companion server, updates and hooks are clients of services and programs outside the
  repository; what they keep is written a request at a time.
- The legacy session registry, its byte ring and the watchdog: v2 sessions never enter them.
- Layouts, skills, clone, migrations, settings, git, LLM and themes: files and rows, a request at a time.
- The renderer and the command line: the environment's choice of requests, but for the reconciliation of
  tabs and the mirror of a grid, which are modelled.
- Of the modelled parts: command lines, labels, mouse and paste messages, the audit trail, the inbox, and
  the rest `PROJECT.json` names with its component.
