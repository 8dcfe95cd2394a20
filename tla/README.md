# Formal models of tmh and tmh-next

This directory holds TLA+ models of the two programs of the repository, TLC
configurations that check small instances of them, and proofs that TLAPS checks
for instances of every size. It is read beside the code: `PROJECT.json` names,
for each definition, the lines it models.

## 1. The system

The repository contains two programs.

**tmh** (`cmd/tmh`, `internal/...`) manages tmux sessions that a YAML file
declares. It has no daemon: each command line, each run of a tmux hook and each
TUI is a process that talks to the tmux server through the `tmux` command and
shares one SQLite file and one history file with all the others.

**tmh-next** (`tmh-next/...`) is a new generation for Zellij: a daemon `tmhd`
that reconciles a catalog with the Zellij runtime and commits it to SQLite, and
a terminal UI `tmh-next` that talks to the daemon over HTTP on a Unix socket.

### 1.1 Components of tmh-next

| Component | Code | State | Operations | Talks to |
|---|---|---|---|---|
| control plane | `production/client.go`, `production/actions.go` | the catalog loaded, a lock, a hub of subscribers | `Snapshot`, `Search`, `Execute`, `Watch`, the polling loop | store, Zellij, clients |
| store | `store/sqlite.go` | `catalog_state` (one row), `command_results` | load, compare-and-swap save, save with a result | the control plane |
| projection | `production/projector.go`, `runtimegraph/graph.go` | none: catalog × graph → catalog | `ProjectRuntime`, retention of pins, history and durable data | control plane |
| domain | `domain/*.go` | none | actions, validity of a catalog | everything |
| watch hub | `production/client.go` (`publishLocked`, `Watch`), `daemonapi/server.go` | 64 slots per subscriber, its error | publish, forward, give up, heartbeat | control plane → watchers |
| daemon | `cmd/tmhd/main.go`, `ensureDaemon` in `cmd/tmh-next/main.go` | the socket and its path | start, stop, reconcile loop | file system, clients that start one |
| API and remote client | `daemonapi/server.go`, `remote/client.go`, `control/contracts.go` | one stream per watcher | requests, event stream with heartbeats | TUI ↔ control plane |
| Zellij backend | `backend/zellij/adapter.go`, `runner.go` | none | discovery, new-pane, close-pane, write-chars | Zellij |
| TUI root | `app/model.go`, `app/update.go` | catalog shown, mutation lane, watch chain, tick chain, search numbers | `Update`, one message at a time; commands in goroutines | the API or the mock |
| pages | `ui/pages`, `ui/components` | cursors, selections, filters, forms | keys → messages to the root | root |
| mock backend | `mock/*.go` | a deterministic catalog | `Execute`, `Tick` | root, in the demo |

### 1.2 Components of tmh

| Component | Code | State | Operations |
|---|---|---|---|
| active session | `actions/active*.go`, `actions/navigation_safety.go`, `actions/kill.go`, `state/active.go` | tmux links of the session `active`, its ownership marker, table `active_windows` | promote, touch, prune, remove, recover, kill |
| deferred reloads | `actions/reload.go`, `state/reload_queue.go` | table `reload_queue` | enqueue, drain, expire |
| snapshots and undo | `actions/snapshot.go`, `state/snapshots.go`, `state/events.go` | tables `snapshots`, `events` | save, restore, undo |
| history | `state/history.go` | a JSONL file | append with compaction, prune, clear |
| trust, hooks, marks | `state/trust.go`, `actions/hooks.go`, `state/marks.go` | tables | allow, run, set, jump |
| sync and friends | `actions/sync.go`, `freeze.go`, `import.go`, `export.go`, `create.go`, `init.go` | tmux sessions and the YAML file | push, pull, bootstrap, freeze, import, new, save of settings |
| configuration | `config/*.go` | none | discover, parse, merge, resolve, validate, diff, write |
| TUI | `ui/*.go` | tree, filter, modals, marks, ring of locations, refresh loops | keys, ticks, answers of commands |
| tmux adapter | `tmux/cli_runner.go` | none | one tmux command per call |

### 1.3 How they interact, and what is hard about it

* *tmhd and everyone else.* The Zellij session is shared with the user's own
  clients, the database with any other tmhd (an old one drains its connections
  while a new one is already listening). Between loading the catalog, commanding
  Zellij, observing the effect and committing, anything may happen, the context
  may expire and the process may die. Correct means: one log of revisions,
  results and catalog that agree, answers that last, no committed change lost,
  nothing committed that was not carried out, and a catalog that converges.
* *TUI and backend.* Every `tea.Cmd` is a goroutine. Results, watch events,
  snapshots, reloads and timers reach `Update` in any order, some never.
  Correct means: one mutation and one watch at a time, no older catalog shown
  over a newer one, no event missed, every action answered.
* *Keys and catalogs.* A catalog may arrive between a key and the message that
  the key set off, below an open confirmation, or while a list is filtered.
  Correct means: what is destroyed is what was confirmed, the marked row is the
  selected entity, and no page indexes what is no longer there.
* *The catalog over time.* Projections of a runtime that comes and goes
  alternate with commands that add snapshots, plans, pins and history. Correct
  means: whatever the order, the store accepts the result, a runtime at rest is
  not a new revision, and what is to last does.
* *Processes of tmh.* Two hooks and a command may run at once, and the user
  types tmux commands meanwhile. Only a single tmux command or a single SQL
  statement is atomic. Correct means: no window is ever destroyed by
  housekeeping, aliases are temporary and tracked, a session called `active`
  that belongs to the user is not touched. Reloads are typed into panes that may
  have become busy, moved or gone since they were listed.
* *The TUI of tmh.* Listings, statuses and previews are asked for by three
  loops, by keys and by commands that end, and answer in any order, while rows
  under the cursor come and go. Correct means: the selection stays, nothing
  older replaces something newer, jumps lead where they say.
* *The configuration and tmux.* A command that mirrors tmux lists sessions, all
  panes and the windows of each session by separate calls, edits a tree loaded
  before and replaces the file. Correct means: each command does to the file what
  it says, what it leaves the others can load and edit, and a directory written
  is one the window has had.

`PROJECT.json` lists each hazard at its line with the properties that would
catch it going wrong, and a note on what these leave open.

## 2. Plan

Ordered by what would hurt most.

1. `RevisionLog`, `ControlPlane`, `ControlPlaneProofs`: store, reconciliation,
   execution; refinement of an abstract log; safety proved. **done**
2. `TuiRoot`, `SearchLane`: the UI's asynchronous protocols over a backend that
   is what (1) proves of it. **done**
3. `ActiveSession`, `ActiveSessionProofs`: all processes of the active session;
   type, no window destroyed, no expiry moved back, no collision touched, proved.
   **done**
4. `WatchHub`: subscriptions at the limit of their buffers, replay, heartbeats;
   a watcher that comes back learns of every commit. **done**
5. `Catalog`, with the validity of a catalog as the reference: what projections
   retain, each kind of action, idempotence. `Demo`: the same for the backend of
   the demonstration, with restore and undo. **done**
6. `SessionCommands`: init, push, new, scratch, kill, snapshots and undo as
   processes that interleave. **done**
7. `ReloadQueue`: the watcher, reloads and the deferred queue. **done**
8. `DaemonStart`: several starts, the stale socket, the removals at shutdown.
   **done**
9. `Pages`, `Cockpit`, `Notices`: what the user of tmh-next sees and presses.
   **done**
10. `Dashboard`, `TmhTui`: tmh's TUI, its refresh loops, marks and jumps.
    **done**
11. `ConfigTree`, `ConfigSync`: the configuration as a tree, and the commands
    that write it while tmux and others change. **done**
12. `marks.json` with two processes; pure algorithms against reference
    definitions: profiles, groups and templates of a configuration, the runtime
    graph, the fuzzy ranking.

Theorems, in the order of what they say about the programs: the ledger of the
daemon, the active session of tmh, the root of the client, whole sessions of tmh,
the search lane and the notices, the pages, the TUI of tmh, the catalog of the
daemon, the demo's backend. **done**, section 6. Left: the type of `WatchHub` and
that nothing is skipped (the slots, the pipe and what was seen make up an initial
part of the log while no trouble is recorded); the uniqueness of entries in
`ReloadQueue`.

## 3. The modules

### 3.1 `RevisionLog` — what a client is promised

A log to which either an observation or a command written against the newest
revision is appended. Nothing is rewritten, skipped or inserted. The revision a
client names in `expected_revision` is the length of the log it has seen.

### 3.2 `ControlPlane` — tmhd, the store and Zellij

| Model | Code |
|---|---|
| `catalog` | the row of `catalog_state`: `rev`, `serial` (MutationSerial), `events` (audit log, `NoKey` for a reconciliation), live `panes`, backend status, last saved configuration |
| `results` | `command_results` |
| `pc`, `req`, `cur`, `work` | the operation under way in each daemon and its locals: what was loaded, what is being built |
| `live` | the panes of one managed Zellij session |
| `ran`, `kept`, `acked` | history: commands accepted by Zellij, commands that changed it, results that reached a client |
| `ReconcileLoad … ReconcileSave` | `reconcileLocked`, a step per call that leaves the process |
| `ExecuteBegin … ExecuteSave` | `executeLocked`, `applyProduction`, `verifyRuntimeEffect`, `SaveMutationResult` |
| `Abort` | a timeout, an error, a kill of the process: between any two steps |
| `External` | the user's Zellij clients |

Commands are a split, a kill, a write (`send`, which needs no check) and a
configuration change, one for each way a command can touch runtime and catalog.
`Effect` lets Zellij accept a split or a close without carrying it out, as the
README of tmh-next describes. A key is the whole action, as `commandKey` hashes
it.

### 3.3 `TuiRoot` — the root model and its backend

A *task* is a command bubbletea runs in a goroutine: it is called, answered by
the backend, and delivered at any later time. `Serve…` are the backend's
answers; `Loaded`, `AcceptMutation`, `RuntimeWatch`, … are the cases of
`Update`, each with everything the case calls (`armTimer`, `launchTick`,
`waitWatch`, `startReload`). `setup` is how `main.go` wired the root (production:
watcher, no ticker; demo: ticker, no watcher), what the user asks for, whether
he is so `early` as to ask before the first catalog has arrived, since keys reach
the pages at once and `requestAction` does not look at `ready`, and which calls
may fail. Until the first snapshot is fetched the demo's backend has no catalog
(`Unloaded`); an early action over revision 0 is answered with that or with a
conflict. The backend is an abstraction of `ControlPlane`: revisions are
committed one after the other over the expected one, an event is published
before the answer of the command that caused it (`publishLocked` runs inside
`Execute`), and a revision and its event have the same number — which is not
assumed lightly: it is `CountersAgree`, part of `LedgerAgrees`, which is proved.
Tokens of the timer are told apart from the one before only; task ids serve to
keep equal tasks apart.

### 3.4 `SearchLane` — live search

A key changes the input and starts a request; the request reads the input when
its goroutine runs, is numbered when its message arrives, and its results are
dropped, asked for again or shown.

### 3.5 `ActiveSession` — the temporary aliases of tmh

| Model | Code |
|---|---|
| `links`, `owner`, `epoch` | tmux: which window is linked into which session, the option `@tmh-active-owner`, the identity of the server |
| `rows` | `active_windows`; `expires_at` is `last_selected_at` + TTL in every statement that writes it, so it is not stored |
| `proc[p]` | one tmh process: its command, the part under way, `now` taken at its start, the epoch and the snapshot of links it read |
| `Begin … Kill` | the commands of `actions/active_*.go`, one step per tmux command or SQL statement |
| `UserRelinks`, `UserOwnsActive`, `Restart`, `Tick` | the user, the tmux server, the clock |
| `calm[p]` | history: nobody else has changed links, rows or server since `p` began |

Abstractions: a window is linked into `active` at most once; the number of link
attempts (three) is a free choice at each failed attempt; a prune handles its
rows in any order (the code: by promotion time and id); a promotion names
`session:window`; `has-session` and `show-options` are one step, as are
`new-session` with its marker (one tmux command in the code); a kill of a pane is
that of its window; the prefix matching of tmux targets is left out; the feature
is enabled and its store is open.

### 3.6 `SessionCommands` — sessions made and destroyed as a whole

| Model | Code |
|---|---|
| `live` | tmux: the names of each session's windows, in order |
| `journal`, `lastId` | the table `events`, a set of rows; ids are `AUTOINCREMENT`, so a deleted one does not return |
| `saved` | the table `snapshots`, one name in use |
| `proc[p]` | a process or a goroutine of the TUI: its command, what it captured or is to create (`plan`), the sessions left, the windows the present one lacks |
| `ListSessions … InsertEvent`, `SaveSnapshot` | `CaptureLive` with what the TUI's kill and a snapshot do with it |
| `KillSession`, `KillMatching` | a kill in the TUI, and `tmh kill`, which records no event |
| `ReadEvent`, `GetSnapshot`, `DeleteEvent` | `UndoLast`, `RestoreSnapshot` |
| `HasSession … ApplyLayout`, `ListForPush` | `recreateSnapshot`, `CreateSession`, `Push`, `Init` |
| `CreateScratch`, `InsertExpiry` | `tmh scratch --ttl` |
| `start`, `touched`, `acts` | history: the sessions when a process began, those others changed since; the bound |

Abstractions: panes, directories and layouts are data, so `applyWindowLayout` is
one step that needs its window and leaves it with its name; sessions are treated
in any order (the code: by name); windows are numbered from 1 without gaps
(`base-index 1`, `renumber-windows on`, the settings tmh recommends); the
matching of targets by prefix is left out; the names of scratch sessions are
chosen freely; the wall clock does not run backwards, so that the newest event,
by time and then by id (`RecentEvents`), is the one of the largest id.

### 3.7 `Catalog` — what projections and actions make of the catalog

| Model | Code |
|---|---|
| `rt` | Zellij: panes with their tab and state, agents in them, attached clients |
| `cat` | `domain.Catalog`: workspaces with desired and observed state, views, agents, history, snapshots, plans; `nil` names the lists that are nil rather than empty, which `runtimeEqual` tells apart |
| `ProjectRuntime` and the operators above it | `projector.go`: workspaces, terminals, agents and views of now, then what is retained of those before, then the durable data |
| `Reconcile`; `Split` … `RestorePush` | `reconcileLocked` and the cases of `applyProduction`, one step each: `ControlPlane` shows that the daemon's smaller steps amount to that |
| `UserOpens`, `UserCloses`, `ProgramChanges`, `ClientChanges`, `Ages` | the user's Zellij clients, the programs in the panes, the clock |
| `ValidateCatalog` | what the store refuses |

Names, titles, times and the edges of the runtime graph are data; history is
chunks that are `old` or not, each at its place in the list: what is pruned is by
age, and then all but the newest `MaxChunks` (2000 in the code, 2 in the run).
`MaxPlace` bounds the list. An execution starts at a first poll or at one of
`Starts`, a runtime with a stored catalog that is well formed and valid
(`StartsAssumption`); `Opened` gives new panes the next numbers of their session.
`Subsequences` has the one thing that `Catalog` and `Demo` take from lists, the
elements in a set, in order, as a recursive function that can be reasoned about.

### 3.8 `Demo` — the backend of the demonstration

`mock/backend.go`: every action on a copy of the catalog that must validate,
counters of ids that are not part of the copy, the field-by-field difference of
states, restore in three modes with its undo. `MCScenario` is a part of
`fixtures.go`. A surface stands for its title and directory, which no action
changes. An action that is refused after it has taken its ids (`Refused`: a split
of a terminal that the snapshot of its workspace does not show) leaves everything
else; in the fixture `base` has been split since, so that this happens.
`InPlanOrder` puts operations in the order of `SortRestoreOps` by the number of
operations before each; `Redone` and `Rolled` are the loops of apply and undo.
`Layouts` are tmux's five; a pane that a restore has brought back has lost how it
was split. `FixtureAssumption` says what a scenario is: a catalog that is well
formed and valid, without plans, in which a workspace has the same windows
wherever it is described. Search and the other scenarios are left out.

### 3.9 `WatchHub` — events on their way to one watcher

`publishLocked` offers each commit to the watcher's slots and reports trouble
when they are full; `Watch` replays what the log has after the number asked for;
the server's loop forwards, gives up, or keeps the stream alive; the watcher
comes back with the last number it has seen. Sequence numbers are those of the
audit log, and every commit has one: `CountersAgree`, proved of `ControlPlane`.
A heartbeat is 15 s away from the one before, so at most one is on its way.

### 3.10 `DaemonStart` — who listens on the socket

A step per system call of `listenUnix` (inspect, dial, remove, listen, protect)
in each daemon, of `ensureDaemon` in each client, and of the end of a daemon that
runs: a crash, or SIGTERM with the two removals of the path. A daemon whose
`chmod` is refused, since its socket was removed, closes its listener in a step of
its own (`Close`), and that removes whatever the path names by then.

### 3.11 `Pages`, `Cockpit`, `Notices` — what the user of tmh-next sees

| Model | Code |
|---|---|
| `page[r]` | the memory of a resident page: selection, cursor, filter, context, tab (`pages/base.go` and the pages) |
| `Inner` | the rows inside an entity: the panes of a workspace, the operations of a plan in each of the three modes of its page |
| `opened`, `loaded` | `Root.ready`; `Root.cat` is not nil: an early action's reload may bring a catalog before the first snapshot does |
| `stack`, `ov` | `Root.stack`, `Root.ov` with what the overlay holds |
| `msgs` | messages that keys have set off and `Update` has not met: a catalog may come first |
| `SetCatalog`, `MoveUp`, `MoveDown`, `AcceptFilter` in `Pages` | `pages/base.go` |
| `WorkspacesKeys`, … and `WorkspacesCommands`, … | what the keys and the commands of each page ask of the root, each a set of outcomes |
| `KeyOverlay`, `KeyFilter`, `KeyUp`, `KeyTab`, `KeyAsks`, `KeyGlobal`, … in `Cockpit` | `handleKey` in its order of precedence, then the keys of the page |
| `crashed` | a page has indexed or dereferenced what is not there: the program ends |

A catalog is its set of ids per kind; an id is its place in the stable order; a
filter is the set of ids whose label it matches. The page of one workspace and
that of the plans mark a row of `Inner` while a catalog puts the cursor where the
workspace or the plan is in the whole list: the model has both lists. `Notices`
has the two clocks that run beside, for any number of steps of the help: the
expiry of each notification and the ticks of the guided help, both told from
outdated ones by a number.

### 3.12 `ReloadQueue` — deferred reloads of tmh

| Model | Code |
|---|---|
| `notices`, `pending`, `armed`, `fires`, `events` | the watcher of `internal/actions/watch.go`: fsnotify, one pending kind and one timer, timer functions under way, the channel |
| `step`, `todo` | what `tmh watch --auto` and one `tmh reload --busy` do next: panes to reload, entries to drain, the expiry |
| `queue`, `old` | the table `reload_queue`, the entries past their time |
| `panes`, `busy`, `stale`, `typed` | tmux: the panes at their places, what runs in them, whose shell has not read the file, whose program was typed into |

A reload is several tmux commands, a drain selects, sends and dequeues: each is a
step, and panes close and programs start between them.

### 3.13 `Dashboard`, `TmhTui` — the TUI of tmh

`Dashboard` is the tree as a value, one operator for each method of
`dashboardModel`: rows, cursor, fold, filter, preview, restoring the cursor by id,
the active session above the tree once a report says that it is in use. `TmhTui`
is `internal/ui`'s root: `Key` is `handleKey` in its order of precedence, `Serve`
what a command reads or does when its goroutine runs, `Deliver` the cases of
`Update`; ticks and the timers of mark keys come at any time, other tmux clients
open, close and relink, and the configuration, which each status reads again, may
turn the active session on or off. `used` counts keys and acts, `ended` tells a
quit from a panic. `Hits` is the loop of `applyFilter`; `Idents` are the names and
indexes that windows and sessions may have, which need not be unique. Toasts,
styles, texts and the contents of history and diff are left out; any action of the
palette can be chosen.

### 3.14 `ConfigTree`, `ConfigSync` — the configuration

`ConfigTree` is the YAML tree that tmh keeps for writing: scalars and mappings,
edits by dotted path (`config/path.go`), what loads (a scalar where a list is
wanted does not) and is valid, and where a window is (`types.go`, `resolver.go`,
`validate.go`).

| Model | Code |
|---|---|
| `file`, `tmux` | the configuration file; the windows of each session, in order |
| `cmd[p]` | one command: the tree it loaded, the panes it listed, the sessions still to be asked for windows, what it found |
| `Load`, `ListSessions`, `ListPanes`, `ListWindows`, `Write` | `loadConfig`, `collectLive` a step per tmux command, `config.Write` |
| `PullEdits`, `BootstrapEdits`, `FreezeEdits` | `config.Diff` with `Pull`; `Bootstrap` with `inferRoots`, `matchRoot`; `Freeze` |
| `Written` | the edits of `saveNewToConfig` (with a directory, a layout, a group), of the settings' `saveCmd`, of `ImportFile` |
| `Act` | the user's windows and directories |
| `past[p]` | history: the server when `p` began, where windows have been since, whether others changed the server or the file |

A text is its parts: a path its segments, so that a common prefix and the rest
below a root are those of sequences; a name is one string unless `Dotted` splits
it. An interrupted command is one that takes no further step: nothing is written
before the `rename` at its end. Any order of sessions stands for that of
the listing. `ConfigTree` has recursive operators and is used by no module with a
theorem.

## 4. The runs

Several systems share a run: a variable `part`, chosen in the initial state and
kept, says which one runs, and the others rest in one initial state. The
properties of a part that rests are trivially true there, so nothing is lost and
nothing is multiplied: a run's states are the sum of its parts'.

| Run | Parts and instances | What it shows |
|---|---|---|
| `daemons` (`MCDaemons`) | two daemons over two panes, 3 kinds of action, revisions to 2; a catalog over a managed session of up to 4 panes in 2 tabs and a configured one, 2 chunks of history kept, from a first poll or two busy starts, 2 acts; the demo with 3 acts of any kind | type, ledger, durable answers, configuration, commands carried out, nothing repeated, refinement of `RevisionLog`; the store never refuses, polls settle, what is to last does; clean-up in the demo, and from when to when a restore can be undone |
| `converges` (`MCControlPlane`) | 2 daemons, 2 panes, 2 actions, revisions to 2 | the catalog converges to the runtime |
| `client` (`MCNext`) | root: production and demo, 2 actions, every call of theirs may fail, revisions to 5, users who wait for the first catalog and who do not; lane: 2 texts, 3 revisions, searches and tasks; clock: 3 notifications, 3 chains of ticks; pages: 3 ids, 2 machines, 1–2 rows inside an entity, every page and pairs of pages, stacks of 3, 2–4 keys, 1 catalog | one mutation, one watch, the next tick is there, only a reload or an early user's first snapshot goes back; only the latest results are shown, and they are; notices and help keep time; nothing is destroyed unconfirmed, cursor and selection agree, where alone a page can crash |
| `live` (`MCLive`) | root: an onlooker whose stream breaks, a demo whose calls fail; hub: 2 slots, 6 commits, 2 failures; 3 clients and a daemon; `tmh watch` over 2 panes, 2 acts | the newest revision is shown, actions are answered, time goes on; a watcher learns of every commit; clients connect unless a daemon is stopped or closes over another's socket; the queue of reloads empties and freed panes are reloaded |
| `tmh` (`MCTmh`) | commands: 2 processes, 2 sessions, 2 window names, mixes of 2 to 4 commands; screens: a session of 2 windows, also of one name, another that opens, active off, on or switched, 9 sets of keys, 1–5 presses; reloads: 2 panes, 2 acts; configuration: 8 scenes of a file, a server and commands, 2–3 commands, up to 2 acts | commands deliver to untouched sessions, kills can be undone, nothing else is forgotten; selection, freshness, jumps, the one screen without a model; what the commands make of the configuration |
| `active_cases` (`MCActiveCases`) | 1 process, 2 windows; or 2 processes, 1 window, 1 server; all faults and user acts | prune settles, promotion delivers, a foreign `active` is untouched, no window destroyed, no expiry moved back |
| `split_discarded` (violation) | 1 daemon | a discarded split is committed when the user opens a pane meanwhile |
| `tui_wedge` (violation) | production, 1 action, no failures | the lane stays busy for ever |
| `tui_lostfetch` (violation) | an onlooker whose fetches may fail | the catalog stays old for ever |
| `active_untracked` (violation) | 2 processes, prune and promote | an alias without a row |
| `active_orphan` (violation) | 2 processes, kill and promote, 2 sources | a kill leaves an orphan |
| `sessions_raced` (violation) | 2 processes, init | windows added to a session another process made |

**Why the bounds are enough.** `MaxRevision` stops clients, users and outages,
never a sweep: two revisions after the first give a stale copy, a lost swap and
a retry over each of them; the proofs then cover every bound. Two daemons are
the fewest that race; two panes let a pane open while another closes, which is
what fools the pane count. In `Catalog` two acts change a runtime and take a
product action, or the other way round, between any polls; the busy starts give
them snapshots, plans, pins and history to work on; a list of three chunks is one
too many. In `Demo` three acts are a
restore, its undo and what comes between. In `TuiRoot` an event, a result and a
reload of three different revisions meet below revision 5. In `SearchLane` three
searches can arrive in every order. In `WatchHub` six commits overflow two slots
and a pipe of two with one to spare. In `Cockpit` three ids let one before and
one behind the selected one vanish, and let a page start on the last of a list whose
rows inside are fewer; a pair of pages is enough for one to be behind the other.
In `DaemonStart` three clients let one remove the socket of a second while a
third dials. In `ReloadQueue` two panes are enough for one to take the other's
place. In `TmhTui` the setups each bound the keys to those that act on one
another; two statuses and listings can overtake each other; two windows of one
name are enough for a listing to move the cursor between rows of one id. In
`ConfigSync` each scene has what its commands decide on — windows declared in
either form, moved, gone, new, of one name, sessions of their own — and two
commands in a row meet what the first has written; two at once race for the file.
In `ActiveSession` with one process the second window lets `active` outlive the
unlinking of the first, a tick lets an alias expire and be selected again, two
epochs let rows outlive their server; with two processes one window is contended
for. In `SessionCommands` a kill, an undo that is delayed, an undo and a second
kill are what it takes to delete the wrong event; three acts put two commands
and the user, or a command and two acts of the user, in every order.

**Stopping.** `CHECK_DEADLOCK FALSE` is set for `client`, `live`, `tmh` and
`sessions_raced`: a TUI whose user does nothing and whose first snapshot failed
really is at rest, so are a search page without searches, a TUI that was quit, a
client that is connected, and a machine on which no one runs commands; the
bounds on revisions, keys and acts stop the rest.

**Fairness.** `ControlPlane!FairSpec`: the polling loop of `tmhd` comes round for
ever and `Client.mu` is a Go mutex, which does not starve its waiters (SF of a
sweep's steps; of a discovery that succeeds, so Zellij is not down whenever
asked); a command ends by its steps or by the timeout of its request (WF).
`TuiRoot!FairSpec`: a call that is made again and again is in the end answered
(SF, it may fail any number of times before), a message is delivered (WF:
bubbletea's channel). `WatchHub`: the server's loop and the watcher each take
their steps (goroutines in loops); a `select` may choose either ready case.
`DaemonStart`: each process goes on. `ReloadQueue`: the watcher and the watch go
on, a `select` takes each of its cases in the end (SF), time passes. Nothing is
assumed of users, of changes in the runtime, of failures or of a reload command,
which may be interrupted. The users of `live` wait for the first catalog: after an
early action the first snapshot may put another catalog under a result under way,
which is then dropped with the lane taken, as in `tui_wedge`. `MCLive` states each
of these of the part that runs.

**Mutants.** Each property of a passing run has a mutant of the model, written
beside the definition it changes, that stands for a plausible bug and makes the
run fail: a blind save, a projection that forgets the configuration, a lane that
does not check whether it is busy, a hub that drops an event unnoticed, an undo
that is allowed after other acts, a cursor kept by its number, a queue that is
never expired, an unlink that does not ask whether it is the last link.

## 5. Where code and text disagree

Each is a run that TLC refutes; `PROJECT.json` quotes the text.

* `split_discarded`: `verifyRuntimeEffect` counts panes.
* `tui_wedge`: the event of an action overtakes its result; the result then no
  longer continues the catalog shown and is dropped with the lane still taken.
* `tui_lostfetch`: the sequence number of an event is recorded before its
  snapshot is fetched; a failed fetch is never made up for.
* `active_untracked`: a prune deletes the row that a promotion has just written.
* `active_orphan`: aliases are cleaned up before, not with, the kill.
* `sessions_raced`: `CreateSession` takes a session that appeared since it looked
  for one of its own making.

Observed while modelling, without a run of their own. The models have these
behaviours; where a property would fail of them, it names the exception.

*tmh-next, daemon and store.*

* An orderly stop removes the path a second time after the drain, and with it
  the socket of a successor (`ClientsConnect` excepts a stop); two starts can
  race on a stale socket, the client that lost then waits for the winner
  (`cmd/tmhd/main.go:134`; `tmh-next/README.md:25`). If the winner's socket was
  removed before its `chmod`, its close removes the socket of whoever listens by
  then: of three clients two start daemons that both quit, and the third's dials
  find nothing (`main.go:161`; `ClientsConnect` excepts it).
* A workspace whose first window list is nil makes one spurious revision, since
  `runtimeEqual` tells nil from empty (`client.go:285`); `PollsSettle` says that
  the poll after it is quiet.
* A workspace that disappears takes its pin with it (`projector.go:354`;
  `PinSurvives` excepts it) and the history of its agents (`projector.go:35`;
  `TerminalHistoryDurable` is of terminals). An outage removes unfrozen workspaces
  and so has the same effect. The newest 2000 chunks are kept of all scopes
  together, so that a busy terminal drives out the history of the others whatever
  the retention (`history.go:131`; `TerminalHistoryDurable` names it; the terminal
  commands' own chunks are not cut before the next capture). The history mode
  `off` is read nowhere.
* Pushing a snapshot creates tabs one by one; a failure leaves those made so far
  (`actions.go:508`). `nextID` gives a deleted newest id out again
  (`actions.go:786`). The adapter lists sessions, tabs and panes by separate
  commands.

*tmh-next, the client.*

* The reload after a conflict (`update.go:125`) does not compare revisions, so it
  may put an older catalog back over a newer one until the next event
  (`OnlyReloadRegresses`). An action asked for before the first catalog has
  arrived is in conflict; its reload may be answered first, and the first snapshot
  then puts the older catalog back (`update.go:53`), and in the demo arms a second
  timer beside the reload's (`TickChainSingle`). A search is executed again at
  every revision mismatch, not once (`update.go:187`: the retry has a new number
  that is not marked); the search numbered last need not be the text typed last
  (`update.go:171`), since the command reads the input when it runs.
* The cursor of a narrowed list is set in the whole list when a catalog arrives;
  the key `up` then indexes past the rows and the program panics: `/`, a text,
  `enter`, a catalog, `up`. The same happens on the page of one workspace, where
  a catalog sets the cursor to the place of the workspace and the keys move over
  its panes (the third workspace, with one pane: a catalog, `up`), on the page of
  plans, whose rows are a plan's operations in the chosen mode (and `tab` changes
  the rows but not the cursor), and in a list opened at an entity that is gone
  since: it keeps the selection and the cursor while the list gets shorter. The
  pages of events and of performance dereference the catalog before the first one
  has arrived. `CrashesOnlyAstray` excepts these and is proved to name them all.
* `ws.freeze` captures the listed selection for its title and reads the target
  again when it runs (`tmh-next/README.md:118`); saving the settings form stores
  the whole draft over what has changed meanwhile; `followToggleMsg` is handled
  nowhere; `h` on a workspace opens the history page, which does not find it.

*tmh-next, the demo.*

* The undo of a restore that removed a pane adds it again without its split, in
  the last window; the catalog is then refused, so that this undo never works,
  against the comment "so every diff op has an exact field-level inverse"
  (`mock/backend.go:978`, `:1026`): `UndoUntilNextAct` is of what is offered, not of
  what becomes of it. A split of a pane that the snapshot of its workspace does not
  show is refused after it has taken its ids (`:305`, `:317`), which stay taken,
  against "Failures never mutate … counters" (`:109`). Of the applied plans the
  latest is the one with the greatest id, not the one applied last (`:728`): a
  restore of an older plan cannot be undone at all.

*tmh, sessions and active.*

* A prune removes an alias that was renewed after the prune read the table
  (`active_safety.go:26`); `UpsertActiveWindow` may move a selection time back
  when a promotion was slow (`TouchNeverBack` names this exception).
* A restore or undo that fails half-way leaves a session, so the next undo
  deletes the event and the other windows are lost (`snapshot.go:119`); the event
  of `scratch --ttl` is newer than that of a kill and `UndoLast` then refuses for
  good (`snapshot.go:180`), while `SweepExpiredScratch`, which would remove it,
  is called from nowhere; an undo between the event and the kill of the TUI's
  kill deletes the event (`app_cmds.go:227`); two pushes into one session make
  its missing windows twice.

*tmh, deferred reloads.*

* The drain checks the pane by its id and types into the place recorded with it,
  so `source …` may go into another pane once one before it was closed
  (`reload.go:137`); a recorded place that no longer exists ends every drain
  before it comes to `ExpireReloads`, so that the entry is never removed
  (`QueueSettles` excepts both). A pane queued again between the send and the
  dequeue is lost.
* Two files saved within the 300 ms of the debounce are one event, of the kind of
  the second (`watch.go`: "emits one WatchEvent per debounced change"), and
  `pendingKind` is shared by the timer's goroutine and the loop without a lock.
  `.bashrc` and the rc file of fish are taken for configuration, so `--auto`
  never reloads them.

*tmh, the TUI.*

* While the filter has the focus, keys that are bound are not typed: `d` opens
  the confirmation, `a` and `enter` attach, `q` quits; `enter` does not keep the
  filter (`README.md:563`, `README.md:714`). The first letter typed drops the
  selection; a filter without matches, typed after backspacing to nothing, shows
  all rows. Panes are not refreshed until `esc`.
* Jumps to a process and to marks of panes never match a row, whose id holds the
  window's name rather than its index (`README.md:624`). `''` right after an
  attach from the same row does not come back (`JumpsReturn` excepts it). A mark
  cannot be called `q` or `?`.
* A timer of a pending mark key cancels a newer pending key of the same kind. A
  confirmation answered twice before the kill returns runs it twice, and panes
  are addressed by place; a kill that fails leaves the confirmation open.
* The palette's "settings" before `S` was pressed shows a screen without a
  model, and the next key panics (`app_config.go:56`; `CrashesOnlyUnopened`
  excepts it). An edit made while a save is under way is marked as saved
  (`settings.go:79`). A late message that switches the screen drops unsaved
  settings.
* Two windows of one name are two rows of one id. A listing that finds the second
  selected selects the first (`restoreCursorByID`), and neither that nor a key
  that goes from one to the other takes the preview down (`maybeResetPreviewPane`
  compares ids), so that it is shown for the wrong window until the next capture.
  The row remembered is that of the last key or listing, not of the last report:
  an alias that a report takes away and another brings back is still the one
  remembered, and its row then shows the preview of the row between. A report
  that brings an alias that matches a filter which had found nothing, and so
  showed all rows, moves the cursor to it below the old preview. `NewestShown`
  excepts these three and nothing else, and is proved.
* Listings have no number: of two the later answer wins, whichever was asked for
  first (`SelectionAndNewest` is of statuses, panes and previews, which have). A pane
  listing that fails empties the tree's panes. Two processes overwrite each
  other's `marks.json`.

*tmh, the configuration.* `ConfigFaithful` names each as a reason to fail or
excepts it.

* An entry in mapping form cannot be overwritten with a directory
  (`config/path.go:121`), and that is the form in which freeze, bootstrap and
  `new --layout` write windows: `sync --pull --all` then fails at the first of
  them that has moved, or whose `command` differs from what runs, and writes
  nothing, while freeze's report sends the user there ("review them and apply
  with "tmh sync --pull --all" or by hand", `cmd/freeze.go:27`).
* A declared session that is gone and has no windows makes every `--pull --all`
  fail, since it is deleted as a window without a name (`config/diff.go:97`,
  `sync.go:140`); `--pull --all` itself leaves such sessions behind.
* A directory is looked up by window index among panes listed before the windows
  (`sync.go:229`): a window closed in between gives another one's directory, a
  window opened in between is pulled with an empty one, which counts as no drift
  ever after (`diff.go:143`).
* A name with dots is several keys: its window becomes an entry under another
  name. A root inferred from a directory like `.d` makes `roots` a mapping of
  mappings, after which the file does not load.
* `new --save --group` writes the group as a scalar (`new.go:225`) where
  `Session.Group` is a list (`types.go:180`): the file does not load any more, and
  the next `new --save` starts over from `version: 1`, against `README.md:431` and
  "persists the new session into config.yml" (`new.go:212`). Where the session has a
  list already it fails. `ConfigFaithful` is of the file without that scalar.
* `new --save` and the TUI's settings take a file that does not load for one that
  is not there and replace it (`new.go:216`, `settings_view.go:28`; the settings
  without a backup); `import --merge` becomes a replacement (`export_import.go:56`).
* `import --merge` merges the decoded values but writes the tree of its base, so
  that the file stays as it was (`import.go:39`: "newly added entries appended").
* Two live windows of one name, one below a root and one not, make freeze and
  bootstrap fail; so does bootstrap into a file that has an entry of the other
  form.
* Freeze reports windows whose directory comes from their session or template,
  or is the root itself, as conflicts (`freeze.go:198`, `:219`).
* Two commands that write at once: the last one's file is the file, without what
  the other wrote.

## 6. What is proved

`ControlPlaneProofs` proves, for any finite set of daemons and any panes,
actions and bound:

| Theorem | Says |
|---|---|
| `TypeCorrect` | `Spec => []TypeOK` |
| `LedgerAlwaysAgrees` | `Spec => []LedgerAgrees`: audit log, revision, serial and results agree |
| `AnswersAreDurable` | `Spec => []AckedDurable` |
| `ConfigNeverLost` | `Spec => []ConfigNotLost` |
| `CommandsWereCarriedOut` | `Spec => []CommittedWereCarriedOut` |
| `CommandsAreNotRepeated` | `Spec => []NeverRepeated` |
| `ImplementsRevisionLog` | `Spec => RefinesLog` |

The argument. `LedgerAgrees` is not inductive: a save appends to a copy of the
catalog that was loaded some steps before. `IInv` adds what makes the copy as
good as the original: a copy with the current revision *is* the current catalog
(`Loaded`: every commit moves the revision), the catalog being built keeps log,
serial and configuration of the copy (`Building`), and a command past its check
expects the revision it loaded (`Expecting`). So a compare-and-swap that succeeds
extends the log the operation started from (`SwapLoaded`). `Requesting` says that
a daemon that executes has a command. `Issued` adds, for the commands carried
out, that a daemon about to commit has issued its command and seen a killed pane
gone.

Assumptions: daemons are a finite non-empty set, pane commands name panes, the
bound is a natural number, `NoKey` is not a command. Nothing else is assumed.

`ActiveSessionProofs` proves, for any processes, windows, sessions, commands,
faults and bounds:

| Theorem | Says |
|---|---|
| `TypeCorrect` | `Spec => []TypeOK`: one row per window and server, an owner while and only while `active` exists |
| `WindowsAreNotDestroyed` | `Spec => OnlyKillsDestroy` |
| `TouchesNeverGoBack` | `Spec => TouchNeverBack` |
| `CollisionIsLeftAlone` | `Spec => CollisionUntouched` |
| `PrunesSettle` | `Spec => []PruneSettles`: an undisturbed prune leaves no row without an alias and none that is expired, but for marked orphans |
| `PromotionsDeliver` | `Spec => PromotionDelivers`: one that reports success has linked its window |

The argument. `OnlyKillsDestroy` needs no invariant: whatever a process believes
after an old snapshot, `unlink-window` without `-k` is refused by tmux for a last
link, and the placeholder is not a user's window. For the types, `IInv` adds to
`TypeOK` which command a process at each label carries out and that it has read
the identity of the server (`Ready`), so that the row it persists is one. No step
but a promotion's last moves a selection time back, since the touch is
conditional in SQL (`Later`). `Avoided` says that a command that nobody disturbed
is not past its check of the owner when `active` is the user's: the session can
become the user's only by a step that disturbs every command under way.
`PruneSettles` and `PromotionDelivers` speak of the end of a command; `Undisturbed`
says of every step before it what the rows still to be treated, the snapshot it
read and the links have to do with one another, as long as nobody else has acted.

Assumptions: `active` is no source session and the placeholder no source window,
time and servers are counted by natural numbers, a lifetime is positive.

`TuiRootProofs` proves, for any actions, any setups, production and demo, and
whatever may fail in them:

| Theorem | Says |
|---|---|
| `RootTypeCorrect` | `Spec => []TypeOK` |
| `LaneAndWatchAreSingle` | `Spec => []OneLaneOneWatch`: the lane names the one action under way, one watch goes on, the next tick is there |
| `TickerIsSingle` | `Spec => []TickChainSingle`: the next tick once, twice after an early action, not at all during a reload only |
| `CatalogOnlyReloadedBack` | `Spec => OnlyReloadRegresses`: back by a reload only, and once by the first snapshot after an early action |

The argument (`IInv`). Facts that are not in the properties are needed for them:
what each kind of command carries (`Sound`); that the first snapshot is asked for
once and, for a user who waits, is alone until it has arrived (`Beginning`); and
of the ticker that at most one timer is armed, that a user who waits never has it
beside a pending tick or one in the lane (`Exclusive`), that no user has all
three, and that once the root is ready one of them or a reload is there
(`TickChain`). That a task has a number of its own is the pigeonhole principle
over a finite set of tasks (`FreshIds`).

`SessionCommandsProofs` proves, for any number of processes and sessions, any
configuration and any mix of commands, faults and acts of the user:

| Theorem | Says |
|---|---|
| `CommandsTypeCorrect` | `Spec => []TypeOK` |
| `CommandsDeliver` | `Spec => []Delivers`: a command leaves each session nobody else touched as it says |
| `KillsAreUndoable` | `Spec => []KillIsUndoable`: an undisturbed kill has an event with the windows that were there |
| `OnlyReplayedForgotten` | `Spec => OnlyUndoneForgotten`: an undo deletes the event it has replayed |

The argument. `Delivers` speaks of the end of a command; `Kept` says for each step
of each kind of command what a session that others left alone is like: as it was
(`Early`, or its turn has not come), as it shall be, or, for the one whose turn it
is, so far that what it has and what is still wanted make the result
(`Underway`). `Caught` ties a kill's capture and event to the sessions when it
began, `Recalled` the id an undo holds to the windows it brings back: ids do not
return, so another row never takes the place of a deleted one. What is missing in
a session (`Without`) is a recursive function; that it has a value, which the
prover's library states only for operators as parameters, is proved by hand from
the least counterexample (`LeastNumber`, `CountUp`).

`CockpitProofs` proves of `NextSpec`, the specification of the run `client`, first
of the parts beside the pages, for any texts, steps of the help and bounds:

| Theorem | Says |
|---|---|
| `LatestSearchIsAnswered` | `NextSpec => LatestSearchAnswered`: only the latest results are shown, and they are shown, failed or on their way |
| `NoticesKeepTheirTime` | `NextSpec => []NoticesKeepTime` |

The argument. The lane's latest search has been answered, or some task `Leads` to
its answer: it carries the latest number or will be given one (`AnswerComes`). No
task has a number not given yet, and one with the latest is for the text the root
remembers. The help's token was given out, and its timer is armed once when it
plays and never when it does not (`TimersTyped`, `HelpTyped`).

and then of the pages, for any finite set of ids, any rows inside them, any starts,
any length of the stack and any number of catalogs:

| Theorem | Says |
|---|---|
| `CrashesAreAstray` | `NextSpec => []CrashesOnlyAstray`: where alone a page can index or dereference what is not there |
| `ClientTypesCorrect` | `NextSpec => []ClientTypeOK`, with home at the bottom of the stack |
| `NothingUnconfirmed` | `NextSpec => DestroysConfirmed` |
| `SelectionIsFollowed` | `NextSpec => SelectionFollows` |

The argument (`ShellInv`). A page whose selection is in the catalog shown has its
cursor below the number of entities of its kind (`PagesOK`), which every key and
every catalog keeps; where the rows are these entities, no key indexes past them.
The entity a page was opened at may be gone, and then nothing is known of the
cursor: the last case of `CrashesOnlyAstray`. What waits in `msgs` and in an
overlay's choices is never a destructive action on its own (`IsAsk`, `AsksOK`,
`OverlayOK`): each reaches the lane through a confirmation that holds the same
entity. `Sorted` is defined by rank, the number of ids below; that it lists each
id once is shown from the cardinalities (`RankIsBijective`). The first attempt at
this proof found the crashes on the pages of one workspace and of plans and at an
entity that is gone (section 5), which the small run had not met; the model and
the run have them now, and each exception was seen to be needed.

Assumptions of these four: an action is not `NoAct`, a text is not `NoQuery`,
setups and starts are of their types and a start has home at the bottom of its
stack, a shell's name is not a declared one, declared sessions are sessions,
ids are a finite set of positive numbers and a row inside an entity is none of
them, bounds are natural numbers. TLC evaluates them in the runs.

`TmhTuiProofs` proves, for any sessions and windows whatever their names, any
keys in any order, any marks, and any number of messages under way:

| Theorem | Says |
|---|---|
| `ScreensTypeCorrect` | `ScreensSpec => []ScreensTypeOK`: a row is under the cursor as soon as any is shown, the ring is no longer than it may be, nothing shown is newer than the server |
| `TwiceLeadsBack` | `ScreensSpec => []JumpsReturn` |
| `OnlySettingsCrash` | `ScreensSpec => []CrashesOnlyUnopened`: where alone a key meets a screen without a model |
| `SelectionAndReadings` | `ScreensSpec => SelectionAndNewest`: data never moves the selection off a row that is shown; no older reading, no preview of another row but in the named cases |

The argument (`Inv`). Of the dashboard `DashOK` says that its rows are those of
its data, the places of its filter those of its rows, and the cursor on one of
them; each operator keeps it, whichever order keys and data come in, since all of
them end by setting the cursor within the rows (`SetCursorOK`, `RestoreOK`). The
filter and the tree are folds over sequences: `Hits` is a recursive function, and
`FlattenSeq` the library's, whose values are found as in `SessionCommandsProofs`
(`Recursion`, `FlattenType`). Requests and their answers are numbered, and `Lane`
says of each kind that a number has either one request or one answer under way,
that none is beyond the number last given, and that the answer to the latest is
not older than what is shown; so the one that is taken is the newest (`LaneTaken`).
A report changes the rows above the tree only, so the selected row of the tree
goes on being shown (`StatusShows`); what may change under a preview that is kept
is `Carried`. What waits in `tasks` opens no screen that is not built
(`Harmless`). The proof found the three cases in which a preview is shown for
another row (section 5); the first formula of `NewestShown` did not except them,
and the small run, where no two windows had one name, had not met them.

Assumptions (`ScreensAssumption`): the ring holds at least one position, and
sessions, reports, listings and the ring of a setup are sequences over `Idents`,
any set. TLC evaluates it in the run.

`CatalogProofs` and `DemoProofs` prove of `DaemonsSpec`, the specification of the
run `daemons`, for any sessions, tabs, panes and configuration, any runtimes and
catalogs to start from, any scenario of the demo and any number of acts:

| Theorem | Says |
|---|---|
| `BackendsTyped` | `DaemonsSpec => []BackendsTypeOK`: daemon and demo keep their types, and the demo's counters are ahead of every id in use |
| `BackendsNeverStuck` | `DaemonsSpec => []NeverStuck`: the store never refuses, neither now nor what is projected next, up or down; the demo can be cleaned up |
| `CatalogSettles` | `DaemonsSpec => []PollsSettle`: a projection of a projection is that projection |
| `OutagesKeepThem` | `DaemonsSpec => OutagesKeep`: what alone takes a snapshot, a terminal's history (its age, or as many newer chunks as there may be), a frozen state, a pin (unpin, or the loss of its workspace) |
| `UndoneUntilNextAct` | `DaemonsSpec => UndoUntilNextAct`: a restore can be undone exactly from its application to the next act that is not refused |

The argument for the catalog. Types and validity of the stored catalog and the
type of the runtime (`CatalogInv`) are inductive together: that a retained
terminal fits its workspace needs the workspace brought back to be one of the last
valid catalog. `ProjectionValid` is the centre: whatever a *valid*
catalog knew and whatever Zellij shows, the projection is valid. Terminals and
workspaces refer to one another by the session they are of (`ValidHomes`), so each
kind of resource is treated on its own — running, declared, kept, brought back
workspaces; seen and lost terminals; seen and lost agents. Commands then change a
part of the catalog each (`AgentsChanged`, `ViewChanged`, `PlansChanged`,
`HistoryChanged`, …). `Keeps(c, d, …)` says what goes from one catalog to the next,
except for what a command names; projections keep everything
(`ProjectionKeeps`), every action keeps all but what it is for (`StepKeeps`), and
the four parts of `OutagesKeep` are read off it. A chunk that is not too old is
cut only if as many newer ones are there, and these are then all kept (`Newest`).
For `PollsSettle`,
`KeptReferences` shows that what the second projection retains by (`Preserved`,
`Needed`) is what the first one has kept, list by list, and `SameSpaces`,
`SameTerminals`, `SameAgents`, `SameSpace`, `SameViews` that each resource is then
projected to itself, running or retained, frozen or not.

The argument for the demo (`DemoInv`). The type is stated part by part (`Whole`),
each part monotone in the counters, so that an action that takes an id and is then
refused keeps it; every restorable state, also in old plans and undo lists, names
surfaces that were once given out (`Within`). Validity holds because `Execute`
asks for it; that a kill or a deletion cannot be refused is shown from it, as no
other part of validity speaks of what they change. The operations of a plan have
one operation for each field (`Single`), therefore `Earlier` orders them totally
and `InPlanOrder` lists each once (`RankedOps`, by the cardinalities of what comes
before). For the undo, no plan's serial is above the catalog's and every act
that is not refused takes the next one: a plan that is the latest applied at the
serial of now was undoable a step ago, or has just been applied. Conversely an
applied plan stays as it is but by its undo, and ticks and refused acts leave
plans and serial alone, so that what could be undone still can.

Assumptions: `CatalogAssumption` and `StartsAssumption` (finite sessions, a
positive number of panes, tabs as named, starts that are well formed and valid),
`FixtureAssumption`. TLC evaluates them in the run.

Only model-checked:

* what depends on fairness, and `ENABLED`, which TLAPS does not prove: the runs
  `converges` and `live`;
* `WatchHub`, `DaemonStart` and `ReloadQueue`, whose properties are about what
  must happen. Of `TmhTypeOK` the types of commands and screens are proved, those
  of the reload queue and the configuration are not;
* `ConfigFaithful`: the tree of `ConfigTree` is recursive data, and the library's
  induction takes an operator as its parameter, which no installed prover can
  instantiate.

## 7. What is not modelled

* Rendering, themes, layout, mouse and resizing; text output, flags and
  localisation; the toasts, help texts, history and diff of tmh's TUI.
* Encoding of requests; parsing of tmux's and Zellij's output; opening and
  migrating SQLite (each statement or transaction is atomic in the models).
* Of tmh's configuration: profiles, groups, templates, layouts, environments and
  hooks, lint, discovery, backups, comments and blank lines, a file that is there
  but empty; export, which only reads. `marks.json`.
* Code that no command reaches: the writers of tmh's history file
  (`appendHistoryCmd`, `clearHistoryCmd`), trust and hooks (`EnsureTrusted`,
  `RunHooks`), `SweepExpiredScratch`, `InvalidatePanes`, `ClearMarks`.
* The search index of tmh-next, its fuzzy ranking, and the degraded and empty
  scenarios of the demo.

The effect of a command on Zellij is at-least-once when a daemon dies between
effect and commit: the model has that step, and no property claims otherwise.
`PROJECT.json` says of each component what of it is modelled.

## 8. Running

    tlc -config Daemons.cfg MCDaemons.tla
    tlc -config Next.cfg MCNext.tla
    tlc -config Live.cfg MCLive.tla
    tlc -config Tmh.cfg MCTmh.tla
    tlc -config ActiveSession_cases.cfg MCActiveCases.tla
    tlapm ControlPlaneProofs.tla
    tlapm ActiveSessionProofs.tla
    tlapm TuiRootProofs.tla
    tlapm SessionCommandsProofs.tla
    tlapm CockpitProofs.tla
    tlapm TmhTuiProofs.tla
    tlapm CatalogProofs.tla
    tlapm DemoProofs.tla

Each takes some minutes at most. The other runs are named in `PROJECT.json`;
`MC*.tla` hold the constants.
