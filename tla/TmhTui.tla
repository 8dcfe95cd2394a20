------------------------------- MODULE TmhTui -------------------------------
(***************************************************************************)
(* tmh without arguments: the root model of internal/ui.  Keys and messages*)
(* change it; the commands they return run beside it, against tmux, the    *)
(* config and the marks, and answer with messages in any order.  A command *)
(* is a task until it has run, then its message is one until delivered;    *)
(* tasks that are equal have equal effects and count once.  Toasts, styles *)
(* and texts, the undo hint and what the history and the diff hold are left*)
(* out; so are matching and cursor of the palette: any of its actions can  *)
(* be chosen.                                                              *)
(***************************************************************************)
EXTENDS Dashboard, FiniteSets

CONSTANTS
    Idents,    \* names and indexes, the ids of windows
    Setups,    \* what there is at first and what the user does
    Newcomers, \* the sessions another client may open, and what is in them
    Reports,   \* whether the active session is in use and what it may hold
    Letters,   \* of marks
    MaxRing,   \* lastLocationRingSize
    MaxSeq     \* how many statuses and pane listings are asked for

AnyWindow == [name : Idents, index : Idents, panes : Nat]
AnySession == [name : Idents, windows : Seq(AnyWindow)]
AnyReport == [enabled : BOOLEAN, windows : Seq(Idents)]

ScreensAssumption ==
    /\ MaxRing \in Nat \ {0}
    /\ Newcomers \subseteq AnySession /\ Reports \subseteq AnyReport
    /\ \A s \in Setups :
          /\ s.listing \in Seq(AnySession) /\ s.report \in AnyReport
          /\ s.ring \in Seq(Seq(Idents \cup Nat)) /\ Len(s.ring) <= MaxRing

VARIABLES
    setup,     \* [listing, report, marks, ring, keys, acts, presses, ticks]
    m,         \* the root model
    tasks,     \* commands and messages under way
    timers,    \* how many timers of each mark operation are running
    server,    \* tmux: [listing, report, version]
    used,      \* history: how many [keys, acts] there were
    ended      \* "no", "quit" or "panic"

screens == << setup, m, tasks, timers, server, used, ended >>

Unmarked == [target |-> Nothing, valid |-> FALSE]

Settings == [focus |-> "categories", dirty |-> FALSE, asking |-> FALSE]

New(marks, ring) ==
    [dash |-> newDashboard, screen |-> "dashboard", help |-> FALSE,
     confirm |-> [level |-> "none", target |-> Nothing],
     palette |-> [actions |-> {}, param |-> "none"],
     settings |-> Settings, built |-> {},
     activeSeq |-> 0, reportAt |-> 0, paneSeq |-> 0, panesAt |-> 0,
     panes |-> {}, pending |-> "none", marks |-> marks, ring |-> ring]

Load == [kind |-> "load"]
Saved == [kind |-> "saved"]
NoTask == [kind |-> "none"]

ScreensInit ==
    /\ setup \in Setups
    /\ m = New(setup.marks, setup.ring)
    /\ tasks = {Load} /\ timers = [op \in {"m", "'"} |-> 0]
    /\ server = [listing |-> setup.listing, report |-> setup.report, version |-> 1]
    /\ used = [keys |-> 0, acts |-> 0] /\ ended = "no"

-----------------------------------------------------------------------------
(* What commands do.                                                       *)
Ask(kind, target) == [kind |-> kind, of |-> target]
Numbered(kind, n) == [kind |-> kind, seq |-> n]
Tell(kind, how) == [kind |-> kind, how |-> how]
Switch(screen) == Tell("switch", screen)

(* A command that tells how it ended, and then what else it brings about.  *)
Action(then) == [kind |-> "action", then |-> then]

(* The tmux server as other clients change it: a session opens, a window   *)
(* closes, windows are linked into active or unlinked, the configuration   *)
(* turns active on or off.                                                 *)
Change(listing, report) ==
    /\ used.acts < setup.acts /\ used' = [used EXCEPT !.acts = @ + 1]
    /\ server' = [listing |-> listing, report |-> report,
                  version |-> server.version + 1]
    /\ UNCHANGED << setup, m, tasks, timers, ended >>

(* A session ends with its last window.                                    *)
Removed(listing, i, j) ==
    IF Len(listing[i].windows) = 1 THEN RemoveAt(listing, i)
    ELSE [listing EXCEPT ![i].windows = RemoveAt(@, j)]

Open(s) ==
    /\ \A i \in DOMAIN server.listing : server.listing[i].name # s.name
    /\ Change(<< s >> \o server.listing, server.report)

Close(i, j) ==
    /\ i \in DOMAIN server.listing /\ j \in DOMAIN server.listing[i].windows
    /\ Change(Removed(server.listing, i, j), server.report)

Relink(report) == report # server.report /\ Change(server.listing, report)

(* The kill commands: sessions and windows by name, panes by their place.  *)
Hit(t, i, j, level) ==
    LET s == server.listing[i] IN
    /\ s.name = t[1]
    /\ level = "window" => s.windows[j].name = t[2]
    /\ level = "pane" => s.windows[j].index = t[2] /\ t[3] < s.windows[j].panes

Killed(level, t, i, j) ==
    LET w == server.listing[i].windows[j] IN
    CASE level = "session" -> RemoveAt(server.listing, i)
      [] level = "pane" /\ w.panes > 1 ->
            [server.listing EXCEPT ![i].windows[j].panes = @ - 1]
      [] OTHER -> Removed(server.listing, i, j)

Kill(task) ==
    /\ task.kind = "kill"
    /\ LET hits == {ij \in (DOMAIN server.listing) \X (1..3) :
                       /\ ij[2] \in DOMAIN server.listing[ij[1]].windows
                       /\ Hit(task.of, ij[1], ij[2], task.level)}
       IN \/ /\ hits # {}
             /\ LET ij == CHOOSE x \in hits : \A y \in hits : x[2] <= y[2] IN
                server' = [server EXCEPT
                    !.listing = Killed(task.level, task.of, ij[1], ij[2]),
                    !.version = @ + 1]
             /\ tasks' = (tasks \ {task}) \cup {Ask("invalidate", task.of)}
          \/ tasks' = tasks \ {task} /\ UNCHANGED server
    /\ UNCHANGED << setup, m, timers, used, ended >>

(* The marks are the command's to change; then its messages race.          *)
InvalidateMark(task) ==
    /\ task.kind = "invalidate"
    /\ m' = [m EXCEPT !.marks = [l \in Letters |->
                 IF m.marks[l].target = task.of
                 THEN [m.marks[l] EXCEPT !.valid = FALSE] ELSE m.marks[l]]]
    /\ tasks' = (tasks \ {task}) \cup {Load, Switch("dashboard")}
    /\ UNCHANGED << setup, timers, server, used, ended >>

(* The panes as tmux addresses them.                                       *)
PanesNow ==
    UNION {UNION {{<< s.name, w.index, i >> : i \in 0..(w.panes - 1)} :
               w \in ToSet(s.windows)} : s \in ToSet(server.listing)}

(* Every other command: what it reads is of now, how it ends is open.      *)
Answers(task) ==
    CASE task.kind = "load" ->
            {{[kind |-> "data", listing |-> server.listing]}, {Tell("failed", "data")}}
      [] task.kind = "status" ->
            {{[kind |-> "report", seq |-> task.seq, report |-> server.report,
               at |-> server.version]},
             {}}
      [] task.kind = "panes" ->
            {{[kind |-> "paneData", seq |-> task.seq, at |-> server.version,
               panes |-> found]} : found \in {PanesNow, {}}}
      [] task.kind = "attach" -> {{Load}}
      [] task.kind = "find" ->
            {{Ask("goto", t)} : t \in m.panes} \cup {{}}
      [] task.kind = "action" -> {task.then, {}}
      [] task.kind = "save" -> {{Saved}, {}}
      [] OTHER -> {}

Serve(task) ==
    /\ \E answer \in Answers(task) : tasks' = (tasks \ {task}) \cup answer
    /\ UNCHANGED << setup, m, timers, server, used, ended >>

-----------------------------------------------------------------------------
(* Update, message by message.  A handler's step leads to the next model   *)
(* and the commands it returns.                                            *)
Becomes(next, commands, task) ==
    /\ m' = next
    /\ tasks' = (tasks \ {task}) \cup commands
    /\ UNCHANGED << setup, timers, server, used, ended >>

(* maybeLoadPreview of a model, and the capture it asks for: what the pane *)
(* held does not matter, so the task is its message.                       *)
Previewed(next) == [next EXCEPT !.dash = maybeResetPreviewPane(next.dash)]
Captures(next) ==
    LET d == maybeResetPreviewPane(next.dash) IN
    IF PreviewStale(d) THEN {Ask("preview", currentPreviewTarget(d))} ELSE {}

dataLoaded(task) ==
    /\ task.kind = "data" /\ m.activeSeq < MaxSeq
    /\ LET next == [m EXCEPT !.dash = SetData(m.dash, task.listing),
                             !.activeSeq = @ + 1]
       IN Becomes(Previewed(next),
                  Captures(next) \cup {Numbered("status", next.activeSeq)}, task)

loadFailed(task) ==
    /\ task.kind = "failed"
    /\ Becomes([m EXCEPT !.screen = "error"], {}, task)

(* Results of a request that another has followed are dropped.             *)
Current(seq, now) == seq = now

activeStatusLoaded(task) ==
    /\ task.kind = "report"
    /\ Becomes(IF Current(task.seq, m.activeSeq)
               THEN [m EXCEPT !.dash = SetActiveStatus(m.dash, task.report),
                              !.reportAt = task.at]
               ELSE m, {}, task)

paneDataLoaded(task) ==
    /\ task.kind = "paneData"
    /\ Becomes(IF Current(task.seq, m.paneSeq)
               THEN [m EXCEPT !.panesAt = task.at, !.panes = task.panes]
               ELSE m, {}, task)

previewLoaded(task) ==
    /\ task.kind = "preview"
    /\ Becomes([m EXCEPT !.dash = SetPreview(m.dash, task.of)], {}, task)

PushLocation(ring, target) ==
    IF target = Nothing THEN ring
    ELSE SubSeq(<< target >> \o ring, 1,
                IF Len(ring) < MaxRing THEN Len(ring) + 1 ELSE MaxRing)

(* A jump remembers where it began; to what the tree does not show it is   *)
(* none.                                                                   *)
Jump(next, target) ==
    [next EXCEPT !.ring = PushLocation(next.ring, SelectedTarget(next.dash)),
                 !.dash = restoreCursorByID(next.dash, target)]

gotoProc(task) ==
    /\ task.kind = "goto"
    /\ LET next == [Jump(m, task.of) EXCEPT !.screen = "dashboard"]
       IN Becomes(Previewed(next), Captures(next), task)

settingsSaved(task) ==
    /\ task.kind = "saved"
    /\ Becomes([m EXCEPT !.settings.dirty = FALSE], {Load}, task)

switchScreen(task) ==
    /\ task.kind = "switch"
    /\ Becomes([m EXCEPT !.screen = task.how], {}, task)

Deliver(task) ==
    \/ dataLoaded(task) \/ loadFailed(task) \/ activeStatusLoaded(task)
    \/ paneDataLoaded(task) \/ previewLoaded(task) \/ gotoProc(task)
    \/ settingsSaved(task) \/ switchScreen(task)

(* The poll, and the refresh of panes, which rests while text is typed.    *)
Tick ==
    /\ "poll" \in setup.ticks /\ Load \notin tasks /\ m.activeSeq < MaxSeq
    /\ Becomes(m, {Load}, NoTask)

RefreshTick ==
    /\ "refresh" \in setup.ticks /\ m.screen # "palette" /\ ~m.dash.focused /\ m.paneSeq < MaxSeq
    /\ Becomes([m EXCEPT !.paneSeq = @ + 1], {Numbered("panes", m.paneSeq + 1)}, NoTask)

(* The timer of a mark operation ends whichever of its kind is pending.    *)
pendingOpExpired(op) ==
    /\ timers[op] > 0 /\ timers' = [timers EXCEPT ![op] = @ - 1]
    /\ m' = IF m.pending = op THEN [m EXCEPT !.pending = "none"] ELSE m
    /\ UNCHANGED << setup, tasks, server, used, ended >>

-----------------------------------------------------------------------------
(* Keys.  Those for the whole program come first, whatever has the focus.  *)
Presses == /\ used.keys < setup.presses /\ used' = [used EXCEPT !.keys = @ + 1]
           /\ UNCHANGED << setup, server >>

Pressed(next, commands) ==
    /\ Presses /\ m' = next /\ tasks' = tasks \cup commands
    /\ UNCHANGED << timers, ended >>

Stop(how) == Presses /\ ended' = how /\ UNCHANGED << m, tasks, timers >>

EscIsGlobal == m.help \/ m.screen \notin {"dashboard", "settings"}

GlobalKey(key) ==
    \/ key = "q" /\ Stop("quit")
    \/ key = "?" /\ Pressed([m EXCEPT !.help = ~@], {})
    \/ /\ key = "ctrl+l"
       /\ Pressed([m EXCEPT !.screen = IF @ = "history" THEN "dashboard"
                                       ELSE "history"], {})
    \/ /\ key = "esc" /\ EscIsGlobal
       /\ Pressed(IF m.help THEN [m EXCEPT !.help = FALSE]
                  ELSE [m EXCEPT !.screen = "dashboard"], {})

(* What is left of a key for the screen.                                   *)
Passes(key) == key \notin {"q", "?", "ctrl+l"} /\ (key = "esc" => ~EscIsGlobal)

(* The second key of a mark operation is a letter, whatever it else does.  *)
MarkLetter(letter) ==
    /\ m.pending # "none"
    /\ LET next == [m EXCEPT !.pending = "none"]
           mark == m.marks[letter]
           target == SelectedTarget(m.dash)
       IN \/ /\ m.pending = "m" /\ target # Nothing
             /\ Pressed([next EXCEPT !.marks[letter] =
                            [target |-> target, valid |-> TRUE]], {})
          \/ /\ IF m.pending = "m" THEN target = Nothing ELSE ~mark.valid
             /\ Pressed(next, {})
          \/ /\ m.pending = "'" /\ mark.valid
             /\ LET there == Jump(next, mark.target)
                IN Pressed(Previewed(there), Captures(there))

(* Mutant of Swapped: the position that is left is not remembered.         *)
Swapped_forgets(next) ==
    [next EXCEPT !.ring = Tail(next.ring),
                 !.dash = restoreCursorByID(next.dash, Head(next.ring))]

(* Back to the last location, which the current one replaces.              *)
Swapped(next) ==
    LET here == SelectedTarget(next.dash)
        popped == [next EXCEPT !.ring = Tail(next.ring)]
    IN IF here = Head(next.ring)
       THEN [popped EXCEPT !.dash = restoreCursorByID(next.dash, Head(next.ring))]
       ELSE Jump(popped, Head(next.ring))

(* d, but not of a row of the active session; S builds the settings anew.  *)
Confirm(next) ==
    LET d == next.dash IN
    IF SelectedTarget(d) = Nothing THEN next
    ELSE [next EXCEPT !.screen = "confirm",
                      !.confirm = [level |-> currentRow(d).level,
                                   target |-> SelectedTarget(d)],
                      !.built = @ \cup {"confirm"}]

SelectedAttachTarget(d) ==
    IF HasRow(d) /\ currentRow(d).level = "alias" THEN currentRow(d).id
    ELSE SelectedTarget(d)

Attached(next) ==
    [next EXCEPT !.ring = PushLocation(next.ring, SelectedAttachTarget(next.dash))]

(* Mutant of Diffed: the screen is shown before it is built.               *)
Diffed_late(next) == next

Diffed(next) == [next EXCEPT !.built = @ \cup {"diff"}]

(* The palette keeps the sessions and aliases of when it was opened.       *)
paletteActions ==
    [do : {"refresh", "run", "undo", "diff", "settings", "history", "quit",
           "mark", "goto"}, arg : {""}]
    \cup [do : {"attach"}, arg : {s.name : s \in ToSet(m.dash.listing)}]
    \cup [do : {"remove", "recover"}, arg : ToSet(m.dash.report.windows)]

Opened(next) ==
    [next EXCEPT !.screen = "palette",
                 !.palette = [actions |-> paletteActions, param |-> "none"],
                 !.built = @ \cup {"palette"}]

DashboardKeys ==
    {"r", "R", "s", "n", "u", ":", "D", "d", "S", "a", "enter", "''", "m", "'"}

DashboardKey(key) ==
    LET next == [m EXCEPT !.pending = "none"] IN
    \/ key = "r" /\ Pressed(next, {Load})
    \/ key \in {"R", "s", "n"} /\ Pressed(next, {Action({})})
    \/ key = "u" /\ Pressed(next, {Action({Load})})
    \/ key = ":" /\ Pressed(Opened(next), {})
    \/ key = "D" /\ Pressed(Diffed([next EXCEPT !.screen = "diff"]), {})
    \/ key = "d" /\ Pressed(Confirm(next), {})
    \/ key = "S" /\ Pressed([next EXCEPT !.screen = "settings",
                                         !.settings = Settings,
                                         !.built = @ \cup {"settings"}], {})
    \/ /\ key \in {"a", "enter"}
       /\ Pressed(Attached(next), {Ask("attach", t) :
                      t \in {SelectedAttachTarget(m.dash)} \ {Nothing}})
    \/ key = "''" /\ m.ring = << >> /\ Pressed(next, {})
    \/ /\ key = "''" /\ m.ring # << >>
       /\ Pressed(Previewed(Swapped(next)), Captures(Swapped(next)))
    \/ /\ key \in {"m", "'"} /\ Presses
       /\ m' = [next EXCEPT !.pending = key]
       /\ timers' = [timers EXCEPT ![key] = @ + 1]
       /\ UNCHANGED << tasks, ended >>
    \/ /\ key \notin DashboardKeys
       /\ LET then == [next EXCEPT !.dash = Update(next.dash, key)]
          IN Pressed(Previewed(then), Captures(then))

(* Enter runs what is chosen or, when it takes a parameter, asks for it.   *)
PaletteEnter ==
    \E a \in m.palette.actions :
        \/ /\ a.do \in {"mark", "goto", "recover"}
           /\ Pressed([m EXCEPT !.palette.param = a.do], {})
        \/ a.do = "quit" /\ Stop("quit")
        \/ a.do = "diff" /\ Pressed(Diffed(m), {Switch("diff")})
        \/ /\ a.do \in {"settings", "history"}
           /\ Pressed(m, {Switch(a.do)})
        \/ a.do = "refresh" /\ Pressed(m, {Load})
        \/ a.do = "run" /\ Pressed(m, {Action({})})
        \/ a.do = "undo" /\ Pressed(m, {Action({Load})})
        \/ a.do = "attach" /\ Pressed(m, {Ask("attach", << a.arg >>)})
        \/ a.do = "remove" /\ Pressed(m, {Action({Load, Switch("dashboard")})})

ParamEnter ==
    \/ /\ m.palette.param = "mark"
       /\ \E letter \in Letters :
             IF SelectedTarget(m.dash) = Nothing THEN Pressed(m, {})
             ELSE Pressed([m EXCEPT !.marks[letter] =
                              [target |-> SelectedTarget(m.dash), valid |-> TRUE]],
                          {Switch("dashboard")})
    \/ m.palette.param = "goto" /\ Pressed(m, {Tell("find", "")})
    \/ /\ m.palette.param = "recover"
       /\ Pressed(m, IF m.dash.listing = << >> THEN {}
                      ELSE {Action({Load, Switch("dashboard")})})

ConfirmKey(key) ==
    \/ /\ key \in {"y", "enter"}
       /\ Pressed(m, {[kind |-> "kill", level |-> m.confirm.level,
                       of |-> m.confirm.target, press |-> used.keys]})
    \/ key = "t" /\ Pressed(m, {Switch("dashboard")})
    \/ key = "n" /\ Pressed(m, {Switch("dashboard")})

(* An edit is of a field that is not applied at once.                      *)
SettingsKey(key) ==
    LET s == m.settings
        Set(next, commands) == Pressed([m EXCEPT !.settings = next], commands)
    IN
    \/ /\ s.asking
       /\ \/ /\ key = "y"
             /\ Set([s EXCEPT !.dirty = FALSE, !.asking = FALSE],
                    {Switch("dashboard")})
          \/ key \in {"n", "esc"} /\ Set([s EXCEPT !.asking = FALSE], {})
    \/ ~s.asking /\ key = "ctrl+s" /\ Set(s, {Tell("save", "")})
    \/ /\ ~s.asking /\ s.focus = "categories"
       /\ \/ key = "enter" /\ Set([s EXCEPT !.focus = "fields"], {})
          \/ key = "esc" /\ s.dirty /\ Set([s EXCEPT !.asking = TRUE], {})
          \/ key = "esc" /\ ~s.dirty /\ Set(s, {Switch("dashboard")})
    \/ /\ ~s.asking /\ s.focus = "fields"
       /\ \/ key = "esc" /\ Set([s EXCEPT !.focus = "categories"], {})
          \/ key = "right" /\ Set([s EXCEPT !.dirty = TRUE], {})

(* The screen that is shown has a model, or the program panics.            *)
Built == {"dashboard", "history", "error"} \cup m.built

ScreenKey(key) ==
    \/ m.screen \notin Built /\ Stop("panic")
    \/ /\ m.screen = "dashboard"
       /\ \/ m.pending # "none" /\ key \in Letters /\ MarkLetter(key)
          \/ /\ m.pending = "none" \/ key \notin Letters
             /\ DashboardKey(key)
    \/ /\ m.screen = "palette" /\ m.screen \in Built /\ key = "enter"
       /\ \/ m.palette.param = "none" /\ PaletteEnter
          \/ m.palette.param # "none" /\ ParamEnter
    \/ m.screen = "confirm" /\ m.screen \in Built /\ ConfirmKey(key)
    \/ m.screen = "settings" /\ m.screen \in Built /\ SettingsKey(key)

Key(key) == GlobalKey(key) \/ (Passes(key) /\ ScreenKey(key))

ScreensNext ==
    /\ ended = "no"
    /\ \/ \E key \in setup.keys : Key(key)
       \/ \E task \in tasks :
              Kill(task) \/ InvalidateMark(task) \/ Serve(task) \/ Deliver(task)
       \/ Tick \/ RefreshTick \/ \E op \in {"m", "'"} : pendingOpExpired(op)
       \/ \E s \in Newcomers : Open(s)
       \/ \E i, j \in 1..3 : Close(i, j)
       \/ \E report \in Reports : Relink(report)

ScreensSpec == ScreensInit /\ [][ScreensNext]_screens

-----------------------------------------------------------------------------
(* The model's parts fit together: there is a row under the cursor as soon *)
(* as any is shown, no more positions are remembered than the ring holds,  *)
(* and the preview is of a target that a row of the tree could have.       *)
ScreensTypeOK ==
    /\ m.screen \in {"dashboard", "palette", "confirm", "diff", "settings",
                     "history", "error"}
    /\ effectiveRows(m.dash) # << >> => HasRow(m.dash)
    /\ ToSet(effectiveRows(m.dash)) \subseteq DOMAIN m.dash.rows
    /\ Len(m.ring) <= MaxRing
    /\ m.screen = "confirm" => m.confirm.target # Nothing
    /\ m.reportAt <= server.version /\ m.panesAt <= server.version

(* Data that arrives does not move the selection: the row under the cursor *)
(* stays selected while it is shown, through listings, statuses and panes  *)
(* (SetData, SetActiveStatus and restoreCursorByID of ui/dashboard.go).    *)
SelectionKept ==
    [][/\ used'.keys = used.keys
       /\ \E task \in tasks \ tasks' : task.kind # "goto"
       /\ currentTargetKey(m.dash) \in Shown(m'.dash)
       => currentTargetKey(m'.dash) = currentTargetKey(m.dash)]_screens

(* What is shown of the active session and of processes never goes back to *)
(* an older reading, no preview is put up that is not of the row under the *)
(* cursor, and one that was stays so or is taken down, however late        *)
(* commands answer (the sequence numbers of ui, SetPreview and             *)
(* maybeResetPreviewPane).  It is kept for another row only if that has the*)
(* id of the row before or the one remembered, or while the filter, finding*)
(* nothing, shows all rows.                                                *)
PreviewOfRow(d) == d.preview \in {Nothing, currentPreviewTarget(d)}
NothingFound(d) == d.typed # 0 /\ ~d.filtered.on
SameRow(d, e) == HasRow(d) /\ HasRow(e) /\ currentRow(e) = currentRow(d)
NewestShown ==
    [][/\ m'.reportAt >= m.reportAt /\ m'.panesAt >= m.panesAt
       /\ m'.dash.preview # m.dash.preview => PreviewOfRow(m'.dash)
       /\ PreviewOfRow(m.dash) /\ ~NothingFound(m.dash) =>
            \/ PreviewOfRow(m'.dash)
            \/ /\ ~SameRow(m.dash, m'.dash)
               /\ currentTargetKey(m'.dash) \in
                      {m.dash.lastRow, currentTargetKey(m.dash)}]_screens

SelectionAndNewest == SelectionKept /\ NewestShown

(* "Repeated '' presses cycle back and forth": from a session or a window  *)
(* other than the last location, where the last location is shown, twice   *)
(* leads back (app_update.go:414).                                         *)
JumpsReturn ==
    LET there == Swapped(m)
        back == Swapped(there)
    IN /\ m.ring # << >> /\ HasRow(m.dash)
       /\ currentRow(m.dash).level \in {"session", "window"}
       /\ SelectedTarget(m.dash) # Head(m.ring)
       /\ SelectedTarget(there.dash) = Head(m.ring)
       => currentTargetKey(back.dash) = currentTargetKey(m.dash)

(* A key finds the model of the screen it is for, except that the palette  *)
(* shows the settings before S has built any (handleKey, ui/app_config.go).*)
CrashesOnlyUnopened == ended = "panic" => m.screen = "settings"
=============================================================================
