----------------------------- MODULE ConfigSync ------------------------------
(***************************************************************************)
(* The commands that write the configuration of tmh: sync --pull with and  *)
(* without --all, sync --bootstrap, freeze, new --save (with or without a  *)
(* layout or a group), import and the settings of the TUI.                 *)
(*                                                                         *)
(* Each loads the file, those that mirror tmux list its sessions, all its  *)
(* panes and then each session's windows, and replaces the file at the end.*)
(* Nothing is locked: between any two steps the user changes the server    *)
(* and other commands the file.  A window's index is its place, since tmh  *)
(* recommends renumber-windows.  The active session is not listed, reports *)
(* and backups are left out.                                               *)
(***************************************************************************)
EXTENDS Integers, FiniteSets, TLC, ConfigTree

CONSTANTS
    Tools,     \* processes of tmh
    Live,      \* names of sessions
    Imported,  \* the file that is imported
    Scenes     \* [file, tmux, ops, overlap, opens, moves, many, acts]: what
               \* there is at first, the commands, whether they overlap, what
               \* the user opens, the directories he changes to, and bounds:
               \* how many commands, how many acts

VARIABLES
    scene,
    file,   \* the configuration: a tree, or Missing
    tmux,   \* the windows of each session, << >> for no such session
    cmd,    \* the processes
    past,   \* history: what each has seen happen since it began
    count   \* how many commands and acts, for the bounds

vars == << scene, file, tmux, cmd, past, count >>

Mirrors == {"pull", "pullall", "bootstrap", "freeze"}
News == {"save", "savelayout", "savegroup"}
Savers == News \cup {"settings", "merge", "replace"}

(* An operation, its argument (the session freeze is limited to, or new has*)
(* made), the tree loaded, the panes listed, the sessions still to be asked*)
(* for their windows, and what is known of the others.                     *)
Rest == [pc |-> "idle", op |-> "none", arg |-> "", tree |-> Missing,
         panes |-> << >>, todo |-> {}, found |-> << >>]

Open(s) == tmux[s] # << >>
ServerUp == \E s \in Live : Open(s)
Placed(server) == UNION { { << s, w.name, w.dir >> : w \in Range(server[s]) } : s \in Live }

(* The server when a command began, the directories windows have had since,*)
(* and whether others changed the server, closed windows, wrote the file.  *)
Watching(server) == [start |-> server, had |-> Placed(server), moved |-> FALSE,
                     closed |-> FALSE, raced |-> FALSE]

Init ==
    /\ scene \in Scenes
    /\ file = scene.file /\ tmux = scene.tmux
    /\ cmd = [p \in Tools |-> Rest] /\ past = [p \in Tools |-> Watching(tmux)]
    /\ count = [cmds |-> 0, acts |-> 0]

At(p, label) == cmd[p].pc = label
Op(p) == cmd[p].op
Finished(p) == cmd[p].pc \in {"done", "failed"}
Become(p, state) == cmd' = [cmd EXCEPT ![p] = state]

(* What was listed is forgotten when a command ends.                       *)
End(p, how) == Become(p, [cmd[p] EXCEPT !.pc = how, !.panes = << >>, !.todo = {},
                                        !.found = << >>])

-----------------------------------------------------------------------------
(* A command begins: it loads the file.  What pull and import refuse, the  *)
(* others take for a file that is not there.                               *)
Loaded(op) ==
    CASE op \in News -> IF Readable(file) THEN file ELSE Fresh
      [] op = "settings" -> IF Readable(file) THEN file ELSE Mapping(<< >>)
      [] file = Missing /\ op \notin {"pull", "pullall"} -> Fresh
      [] OTHER -> IF Usable(file) THEN file ELSE Missing

Arguments(op) ==
    CASE op = "freeze" -> {""} \cup Live
      [] op \in News -> Live
      [] OTHER -> {""}

Load(p, op, arg) ==
    /\ cmd[p].pc = "idle" \/ Finished(p)
    /\ Become(p, [Rest EXCEPT
           !.op = op, !.arg = arg, !.tree = Loaded(op),
           !.pc = IF op \in Savers THEN "write"
                  ELSE IF Loaded(op) = Missing THEN "failed" ELSE "sessions"])
    /\ UNCHANGED << file, tmux >>

(* collectLive.  list-windows fails for a session that is gone, but reports*)
(* none when the whole server is.                                          *)
ListSessions(p) ==
    /\ At(p, "sessions")
    /\ Become(p, [cmd[p] EXCEPT !.pc = "panes", !.todo = { s \in Live : Open(s) }])
    /\ UNCHANGED << file, tmux >>

ListPanes(p) ==
    /\ At(p, "panes")
    /\ Become(p, [cmd[p] EXCEPT
           !.pc = IF cmd[p].todo = {} THEN "write" ELSE "windows", !.panes = tmux])
    /\ UNCHANGED << file, tmux >>

(* A window's directory and command are those of the first pane listed     *)
(* under its session and index.                                            *)
Known(p, s, i) ==
    LET panes == cmd[p].panes[s] IN
    IF i <= Len(panes) THEN panes[i] ELSE [dir |-> << >>, command |-> << >>]

Found(p, s) ==
    [i \in DOMAIN tmux[s] |->
        [name |-> tmux[s][i].name, dir |-> Known(p, s, i).dir,
         command |-> Known(p, s, i).command]]

ListWindows(p) ==
    /\ At(p, "windows")
    /\ \E s \in cmd[p].todo :
         \/ /\ Open(s) \/ ~ServerUp
            /\ Become(p, [cmd[p] EXCEPT
                   !.found = (s :> Found(p, s)) @@ @, !.todo = @ \ {s},
                   !.pc = IF cmd[p].todo = {s} THEN "write" ELSE "windows"])
         \/ ~Open(s) /\ ServerUp /\ End(p, "failed")
    /\ UNCHANGED << file, tmux >>

-----------------------------------------------------------------------------
(* Pull: what config.Diff makes of each declared session.                  *)
Entry(s, w) == << "sessions", s, "windows", w >>
NamesIn(wins) == { wins[i].name : i \in DOMAIN wins }
LastNamed(wins, n) == wins[CHOOSE i \in DOMAIN wins :
    wins[i].name = n /\ \A j \in DOMAIN wins : wins[j].name = n => j <= i]
PerSession(sessions, Edits(_)) ==
    LET order == SetToSeq(sessions) IN
    FlattenSeq([i \in DOMAIN order |-> Edits(order[i])])

Differs(have, want) == have # << >> /\ want # << >> /\ have # want
Drifted(tree, s, n, win) ==
    \/ Differs(win.dir, WindowDir(tree, s, n))
    \/ Differs(win.command, Window(tree, s, n).command)

NewWindows(tree, s, wins) ==
    LET new == SelectSeq(wins, LAMBDA w : w.name \notin WindowNames(tree, s)) IN
    [i \in DOMAIN new |-> Set(Entry(s, new[i].name), new[i].dir)]

(* With --all: entries that drifted become their directory, those that are *)
(* gone are deleted; a session that is gone counts as a window of no name. *)
Overwritten(tree, s, wins) ==
    LET drifted == SetToSeq({ n \in WindowNames(tree, s) \cap NamesIn(wins) :
                                  Drifted(tree, s, n, LastNamed(wins, n)) })
        gone == SetToSeq(WindowNames(tree, s) \ NamesIn(wins))
    IN [i \in DOMAIN drifted |->
            Set(Entry(s, drifted[i]), LastNamed(wins, drifted[i]).dir)]
       \o [i \in DOMAIN gone |-> Delete(Entry(s, gone[i]))]

PullEdits(tree, found, all) ==
    LET Edits(s) ==
            LET wins == IF s \in DOMAIN found THEN found[s] ELSE << >> IN
            CASE all /\ s \notin DOMAIN found /\ WindowNames(tree, s) = {} ->
                   << Delete(Entry(s, "")) >>
              [] all /\ (s \in DOMAIN found \/ WindowNames(tree, s) # {}) ->
                   Overwritten(tree, s, wins) \o NewWindows(tree, s, wins)
              [] OTHER -> NewWindows(tree, s, wins)
    IN PerSession(Declares(tree), Edits)

-----------------------------------------------------------------------------
(* Bootstrap and freeze: roots are where the directories fork.  Of two     *)
(* roots for one directory the code takes either; both mean the same.      *)
Dirs(found) ==
    UNION { { w.dir : w \in Range(found[s]) } : s \in DOMAIN found } \ {<< >>}

InferRoots(found) ==
    LET common == Len(LongestCommonPrefix(Dirs(found)))
        forks == { SubSeq(d, 1, common + 1) : d \in { x \in Dirs(found) : Len(x) > common } }
    IN IF Dirs(found) = {} THEN << >>
       ELSE [name \in { Last(f) : f \in forks } |->
                CHOOSE f \in forks : Last(f) = name]

Roots(tree) == [r \in RootNames(tree) |-> Root(tree, r)]
Holders(roots, dir) == { r \in DOMAIN roots : IsPrefix(roots[r], dir) }
MatchRoot(roots, dir) ==
    CHOOSE r \in Holders(roots, dir) :
        \A q \in Holders(roots, dir) : Len(roots[q]) <= Len(roots[r])

(* A window as root and path, or as its directory when no root holds it.   *)
WindowEdits(roots, s, w) ==
    CASE w.dir = << >> -> << >>
      [] w.dir # << >> /\ Holders(roots, w.dir) = {} -> << Set(Entry(s, w.name), w.dir) >>
      [] OTHER ->
           LET r == MatchRoot(roots, w.dir)
               rest == SubSeq(w.dir, Len(roots[r]) + 1, Len(w.dir))
           IN << Set(Entry(s, w.name) \o << "root" >>, << r >>),
                 Set(Entry(s, w.name) \o << "path" >>,
                     IF rest = << >> THEN << "." >> ELSE rest) >>

Captured(roots, s, wins) ==
    FlattenSeq([i \in DOMAIN wins |-> WindowEdits(roots, s, wins[i])])

RootEdits(roots, names) ==
    LET order == SetToSeq(names) IN
    [i \in DOMAIN order |-> Set(<< "roots", order[i] >>, roots[order[i]])]

BootstrapEdits(found) ==
    LET roots == InferRoots(found) IN
    RootEdits(roots, DOMAIN roots)
      \o PerSession(DOMAIN found, LAMBDA s : Captured(roots, s, found[s]))

(* Freeze adds what is not there: windows, and the roots not yet declared. *)
Selected(found, only) == { s \in DOMAIN found : only \in {"", s} }
(* Mutant of Undeclared: what is declared is captured again.               *)
Undeclared_all(tree, s, wins) == wins

Undeclared(tree, s, wins) ==
    SelectSeq(wins, LAMBDA w : w.name \notin WindowNames(tree, s))

Adds(tree, found, only) ==
    \E s \in Selected(found, only) :
        s \notin Declares(tree) \/ Undeclared(tree, s, found[s]) # << >>

MergedRoots(tree, found) == Roots(tree) @@ InferRoots(found)

FreezeEdits(tree, found, only) ==
    LET roots == MergedRoots(tree, found) IN
    PerSession(Selected(found, only),
               LAMBDA s : Captured(roots, s, Undeclared(tree, s, found[s])))
      \o RootEdits(roots, DOMAIN roots \ RootNames(tree))

-----------------------------------------------------------------------------
(* What a command writes: nothing when an edit fails, nor when freeze has  *)
(* nothing to add.  Import writes the tree of its base, not what it merged.*)
Home == << "/", "h" >>

Written(p) ==
    LET c == cmd[p]
        Saved(edits) == Edited(c.tree, edits)
        own == Entry(c.arg, c.arg)
    IN CASE c.op \in {"pull", "pullall"} ->
              Saved(PullEdits(c.tree, c.found, c.op = "pullall"))
         [] c.op = "bootstrap" -> Saved(BootstrapEdits(c.found))
         [] c.op = "freeze" -> Saved(FreezeEdits(c.tree, c.found, c.arg))
         [] c.op = "save" -> Saved(<< Set(own, Home) >>)
         [] c.op = "savelayout" ->
              Saved(<< Set(own \o << "layout" >>, << "2-pane" >>),
                       Set(own \o << "dir" >>, Home) >>)
         [] c.op = "savegroup" ->
              Saved(<< Set(<< "sessions", c.arg, "group" >>, << "g" >>),
                       Set(own, Home) >>)
         [] c.op = "settings" -> Saved(<< Set(<< "defaults", "lang" >>, << "en" >>) >>)
         [] c.op = "merge" -> IF c.tree = Missing THEN Imported ELSE c.tree
         [] c.op = "replace" -> Imported

Write(p) ==
    /\ At(p, "write")
    /\ IF Op(p) = "freeze" /\ ~Adds(cmd[p].tree, cmd[p].found, cmd[p].arg)
       THEN End(p, "done") /\ UNCHANGED file
       ELSE \/ Written(p) # Failed /\ file' = Written(p) /\ End(p, "done")
            \/ Written(p) = Failed /\ End(p, "failed") /\ UNCHANGED file
    /\ UNCHANGED tmux

(* The user opens a window, closes one, or changes its directory.          *)
Act ==
    \E s \in Live :
        \/ \E w \in scene.opens : tmux' = [tmux EXCEPT ![s] = Append(@, w)]
        \/ \E i \in DOMAIN tmux[s] :
             \/ tmux' = [tmux EXCEPT ![s] = RemoveAt(@, i)]
             \/ \E d \in scene.moves : tmux' = [tmux EXCEPT ![s][i].dir = d]

Watch(who) ==
    past' = [q \in Tools |->
        IF q \in who \/ cmd[q].pc = "idle" THEN past[q]
        ELSE [past[q] EXCEPT
                 !.moved = @ \/ tmux' # tmux, !.raced = @ \/ file' # file,
                 !.closed = @ \/ \E s \in Live : Len(tmux'[s]) < Len(tmux[s]),
                 !.had = IF Finished(q) THEN @ ELSE @ \cup Placed(tmux')]]

Next ==
    /\ UNCHANGED scene
    /\ \/ /\ count.cmds < scene.many /\ count' = [count EXCEPT !.cmds = @ + 1]
          /\ \E p \in Tools :
               /\ scene.overlap \/ \A q \in Tools \ {p} : cmd[q].pc = "idle"
               /\ \E op \in scene.ops : \E arg \in Arguments(op) : Load(p, op, arg)
               /\ past' = [past EXCEPT ![p] = Watching(tmux)]
       \/ /\ \E p \in Tools :
               /\ ListSessions(p) \/ ListPanes(p) \/ ListWindows(p) \/ Write(p)
               /\ Watch({p})
          /\ UNCHANGED count
       \/ /\ count.acts < scene.acts /\ count' = [count EXCEPT !.acts = @ + 1]
          /\ Act /\ UNCHANGED << file, cmd >> /\ Watch({})

Spec == Init /\ [][Next]_vars

-----------------------------------------------------------------------------
(* Properties.                                                             *)
Texts == Seq(STRING)
TypeOK ==
    /\ file # Failed /\ (file = Missing \/ Declares(file) \subseteq Live)
    /\ \A s \in Live : \A w \in Range(tmux[s]) :
          w.name \in STRING /\ w.dir \in Texts /\ w.command \in Texts
    /\ \A p \in Tools :
         /\ cmd[p].pc \in {"idle", "sessions", "panes", "windows", "write", "done", "failed"}
         /\ DOMAIN cmd[p].found \cup cmd[p].todo \subseteq Live
         /\ DOMAIN cmd[p].found \cap cmd[p].todo = {}

Before(p) == cmd[p].tree
Undisturbed(p) == ~past[p].moved /\ ~past[p].raced
Plain == \A s \in Live : \A w \in Range(tmux[s]) :
    w.name \notin DOMAIN Dotted /\ Range(w.dir) \cap DOMAIN Dotted = {}

Running == [s \in { x \in Live : Open(x) } |-> tmux[s]]

(* The window n of the session s is configured where it is.                *)
InPlace(s, n) ==
    LET dir == LastNamed(tmux[s], n).dir IN
    n \in WindowNames(file, s) /\ (dir # << >> => WindowDir(file, s, n) = dir)

KeepsWindow(p, s, n) ==
    /\ n \in WindowNames(file, s)
    /\ Window(file, s, n) = Window(Before(p), s, n)
    /\ WindowDir(file, s, n) = WindowDir(Before(p), s, n)

Keeps(p) == \A s \in Declares(Before(p)) :
    s \in Declares(file) /\ \A n \in WindowNames(Before(p), s) : KeepsWindow(p, s, n)

(* An entry without a directory is in no place that drift could be from.   *)
Placeless(p, s, n) ==
    n \in WindowNames(Before(p), s) /\ WindowDir(Before(p), s, n) = << >>

Adopts(p, s) == \A n \in NamesIn(tmux[s]) \ WindowNames(Before(p), s) : InPlace(s, n)
Only(p, s, names) == WindowNames(file, s) \subseteq WindowNames(Before(p), s) \cup names

(* What each command that ended well has made of the file: pull adds the   *)
(* new windows of declared sessions and keeps the rest; with --all it      *)
(* declares in those sessions exactly what runs, where it runs, so that no *)
(* drift is left; bootstrap into a new file declares all there is; freeze  *)
(* keeps what is declared, and adds, under roots of its own, the rest.     *)
Settled(p) ==
    LET op == Op(p)
        declared == Declares(Before(p))
        whole == { s \in Live : Open(s) /\ cmd[p].arg \in {"", s} }
    IN CASE op = "pull" ->
              /\ Keeps(p) /\ Declares(file) = declared
              /\ \A s \in declared :
                    Adopts(p, s) /\ Only(p, s, NamesIn(tmux[s]))
         [] op = "pullall" ->
              /\ Declares(file) = declared
              /\ \A s \in declared :
                    /\ WindowNames(file, s) = NamesIn(tmux[s])
                    /\ \A n \in NamesIn(tmux[s]) :
                          \/ Placeless(p, s, n)
                          \/ InPlace(s, n) /\ ~Drifted(file, s, n, LastNamed(tmux[s], n))
         [] op = "bootstrap" /\ Before(p) = Fresh ->
              \A s \in whole : \A n \in NamesIn(tmux[s]) : InPlace(s, n)
         [] op = "freeze" ->
              /\ Keeps(p) /\ \A s \in whole : Adopts(p, s)
              /\ \A s \in Declares(file) :
                    Only(p, s, IF s \in whole THEN NamesIn(tmux[s]) ELSE {})
         [] op = "settings" -> Keeps(p) /\ Declares(file) = declared
         [] OTHER -> TRUE

(* Why a command may fail though nobody interferes: it finds no usable     *)
(* file; --all meets a drift in an entry that is a mapping, or a session   *)
(* that is gone and has no windows; windows of one name are to be written  *)
(* both as a mapping and as a directory, or the entry is of the other form;*)
(* a group is to be written where there is a list of them.                 *)
Form(roots, dir) == IF Holders(roots, dir) = {} THEN "dir" ELSE "mapping"
Stored(tree, s, n) ==
    IF IsMap(WindowNodes(tree, s).map[n]) THEN "mapping" ELSE "dir"

Clash(p, s, roots) ==
    LET wins == { w \in Range(tmux[s]) : w.dir # << >> } IN
    \E v, w \in wins :
        /\ v.name = w.name /\ Form(roots, v.dir) = "dir"
        /\ Form(roots, w.dir) = "mapping"
Misfit(p, s, roots) ==
    \E w \in Range(tmux[s]) :
        /\ w.name \in WindowNames(Before(p), s)
        /\ Form(roots, w.dir) # Stored(Before(p), s, w.name)

Refusal(p) ==
    LET op == Op(p)
        tree == Before(p)
    IN \/ tree = Missing
       \/ /\ op = "pullall"
          /\ \E s \in Declares(tree) :
               \/ ~Open(s) /\ WindowNames(tree, s) = {}
               \/ \E n \in WindowNames(tree, s) \cap NamesIn(tmux[s]) :
                    /\ Stored(tree, s, n) = "mapping"
                    /\ Drifted(tree, s, n, LastNamed(tmux[s], n))
       \/ /\ op = "bootstrap"
          /\ \E s \in Live : \/ Clash(p, s, InferRoots(Running))
                             \/ Misfit(p, s, InferRoots(Running))
       \/ op = "freeze" /\ \E s \in Live : Clash(p, s, MergedRoots(tree, Running))
       \/ /\ op \in News /\ cmd[p].arg \in WindowNames(tree, cmd[p].arg)
          /\ Stored(tree, cmd[p].arg, cmd[p].arg)
               = IF op = "savelayout" THEN "dir" ELSE "mapping"
       \/ op = "savegroup" /\ "group" \in Keys(Sess(tree, cmd[p].arg))

(* The tree without the groups that new --save has written as scalars.     *)
Ungrouped(tree) ==
    LET Bare(n) == IF "group" \in Keys(n) /\ ~IsMap(n.map["group"])
                   THEN Mapping([k \in Keys(n) \ {"group"} |-> n.map[k]]) ELSE n
    IN IF tree = Missing \/ Declares(tree) = {} THEN tree
       ELSE Put(tree, "sessions",
                Mapping([s \in Declares(tree) |-> Bare(Sess(tree, s))]))

(* A command nobody interferes with either does to the file what it says   *)
(* or fails for a reason named here, and what it leaves can be loaded      *)
(* again: names with dots, which PathSet takes for paths, are excepted, and*)
(* the group of a session that new --save --group writes as a scalar.      *)
(* When the server changes meanwhile, as long as no window is closed, every*)
(* window that is added is where it has been since the command began, or   *)
(* has no directory yet.                                                   *)
ConfigFaithful ==
    /\ Plain /\ Usable(scene.file) => Usable(Ungrouped(file))
    /\ \A p \in Tools : Plain /\ Undisturbed(p) =>
          /\ At(p, "done") => Settled(p)
          /\ At(p, "failed") => Refusal(p)
    /\ \A p \in Tools :
         At(p, "done") /\ Op(p) \in Mirrors \ {"pullall"} /\ Plain
         /\ ~past[p].closed /\ ~past[p].raced =>
            \A s \in Declares(file) : \A n \in WindowNames(file, s) \ WindowNames(Before(p), s) :
               \/ WindowNodes(file, s).map[n] = Scalar(<< >>)
               \/ << s, n, WindowDir(file, s, n) >> \in past[p].had
=============================================================================
