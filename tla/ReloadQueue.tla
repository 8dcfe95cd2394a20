---------------------------- MODULE ReloadQueue -----------------------------
(***************************************************************************)
(* Deferred reloads: tmh watch --auto, which reloads the shells of a tmux  *)
(* window when their rc file is saved, tmh reload --busy, which does so    *)
(* once, and the table in which both leave the panes they found busy, for  *)
(* the watch to drain.  Panes keep their id; they are addressed by their   *)
(* place in the window, and when one is closed those behind it move up.    *)
(* A command to tmux or to the table is a step of its own.                 *)
(***************************************************************************)
EXTENDS Integers, Sequences, SequencesExt

CONSTANTS
    Window,    \* the panes at first, a sequence of ids
    MaxActs    \* how often the user does something

VARIABLES
    panes,     \* the window: which pane is at which place
    busy,      \* the panes in which a program runs
    stale,     \* the panes whose shell has not read the rc file as it is
    typed,     \* history: the panes whose program was typed into
    queue,     \* the table reload_queue, newest first
    old,       \* the panes whose entries are past their expires_at
    notices,   \* what fsnotify has yet to report
    pending,   \* the watcher's pendingKind
    armed,     \* is its debounce timer running?
    fires,     \* timer functions that have read pendingKind, by what they read
    events,    \* the channel from the watcher to the command
    step,      \* what the watch and the reload command do next
    todo,      \* the panes or entries each has still to go through
    acts       \* history: how often the user did something

userVars == << panes, busy, stale, typed >>
tableVars == << queue, old >>
watcherVars == << notices, pending, armed, fires, events >>
procVars == << step, todo >>
vars == << userVars, tableVars, watcherVars, procVars, acts >>

Drainers == {"watch", "reload"}
Here == ToSet(panes)

Init ==
    /\ panes = Window /\ busy \in SUBSET ToSet(Window)
    /\ stale = {} /\ typed = {}
    /\ queue = << >> /\ old = {}
    /\ notices = << >> /\ pending = "none" /\ armed = FALSE
    /\ fires = << >> /\ events = << >>
    /\ step = [p \in Drainers |-> "idle"] /\ todo = [p \in Drainers |-> << >>]
    /\ acts = 0

-----------------------------------------------------------------------------
(* The user saves a file, starts a program in a pane, or closes a pane.    *)
Acts == acts < MaxActs /\ acts' = acts + 1

Save(kind) ==
    /\ Acts
    /\ notices' = Append(notices, kind)
    /\ stale' = IF kind = "zshrc" THEN Here ELSE stale
    /\ UNCHANGED << panes, busy, typed, tableVars, pending, armed, fires,
                    events, procVars >>

Run(p) ==
    /\ Acts /\ p \in Here \ busy
    /\ busy' = busy \cup {p}
    /\ UNCHANGED << panes, stale, typed, tableVars, watcherVars, procVars >>

Leave(p) ==
    /\ p \in busy
    /\ busy' = busy \ {p}
    /\ UNCHANGED << panes, stale, typed, tableVars, watcherVars, procVars, acts >>

Close(p) ==
    /\ Acts /\ p \in Here /\ Len(panes) > 1
    /\ panes' = SelectSeq(panes, LAMBDA q : q # p)
    /\ busy' = busy \ {p} /\ stale' = stale \ {p} /\ typed' = typed \ {p}
    /\ UNCHANGED << tableVars, watcherVars, procVars >>

Age(p) ==
    /\ p \notin old /\ \E i \in DOMAIN queue : queue[i].pane = p
    /\ old' = old \cup {p}
    /\ UNCHANGED << userVars, queue, watcherVars, procVars, acts >>

-----------------------------------------------------------------------------
(* Watch: the last file that changes within 300 ms is the one reported.    *)
Notice ==
    /\ notices # << >>
    /\ notices' = Tail(notices)
    /\ pending' = Head(notices) /\ armed' = TRUE
    /\ UNCHANGED << userVars, tableVars, fires, events, procVars, acts >>

(* The timer function runs beside the loop that sets pendingKind again:    *)
(* it reads it, and clears it later.                                       *)
Fire ==
    /\ armed /\ armed' = FALSE
    /\ fires' = IF pending = "none" THEN fires ELSE Append(fires, pending)
    /\ UNCHANGED << userVars, tableVars, notices, pending, events, procVars, acts >>

Emit(i) ==
    /\ i \in DOMAIN fires
    /\ fires' = RemoveAt(fires, i)
    /\ pending' = "none"
    /\ events' = Append(events, fires[i])
    /\ UNCHANGED << userVars, tableVars, notices, armed, procVars, acts >>

-----------------------------------------------------------------------------
(* What a listing of the panes says of one, and the work it makes.         *)
Item(p, place) ==
    [pane |-> p, target |-> place,
     was |-> IF p \notin Here THEN "gone" ELSE IF p \in busy THEN "busy" ELSE "idle"]

Begin(p, what, items) ==
    /\ step' = [step EXCEPT ![p] = IF items = << >> THEN "idle" ELSE what]
    /\ todo' = [todo EXCEPT ![p] = items]

Finish(p) == Begin(p, "idle", << >>)

(* The next pane or entry; a drain expires entries at its end.             *)
Onward(p) ==
    IF Len(todo[p]) > 1
    THEN Begin(p, IF step[p] = "dequeue" THEN "drain" ELSE step[p], Tail(todo[p]))
    ELSE /\ step' = [step EXCEPT ![p] =
                         IF step[p] = "reload" THEN "idle" ELSE "expire"]
         /\ todo' = [todo EXCEPT ![p] = << >>]

(* Reload begins: ListPanes.                                               *)
List(p) ==
    /\ step[p] = "idle"
    /\ Begin(p, "reload", [i \in DOMAIN panes |-> Item(panes[i], i)])
    /\ UNCHANGED << userVars, tableVars >>

Command == Acts /\ List("reload") /\ UNCHANGED watcherVars

(* Of an event of tmux.conf only the file is sourced.                      *)
TakeEvent ==
    /\ events # << >> /\ step["watch"] = "idle"
    /\ events' = Tail(events)
    /\ \/ Head(events) = "zshrc" /\ List("watch")
       \/ Head(events) = "tmuxconf" /\ UNCHANGED << userVars, tableVars, procVars >>
    /\ UNCHANGED << notices, pending, armed, fires, acts >>

(* The keys of "source rc" go to whatever pane is at the place.            *)
SendKeys(place) ==
    LET p == panes[place] IN
    /\ typed' = IF p \in busy THEN typed \cup {p} ELSE typed
    /\ stale' = IF p \in busy THEN stale ELSE stale \ {p}
    /\ UNCHANGED << panes, busy >>

Others(p) == SelectSeq(queue, LAMBDA e : e.pane # p)

(* Mutant of Enqueue: without --busy a busy pane is skipped.               *)
Enqueue_never(p, place) == UNCHANGED tableVars

Enqueue(p, place) ==
    /\ queue' = << [pane |-> p, target |-> place] >> \o Others(p)
    /\ old' = old \ {p}

Dequeue(p) == queue' = Others(p) /\ old' = old \ {p}

(* Reload goes through the panes; it ends at the first that is not there.  *)
ReloadPane(p) ==
    /\ step[p] = "reload"
    /\ LET item == Head(todo[p]) IN
       \/ /\ item.was = "idle" /\ item.target \in DOMAIN panes
          /\ SendKeys(item.target) /\ Onward(p)
          /\ UNCHANGED tableVars
       \/ /\ item.was = "idle" /\ item.target \notin DOMAIN panes
          /\ Finish(p)
          /\ UNCHANGED << userVars, tableVars >>
       \/ /\ item.was = "busy"
          /\ Enqueue(item.pane, item.target) /\ Onward(p)
          /\ UNCHANGED userVars
    /\ UNCHANGED << watcherVars, acts >>

(* Every two seconds: the entries, and the panes by id.                    *)
Tick ==
    /\ queue # << >> /\ step["watch"] = "idle"
    /\ Begin("watch", "drain",
             [i \in DOMAIN queue |-> Item(queue[i].pane, queue[i].target)])
    /\ UNCHANGED << userVars, tableVars, watcherVars, acts >>

DrainEntry(p) ==
    /\ step[p] = "drain"
    /\ LET item == Head(todo[p]) IN
       \/ /\ item.was = "gone"
          /\ Dequeue(item.pane) /\ Onward(p)
          /\ UNCHANGED userVars
       \/ /\ item.was = "busy" /\ Onward(p)
          /\ UNCHANGED << userVars, tableVars >>
       \/ /\ item.was = "idle" /\ item.target \in DOMAIN panes
          /\ SendKeys(item.target)
          /\ Begin(p, "dequeue", todo[p])
          /\ UNCHANGED tableVars
       \/ /\ item.was = "idle" /\ item.target \notin DOMAIN panes
          /\ Finish(p)
          /\ UNCHANGED << userVars, tableVars >>
    /\ UNCHANGED << watcherVars, acts >>

DrainDequeue(p) ==
    /\ step[p] = "dequeue"
    /\ Dequeue(Head(todo[p]).pane) /\ Onward(p)
    /\ UNCHANGED << userVars, watcherVars, acts >>

ExpireReloads(p) ==
    /\ step[p] = "expire" /\ Finish(p)
    /\ queue' = SelectSeq(queue, LAMBDA e : e.pane \notin old)
    /\ old' = {}
    /\ UNCHANGED << userVars, watcherVars, acts >>

Work(p) == ReloadPane(p) \/ DrainEntry(p) \/ DrainDequeue(p) \/ ExpireReloads(p)

Watcher == Notice \/ Fire \/ \E i \in DOMAIN fires : Emit(i)

Next ==
    \/ \E kind \in {"zshrc", "tmuxconf"} : Save(kind)
    \/ \E p \in ToSet(Window) : Run(p) \/ Leave(p) \/ Close(p) \/ Age(p)
    \/ Watcher \/ Command \/ TakeEvent \/ Tick
    \/ \E p \in Drainers : Work(p)

(* The watch goes on, a select takes each of its cases again and again,    *)
(* and time passes; nothing is asked of the user or of a reload command,   *)
(* which may be interrupted.                                               *)
Fairness ==
    /\ WF_vars(Watcher) /\ WF_vars(Work("watch"))
    /\ SF_vars(TakeEvent) /\ SF_vars(Tick)
    /\ \A p \in ToSet(Window) : WF_vars(Age(p))

Spec == Init /\ [][Next]_vars
FairSpec == Spec /\ Fairness

-----------------------------------------------------------------------------
TypeOK ==
    /\ IsInjective(panes) /\ Here \subseteq ToSet(Window) /\ panes # << >>
    /\ busy \subseteq Here /\ stale \subseteq Here /\ typed \subseteq Here
    /\ \A i \in DOMAIN queue :
           queue[i] \in [pane : ToSet(Window), target : DOMAIN Window]
    /\ \A i, j \in DOMAIN queue : queue[i].pane = queue[j].pane => i = j
    /\ \A p \in old : \E i \in DOMAIN queue : queue[i].pane = p
    /\ \A p \in Drainers : (step[p] \in {"idle", "expire"}) <=> (todo[p] = << >>)

(* The queue empties -- busy panes' entries by age, others by being served *)
(* -- as long as no queued pane has moved from its recorded place.         *)
Moved ==
    \E i \in DOMAIN queue :
        /\ queue[i].pane \in Here
        /\ queue[i].target \notin DOMAIN panes \/ panes[queue[i].target] # queue[i].pane

QueueSettles == []~Moved => <>[](queue = << >>)

(* A pane that is free at last reads the file as it was last saved: unless *)
(* a pane is closed, another file saved, its entry too old, or its program *)
(* typed into.                                                             *)
Undisturbed(p) ==
    /\ panes = Window /\ p \notin typed /\ p \notin old
    /\ "tmuxconf" \notin ToSet(notices)

FreedIsSourced ==
    \A p \in ToSet(Window) :
        []Undisturbed(p) /\ <>[](p \notin busy) => <>[](p \notin stale)
=============================================================================
