-------------------------- MODULE SessionCommands ---------------------------
(***************************************************************************)
(* The tmh commands that make and destroy whole tmux sessions: init and    *)
(* sync --push from the configuration, new, scratch, kill, snapshots and   *)
(* undo.                                                                   *)
(*                                                                         *)
(* Each runs in a process of its own (or a goroutine of the TUI) and takes *)
(* a step per tmux command or SQL statement; between two steps the other   *)
(* processes and the user change the same server and the same database.    *)
(*                                                                         *)
(* A session is the sequence of its windows' names: base-index is 1 and    *)
(* renumber-windows is on, the settings tmh recommends.                    *)
(***************************************************************************)
EXTENDS Integers, Sequences, FiniteSets

CONSTANTS
    Procs,       \* processes of tmh
    Sessions,    \* names of sessions
    Names,       \* names of windows
    Shell,       \* any other name: tmux's for a window no one named, and the
                 \* session's own for the window of a new session
    None,        \* no session; no snapshot
    Declared,    \* config.Resolve: the declared sessions and their windows
    Ops,         \* the commands that are run, a subset of AllOps
    Faults,      \* what may go wrong, a subset of AllFaults
    UserActs,    \* what the user does, a subset of AllUserActs
    MaxWindows,  \* bound: the user opens windows in sessions of fewer
    MaxActs      \* bound: so many commands and acts of the user

AllOps == {"kill", "killall", "undo", "save", "restore", "push", "init", "new",
           "scratch"}
AllFaults == {"abort", "persist"}
AllUserActs == {"open", "close", "kill"}

ASSUME NamesAssumption == Shell \notin Names /\ None \notin Sessions
ASSUME DeclaredAssumption ==
    DOMAIN Declared \subseteq Sessions /\ Declared \in [DOMAIN Declared -> Seq(Names)]
ASSUME ChoicesAssumption ==
    Ops \subseteq AllOps /\ Faults \subseteq AllFaults /\ UserActs \subseteq AllUserActs
ASSUME BoundsAssumption == MaxWindows \in Nat /\ MaxActs \in Nat

VARIABLES
    live,     \* tmux: the windows of each session, << >> for no such session
    journal,  \* the rows of the table events
    lastId,   \* its last id
    saved,    \* the table snapshots: the payload under the one name in use
    proc,     \* the processes
    start,    \* history: the sessions as they were when a process began
    touched,  \* history: the sessions others changed since a process began
    acts      \* commands and acts of the user so far, for the bound

vars == << live, journal, lastId, saved, proc, start, touched, acts >>

Labels == Names \cup {Shell}
Gone == << >>
Exists(s) == live[s] # Gone
ServerRunning == \E s \in Sessions : Exists(s)

(* Functions from a set of sessions to their windows: a payload, a plan.   *)
NoPlan == << >>
Only(s, wins) == [t \in {s} |-> wins]
With(plan, s, wins) == [t \in DOMAIN plan \cup {s} |-> IF t = s THEN wins ELSE plan[t]]

(* A process: its command and the sessions named on its command line, the  *)
(* plan (what is captured or to be created), the sessions left to treat,   *)
(* the one under treatment, the windows it still lacks, name and index of  *)
(* the window just created, the event read or recorded, and whether an     *)
(* error was noted on the way.                                             *)
Idle == [pc |-> "idle", op |-> "none", arg |-> {}, plan |-> NoPlan, todo |-> {},
         cur |-> None, want |-> << >>, name |-> Shell, at |-> 0, ev |-> 0,
         err |-> FALSE]

Command(op, arg) == [op |-> op, arg |-> arg]
Commands ==
    { c \in { Command(op, {}) : op \in {"undo", "save", "restore", "push", "init"} }
            \cup { Command(op, {s}) : op \in {"kill", "killall", "new", "scratch"},
                                      s \in Sessions }
            \cup {Command("killall", Sessions)} :
      c.op \in Ops }

Init ==
    /\ live \in [Sessions -> {Gone, << Shell >>}]
    /\ journal = {} /\ lastId = 0 /\ saved = None
    /\ proc = [p \in Procs |-> Idle]
    /\ start = [p \in Procs |-> live]
    /\ touched = [p \in Procs |-> {}]
    /\ acts = 0

At(p, label) == proc[p].pc = label
Op(p) == proc[p].op
Creates(p) == Op(p) \in {"push", "init", "new"}
Plan(p) == proc[p].plan
Cur(p) == proc[p].cur
Want(p) == proc[p].want

Become(p, state) == proc' = [proc EXCEPT ![p] = state]
Goto(p, label) == Become(p, [proc[p] EXCEPT !.pc = label])

(* Where a command in state st goes when a session is dealt with.  An error*)
(* ends a command at once; init notes it and goes on.                      *)
AfterItem(st) ==
    CASE st.todo # {} -> "has"
      [] st.todo = {} /\ st.op = "undo" -> "forget"
      [] OTHER -> IF st.err THEN "failed" ELSE "done"

NextItem(p, st) == Become(p, [st EXCEPT !.pc = AfterItem(st)])
ItemFailed(p) ==
    IF Op(p) = "init" THEN NextItem(p, [proc[p] EXCEPT !.err = TRUE])
    ELSE Goto(p, "failed")

UnchangedTmux == UNCHANGED live
UnchangedDb == UNCHANGED << journal, lastId, saved >>

(***************************************************************************)
(* A command begins                                                        *)
(***************************************************************************)
FirstLabel(op) ==
    CASE op \in {"kill", "killall", "save"} -> "sessions"
      [] op = "undo" -> "event"
      [] op = "restore" -> "snapshot"
      [] op = "scratch" -> "scratch"
      [] OTHER -> "has"

PlanOf(c) ==
    CASE c.op \in {"push", "init"} -> Declared
      [] c.op = "new" -> [s \in c.arg |-> << Shell >>]
      [] OTHER -> NoPlan

Begin(p, c) ==
    /\ proc[p].pc \in {"idle", "done", "failed"}
    /\ c.op \in {"push", "init"} => DOMAIN Declared # {}
    /\ Become(p, [Idle EXCEPT !.pc = FirstLabel(c.op), !.op = c.op, !.arg = c.arg,
                              !.plan = PlanOf(c), !.todo = DOMAIN PlanOf(c)])
    /\ UnchangedTmux /\ UnchangedDb

(***************************************************************************)
(* CaptureLive, for a kill in the TUI and a snapshot; ListSessions also    *)
(* begins KillMatching.                                                    *)
(***************************************************************************)
AfterCapture_unrecorded(p, plan) == IF Op(p) = "save" THEN "store" ELSE "kill"

AfterCapture(p, plan) ==
    CASE Op(p) = "save" -> "store"
      [] Op(p) = "kill" /\ proc[p].arg \subseteq DOMAIN plan -> "journal"
      [] OTHER -> "kill"

ListSessions(p) ==
    /\ At(p, "sessions")
    /\ LET found == { s \in Sessions : Exists(s) } IN
       IF Op(p) = "killall"
       THEN Become(p, [proc[p] EXCEPT !.pc = "each", !.todo = found \cap proc[p].arg])
       ELSE Become(p, [proc[p] EXCEPT
                !.todo = found,
                !.pc = IF found = {} THEN AfterCapture(p, NoPlan) ELSE "windows"])
    /\ UnchangedTmux /\ UnchangedDb

(* One session's windows. list-windows fails for a session that is gone,   *)
(* but reports none when the whole server is; a kill goes on uncaptured.   *)
ListWindows(p) ==
    /\ At(p, "windows")
    /\ \E s \in proc[p].todo :
         LET plan == With(Plan(p), s, live[s])
             todo == proc[p].todo \ {s}
         IN \/ /\ Exists(s) \/ ~ServerRunning
               /\ Become(p, [proc[p] EXCEPT
                      !.plan = plan, !.todo = todo,
                      !.pc = IF todo = {} THEN AfterCapture(p, plan) ELSE "windows"])
            \/ /\ ~Exists(s) /\ ServerRunning
               /\ Goto(p, IF Op(p) = "save" THEN "failed" ELSE "kill")
    /\ UnchangedTmux /\ UnchangedDb

Event(id, kind, target, wins) ==
    [id |-> id, kind |-> kind, target |-> target, wins |-> wins]

Record_replaces(kind, target, wins) ==
    /\ lastId' = lastId + 1
    /\ journal' = { e \in journal : e.target # target }
                      \cup {Event(lastId + 1, kind, target, wins)}
    /\ UNCHANGED saved

(* A row of events; its id is AUTOINCREMENT: never used again.             *)
Record(kind, target, wins) ==
    /\ lastId' = lastId + 1
    /\ journal' = journal \cup {Event(lastId + 1, kind, target, wins)}
    /\ UNCHANGED saved

(* The TUI ignores that the insert fails.                                  *)
InsertEvent(p) ==
    /\ At(p, "journal")
    /\ \E s \in proc[p].arg :
         \/ /\ Record("kill_session", s, Plan(p)[s])
            /\ Become(p, [proc[p] EXCEPT !.pc = "kill", !.ev = lastId + 1])
         \/ /\ "persist" \in Faults
            /\ Become(p, [proc[p] EXCEPT !.pc = "kill", !.err = TRUE])
            /\ UnchangedDb
    /\ UnchangedTmux

SaveSnapshot(p) ==
    /\ At(p, "store")
    /\ saved' = Plan(p)
    /\ Goto(p, "done")
    /\ UnchangedTmux /\ UNCHANGED << journal, lastId >>

(***************************************************************************)
(* KillSession, once or for each match of a pattern.  That it first unlinks*)
(* the aliases of the session is ActiveSession's matter.                   *)
(***************************************************************************)
KillSession(p) ==
    /\ At(p, "kill")
    /\ \E s \in proc[p].arg :
         \/ /\ Exists(s)
            /\ live' = [live EXCEPT ![s] = Gone]
            /\ Goto(p, "done")
         \/ /\ ~Exists(s)
            /\ Goto(p, "failed")
            /\ UnchangedTmux
    /\ UnchangedDb

KillMatching(p) ==
    /\ At(p, "each")
    /\ \/ /\ proc[p].todo = {}
          /\ Goto(p, IF proc[p].err THEN "failed" ELSE "done")
          /\ UnchangedTmux
       \/ \E s \in proc[p].todo :
            /\ live' = [live EXCEPT ![s] = Gone]
            /\ Become(p, [proc[p] EXCEPT !.todo = @ \ {s}, !.err = @ \/ ~Exists(s)])
    /\ UnchangedDb

(***************************************************************************)
(* What undo and restore read                                              *)
(***************************************************************************)

(* RecentEvents(1): only the newest event counts, whatever its kind.       *)
ReadEvent(p) ==
    /\ At(p, "event")
    /\ \/ \E e \in journal :
            /\ \A f \in journal : f.id <= e.id
            /\ \/ /\ e.kind = "kill_session"
                  /\ Become(p, [proc[p] EXCEPT
                         !.pc = "has", !.ev = e.id, !.todo = {e.target},
                         !.plan = Only(e.target, e.wins)])
               \/ e.kind # "kill_session" /\ Goto(p, "failed")
       \/ journal = {} /\ Goto(p, "failed")
    /\ UnchangedTmux /\ UnchangedDb

GetSnapshot(p) ==
    /\ At(p, "snapshot")
    /\ IF saved = None THEN Goto(p, "failed")
       ELSE Become(p, [proc[p] EXCEPT
                !.pc = IF saved = NoPlan THEN "done" ELSE "has",
                !.plan = saved, !.todo = DOMAIN saved])
    /\ UnchangedTmux /\ UnchangedDb

(* DeleteEvent; its failure is ignored.                                    *)
DeleteEvent(p) ==
    /\ At(p, "forget")
    /\ \/ /\ journal' = { e \in journal : e.id # proc[p].ev }
          /\ UNCHANGED << lastId, saved >>
       \/ "persist" \in Faults /\ UnchangedDb
    /\ Goto(p, "done")
    /\ UnchangedTmux

(***************************************************************************)
(* One session of the plan: recreateSnapshot and CreateSession             *)
(***************************************************************************)
(* Push goes on with the windows of a session that exists; the others      *)
(* leave it alone.                                                         *)
HasSession(p) ==
    /\ At(p, "has")
    /\ \E s \in proc[p].todo :
         LET item == [proc[p] EXCEPT !.cur = s, !.todo = @ \ {s}, !.want = Plan(p)[s]]
         IN CASE ~Exists(s) ->
                   Become(p, [item EXCEPT !.pc = IF Op(p) = "push" THEN "again" ELSE "new"])
              [] Exists(s) /\ Op(p) = "push" -> Become(p, [item EXCEPT !.pc = "list"])
              [] OTHER -> NextItem(p, item)
    /\ UnchangedTmux /\ UnchangedDb

(* CreateSession looks again, since push has looked before it.             *)
HasSessionAgain(p) ==
    /\ At(p, "again")
    /\ IF Exists(Cur(p)) THEN NextItem(p, proc[p]) ELSE Goto(p, "new")
    /\ UnchangedTmux /\ UnchangedDb

AfterWindow_always(p, st) == Become(p, [st EXCEPT !.pc = "window"])

AfterWindow(p, st) ==
    IF st.want = << >> THEN NextItem(p, st)
    ELSE Become(p, [st EXCEPT !.pc = "window"])

Made_fromFirst(p, name, index, rest) ==
    AfterWindow(p, [proc[p] EXCEPT
        !.name = name, !.at = index,
        !.want = IF index = 1 THEN << name >> \o rest ELSE rest])

(* A window of the session was made: on to its layout, which only the      *)
(* commands that create have, or to the next window.                       *)
Made(p, name, index, rest) ==
    LET st == [proc[p] EXCEPT !.name = name, !.at = index, !.want = rest] IN
    IF Creates(p) THEN Become(p, [st EXCEPT !.pc = "layout"]) ELSE AfterWindow(p, st)

(* new-session makes the first window too.  That the session exists by now *)
(* is an error, but no obstacle to CreateSession when it has windows to    *)
(* make, nor to push.                                                      *)
NewSession(p) ==
    /\ At(p, "new")
    /\ IF Exists(Cur(p)) THEN UnchangedTmux
       ELSE live' = [live EXCEPT ![Cur(p)] =
                        << IF Want(p) = << >> THEN Shell ELSE Head(Want(p)) >>]
    /\ CASE Want(p) # << >> /\ (Creates(p) \/ ~Exists(Cur(p))) ->
              Made(p, Head(Want(p)), 1, Tail(Want(p)))
         [] Want(p) = << >> /\ (Op(p) = "push" \/ ~Exists(Cur(p))) ->
              NextItem(p, proc[p])
         [] OTHER -> ItemFailed(p)
    /\ UnchangedDb

NewWindow(p) ==
    /\ At(p, "window")
    /\ IF Exists(Cur(p))
       THEN /\ live' = [live EXCEPT ![Cur(p)] = Append(@, Head(Want(p)))]
            /\ Made(p, Head(Want(p)), Len(live'[Cur(p)]), Tail(Want(p)))
       ELSE ItemFailed(p) /\ UnchangedTmux
    /\ UnchangedDb

(* applyWindowLayout splits and names whatever window has the index.       *)
ApplyLayout(p) ==
    /\ At(p, "layout")
    /\ IF proc[p].at <= Len(live[Cur(p)])
       THEN /\ live' = [live EXCEPT ![Cur(p)][proc[p].at] = proc[p].name]
            /\ AfterWindow(p, proc[p])
       ELSE ItemFailed(p) /\ UnchangedTmux
    /\ UnchangedDb

(* Of the windows wins those that are not among the present ones, by name. *)
Without(wins, present) ==
    LET kept[i \in 0 .. Len(wins)] ==
            IF i = 0 THEN << >>
            ELSE IF \E j \in 1 .. Len(present) : present[j] = wins[i] THEN kept[i - 1]
            ELSE Append(kept[i - 1], wins[i])
    IN kept[Len(wins)]

Missing(s, wins) == Without(wins, live[s])

(* Push into a session that exists: the windows that are missing by name.  *)
ListForPush(p) ==
    /\ At(p, "list")
    /\ IF Exists(Cur(p)) \/ ~ServerRunning
       THEN AfterWindow(p, [proc[p] EXCEPT !.want = Missing(Cur(p), @)])
       ELSE Goto(p, "failed")
    /\ UnchangedTmux /\ UnchangedDb

(* CreateScratch with a lifetime: its event is for a sweep to come.        *)
CreateScratch(p) ==
    /\ At(p, "scratch")
    /\ \E s \in proc[p].arg :
         \/ /\ ~Exists(s)
            /\ live' = [live EXCEPT ![s] = << Shell >>]
            /\ Goto(p, "expiry")
         \/ Exists(s) /\ Goto(p, "failed") /\ UnchangedTmux
    /\ UnchangedDb

InsertExpiry(p) ==
    /\ At(p, "expiry")
    /\ \E s \in proc[p].arg :
         \/ Record("scratch_ttl", s, << >>) /\ Goto(p, "done")
         \/ "persist" \in Faults /\ UnchangedDb /\ Goto(p, "failed")
    /\ UnchangedTmux

(* A timeout, an error of tmux or SQLite, a crash.                         *)
Abort(p) ==
    /\ proc[p].pc \notin {"idle", "done", "failed"} /\ "abort" \in Faults
    /\ Goto(p, "failed")
    /\ UnchangedTmux /\ UnchangedDb

(***************************************************************************)
(* The user at his own tmux client                                         *)
(***************************************************************************)
UserOpens(s, name) ==
    /\ "open" \in UserActs /\ Len(live[s]) < MaxWindows
    /\ live' = [live EXCEPT ![s] = Append(@, name)]

UserCloses(s, i) ==
    /\ "close" \in UserActs
    /\ live' = [live EXCEPT ![s] = SubSeq(@, 1, i - 1) \o SubSeq(@, i + 1, Len(@))]

UserKills(s) ==
    /\ "kill" \in UserActs /\ Exists(s)
    /\ live' = [live EXCEPT ![s] = Gone]

(***************************************************************************)
(* The next-state relation; history variables                              *)
(***************************************************************************)
Changed == { s \in Sessions : live'[s] # live[s] }
Notice(who) ==
    touched' = [q \in Procs |-> IF q \in who THEN touched[q] ELSE touched[q] \cup Changed]

Step(p) ==
    \/ ListSessions(p) \/ ListWindows(p) \/ InsertEvent(p) \/ SaveSnapshot(p)
    \/ KillSession(p) \/ KillMatching(p)
    \/ ReadEvent(p) \/ GetSnapshot(p) \/ DeleteEvent(p)
    \/ HasSession(p) \/ HasSessionAgain(p) \/ NewSession(p) \/ NewWindow(p)
    \/ ApplyLayout(p) \/ ListForPush(p)
    \/ CreateScratch(p) \/ InsertExpiry(p)
    \/ Abort(p)

User ==
    \E s \in Sessions :
        \/ \E n \in Labels : UserOpens(s, n)
        \/ \E i \in 1 .. Len(live[s]) : UserCloses(s, i)
        \/ UserKills(s)

Act == acts < MaxActs /\ acts' = acts + 1

Next ==
    \/ \E p \in Procs :
        \/ /\ Act /\ \E c \in Commands : Begin(p, c)
           /\ start' = [start EXCEPT ![p] = live]
           /\ touched' = [touched EXCEPT ![p] = {}]
        \/ Step(p) /\ Notice({p}) /\ UNCHANGED << start, acts >>
    \/ Act /\ User /\ Notice({}) /\ UNCHANGED << journal, lastId, saved, proc, start >>

Spec == Init /\ [][Next]_vars

-----------------------------------------------------------------------------
(***************************************************************************)
(* Properties                                                              *)
(***************************************************************************)
Windows == Seq(Labels)
IsPayload(f) == DOMAIN f \subseteq Sessions /\ f \in [DOMAIN f -> Windows]
Events == [id : 1 .. lastId, kind : {"kill_session", "scratch_ttl"},
           target : Sessions, wins : Windows]
Steps == {"idle", "done", "failed", "sessions", "windows", "journal", "kill",
          "each", "store", "event", "snapshot", "forget", "has", "again", "new",
          "window", "layout", "list", "scratch", "expiry"}
Processes ==
    [pc : Steps, op : AllOps \cup {"none"}, arg : SUBSET Sessions, plan : {NoPlan},
     todo : SUBSET Sessions, cur : Sessions \cup {None}, want : Windows,
     name : Labels, at : Nat, ev : 0 .. lastId, err : BOOLEAN]

(* The tables keep their types, no two events have one id, and a process   *)
(* treats the sessions of its plan only.                                   *)
TypeOK ==
    /\ live \in [Sessions -> Windows]
    /\ lastId \in Nat /\ journal \subseteq Events
    /\ \A e, f \in journal : e.id = f.id => e = f
    /\ saved = None \/ IsPayload(saved)
    /\ DOMAIN proc = Procs
    /\ \A p \in Procs :
         /\ IsPayload(Plan(p)) /\ [proc[p] EXCEPT !.plan = NoPlan] \in Processes
         /\ proc[p].pc \in {"new", "window", "layout", "list"} => Cur(p) \in DOMAIN Plan(p)
         /\ proc[p].pc = "window" => Want(p) # << >>
    /\ start \in [Procs -> [Sessions -> Windows]]
    /\ touched \in [Procs -> SUBSET Sessions]
    /\ acts \in 0 .. MaxActs

(* What a command that ended without an error makes of the session s.      *)
Whole(wins) == IF wins = << >> THEN << Shell >> ELSE wins
Outcome(p, s) ==
    LET was == start[p][s] IN
    CASE Op(p) \in {"kill", "killall"} -> IF s \in proc[p].arg THEN Gone ELSE was
      [] Op(p) = "scratch" -> IF s \in proc[p].arg THEN << Shell >> ELSE was
      [] OTHER ->
           IF Op(p) = "save" \/ s \notin DOMAIN Plan(p) THEN was
           ELSE IF was = Gone THEN Whole(Plan(p)[s])
           ELSE IF Op(p) = "push" THEN was \o Without(Plan(p)[s], was)
           ELSE was

(* A command that ends without an error has done to each session that      *)
(* nobody else touched meanwhile exactly what it would have done at one    *)
(* stroke: undo and restore bring back the windows, each once and in order,*)
(* push adds what is missing, no one changes a session that was there.     *)
(* Other sessions, the events and the snapshots may change at will.        *)
Delivers ==
    \A p \in Procs : At(p, "done") =>
        \A s \in Sessions \ touched[p] : live[s] = Outcome(p, s)

(* After a kill in the TUI its event holds the session as it was; the event*)
(* is missing only if the insert failed or some session was changed by     *)
(* others meanwhile, which may make the capture fail.                      *)
KillIsUndoable ==
    \A p \in Procs : At(p, "done") /\ Op(p) = "kill" =>
        /\ touched[p] = {} /\ ~proc[p].err => proc[p].ev # 0
        /\ \A e \in journal :
               e.id = proc[p].ev /\ e.target \notin touched[p] =>
                   e.wins = start[p][e.target]

(* Only the event an undo has replayed is deleted, though ids are used long*)
(* after they were read: no other kill is forgotten.                       *)
OnlyUndoneForgotten ==
    [][\A e \in journal \ journal' :
          \E p \in Procs : /\ Op(p) = "undo" /\ proc'[p] # proc[p]
                           /\ Plan(p) = Only(e.target, e.wins)]_vars

(* create.go: "Existing sessions are left untouched".  Init adds windows to*)
(* no session that someone else has created.                               *)
ExistingLeftAlone ==
    [][\A p \in Procs, s \in Sessions :
          Op(p) = "init" /\ proc'[p] # proc[p] /\ Exists(s) /\ s \in touched[p]
              => live'[s] = live[s]]_vars
=============================================================================
