------------------------------ MODULE TuiRoot -------------------------------
(***************************************************************************)
(* The root model of tmh-next's terminal UI and the backend it talks to.   *)
(*                                                                         *)
(* Update handles one message at a time, but every command it returns runs *)
(* in a goroutine of its own and sends its message whenever it is done, so *)
(* two messages meet in Update in any order.  The commands that are under  *)
(* way are "tasks": a task is called, is answered by the backend and waits *)
(* to be delivered.                                                        *)
(*                                                                         *)
(* The backend is what ControlPlane proves of tmhd: a log of revisions to  *)
(* which a command written against the newest revision may be appended.    *)
(* A revision and its event have the same number there (CountersAgree).    *)
(* In the demo the backend is the deterministic mock provider instead.     *)
(***************************************************************************)
EXTENDS Integers, FiniteSets

CONSTANTS
    Acts,         \* identities of the actions a user asks for
    NoAct,        \* no action
    Setups,       \* how the program may be started and what may happen to it
    MaxRevision   \* the backend commits below this revision only

Fallible == {"load", "execute", "answer", "reload", "watch", "fetch", "tick"}

ASSUME ActsAssumption == NoAct \notin Acts
ASSUME SetupsAssumption ==
    Setups \subseteq [watching : BOOLEAN, acts : SUBSET Acts,
                     failing : SUBSET Fallible, early : BOOLEAN]
ASSUME MaxRevisionAssumption == MaxRevision \in Nat \ {0}

VARIABLES
    setup,        \* the setup of this execution
    rev,          \* backend: the newest revision
    mine,         \* backend: stored results, the act committed over a base
    tasks,        \* the commands under way
    cat,          \* Root.cat.Revision, 0 for a nil catalog
    eventSeq,     \* Root.eventSeq
    ready,        \* Root.ready
    mut,          \* Root.mut: the mutation lane's kind and identity
    tickPending,  \* Root.tickPending
    timerArmed,   \* Root.timerArmed
    armedToken    \* Root.armedToken, told apart from the one before it only

vars == << setup, rev, mine, tasks, cat, eventSeq, ready, mut, tickPending,
           timerArmed, armedToken >>
timerVars == << tickPending, timerArmed, armedToken >>
backendVars == << rev, mine >>

(* production: a watcher and no ticker; demo: a ticker, --live, no watcher *)
Watching == setup.watching
Ticking == ~setup.watching

Failing == setup.failing   \* the calls that may fail

(* Keys reach the pages at once, and nothing in requestAction waits for the*)
(* first catalog: whether the user is so early is part of the setup.       *)
Asking == ready \/ setup.early

Lane(kind, act) == [kind |-> kind, act |-> act]
Idle == Lane("none", NoAct)

Pending == [st |-> "pending", rev |-> 0]
Ok(r) == [st |-> "ok", rev |-> r]
Failed == [st |-> "failed", rev |-> 0]
Conflict == [st |-> "conflict", rev |-> 0]

(* A number no task under way has, so that a command run twice is two tasks*)
FreshId(T) ==
    CHOOSE n \in 0 .. Cardinality(T) : \A t \in T : t.id # n

(* T and one more command, with its argument: the expected revision, the   *)
(* sequence number to watch after or the timer's token.                    *)
Start(T, kind, arg, act) ==
    T \cup {[id |-> FreshId(T), kind |-> kind, arg |-> arg, act |-> act,
             at |-> "call", res |-> Pending]}

Answer(t, res) == [t EXCEPT !.at = "msg", !.res = res]
Rest(t) == tasks \ {t}

(* Initially Init's snapshot is being fetched; tmhd has committed one.     *)
Init ==
    /\ setup \in Setups
    /\ rev = 1 /\ mine = {}
    /\ tasks = Start({}, "load", 0, NoAct)
    /\ cat = 0 /\ eventSeq = 0 /\ ready = FALSE
    /\ mut = Idle
    /\ tickPending = FALSE /\ timerArmed = FALSE /\ armedToken = 0

(***************************************************************************)
(* The backend                                                             *)
(***************************************************************************)

(* publishLocked: each open subscription of T has revision r to deliver.   *)
Published(T, r) ==
    { IF t.at = "open" THEN Answer(t, Ok(r)) ELSE t : t \in T }

(* tmhd records what it observes of the runtime.                           *)
Observe ==
    /\ Watching /\ rev < MaxRevision
    /\ rev' = rev + 1
    /\ tasks' = Published(tasks, rev + 1)
    /\ UNCHANGED << mine, cat, eventSeq, ready, mut, timerVars >>

(* A snapshot: the first one, the one that follows a watch event and the   *)
(* one that follows a conflict.                                            *)
ServeSnapshot(t) ==
    /\ t.at = "call" /\ t.kind \in {"load", "fetch", "reload"}
    /\ tasks' = Rest(t) \cup {Answer(t, Ok(rev))}
    /\ UNCHANGED << backendVars, cat, eventSeq, ready, mut, timerVars >>

(* A command that is committed; its event is published before its answer,  *)
(* and the answer itself may be lost.                                      *)
ServeExecute(t) ==
    /\ t.at = "call" /\ t.kind = "execute"
    /\ t.arg = rev /\ rev < MaxRevision
    /\ rev' = rev + 1
    /\ mine' = mine \cup {[act |-> t.act, base |-> t.arg]}
    /\ \E res \in {Ok(rev + 1)} \cup (IF "answer" \in Failing THEN {Failed}
                                      ELSE {}) :
          tasks' = Published(Rest(t), rev + 1) \cup {Answer(t, res)}
    /\ UNCHANGED << cat, eventSeq, ready, mut, timerVars >>

(* A command that was committed before is answered from its stored result. *)
ServeStored(t) ==
    /\ t.at = "call" /\ t.kind = "execute"
    /\ [act |-> t.act, base |-> t.arg] \in mine
    /\ tasks' = Rest(t) \cup {Answer(t, Ok(t.arg + 1))}
    /\ UNCHANGED << backendVars, cat, eventSeq, ready, mut, timerVars >>

(* The demo's backend has no catalog before the first snapshot is fetched. *)
Unloaded == Ticking /\ \E u \in tasks : u.kind = "load" /\ u.at = "call"

ServeUnloaded(t) ==
    /\ t.at = "call" /\ t.kind \in {"execute", "tick"} /\ Unloaded
    /\ tasks' = Rest(t) \cup {Answer(t, Failed)}
    /\ UNCHANGED << backendVars, cat, eventSeq, ready, mut, timerVars >>

(* A command or a tick over another revision than the newest.              *)
ServeConflict(t) ==
    /\ t.at = "call" /\ t.kind \in {"execute", "tick"} /\ ~Unloaded
    /\ t.arg # rev /\ [act |-> t.act, base |-> t.arg] \notin mine
    /\ tasks' = Rest(t) \cup {Answer(t, Conflict)}
    /\ UNCHANGED << backendVars, cat, eventSeq, ready, mut, timerVars >>

(* The demo provider's tick.                                               *)
ServeTick(t) ==
    /\ t.at = "call" /\ t.kind = "tick"
    /\ t.arg = rev /\ rev < MaxRevision
    /\ rev' = rev + 1
    /\ tasks' = Rest(t) \cup {Answer(t, Ok(rev + 1))}
    /\ UNCHANGED << mine, cat, eventSeq, ready, mut, timerVars >>

(* The demo clock and the two-second pause before the watch is opened again*)
ServeTimer(t) ==
    /\ t.at = "call" /\ t.kind \in {"timer", "retry"}
    /\ tasks' = Rest(t) \cup {Answer(t, Ok(0))}
    /\ UNCHANGED << backendVars, cat, eventSeq, ready, mut, timerVars >>

(* Watch: subscribe, and replay the newest event if the client missed it.  *)
ServeWatch(t) ==
    /\ t.at = "call" /\ t.kind = "watch"
    /\ tasks' = Rest(t) \cup {IF rev > t.arg THEN Answer(t, Ok(rev))
                              ELSE [t EXCEPT !.at = "open"]}
    /\ UNCHANGED << backendVars, cat, eventSeq, ready, mut, timerVars >>

(* Every 15 s the server sends an event of revision 0 with the sequence    *)
(* number the client already has.                                          *)
Heartbeat(t) ==
    /\ t.at = "open"
    /\ tasks' = Rest(t) \cup {Answer(t, Ok(0))}
    /\ UNCHANGED << backendVars, cat, eventSeq, ready, mut, timerVars >>

(* The connection or the call fails and nothing has been committed.        *)
Break(t) ==
    /\ t.at \in {"call", "open"} /\ t.kind \in Failing
    /\ tasks' = Rest(t) \cup {Answer(t, Failed)}
    /\ UNCHANGED << backendVars, cat, eventSeq, ready, mut, timerVars >>

(***************************************************************************)
(* Root.Update                                                             *)
(***************************************************************************)

(* armTimer, with the commands T already under way.                        *)
Arm(T) ==
    IF Ticking /\ ~timerArmed
    THEN /\ timerArmed' = TRUE
         /\ armedToken' = 1 - armedToken
         /\ tasks' = Start(T, "timer", armedToken', NoAct)
    ELSE tasks' = T /\ UNCHANGED << timerArmed, armedToken >>

(* waitWatch, when the root has a watcher.                                 *)
WaitWatch(T, after) ==
    tasks' = IF Watching THEN Start(T, "watch", after, NoAct) ELSE T

Release_noTimer(T, shown) ==
    /\ tasks' = IF tickPending THEN Start(T, "tick", shown, NoAct) ELSE T
    /\ mut' = IF tickPending THEN Lane("tick", NoAct) ELSE Idle
    /\ tickPending' = FALSE
    /\ UNCHANGED << timerArmed, armedToken >>

(* The lane is free again: a tick that came due meanwhile takes it, over   *)
(* the catalog now shown; otherwise the timer is armed.                    *)
Release(T, shown) ==
    IF tickPending
    THEN /\ mut' = Lane("tick", NoAct)
         /\ tickPending' = FALSE
         /\ tasks' = Start(T, "tick", shown, NoAct)
         /\ UNCHANGED << timerArmed, armedToken >>
    ELSE mut' = Idle /\ Arm(T) /\ UNCHANGED tickPending

(* startReload                                                             *)
StartReload(T) ==
    /\ mut' = Lane("reload", NoAct)
    /\ tasks' = Start(T, "reload", 0, NoAct)
    /\ UNCHANGED << cat, timerVars >>

Due(t, kind) == t.at = "msg" /\ t.kind = kind

(* LoadCatalogMsg, LoadFailedMsg: a failed load is shown and that is all.  *)
Loaded(t) ==
    /\ Due(t, "load") /\ t.res.st = "ok"
    /\ cat' = t.res.rev /\ eventSeq' = t.res.rev
    /\ ready' = TRUE
    /\ IF Watching
       THEN WaitWatch(Rest(t), eventSeq') /\ UNCHANGED << timerArmed, armedToken >>
       ELSE Arm(Rest(t))
    /\ UNCHANGED << backendVars, mut, tickPending >>

LoadFailed(t) ==
    /\ Due(t, "load") /\ t.res.st = "failed"
    /\ tasks' = Rest(t)
    /\ UNCHANGED << backendVars, cat, eventSeq, ready, mut, timerVars >>

(* requestAction: a busy lane rejects the action with a notification.      *)
RequestAction_whileBusy(act) ==
    /\ Asking /\ cat < MaxRevision
    /\ Cardinality(tasks) < 4
    /\ mut' = Lane("action", act)
    /\ tasks' = Start(tasks, "execute", cat, act)
    /\ UNCHANGED << backendVars, cat, eventSeq, ready, timerVars >>

RequestAction(act) ==
    /\ Asking /\ cat < MaxRevision
    /\ mut = Idle
    /\ mut' = Lane("action", act)
    /\ tasks' = Start(tasks, "execute", cat, act)
    /\ UNCHANGED << backendVars, cat, eventSeq, ready, timerVars >>

(* A result that continues the catalog shown.                              *)
ValidChain(t) == t.arg = cat /\ t.res.rev = t.arg + 1

(* acceptMutation: the result takes the place of the catalog.              *)
Accept(t) ==
    /\ cat' = t.res.rev
    /\ Release(Rest(t), t.res.rev)
    /\ UNCHANGED << backendVars, eventSeq, ready >>

(* ... a stale or malformed result is dropped, and the lane stays as it is.*)
Drop(t) ==
    /\ tasks' = Rest(t)
    /\ UNCHANGED << backendVars, cat, eventSeq, ready, mut, timerVars >>

AcceptMutation(t) ==
    /\ Due(t, "execute") /\ t.res.st = "ok"
    /\ IF mut = Lane("action", t.act) /\ ValidChain(t) THEN Accept(t)
       ELSE Drop(t)

AcceptTick(t) ==
    /\ Due(t, "tick") /\ t.res.st = "ok"
    /\ IF mut.kind # "tick" THEN Drop(t)
       ELSE IF ValidChain(t) THEN Accept(t)
       ELSE StartReload(Rest(t)) /\ UNCHANGED << backendVars, eventSeq, ready >>

(* rejectMutation: a conflict starts a reload, any other failure frees the *)
(* lane, the failure of a command the lane does not hold is dropped.       *)
RejectMutation(t) ==
    LET held == IF t.kind = "tick" THEN mut.kind = "tick"
                ELSE mut = Lane("action", t.act)
    IN  /\ t.at = "msg" /\ t.kind \in {"execute", "tick"}
        /\ t.res.st \in {"failed", "conflict"}
        /\ IF ~held THEN Drop(t)
           ELSE /\ IF t.res.st = "conflict" THEN StartReload(Rest(t))
                   ELSE Release(Rest(t), cat) /\ UNCHANGED cat
                /\ UNCHANGED << backendVars, eventSeq, ready >>

(* ReloadedMsg, ReloadFailedMsg: only the lane that waits for one takes it.*)
Reloaded(t) ==
    /\ Due(t, "reload")
    /\ IF mut.kind # "reload" THEN Drop(t)
       ELSE /\ cat' = IF t.res.st = "ok" THEN t.res.rev ELSE cat
            /\ Release(Rest(t), cat')
            /\ UNCHANGED << backendVars, eventSeq, ready >>

RuntimeWatch_known(t) ==
    /\ Due(t, "watch") /\ t.res.st = "ok"
    /\ eventSeq' = IF t.res.rev > eventSeq THEN t.res.rev ELSE eventSeq
    /\ IF t.res.rev <= eventSeq' THEN WaitWatch(Rest(t), eventSeq')
       ELSE tasks' = Start(Rest(t), "fetch", 0, NoAct)
    /\ UNCHANGED << backendVars, cat, ready, mut, timerVars >>

(* RuntimeWatchMsg: an event newer than the catalog has a snapshot fetched.*)
RuntimeWatch(t) ==
    /\ Due(t, "watch") /\ t.res.st = "ok"
    /\ eventSeq' = IF t.res.rev > eventSeq THEN t.res.rev ELSE eventSeq
    /\ IF t.res.rev <= cat THEN WaitWatch(Rest(t), eventSeq')
       ELSE tasks' = Start(Rest(t), "fetch", 0, NoAct)
    /\ UNCHANGED << backendVars, cat, ready, mut, timerVars >>

RuntimeSnapshot_anyRevision(t) ==
    /\ Due(t, "fetch") /\ t.res.st = "ok"
    /\ cat' = t.res.rev /\ eventSeq' = t.res.rev
    /\ WaitWatch(Rest(t), eventSeq')
    /\ UNCHANGED << backendVars, ready, mut, timerVars >>

(* RuntimeSnapshotMsg: an older snapshot is not shown.                     *)
RuntimeSnapshot(t) ==
    /\ Due(t, "fetch") /\ t.res.st = "ok"
    /\ IF t.res.rev >= cat THEN cat' = t.res.rev /\ eventSeq' = t.res.rev
       ELSE UNCHANGED << cat, eventSeq >>
    /\ WaitWatch(Rest(t), eventSeq')
    /\ UNCHANGED << backendVars, ready, mut, timerVars >>

(* RuntimeWatchFailedMsg: notify, and try again in two seconds.            *)
RuntimeWatchFailed(t) ==
    /\ t.at = "msg" /\ t.kind \in {"watch", "fetch"} /\ t.res.st = "failed"
    /\ tasks' = Start(Rest(t), "retry", 0, NoAct)
    /\ UNCHANGED << backendVars, cat, eventSeq, ready, mut, timerVars >>

RetryWatch(t) ==
    /\ Due(t, "retry")
    /\ WaitWatch(Rest(t), eventSeq)
    /\ UNCHANGED << backendVars, cat, eventSeq, ready, mut, timerVars >>

(* TickTimerMsg: a timer that is not the armed one is dropped; a tick that *)
(* finds the lane busy waits for it.                                       *)
TickTimer(t) ==
    /\ Due(t, "timer")
    /\ IF ~timerArmed \/ t.arg # armedToken THEN Drop(t)
       ELSE /\ timerArmed' = FALSE
            /\ IF mut # Idle
               THEN tickPending' = TRUE /\ tasks' = Rest(t) /\ UNCHANGED mut
               ELSE /\ mut' = Lane("tick", NoAct)
                    /\ tasks' = Start(Rest(t), "tick", cat, NoAct)
                    /\ UNCHANGED tickPending
            /\ UNCHANGED << backendVars, cat, eventSeq, ready, armedToken >>

-----------------------------------------------------------------------------
Serve(t) ==
    \/ ServeSnapshot(t)
    \/ ServeExecute(t)
    \/ ServeStored(t)
    \/ ServeUnloaded(t)
    \/ ServeConflict(t)
    \/ ServeTick(t)
    \/ ServeTimer(t)
    \/ ServeWatch(t)

Deliver(t) ==
    \/ Loaded(t)
    \/ LoadFailed(t)
    \/ AcceptMutation(t)
    \/ AcceptTick(t)
    \/ RejectMutation(t)
    \/ Reloaded(t)
    \/ RuntimeWatch(t)
    \/ RuntimeSnapshot(t)
    \/ RuntimeWatchFailed(t)
    \/ RetryWatch(t)
    \/ TickTimer(t)

Next ==
    /\ \/ Observe
       \/ \E t \in tasks : Serve(t) \/ Heartbeat(t) \/ Break(t) \/ Deliver(t)
       \/ \E act \in setup.acts : RequestAction(act)
    /\ UNCHANGED setup

Spec == Init /\ [][Next]_vars

TaskKinds == {"load", "execute", "reload", "tick", "timer", "watch", "fetch",
              "retry"}

(***************************************************************************)
(* A call that is made again and again is in the end answered (SF: it may  *)
(* fail any number of times before), a message that is sent is handled;    *)
(* whether the user acts and the runtime changes is up to them.            *)
(***************************************************************************)
Fairness ==
    \A k \in TaskKinds :
        /\ SF_vars(\E t \in tasks : t.kind = k /\ Serve(t) /\ UNCHANGED setup)
        /\ WF_vars(\E t \in tasks : t.kind = k /\ Deliver(t) /\ UNCHANGED setup)

FairSpec == Spec /\ Fairness

-----------------------------------------------------------------------------
(***************************************************************************)
(* Properties                                                              *)
(***************************************************************************)
Results == {Pending, Failed, Conflict} \cup { Ok(r) : r \in 0 .. MaxRevision }

Tasks == [id : Nat, kind : TaskKinds, arg : 0 .. MaxRevision,
          act : Acts \cup {NoAct}, at : {"call", "open", "msg"},
          res : Results]

LaneKinds == {"none", "action", "tick", "reload"}

(* The shape of every variable.                                            *)
TypeOK ==
    /\ setup \in Setups
    /\ rev \in 1 .. MaxRevision
    /\ mine \in SUBSET [act : Acts, base : 1 .. MaxRevision - 1]
    /\ tasks \in SUBSET Tasks
    /\ cat \in 0 .. MaxRevision /\ eventSeq \in 0 .. MaxRevision
    /\ mut \in [kind : LaneKinds, act : Acts \cup {NoAct}]
    /\ {ready, tickPending, timerArmed} \subseteq BOOLEAN
    /\ armedToken \in {0, 1}

LaneTasks == { t \in tasks : t.kind \in {"execute", "tick", "reload"} }

LaneOf(t) ==
    CASE t.kind = "execute" -> Lane("action", t.act)
      [] t.kind = "tick" -> Lane("tick", NoAct)
      [] t.kind = "reload" -> Lane("reload", NoAct)

(* The mutation lane is serialized: however results, reloads and ticks     *)
(* interleave, at most one of them is under way, and the lane says which.  *)
LaneSerialized ==
    /\ \A t, u \in LaneTasks : t = u
    /\ \A t \in LaneTasks : mut = LaneOf(t)

(* The watch is one chain: after the first snapshot there is always exactly*)
(* one watch, snapshot fetch or retry timer under way, so the UI neither   *)
(* goes deaf nor subscribes twice.                                         *)
WatchChainSingle ==
    Watching /\ ready =>
        Cardinality({ t \in tasks : t.kind \in {"watch", "fetch", "retry"} }) = 1

(* The next ticks of the demo: timers armed and ticks in flight, and the   *)
(* one that is pending behind a busy lane.                                 *)
NextTicks ==
    Cardinality({ t \in tasks : /\ t.kind \in {"timer", "tick"}
                                /\ t.kind = "timer" => /\ timerArmed
                                                       /\ t.arg = armedToken })
        + (IF tickPending THEN 1 ELSE 0)

(* The demo refresh is one chain: armed, in flight or pending behind a busy*)
(* lane, one of the three; none only while a reload is under way, which    *)
(* arms the next.  A user who acted before the first catalog had arrived   *)
(* may have armed a timer beside the one that catalog arms.                *)
TickChainSingle ==
    Ticking /\ ready =>
        /\ NextTicks = 0 => mut.kind = "reload"
        /\ NextTicks <= IF setup.early THEN 2 ELSE 1

(* One mutation and one watch are under way at a time, and one chain of    *)
(* ticks: neither a late message nor a second command starts another.      *)
OneLaneOneWatch == LaneSerialized /\ WatchChainSingle /\ TickChainSingle

(* Neither a late snapshot nor a late mutation result takes the catalog    *)
(* back to an older revision; only the reload after a conflict can, and the*)
(* first snapshot, if it comes after the reload of a user who was early.   *)
OnlyReloadRegresses ==
    [][cat' < cat => mut.kind = "reload" \/ (setup.early /\ ready' # ready)]_vars

(* The lane is released: every action is in the end answered, by its       *)
(* result, its error or a reload.                                          *)
ActionAnswered == mut.kind = "action" ~> mut.kind # "action"

(* Once the backend stops committing, the UI comes to show its catalog.    *)
ShowsLatest == <>[][UNCHANGED rev]_rev => <>[](cat = rev)

(* The demo goes on ticking whatever the user does meanwhile.              *)
DemoAdvances == Ticking => <>(rev = MaxRevision)
=============================================================================
