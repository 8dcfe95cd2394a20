-------------------------------- MODULE Demo --------------------------------
(***************************************************************************)
(* The in-memory backend of tmh-next's demo: the fixture it loads, what    *)
(* each action makes of the catalog, and the field-by-field restore with   *)
(* its undo.  An action works on a copy that must validate before it takes *)
(* the catalog's place; the counters of ids are not part of the copy.      *)
(* The revision contract and the ticks' chain are in TuiRoot.              *)
(*                                                                         *)
(* A surface stands for its title and directory, which no action changes;  *)
(* windows are neither made nor removed, only their layout changes.        *)
(***************************************************************************)
EXTENDS Subsequences, FiniteSets, SequencesExt

CONSTANTS
    Fixture,    \* the catalog of the scenario
    MaxActs     \* the user acts so many times

VARIABLES
    demo,       \* Backend.cat
    counters,   \* Backend.counters
    tried       \* the user's actions so far

dvars == << demo, counters, tried >>

Workspaces == DOMAIN Fixture.ws
NoTerminal == 0
NoSurface == 0
Absent == "absent"

(* A pane that restore has brought back has lost how it was split.         *)
Pane(id, split) == [id |-> id, split |-> split]
Window(id, layout, panes) == [id |-> id, layout |-> layout, panes |-> panes]
PanesOf(state) == UNION { ToSet(state[i].panes) : i \in DOMAIN state }
Surfaces(state) == { p.id : p \in PanesOf(state) }

-----------------------------------------------------------------------------
(***************************************************************************)
(* Differences of states, field by field                                   *)
(***************************************************************************)

(* stateFields                                                             *)
Fields(state) ==
    { << "window", state[i].id >> : i \in DOMAIN state } \cup
    { << "surface", s >> : s \in Surfaces(state) }

Value(state, f) ==
    IF f \notin Fields(state) THEN Absent
    ELSE IF f[1] = "surface" THEN "present"
    ELSE state[CHOOSE i \in DOMAIN state : state[i].id = f[2]].layout

Op(f, from, to) == [field |-> f, before |-> from, after |-> to]

(* diffStates                                                              *)
Diff(a, b) ==
    { Op(f, Value(a, f), Value(b, f)) :
        f \in { g \in Fields(a) \cup Fields(b) : Value(a, g) # Value(b, g) } }

(* SortRestoreOps: the surfaces before the windows.                        *)
Earlier(o, p) ==
    IF o.field[1] = p.field[1] THEN o.field[2] < p.field[2]
    ELSE o.field[1] = "surface"

InPlanOrder(ops) ==
    [n \in 1 .. Cardinality(ops) |->
        CHOOSE o \in ops : Cardinality({p \in ops : Earlier(p, o)}) = n - 1]

(* A surface that is not there is added to the last window.                *)
SetField(state, f, value) ==
    IF f[1] = "window"
    THEN [i \in DOMAIN state |->
            IF state[i].id = f[2] THEN [state[i] EXCEPT !.layout = value]
            ELSE state[i]]
    ELSE IF f \in Fields(state) THEN state
    ELSE [state EXCEPT ![Len(state)].panes = Append(@, Pane(f[2], "lost"))]

RemoveField(state, f) ==
    [i \in DOMAIN state |->
        [state[i] EXCEPT !.panes = Chosen(@, {p \in ToSet(@) : p.id # f[2]})]]

Redo(state, op) ==
    IF op.after = Absent THEN RemoveField(state, op.field)
    ELSE SetField(state, op.field, op.after)

Revert(state, op) ==
    IF op.before = Absent THEN RemoveField(state, op.field)
    ELSE SetField(state, op.field, op.before)

(* One operation after the other; what was done last is reverted first.    *)
Redone(state, ops) ==
    LET upTo[n \in 0 .. Len(ops)] ==
          IF n = 0 THEN state ELSE Redo(upTo[n - 1], ops[n])
    IN  upTo[Len(ops)]

Rolled(state, ops) ==
    LET upTo[n \in 0 .. Len(ops)] ==
          IF n = 0 THEN state ELSE Revert(upTo[n - 1], ops[Len(ops) + 1 - n])
    IN  upTo[Len(ops)]

(* reconcileStatus; drift stands for "there are drift entries".            *)
Reconciled(w) ==
    [w EXCEPT
        !.drift = w.desired # w.observed /\ Diff(w.desired, w.observed) # {},
        !.status = IF w.desired # w.observed THEN "drift"
                   ELSE IF @ = "frozen" THEN @ ELSE "ok"]

-----------------------------------------------------------------------------
(* ValidateCatalog, of what actions can break.                             *)
ValidWorkspace(w) ==
    /\ w.desired # w.observed /\ ~w.drift => w.status = "frozen"
    /\ w.desired = w.observed => ~w.drift
    /\ w.sel \in Surfaces(w.observed) \cup {NoSurface}

ValidTerminal(c, t) ==
    c.terms[t].sf \in Surfaces(c.ws[c.terms[t].ws].observed)
                        \cup Surfaces(c.ws[c.terms[t].ws].desired)

Valid(c) ==
    /\ \A w \in Workspaces : ValidWorkspace(c.ws[w])
    /\ \A t \in DOMAIN c.terms : ValidTerminal(c, t)
    /\ \A a \in DOMAIN c.agents :
          c.agents[a].term # NoTerminal => c.terms[c.agents[a].term].live
    /\ \A p \in c.plans : \E s \in c.snaps : s.id = p.snapshot /\ s.ws = p.ws

-----------------------------------------------------------------------------
(***************************************************************************)
(* Types, for what the counters have given out                             *)
(***************************************************************************)

Layouts == {"main-horizontal", "main-vertical", "even-horizontal", "even-vertical", "tiled"}
PaneSpecs == [id : Nat, split : {"none", "lost"}]

(* A state has a window.                                                   *)
States == Seq([id : Nat, layout : Layouts, panes : Seq(PaneSpecs)]) \ {<< >>}
Within(state, n) == \A s \in Surfaces(state) : s <= n

(* Operations on what there once was                                       *)
Values(f) == {Absent} \cup IF f[1] = "window" THEN Layouts ELSE {"present"}

Ops(n) ==
    {op \in [field : {"window", "surface"} \X Nat,
             before : Layouts \cup {Absent, "present"},
             after : Layouts \cup {Absent, "present"}] :
        /\ op.field[1] = "surface" => op.field[2] <= n
        /\ op.before \in Values(op.field) /\ op.after \in Values(op.field)}

WorkspaceOK(w, n) ==
    /\ w \in [desired : States, observed : States, drift : BOOLEAN,
              status : {"ok", "drift", "frozen"}, sel : Nat]
    /\ Within(w.desired, n.sf) /\ Within(w.observed, n.sf)

SnapshotOK(s, n) ==
    /\ s \in [id : 1 .. n.snap, ws : Workspaces, state : States]
    /\ Within(s.state, n.sf)

PlanOK(p, n, serial) ==
    /\ p \in [id : 1 .. n.plan, snapshot : Nat, ws : Workspaces,
              status : {"pending", "applied", "undone"}, serial : 0 .. serial,
              ops : [push : SUBSET Ops(n.sf), pull : SUBSET Ops(n.sf)],
              mode : {"none", "push", "pull", "freeze"}, undo : Seq(Ops(n.sf)),
              made : {p.made}, was : {p.was}]

(* A catalog that has taken no id that the counters have not given out.    *)
CatalogOK(c, n) ==
    /\ {"ws", "terms", "agents", "views", "snaps", "plans", "serial"} \subseteq DOMAIN c
    /\ n \in [term : Nat, sf : Nat, snap : Nat, plan : Nat] /\ c.serial \in Nat
    /\ DOMAIN c.ws = Workspaces /\ \A w \in Workspaces : WorkspaceOK(c.ws[w], n)
    /\ \A t \in DOMAIN c.terms :
          /\ t \in 1 .. n.term
          /\ c.terms[t] \in [ws : Workspaces, sf : Nat, live : BOOLEAN]
    /\ \A a \in DOMAIN c.agents :
          c.agents[a] \in [ws : Workspaces, term : DOMAIN c.terms \cup {NoTerminal},
                           state : {"running", "waiting", "done"}, claimed : BOOLEAN]
    /\ \A v \in DOMAIN c.views : c.views[v] \in [pinned : BOOLEAN, fresh : BOOLEAN]
    /\ \A s \in c.snaps : SnapshotOK(s, n)
    /\ \A p \in c.plans : PlanOK(p, n, c.serial)

Windows(state) == [i \in DOMAIN state |-> state[i].id]

(* No plan has been made, and a workspace has the same windows wherever it *)
(* is described.                                                           *)
FixtureAssumption ==
    /\ MaxActs \in Nat /\ IsFiniteSet(Workspaces)
    /\ CatalogOK(Fixture, Fixture.counters) /\ Valid(Fixture)
    /\ Fixture.plans = {} /\ Fixture.serial = 0
    /\ \A w \in Workspaces :
          Windows(Fixture.ws[w].desired) = Windows(Fixture.ws[w].observed)
    /\ \A s \in Fixture.snaps : Windows(s.state) = Windows(Fixture.ws[s.ws].observed)

Init ==
    /\ demo = Fixture
    /\ counters = Fixture.counters
    /\ tried = 0

(* Mutant of Counted: a touch is not counted among the mutations.          *)
Counted_changesOnly(c, d) == IF [d EXCEPT !.views = c.views] = c THEN c.serial ELSE c.serial + 1

Counted(c, d) == c.serial + 1

(* Execute: the work replaces the catalog if it is valid; the ids it took  *)
(* are taken in any case.                                                  *)
ExecuteWith(work, ids) ==
    /\ tried < MaxActs /\ tried' = tried + 1
    /\ counters' = ids
    /\ demo' = IF Valid(work) THEN [work EXCEPT !.serial = Counted(demo, work)]
               ELSE demo

Execute(work) == ExecuteWith(work, counters)

(* An action that finds out too late that it cannot be done: the catalog   *)
(* stays, the serial too, and the ids are taken.                           *)
Refused(ids) ==
    /\ tried < MaxActs /\ tried' = tried + 1
    /\ counters' = ids
    /\ UNCHANGED demo

Taken(kind, n) == [counters EXCEPT ![kind] = @ + n]

(* Tick: time passes, views may expire and the first running agent goes on *)
Tick ==
    /\ \E old \in SUBSET { v \in DOMAIN demo.views : demo.views[v].fresh } :
          demo' = [demo EXCEPT !.views =
                     [v \in DOMAIN @ |-> IF v \in old THEN [@[v] EXCEPT !.fresh = FALSE]
                                         ELSE @[v]]]
    /\ UNCHANGED << counters, tried >>

-----------------------------------------------------------------------------
(***************************************************************************)
(* Workspaces, terminals, views and agents                                 *)
(***************************************************************************)

Live == { t \in DOMAIN demo.terms : demo.terms[t].live }
HomeOf(t) == demo.ws[demo.terms[t].ws]

(* Of a terminal, or of a workspace by one of its live terminals.          *)
Attach(t) ==
    /\ t \in Live
    /\ Execute([demo EXCEPT !.ws[demo.terms[t].ws].sel = demo.terms[t].sf])

(* Desired becomes observed.                                               *)
Frozen(w) == [w EXCEPT !.desired = w.observed, !.drift = FALSE, !.status = "frozen"]

Freeze(w) == Execute([demo EXCEPT !.ws[w] = Frozen(@)])

(* The pane beside the terminal's; its ids are taken before the source     *)
(* pane is looked for.  Desired follows, the drift entries stay.           *)
WithPane(w, source, new) ==
    LET seen == [i \in DOMAIN w.observed |->
                    IF source \in Surfaces(<< w.observed[i] >>)
                    THEN [w.observed[i] EXCEPT
                            !.layout = "even-horizontal",
                            !.panes = Append(@, Pane(new, "none"))]
                    ELSE w.observed[i]]
    IN  [w EXCEPT !.observed = seen, !.desired = seen]

Split(t) ==
    /\ t \in Live
    /\ LET new == counters.sf + 1
           home == demo.terms[t].ws
           last == counters.term + 1
           pane == [ws |-> home, sf |-> new, live |-> TRUE]
           ids == [Taken("sf", 1) EXCEPT !.term = @ + 1]
       IN  IF demo.terms[t].sf \in Surfaces(HomeOf(t).observed)
           THEN ExecuteWith(
                  [demo EXCEPT !.ws[home] = WithPane(@, demo.terms[t].sf, new),
                               !.terms = [u \in DOMAIN @ \cup {last} |->
                                            IF u = last THEN pane ELSE @[u]]],
                  ids)
           ELSE Refused(ids)

(* The terminal takes the first surface of its new workspace.              *)
Linked(t, w) ==
    LET panes == demo.ws[w].observed[1].panes
    IN  [demo.terms[t] EXCEPT !.ws = w,
                              !.sf = IF panes = << >> THEN @ ELSE panes[1].id]

Link(t, w) == Execute([demo EXCEPT !.terms[t] = Linked(t, w)])

Detached(agents, t) ==
    [a \in DOMAIN agents |->
        IF agents[a].term = t THEN [agents[a] EXCEPT !.term = NoTerminal]
        ELSE agents[a]]

Killed(t) ==
    [demo EXCEPT !.terms[t].live = FALSE, !.agents = Detached(@, t)]

Kill(t) == t \in Live /\ Execute(Killed(t))

(* Pinning and touching make a view fresh; expired ones may be pruned.     *)
Pin(v) ==
    /\ ~demo.views[v].pinned
    /\ Execute([demo EXCEPT !.views[v].pinned = TRUE])

Unpin(v) ==
    /\ demo.views[v].pinned
    /\ Execute([demo EXCEPT !.views[v].pinned = FALSE])

Touch(v) == Execute([demo EXCEPT !.views[v].fresh = TRUE])

Prune(v) ==
    /\ ~demo.views[v].pinned /\ ~demo.views[v].fresh
    /\ Execute([demo EXCEPT !.views = [u \in DOMAIN @ \ {v} |-> @[u]]])

AgentPrompt(a) ==
    /\ demo.agents[a].state # "done"
    /\ Execute([demo EXCEPT !.agents[a].state = "running"])

AgentWait(a) ==
    /\ demo.agents[a].state = "running"
    /\ Execute([demo EXCEPT !.agents[a].state = "waiting"])

AgentClaim(a) ==
    /\ demo.agents[a].state # "done" /\ ~demo.agents[a].claimed
    /\ Execute([demo EXCEPT !.agents[a].claimed = TRUE])

(* What changes nothing that is modelled: input to a terminal, the focus   *)
(* of an agent, an export, a tag, probes of backends and machines, traces  *)
(* and benchmarks, the configuration.  It is a mutation all the same.      *)
Other == Execute(demo)

-----------------------------------------------------------------------------
(***************************************************************************)
(* Snapshots and restore plans                                             *)
(***************************************************************************)

(* Of one workspace, or of all of them.                                    *)
Captured(targets) ==
    { [id |-> counters.snap + i, ws |-> targets[i],
       state |-> demo.ws[targets[i]].observed] : i \in DOMAIN targets }

SnapshotCreate(targets) ==
    ExecuteWith([demo EXCEPT !.snaps = @ \cup Captured(targets)],
                Taken("snap", Len(targets)))

WithoutSnapshot(s) ==
    [demo EXCEPT !.snaps = @ \ {s},
                 !.plans = { p \in @ : p.snapshot # s.id }]

SnapshotDelete(s) == Execute(WithoutSnapshot(s))

(* buildPlan: push makes reality the snapshot, pull makes desired reality. *)
PlanFor(s) ==
    LET w == demo.ws[s.ws] IN
    [id |-> counters.plan + 1, snapshot |-> s.id, ws |-> s.ws,
     status |-> "pending", serial |-> 0,
     ops |-> [push |-> Diff(w.observed, s.state),
              pull |-> Diff(w.desired, w.observed)],
     mode |-> "none", undo |-> << >>, made |-> {}, was |-> w]

SnapshotPlan(s) ==
    ExecuteWith([demo EXCEPT !.plans = @ \cup {PlanFor(s)}], Taken("plan", 1))

Target(mode) == IF mode = "push" THEN "observed" ELSE "desired"

(* Restore apply.  was and made are for the properties: the workspace as   *)
(* it is now, and the snapshots that are made.                             *)
Applied(p, mode, undo, made) ==
    (demo.plans \ {p}) \cup
    {[p EXCEPT !.status = "applied", !.serial = demo.serial + 1, !.mode = mode,
               !.undo = undo, !.made = made, !.was = demo.ws[p.ws]]}

RestoreApply(p, mode, chosen) ==
    LET state == demo.ws[p.ws][Target(mode)]
        ops == InPlanOrder(chosen)
    IN  /\ p.status = "pending"
        /\ \A op \in chosen : op.after = Absent => op.field \in Fields(state)
        /\ Execute([demo EXCEPT
              !.ws[p.ws] = Reconciled([@ EXCEPT ![Target(mode)] =
                                          Redone(state, ops)]),
              !.plans = Applied(p, mode, ops, {})])

RestoreFreeze(p) ==
    /\ p.status = "pending"
    /\ LET made == Captured(<< p.ws >>) IN
       ExecuteWith([demo EXCEPT !.snaps = @ \cup made,
                                !.ws[p.ws] = Reconciled(@),
                                !.plans = Applied(p, "freeze", << >>, made)],
                   Taken("snap", 1))

(* The latest of the plans that are applied is the one with the greatest   *)
(* id, whichever was applied last.                                         *)
Latest(c, p) == \A q \in c.plans : q.status = "applied" => q.id <= p.id

(* ReconcileUndo, of the latest applied plan while nothing else has been   *)
(* done since.                                                             *)
Undoable(c, p) == p.status = "applied" /\ p.serial = c.serial /\ Latest(c, p)

Reverted(p) ==
    LET w == demo.ws[p.ws] IN
    Reconciled(
      IF p.mode = "freeze" THEN w
      ELSE [w EXCEPT ![Target(p.mode)] = Rolled(@, p.undo)])

Undone(p) ==
    [demo EXCEPT !.ws[p.ws] = Reverted(p),
                 !.snaps = @ \ p.made,
                 !.plans = (@ \ {p}) \cup {[p EXCEPT !.status = "undone"]}]

ReconcileUndo(p) == Undoable(demo, p) /\ Execute(Undone(p))

-----------------------------------------------------------------------------
Next ==
    \/ Tick
    \/ \E t \in DOMAIN demo.terms :
          \/ Attach(t) \/ Split(t) \/ Kill(t)
          \/ \E w \in Workspaces : Link(t, w)
    \/ \E v \in DOMAIN demo.views : Pin(v) \/ Unpin(v) \/ Touch(v) \/ Prune(v)
    \/ \E a \in DOMAIN demo.agents : AgentPrompt(a) \/ AgentWait(a) \/ AgentClaim(a)
    \/ Other
    \/ \E w \in Workspaces : Freeze(w) \/ SnapshotCreate(<< w >>)
    \/ SnapshotCreate(SetToSeq(Workspaces))
    \/ \E s \in demo.snaps : SnapshotDelete(s) \/ SnapshotPlan(s)
    \/ \E p \in demo.plans :
          \/ \E mode \in {"push", "pull"} :
                \E chosen \in SUBSET p.ops[mode] \ {{}} : RestoreApply(p, mode, chosen)
          \/ RestoreFreeze(p) \/ ReconcileUndo(p)

Spec == Init /\ [][Next]_dvars

-----------------------------------------------------------------------------
(* The catalog keeps its type, and no counter is behind an id in use.      *)
TypeOK == CatalogOK(demo, counters) /\ tried \in 0 .. MaxActs /\ demo.serial <= tried

(* What the user has confirmed is never refused for what the catalog has   *)
(* gone through: a live terminal can be killed and a snapshot deleted.     *)
CleanupPossible ==
    /\ \A t \in Live : Valid(Killed(t))
    /\ \A s \in demo.snaps : Valid(WithoutSnapshot(s))

(* A restore can be undone from the moment it is applied until the user    *)
(* does something else, and then never again: ticks leave it so, and so do *)
(* actions that are refused, the ids they take notwithstanding.  Not so if *)
(* a plan with a later id is applied already: then it never can.  (Whether *)
(* what the undo makes is a catalog that validates is another question.)   *)
UndoUntilNextAct ==
    [][\A p \in demo.plans \cup demo'.plans :
          (p \in demo'.plans /\ Undoable(demo', p)) <=>
              \/ /\ p \in demo.plans /\ Undoable(demo, p)
                 /\ tried' = tried \/ demo' = demo
              \/ /\ p \notin demo.plans
                 /\ p.status = "applied" /\ Latest(demo', p)]_dvars
=============================================================================
