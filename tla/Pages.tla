------------------------------- MODULE Pages --------------------------------
(***************************************************************************)
(* The resident pages of tmh-next: what a page remembers, how it follows   *)
(* the catalog, how the keys move its selection, and what its own keys and *)
(* commands ask of the root.                                               *)
(*                                                                         *)
(* A catalog is the set of ids per kind, and an id is its place in the     *)
(* stable order.  The states of the entities (live, expired, done, ...)    *)
(* decide only whether a key acts or shows a notification, so both are     *)
(* among its outcomes.  A filter is the set of ids whose label it matches. *)
(***************************************************************************)
EXTENDS Integers, Sequences, FiniteSets

CONSTANTS
    Ids,       \* the ids of any kind: numbers, for their stable order
    Machine,   \* the machine a workspace belongs to
    Inner      \* the rows inside an entity, per tab: the surfaces of a
               \* workspace (it has one tab), the operations of a plan in
               \* each of the modes; their ids are none of Ids

Tabs == 1 .. 3
PagesAssumption ==
    /\ IsFiniteSet(Ids) /\ Ids \subseteq Nat \ {0}
    /\ Inner \in [Ids -> [Tabs -> Seq(Nat \ Ids)]]

None == 0
Ref(kind, id) == [kind |-> kind, id |-> id]
NoRef == Ref("none", None)
Location(route, primary, context) ==
    [route |-> route, primary |-> primary, context |-> context]
Home == Location("dashboard", NoRef, NoRef)

Listed == [workspace |-> "workspace", active |-> "active",
           terminals |-> "terminal", agents |-> "agent",
           snapshots |-> "snapshot", reconcile |-> "plan",
           backends |-> "backend", machines |-> "machine",
           events |-> "event"]
ListRoutes == DOMAIN Listed          \* the routes with a primary resource
AllRoutes == ListRoutes \cup
    {"dashboard", "workspaces", "history", "search", "performance", "config"}
Kinds == { Listed[r] : r \in ListRoutes }

(* The kind of resource whose ids the page of a route reconciles with.     *)
KindOf(route) ==
    IF route \in ListRoutes THEN Listed[route]
    ELSE IF route = "workspaces" THEN "workspace" ELSE "none"

Refs == [kind : Kinds \cup {"none"}, id : Nat]
Contexts == [kind : Kinds \cup {"none"}, id : Ids \cup {None}]
Locations == [route : AllRoutes, primary : Refs, context : Contexts]

Below(x, S) == { y \in S : y < x }
Sorted(S) ==
    [i \in 1 .. Cardinality(S) |->
        CHOOSE x \in S : Cardinality(Below(x, S)) = i - 1]
First(S) == Sorted(S)[1]
Contains(ids, id) == \E i \in DOMAIN ids : ids[i] = id
IndexOf(ids, id) == (CHOOSE i \in DOMAIN ids : ids[i] = id) - 1
ItemsOf(cat, kind) == IF kind = "none" THEN {} ELSE cat[kind]

-----------------------------------------------------------------------------
(* The memory of a page.                                                   *)
Page == [sel : Nat, cursor : Nat, explicit : BOOLEAN,
         mode : {"normal", "filter", "text"}, filter : SUBSET Ids,
         context : Contexts, tab : Tabs]

New(route) ==
    [sel |-> None, cursor |-> 0, explicit |-> FALSE,
     mode |-> IF route = "search" THEN "text" ELSE "normal",
     filter |-> Ids, context |-> NoRef, tab |-> 1]

Enter(p, loc) ==
    LET given == loc.primary.id # None IN
    [p EXCEPT
        !.mode = IF loc.route = "search" THEN "text" ELSE "normal",
        !.filter = Ids,
        !.context = loc.context,
        !.sel = IF given THEN loc.primary.id ELSE @,
        !.cursor = IF given \/ loc.route = "dashboard" THEN 0 ELSE @,
        !.explicit = given]

(* Mutant of SetCatalog: what a location named gives way like any other.   *)
SetCatalog_anyGivesWay(p, ids) ==
    IF Contains(ids, p.sel)
    THEN [p EXCEPT !.cursor = IndexOf(ids, p.sel)]
    ELSE IF ids = << >> THEN [p EXCEPT !.cursor = 0, !.sel = None]
    ELSE [p EXCEPT !.cursor = 0, !.sel = ids[1]]

(* base.setCatalog: an id that is gone gives way to the one in its place,  *)
(* else to the one before it, unless a location asked for that very id.    *)
SetCatalog(p, ids) ==
    LET at(c) == [p EXCEPT !.cursor = c, !.sel = ids[c + 1]] IN
    CASE p.sel = None -> IF ids = << >> THEN p ELSE at(0)
      [] p.sel # None /\ Contains(ids, p.sel) ->
           [p EXCEPT !.cursor = IndexOf(ids, p.sel)]
      [] OTHER ->
           IF p.explicit THEN p
           ELSE IF p.cursor < Len(ids) THEN at(p.cursor)
           ELSE IF p.cursor > 0 /\ p.cursor - 1 < Len(ids) THEN at(p.cursor - 1)
           ELSE [p EXCEPT !.cursor = 0, !.sel = None]

(* Every page follows the ids of its own kind, in their order.             *)
Follow(route, p, cat) == SetCatalog(p, Sorted(ItemsOf(cat, KindOf(route))))

(* workspacesPage.rows: the workspaces of the machine the location names.  *)
WorkspaceRows(p, cat) ==
    { w \in cat["workspace"] :
        p.context.kind = "machine" => Machine[w] = p.context.id }

(* The rows the cursor keys of a page move over.                           *)
Rows(route, p, cat) ==
    CASE route = "workspaces" -> Sorted(WorkspaceRows(p, cat) \cap p.filter)
      [] route \in {"workspace", "reconcile"} ->
           IF p.sel \in ItemsOf(cat, KindOf(route)) 
           THEN Inner[p.sel][p.tab] ELSE << >>
      [] OTHER -> Sorted(ItemsOf(cat, KindOf(route)))

-----------------------------------------------------------------------------
(* Mutant of ClampCursor: the last row of none is before the first.        *)
ClampCursor_noFloor(p, rows) ==
    IF p.cursor < Len(rows) THEN [p EXCEPT !.sel = rows[p.cursor + 1]]
    ELSE [p EXCEPT !.cursor = Len(rows) - 1]

ClampCursor(p, rows) ==
    LET c == IF p.cursor < Len(rows) THEN p.cursor
             ELSE IF rows = << >> THEN 0 ELSE Len(rows) - 1
    IN  [p EXCEPT !.cursor = c, !.sel = IF rows = << >> THEN @ ELSE rows[c + 1]]

(* The index expression rows[cursor - 1] has no value: the program ends.   *)
UpCrashes(p, rows) == rows # << >> /\ p.cursor > Len(rows)

(* The tab of reconcilePage changes the rows and leaves the cursor.        *)
NextTab(p) == [p EXCEPT !.tab = IF @ = 3 THEN 1 ELSE @ + 1]

MoveUp(p, rows) ==
    IF p.cursor = 0 THEN p
    ELSE [p EXCEPT !.cursor = @ - 1,
                   !.sel = IF rows = << >> THEN @ ELSE rows[p.cursor]]
(* Mutant of MoveDown: the cursor goes past the last row.                  *)
MoveDown_pastEnd(p, rows) ==
    [p EXCEPT !.cursor = @ + 1,
              !.sel = IF p.cursor + 2 \in DOMAIN rows THEN rows[p.cursor + 2] ELSE @]

MoveDown(p, rows) ==
    IF p.cursor >= Len(rows) - 1 THEN p
    ELSE [p EXCEPT !.cursor = @ + 1, !.sel = rows[p.cursor + 2]]

(* baseFilterKeys.  One more letter matches fewer ids, one less more; only *)
(* the page of the workspaces has a filter.                                *)
OpenFilter(p) == [p EXCEPT !.mode = "filter", !.filter = Ids]
LeaveFilter(p) == [p EXCEPT !.mode = "normal", !.filter = Ids]
Matching(p, cat, filter) ==
    LET q == [p EXCEPT !.filter = filter]
    IN  ClampCursor(q, Rows("workspaces", q, cat))
AcceptFilter(p, cat) ==
    [ClampCursor(p, Rows("workspaces", p, cat)) EXCEPT !.mode = "normal"]

-----------------------------------------------------------------------------
(* What a page asks of the root: a message of one of these forms.  "named" *)
(* is the resource a confirmation's title names.  A key or a command asks  *)
(* for a set of them, each sent by a goroutine of its own.  A key that     *)
(* only shows a notification is left out.                                  *)
Ask(is, act, ref, named, loc) ==
    [is |-> is, act |-> act, ref |-> ref, named |-> named, loc |-> loc]
Execute(act, ref) == Ask("execute", act, ref, NoRef, Home)
Confirm(act, ref, named) == Ask("confirm", act, ref, named, Home)
Prompt(act, ref) == Ask("prompt", act, ref, NoRef, Home)
Push(route, primary, context) ==
    Ask("push", "none", NoRef, NoRef, Location(route, primary, context))
Pop == Ask("pop", "none", NoRef, NoRef, Home)
Chooser == Ask("selector", "none", NoRef, NoRef, Home)
Form == Ask("form", "config-save", NoRef, NoRef, Home)

One(asks) == { {a} : a \in asks }

(* The actions that a page asks for behind a confirmation.                 *)
Destructive == {"freeze", "prune", "kill", "snapshot-delete", "restore-apply"}

(* The commands of workspacesPage read the selection again when they run;  *)
(* only the title of the confirmation keeps the one they were listed for.  *)
WorkspacesCommands(listed, r) ==
    One({Push("workspace", r, NoRef), Execute("attach", r),
         Confirm("freeze", r, listed), Execute("snapshot-create", r), Chooser})
WorkspacesKeys(r) == WorkspacesCommands(r, r)

WorkspaceCommands(r) ==
    One({Execute("attach", r), Execute("split", NoRef), Push("history", NoRef, r)})
WorkspaceKeys(r) == WorkspaceCommands(r) \cup One({Prompt("link", NoRef)})

ActiveKeys(r) ==
    One({Execute("touch", r), Confirm("prune", r, r)} \cup
        { Push("workspace", Ref("workspace", w), NoRef) : w \in Ids })
ActiveCommands(r) ==
    ActiveKeys(r) \cup One({Execute("pin", r), Execute("unpin", r)})

(* Mutant of TerminalsKeys: a terminal is killed at once.                  *)
TerminalsKeys_killAtOnce(r) ==
    One({Execute("attach", r), Prompt("send", r), Prompt("link", r),
         Execute("kill", r), Push("history", NoRef, r)})

TerminalsKeys(r) ==
    One({Execute("attach", r), Prompt("send", r), Prompt("link", r),
         Confirm("kill", r, r), Push("history", NoRef, r)})
TerminalsCommands(r) == TerminalsKeys(r)

AgentsKeys(r) ==
    One({Execute("agent-focus", r), Prompt("agent-prompt", r),
         Execute("agent-wait", r), Execute("agent-claim", r)})
AgentsCommands(r) == AgentsKeys(r)

SnapshotsKeys(r) ==
    One({Execute("snapshot-create", NoRef), Prompt("snapshot-tag", r),
         Confirm("snapshot-delete", r, r)})
    \cup {{Execute("snapshot-plan", r), Push("reconcile", NoRef, NoRef)}}
SnapshotsCommands(r) == SnapshotsKeys(r)
NoSnapshotKeys == One({Prompt("snapshot-create", NoRef)})

ReconcileKeys(r) == One({Confirm("restore-apply", r, r), Execute("undo", r)})
ReconcileCommands(r) == ReconcileKeys(r)

BackendsKeys(r) ==
    One({Execute("probe", r), Execute("doctor", r),
         Confirm("backend-toggle", r, r)})
BackendsCommands(r) == BackendsKeys(r) \cup One({Execute("backend-toggle", r)})

MachinesKeys(r) ==
    One({Execute("connect", r), Execute("ping", r), Execute("machine-doctor", r),
         Push("workspaces", NoRef, r)})
MachinesCommands(r) == MachinesKeys(r)

(* eventsPage opens the resource of an event, wherever that is shown.      *)
EventsCommands ==
    One({ Push(route, Ref(Listed[route], id), NoRef) :
            route \in ListRoutes \ {"active", "events"}, id \in Ids })
SearchOnly == One({Push("search", NoRef, NoRef)})
EventsKeys == EventsCommands \cup SearchOnly

HistoryKeys(p) == One({Push("search", NoRef, p.context), Chooser})
HistoryCommands(p) ==
    One({Push("search", NoRef, p.context), Execute("history-export", NoRef)})

PerformanceKeys == One({Execute("record", NoRef), Execute("benchmark", NoRef)})
ConfigKeys == One({Form, Execute("config-validate", NoRef),
                   Execute("config-reload", NoRef)})

(* A card of the dashboard opens the entity it warns of.                   *)
DashboardKeys(cat) ==
    SearchOnly \cup
    One({ Push("workspace", Ref("workspace", w), NoRef) : w \in cat["workspace"] })

(* searchPage opens what it hit, which may be gone, and Esc leaves it.     *)
SearchKeys ==
    One({Pop} \cup
        { Push(route, Ref(Listed[route], id), NoRef) :
            route \in {"workspace", "terminals", "agents", "events"}, id \in Ids }
        \cup { Push("history", NoRef, Ref(kind, id)) :
            kind \in {"terminal", "agent"}, id \in Ids })

-----------------------------------------------------------------------------
(* The resource a page acts on, if the catalog still has it.               *)
Current(route, p, cat) == p.sel \in ItemsOf(cat, KindOf(route))

KeysOf(route, p, cat) ==
    LET r == Ref(KindOf(route), p.sel) IN
    IF Current(route, p, cat) THEN
        CASE route = "workspaces" ->
               IF Rows(route, p, cat) = << >> THEN {} ELSE WorkspacesKeys(r)
          [] route = "workspace" -> WorkspaceKeys(r)
          [] route = "active" -> ActiveKeys(r)
          [] route = "terminals" -> TerminalsKeys(r)
          [] route = "agents" -> AgentsKeys(r)
          [] route = "snapshots" -> SnapshotsKeys(r)
          [] route = "reconcile" -> ReconcileKeys(r)
          [] route = "backends" -> BackendsKeys(r)
          [] route = "machines" -> MachinesKeys(r)
          [] route = "events" -> EventsKeys
    ELSE
        CASE route = "dashboard" -> DashboardKeys(cat)
          [] route = "history" -> HistoryKeys(p)
          [] route = "search" -> SearchKeys
          [] route = "performance" -> PerformanceKeys
          [] route = "config" -> ConfigKeys
          [] route = "snapshots" -> NoSnapshotKeys
          [] route = "events" -> SearchOnly
          [] OTHER -> {}

(* What the commands of a page ask for that were listed while the resource *)
(* r was selected (none, or one that is gone: NoRef), when they run with   *)
(* the page in state p.                                                    *)
CommandsOf(route, r, p) ==
    IF r = NoRef THEN
        CASE route = "history" -> HistoryCommands(p)
          [] route = "performance" -> PerformanceKeys
          [] route = "config" -> ConfigKeys
          [] route = "dashboard" -> SearchOnly
          [] route = "snapshots" -> NoSnapshotKeys
          [] OTHER -> {}
    ELSE
        CASE route = "workspaces" -> WorkspacesCommands(r, Ref(r.kind, p.sel))
          [] route = "workspace" -> WorkspaceCommands(r)
          [] route = "active" -> ActiveCommands(r)
          [] route = "terminals" -> TerminalsCommands(r)
          [] route = "agents" -> AgentsCommands(r)
          [] route = "snapshots" -> SnapshotsCommands(r)
          [] route = "reconcile" -> ReconcileCommands(r)
          [] route = "backends" -> BackendsCommands(r)
          [] route = "machines" -> MachinesCommands(r)
          [] route = "events" -> EventsCommands
=============================================================================
