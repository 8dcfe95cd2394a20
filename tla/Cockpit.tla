------------------------------ MODULE Cockpit -------------------------------
(***************************************************************************)
(* The root of tmh-next as the user sees it: the stack of locations, the   *)
(* overlay that owns the keys, the pages below it, and the messages that   *)
(* the user's keys have set off and that Update has not met yet.           *)
(*                                                                         *)
(* A key press, a message of a page and a new catalog reach Update in any  *)
(* order: a catalog may arrive between a key and the message it set off,   *)
(* or while a selector or a confirmation is open.  What the backend makes  *)
(* of an action is a new catalog, see TuiRoot and ControlPlane.            *)
(***************************************************************************)
EXTENDS Pages

CONSTANTS
    Setups,      \* the locations started with, and what the user does then
    MaxStack,    \* ... and visits no more than so many pages at a time
    MaxUpdates   \* so many catalogs arrive

HomeBelow(st) ==
    /\ st # << >> /\ st[1] = Home
    /\ \A i \in 2 .. Len(st) : st[i].route # "dashboard"
SetupsAssumption ==
    \A s \in Setups :
        /\ s.stack \in Seq(Locations) /\ HomeBelow(s.stack)
        /\ s.routes \subseteq AllRoutes /\ s.filters \subseteq SUBSET Ids

VARIABLES
    setup,       \* the setup of this execution
    opened,      \* Root.ready: Init's snapshot has arrived
    loaded,      \* Root.cat is not nil
    cat,         \* Root.cat: the ids per kind
    stack,       \* Root.stack
    page,        \* Root.pages: the memory of each resident page
    ov,          \* Root.ov: the overlay and what it holds
    msgs,        \* the messages on their way to Update
    lane,        \* the action in the mutation lane
    crashed,     \* a page indexed or dereferenced what is not there
    keys, updates

shell == << setup, opened, loaded, stack, ov, msgs, lane >>
vars == << setup, opened, loaded, cat, stack, page, ov, msgs, lane, crashed,
           keys, updates >>

Act(act, ref, confirmed) == [act |-> act, ref |-> ref, confirmed |-> confirmed]
NoRequest == Act("none", NoRef, FALSE)

(* kind, the messages of its options, and for a confirmation or a prompt   *)
(* the action it stands for and the resource its title names               *)
Overlay(kind, opts, act, ref, named) ==
    [kind |-> kind, opts |-> opts, act |-> act, ref |-> ref, named |-> named]
NoOverlay == Overlay("none", {}, "none", NoRef, NoRef)

Top == stack[Len(stack)]
Route == Top.route
Active == page[Route]

(* One kind of resource comes and goes, the others stay.                   *)
Catalogs ==
    { [k \in Kinds |-> IF k = setup.changing THEN S ELSE Ids] : S \in SUBSET Ids }

Init ==
    /\ setup \in Setups
    /\ opened = FALSE /\ loaded = FALSE
    /\ cat = [k \in Kinds |-> {}]
    /\ stack = setup.stack
    /\ page = [r \in AllRoutes |-> New(r)]
    /\ ov = NoOverlay /\ msgs = {} /\ lane = NoRequest
    /\ crashed = FALSE /\ keys = 0 /\ updates = 0

-----------------------------------------------------------------------------
(* A location without a resource is given the first one of its kind.       *)
ResolveDefaults(loc, c) ==
    IF /\ loc.primary.id = None
       /\ loc.route \in ListRoutes
       /\ c[Listed[loc.route]] # {}
    THEN [loc EXCEPT !.primary =
            Ref(Listed[loc.route], First(c[Listed[loc.route]]))]
    ELSE loc

Broadcast(pages, c) == [r \in AllRoutes |-> Follow(r, pages[r], c)]
EnterTop(pages, st) ==
    [pages EXCEPT ![st[Len(st)].route] = Enter(@, st[Len(st)])]

(* LoadCatalogMsg                                                          *)
Load ==
    /\ ~opened
    /\ opened' = TRUE /\ loaded' = TRUE
    /\ cat' \in Catalogs
    /\ stack' = [i \in DOMAIN stack |-> ResolveDefaults(stack[i], cat')]
    /\ page' = EnterTop(Broadcast(page, cat'), stack')
    /\ UNCHANGED << setup, ov, msgs, lane, crashed, keys, updates >>

(* A catalog arrives by the watch stream or a reload, or with the result   *)
(* of the action in the lane, which is then free again: no sooner than the *)
(* first catalog, or the reload after an action that did not wait for it.  *)
NewCatalog ==
    /\ loaded \/ lane # NoRequest
    /\ loaded' = TRUE
    /\ updates < MaxUpdates
    /\ cat' \in Catalogs
    /\ page' = Broadcast(page, cat')
    /\ updates' = updates + 1
    /\ lane' \in {lane, NoRequest}
    /\ UNCHANGED << setup, opened, stack, ov, msgs, crashed, keys >>

-----------------------------------------------------------------------------
(* navigate: going home collapses the stack, the top is not pushed twice.  *)
Navigated(st, loc) ==
    IF loc.route = "dashboard" /\ Len(st) > 1 THEN << Home >>
    ELSE IF st[Len(st)] = loc THEN st ELSE Append(st, loc)

Navigate(loc) ==
    \E st \in {Navigated(stack, ResolveDefaults(loc, cat))} :
        /\ Len(st) <= MaxStack
        /\ stack' = st
        /\ page' = IF st = stack THEN page ELSE EnterTop(page, st)

PopTop ==
    \E st \in {IF Len(stack) > 1 THEN SubSeq(stack, 1, Len(stack) - 1) ELSE stack} :
        /\ stack' = st
        /\ page' = IF st = stack THEN page ELSE EnterTop(page, st)

(* requestAction: a busy lane rejects the action.                          *)
Request(a) == lane' = IF lane = NoRequest THEN a ELSE lane

(* A message that a page or an option has sent reaches Update.  One that   *)
(* opens an overlay replaces the overlay that is open.                     *)
Deliver(m) ==
    /\ m \in msgs
    /\ msgs' = msgs \ {m}
    /\ \/ m.is = "push" /\ Navigate(m.loc) /\ UNCHANGED << ov, lane >>
       \/ m.is = "pop" /\ PopTop /\ UNCHANGED << ov, lane >>
       \/ /\ m.is = "execute" /\ Request(Act(m.act, m.ref, FALSE))
          /\ UNCHANGED << stack, page, ov >>
       \/ /\ m.is \in {"confirm", "prompt", "selector", "form"}
          /\ ov' = Overlay(m.is, {}, m.act, m.ref, m.named)
          /\ UNCHANGED << stack, page, lane >>
    /\ UNCHANGED << setup, opened, loaded, cat, crashed, keys, updates >>

-----------------------------------------------------------------------------
Key == keys < setup.keys /\ keys' = keys + 1
Quiet == UNCHANGED << setup, opened, loaded, cat, updates >>

(* updateOverlayKey: the options of a selector send what they hold.        *)
Close == ov' = NoOverlay
KeySelector ==
    /\ ov.kind \in {"palette", "switch", "selector"}
    /\ Close
    /\ \E chosen \in ov.opts \cup {{}} : msgs' = msgs \cup chosen
    /\ UNCHANGED << stack, page, lane >>

(* The commands of workspacesPage look at the page when they are chosen.   *)
KeyCommand ==
    /\ ov.kind = "commands"
    /\ Close
    /\ \E chosen \in CommandsOf(ov.act, ov.ref, page[ov.act]) \cup {{}} :
           msgs' = msgs \cup chosen
    /\ UNCHANGED << stack, page, lane >>

(* y and enter accept, n and esc reject.                                   *)
KeyConfirm ==
    /\ ov.kind = "confirm"
    /\ Close
    /\ \/ Request(Act(ov.act, ov.ref, TRUE))
       \/ UNCHANGED lane
    /\ UNCHANGED << stack, page, msgs >>

KeyPrompt ==
    /\ ov.kind = "prompt"
    /\ Close
    /\ \E sent \in {{}, {Execute(ov.act, ov.ref)}} : msgs' = msgs \cup sent
    /\ UNCHANGED << stack, page, lane >>

(* The completed form is saved, a left one is discarded.                   *)
KeyForm ==
    /\ ov.kind = "form"
    /\ Close
    /\ Request(Act(ov.act, NoRef, FALSE)) \/ UNCHANGED lane
    /\ UNCHANGED << stack, page, msgs >>

(* The guided help opens the page of its use case or is closed.            *)
Walkthroughs == {"workspaces", "snapshots", "config"}
KeyHelp ==
    /\ ov.kind = "help"
    /\ Close
    /\ \/ \E r \in Walkthroughs \cap setup.routes :
              Navigate(Location(r, NoRef, NoRef))
       \/ UNCHANGED << stack, page >>
    /\ UNCHANGED << msgs, lane >>

-----------------------------------------------------------------------------
(* With no overlay, a page that takes text has every key.                  *)
Typing == Active.mode = "filter"
Free == ov = NoOverlay /\ Active.mode = "normal"
Turn(p) == page' = [page EXCEPT ![Route] = p]

KeyFilter ==
    /\ ov = NoOverlay /\ Typing /\ Route = "workspaces"
    /\ \/ Turn(LeaveFilter(Active))
       \/ Turn(AcceptFilter(Active, cat))
       \/ \E f \in setup.filters :
              /\ f \subseteq Active.filter \/ Active.filter \subseteq f
              /\ Turn(Matching(Active, cat, f))
    /\ UNCHANGED << stack, ov, msgs, lane, crashed >>

KeySlash ==
    /\ Free /\ Route = "workspaces"
    /\ Turn(OpenFilter(Active))
    /\ UNCHANGED << stack, ov, msgs, lane, crashed >>

Moving == ListRoutes \cup {"workspaces"}
KeyDown ==
    /\ Free /\ Route \in Moving
    /\ Turn(MoveDown(Active, Rows(Route, Active, cat)))
    /\ UNCHANGED << stack, ov, msgs, lane, crashed >>
KeyUp ==
    /\ Free /\ Route \in Moving
    /\ IF UpCrashes(Active, Rows(Route, Active, cat))
       THEN crashed' = TRUE /\ UNCHANGED page
       ELSE /\ Turn(MoveUp(Active, Rows(Route, Active, cat)))
            /\ UNCHANGED crashed
    /\ UNCHANGED << stack, ov, msgs, lane >>

KeyTab ==
    /\ Free /\ Route = "reconcile"
    /\ Turn(NextTab(Active))
    /\ UNCHANGED << stack, ov, msgs, lane, crashed >>

(* Before the first catalog, eventsPage and performancePage meet a nil one.*)
KeyTooEarly ==
    /\ Free /\ ~loaded /\ Route \in {"events", "performance"}
    /\ crashed' = TRUE
    /\ UNCHANGED << stack, page, ov, msgs, lane >>

KeyAsks ==
    /\ ov = NoOverlay /\ ~Typing
    /\ \E asks \in KeysOf(Route, Active, cat) : msgs' = msgs \cup asks
    /\ UNCHANGED << stack, page, ov, lane, crashed >>

-----------------------------------------------------------------------------
(* ctrl+p, ctrl+k, space, ?: what they offer is gathered when they open.   *)
Destinations ==
    One({ Push(r, NoRef, NoRef) : r \in setup.routes })
Targets ==
    { {Push(r, Ref(Listed[r], id), NoRef), Execute("focus", Ref(Listed[r], id))} :
        r \in setup.routes \cap {"workspace", "active", "terminals", "agents"},
        id \in Ids }

(* The page's commands act on the resource that is selected now; the       *)
(* palette lists them too, beside the destinations.                        *)
Listing ==
    Overlay("commands", {}, Route,
            IF Current(Route, Active, cat) THEN Ref(KindOf(Route), Active.sel)
            ELSE NoRef, NoRef)
Present(t) == \A m \in t : m.is = "push" =>
                  m.loc.primary.id \in cat[m.loc.primary.kind]

KeyGlobal ==
    /\ Free
    /\ \/ /\ loaded \/ Route # "performance"
          /\ ov' \in {Overlay("palette", Destinations, "none", NoRef, NoRef),
                     Listing}
       \/ ov' = Overlay("switch", { t \in Targets : Present(t) },
                        "none", NoRef, NoRef)
       \/ ov' = Overlay("help", {}, "none", NoRef, NoRef)
    /\ UNCHANGED << stack, page, msgs, lane, crashed >>

KeyEsc ==
    /\ Free
    /\ PopTop
    /\ UNCHANGED << ov, msgs, lane, crashed >>

KeyOverlay ==
    /\ KeySelector \/ KeyCommand \/ KeyConfirm \/ KeyPrompt \/ KeyForm \/ KeyHelp
    /\ UNCHANGED crashed

KeyPress ==
    /\ Key /\ Quiet
    /\ \/ KeyOverlay
       \/ KeyFilter \/ KeySlash \/ KeyDown \/ KeyUp \/ KeyTab \/ KeyTooEarly
       \/ KeyAsks \/ KeyGlobal \/ KeyEsc

Next ==
    /\ ~crashed
    /\ Load \/ NewCatalog \/ (\E m \in msgs : Deliver(m)) \/ KeyPress
Spec == Init /\ [][Next]_vars

-----------------------------------------------------------------------------
(* Every variable keeps its type.                                          *)
TypeOK ==
    /\ opened \in BOOLEAN /\ loaded \in BOOLEAN /\ (opened => loaded)
    /\ crashed \in BOOLEAN
    /\ cat \in [Kinds -> SUBSET Ids]
    /\ \A r \in AllRoutes : page[r] \in Page
    /\ \A i \in DOMAIN stack : stack[i].route \in AllRoutes
    /\ lane.confirmed \in BOOLEAN

(* The dashboard is the lower bound of the stack, never repeated above it. *)
HomeIsBottom ==
    /\ stack # << >>
    /\ \A i \in DOMAIN stack : (stack[i].route = "dashboard") <=> (i = 1)

(* What destroys anything enters the lane by an answer to a confirmation   *)
(* that was open for this very action and resource.                        *)
DestroysConfirmed ==
    [][lane' # lane /\ lane'.act \in Destructive =>
        /\ ov.kind = "confirm" /\ keys' # keys
        /\ ov.act = lane'.act /\ ov.ref = lane'.ref]_vars

Selecting == ListRoutes \cup {"workspaces"}
Arrives == loaded /\ updates' # updates

(* A new catalog never moves a page away from an entity that is still      *)
(* there, nor from one that a location named, which is then not found.     *)
SelectionSticks ==
    [][Arrives => \A r \in Selecting :
        \/ page[r].sel \in {None, page'[r].sel}
        \/ page[r].sel \notin cat'[KindOf(r)] /\ ~page[r].explicit]_vars

(* Once a catalog has arrived, a page that shows the ids of its own kind   *)
(* marks the row of the entity its keys act on.                            *)
RefreshRealigns ==
    [][Arrives => \A r \in ListRoutes \ {"workspace", "reconcile"} :
        page'[r].sel \in cat'[Listed[r]] =>
            Sorted(cat'[Listed[r]])[page'[r].cursor + 1] = page'[r].sel]_vars

(* The program ends before the first catalog has arrived, or in a list     *)
(* that is not the one whose index the cursor is: narrowed by a filter or  *)
(* to a machine, the rows inside an entity, or the list that a catalog     *)
(* has changed under an entity that a location named and that is gone.     *)
CrashesOnlyAstray ==
    crashed =>
        \/ ~loaded
        \/ Active.filter # Ids \/ Active.context.kind = "machine"
        \/ Route \in {"workspace", "reconcile"}
        \/ ~Current(Route, Active, cat)
=============================================================================
