------------------------------ MODULE Catalog -------------------------------
(***************************************************************************)
(* The catalog tmhd keeps of a Zellij runtime: how a projection carries    *)
(* product data (snapshots, plans, pins, history, agents, frozen states)   *)
(* from one catalog to the next, and what each kind of action changes.     *)
(*                                                                         *)
(* One projection or command is one step here: ControlPlane shows that the *)
(* daemons' steps amount to that.  Revision, serial and audit log are in   *)
(* ControlPlane, too.                                                      *)
(***************************************************************************)
EXTENDS Subsequences, FiniteSets, SequencesExt

CONSTANTS
    Configured,  \* the sessions of the YAML file: name -> names of windows
    MaxPanes,    \* Zellij sessions: name -> how many panes one may open
    ManagedPrefix, \* those whose name starts with tmh-
    TabOrder,    \* names of tabs in the order of their positions
    NoPane,      \* no terminal
    Starts,      \* where executions start: runtimes and catalogs, [rt, cat]
    MaxChunks,   \* maxHistoryChunks, the history kept at most
    MaxActs,     \* commands and changes of the runtime in an execution
    MaxPlace     \* no history is recorded behind this place of the list

Sessions == DOMAIN MaxPanes
Tabs == ToSet(TabOrder)

(* A terminal pane is <<session, number>>; Zellij numbers them upwards.    *)
Home(p) == p[1]
InOrder(s) == [n \in 1 .. MaxPanes[s] |-> << s, n >>]
AllPanes == UNION {ToSet(InOrder(s)) : s \in Sessions}

CatalogAssumption ==
    /\ IsFiniteSet(Sessions) /\ \A s \in Sessions : MaxPanes[s] \in Nat \ {0}
    /\ TabOrder \in Seq(Tabs) /\ TabOrder # << >>
    /\ DOMAIN Configured \subseteq Sessions /\ ManagedPrefix \subseteq Sessions
    /\ \A s \in DOMAIN Configured : Configured[s] \in Seq(Tabs)
    /\ NoPane \notin AllPanes
    /\ MaxChunks \in Nat \ {0} /\ MaxActs \in Nat /\ MaxPlace \in Nat

VARIABLES
    rt,    \* the runtime: its panes, the attached clients, a tick of the clock
    cat,   \* the stored catalog
    acts   \* commands and changes so far

vars == << rt, cat, acts >>

(* Zellij without sessions, and what tmhd sees when discovery fails.       *)
NoRuntime == [panes |-> << >>, clients |-> {}, born |-> {}]

-----------------------------------------------------------------------------
(***************************************************************************)
(* The runtime graph: which panes a session has, tab by tab                *)
(***************************************************************************)

PanesOf(g, s) == {p \in DOMAIN g.panes : Home(p) = s}
TabsOf(g, s) == {g.panes[p].tab : p \in PanesOf(g, s)}
Exists(g, s) == PanesOf(g, s) # {}

(* The panes of a tab in reading order; the numbers grow with the position *)
PanesIn(g, s, tab) ==
    Chosen(InOrder(s), {p \in PanesOf(g, s) : g.panes[p].tab = tab})

(* A tab's first surface is its "primary", whichever pane that is.         *)
Primary == "primary"
SurfaceOf(g, p) ==
    LET tab == g.panes[p].tab
        id == IF PanesIn(g, Home(p), tab)[1] = p THEN Primary ELSE ToString(p[2])
    IN  << tab, id >>

Window(name, surfaces) == [name |-> name, surfaces |-> surfaces]

Observed(g, s) ==
    LET tabs == Chosen(TabOrder, TabsOf(g, s))
    IN  [i \in DOMAIN tabs |->
           Window(tabs[i], LET ps == PanesIn(g, s, tabs[i])
                           IN  [j \in DOMAIN ps |-> SurfaceOf(g, ps[j])])]

HasSurface(state, id) ==
    \E i \in DOMAIN state : id \in ToSet(state[i].surfaces)

(* markConfiguredManaged, and the adapter's prefix                          *)
Managed(s) == s \in ManagedPrefix \/ s \in DOMAIN Configured

-----------------------------------------------------------------------------
(***************************************************************************)
(* Desired state and drift                                                 *)
(***************************************************************************)

(* LoadDesired: each window of the file has its primary surface.           *)
ConfiguredState(s) ==
    [i \in DOMAIN Configured[s] |->
        Window(Configured[s][i], << << Configured[s][i], Primary >> >>)]

(* alignDesired: a configured window takes the names of the observed window*)
(* of its name, or else of its position.                                   *)
AlignDesired(conf, obs) ==
    [i \in DOMAIN conf |->
        LET named == {j \in DOMAIN obs : obs[j].name = conf[i].name}
            match == IF named # {} THEN obs[CHOOSE j \in named : TRUE]
                     ELSE IF i \in DOMAIN obs THEN obs[i] ELSE conf[i]
        IN  Window(match.name,
                   [j \in DOMAIN conf[i].surfaces |->
                       IF j \in DOMAIN match.surfaces THEN match.surfaces[j]
                       ELSE conf[i].surfaces[j]])]

Workspace(desired, observed, status) ==
    [desired |-> desired, observed |-> observed, status |-> status,
     drift |-> status # "frozen" /\ desired # observed,
     terminals |-> {}, agents |-> {}]

(* workspaceDrift                                                          *)
Classified(desired, observed) ==
    Workspace(desired, observed, IF desired = observed THEN "ok" ELSE "drift")

-----------------------------------------------------------------------------
(***************************************************************************)
(* Validity                                                                *)
(***************************************************************************)

Ids(items) == {x.id : x \in items}
UniqueIds(items) == \A x, y \in items : x.id = y.id => x = y

ValidWorkspace(c, s) ==
    LET w == c.workspaces[s]
    IN  /\ \A t \in w.terminals : t \in DOMAIN c.terminals /\ Home(t) = s
        /\ \A a \in w.agents : a \in DOMAIN c.agents /\ Home(a) = s
        /\ w.desired # w.observed => w.drift \/ w.status = "frozen"
        /\ w.desired = w.observed => ~w.drift

ValidTerminal(c, t) ==
    /\ Home(t) \in DOMAIN c.workspaces
    /\ t \in c.workspaces[Home(t)].terminals
    /\ LET id == c.terminals[t].surface
       IN  id # << >> => \/ HasSurface(c.workspaces[Home(t)].observed, id)
                         \/ HasSurface(c.workspaces[Home(t)].desired, id)

ValidAgent(c, a) ==
    /\ Home(a) \in DOMAIN c.workspaces
    /\ a \in c.workspaces[Home(a)].agents
    /\ LET t == c.agents[a].terminal
       IN  t # NoPane => t \in DOMAIN c.terminals /\ c.terminals[t].state = "live"

ValidScope(c, scope) ==
    scope.of \in IF scope.kind = "agent" THEN DOMAIN c.agents
                                         ELSE DOMAIN c.terminals

ValidPlan(c, plan) ==
    \E s \in c.snapshots : s.id = plan.snapshot /\ s.workspace = plan.workspace

ValidateCatalog(c) ==
    /\ UniqueIds(c.snapshots) /\ UniqueIds(c.plans)
    /\ \A h, k \in c.history : h.scope = k.scope /\ h.seq = k.seq => h = k
    /\ \A s \in DOMAIN c.workspaces : ValidWorkspace(c, s)
    /\ \A t \in DOMAIN c.terminals : ValidTerminal(c, t)
    /\ \A a \in DOMAIN c.agents : ValidAgent(c, a)
    /\ \A s \in c.snapshots : s.workspace \in DOMAIN c.workspaces
    /\ \A v \in DOMAIN c.views : /\ v \in DOMAIN c.workspaces
                                 /\ c.views[v].pinned => c.views[v].kind = "pinned"
    /\ \A h \in c.history : ValidScope(c, h.scope)
    /\ \A p \in c.plans : ValidPlan(c, p)

-----------------------------------------------------------------------------
(***************************************************************************)
(* Types, for what a state of the daemon may be                            *)
(***************************************************************************)

SurfaceIds == Tabs \X ({Primary} \cup {ToString(p[2]) : p \in AllPanes})
States == Seq([name : Tabs, surfaces : Seq(SurfaceIds)])

RuntimeOK(g) ==
    /\ g = [panes |-> g.panes, clients |-> g.clients, born |-> g.born]
    /\ DOMAIN g.panes \subseteq g.born /\ g.born \subseteq AllPanes
    /\ g.panes \in [DOMAIN g.panes ->
                       [tab : Tabs, state : {"live", "exited"}, agent : BOOLEAN]]
    /\ g.clients \subseteq {Home(p) : p \in DOMAIN g.panes}

Workspaces ==
    [desired : States, observed : States, status : {"ok", "drift", "frozen"},
     drift : BOOLEAN, terminals : SUBSET AllPanes, agents : SUBSET AllPanes]
Terminals == [state : {"live", "exited"}, surface : SurfaceIds \cup {<< >>}]
Agents == [state : {"running", "waiting", "done"},
           terminal : AllPanes \cup {NoPane}, claimed : BOOLEAN]
Views == [kind : {"shared", "pinned", "recent"}, pinned : BOOLEAN]
Scopes == [kind : {"terminal", "agent"}, of : AllPanes]

(* A chunk has its number in its scope and its place in the list, in which *)
(* the newest is the last.                                                 *)
HistoryOK(history) ==
    /\ IsFiniteSet(history)
    /\ \A h \in history :
          h \in [scope : Scopes, seq : {h.seq}, at : 1 .. MaxPlace, old : BOOLEAN]
    /\ \A h, k \in history : h.at = k.at => h = k

(* An agent is done when it has no terminal.                               *)
CatalogOK(c) ==
    /\ c \in [up : BOOLEAN, workspaces : {c.workspaces}, terminals : {c.terminals},
              agents : {c.agents}, views : {c.views}, history : {c.history},
              snapshots : {c.snapshots}, plans : {c.plans}, keep : BOOLEAN,
              nil : SUBSET (DOMAIN c.workspaces \cup {"history"})]
    /\ DOMAIN c.workspaces \subseteq Sessions
    /\ c.workspaces \in [DOMAIN c.workspaces -> Workspaces]
    /\ DOMAIN c.terminals \subseteq AllPanes
    /\ c.terminals \in [DOMAIN c.terminals -> Terminals]
    /\ DOMAIN c.agents \subseteq AllPanes
    /\ c.agents \in [DOMAIN c.agents -> Agents]
    /\ \A a \in DOMAIN c.agents :
          (c.agents[a].state = "done") = (c.agents[a].terminal = NoPane)
    /\ DOMAIN c.views \subseteq Sessions /\ c.views \in [DOMAIN c.views -> Views]
    /\ HistoryOK(c.history)
    /\ \A s \in c.snapshots : s \in [id : {s.id}, workspace : Sessions, state : States]
    /\ \A p \in c.plans : p \in [id : {p.id}, snapshot : {p.snapshot},
                                 workspace : Sessions, status : {"pending", "applied"}]

(* Executions start in states that the daemon may be in.                   *)
StartsAssumption ==
    \A s \in Starts : RuntimeOK(s.rt) /\ CatalogOK(s.cat) /\ ValidateCatalog(s.cat)

-----------------------------------------------------------------------------
(***************************************************************************)
(* Projection of a runtime, with what the catalog before it knew           *)
(***************************************************************************)

(* The first catalog: nothing is known.                                    *)
EmptyCatalog ==
    [up |-> TRUE, workspaces |-> << >>, terminals |-> << >>, agents |-> << >>,
     views |-> << >>, history |-> {}, snapshots |-> {}, plans |-> {},
     keep |-> FALSE, nil |-> {"history"}]

(* A frozen workspace keeps its desired state, whatever is observed.       *)
KeepFrozen(prev, s, w) ==
    IF s \in DOMAIN prev.workspaces /\ prev.workspaces[s].status = "frozen"
    THEN [w EXCEPT !.status = "frozen", !.drift = FALSE,
                   !.desired = prev.workspaces[s].desired]
    ELSE w

(* A session that is not running keeps its place while a snapshot or a plan*)
(* refers to it.                                                           *)
Preserved_plansOnly(prev) == {p.workspace : p \in prev.plans}
Preserved(prev) ==
    {s.workspace : s \in prev.snapshots} \cup {p.workspace : p \in prev.plans}

Vanished(prev, s) ==
    LET old == prev.workspaces[s]
        new == Classified(old.desired, << >>)
    IN  IF old.status = "frozen" THEN [new EXCEPT !.status = "frozen"] ELSE new

(* projectWorkspaces                                                       *)
ProjectWorkspaces(prev, g) ==
    LET present == {s \in Sessions : Exists(g, s)}
        declared == DOMAIN Configured \ present
        kept == (Preserved(prev) \cap DOMAIN prev.workspaces)
                    \ (present \cup declared)
        Running(s) ==
            LET obs == Observed(g, s)
                want == IF s \in DOMAIN Configured
                        THEN AlignDesired(ConfiguredState(s), obs) ELSE obs
            IN  [KeepFrozen(prev, s, Classified(want, obs))
                    EXCEPT !.terminals = PanesOf(g, s)]
    IN  [s \in present \cup declared \cup kept |->
            IF s \in present THEN Running(s)
            ELSE IF s \in declared
                 THEN KeepFrozen(prev, s, Classified(ConfiguredState(s), << >>))
                 ELSE Vanished(prev, s)]

ProjectTerminals(g) ==
    [p \in DOMAIN g.panes |->
        [state |-> g.panes[p].state, surface |-> SurfaceOf(g, p)]]

(* projectAgents: a live terminal that runs an agent; what was known of the*)
(* agent attached to that terminal is kept.                                *)
RunningAgents(g) ==
    {p \in DOMAIN g.panes : g.panes[p].agent /\ g.panes[p].state = "live"}

ProjectAgents(prev, g) ==
    [p \in RunningAgents(g) |->
        IF p \in DOMAIN prev.agents /\ prev.agents[p].terminal = p
        THEN prev.agents[p]
        ELSE [state |-> "running", terminal |-> p, claimed |-> FALSE]]

(* retainHistoricalResources: the terminals, then the agents, that history *)
(* refers to; a terminal brings its workspace back, an agent does not.     *)
Needed(prev, kind) == {h.scope.of : h \in {x \in prev.history : x.scope.kind = kind}}

LostTerminals_liveOnly(prev, g) ==
    {t \in (Needed(prev, "terminal") \cap DOMAIN prev.terminals) \ DOMAIN g.panes :
        prev.terminals[t].state = "live"}
LostTerminals(prev, g) ==
    (Needed(prev, "terminal") \cap DOMAIN prev.terminals) \ DOMAIN g.panes

BroughtBack(prev, g, workspaces) ==
    {Home(t) : t \in LostTerminals(prev, g)} \ DOMAIN workspaces

LostAgents(prev, g, workspaces) ==
    {a \in (Needed(prev, "agent") \cap DOMAIN prev.agents) \ RunningAgents(g) :
        Home(a) \in DOMAIN workspaces}

RetainedTerminal_keepsSurface(prev, t) == [prev.terminals[t] EXCEPT !.state = "exited"]
RetainedTerminal(prev, t) ==
    [prev.terminals[t] EXCEPT !.state = "exited", !.surface = << >>]

RetainedAgent_stillRuns(prev, a) == [prev.agents[a] EXCEPT !.terminal = NoPane]
RetainedAgent(prev, a) ==
    [prev.agents[a] EXCEPT !.state = "done", !.terminal = NoPane]

(* The lists of a workspace: those projected and those retained.           *)
Listed(workspaces, terminals, agents) ==
    [s \in DOMAIN workspaces |->
        [workspaces[s] EXCEPT !.terminals = {t \in terminals : Home(t) = s},
                              !.agents = {a \in agents : Home(a) = s}]]

(* projectActive: the clients of now; of those before, the pinned ones.    *)
ProjectActive(prev, g, workspaces) ==
    LET kept == {v \in DOMAIN prev.views : /\ prev.views[v].pinned
                                           /\ v \in DOMAIN workspaces}
    IN  [v \in g.clients \cup kept |->
            IF v \in DOMAIN prev.views THEN prev.views[v]
            ELSE [kind |-> "shared", pinned |-> FALSE]]

(* retainValidDurableData                                                  *)
RetainDurable(prev, c) ==
    LET history == {h \in prev.history : ValidScope(c, h.scope)}
        snapshots == {s \in prev.snapshots : s.workspace \in DOMAIN c.workspaces}
        plans == {p \in prev.plans : /\ p.snapshot \in Ids(snapshots)
                                     /\ p.workspace \in DOMAIN c.workspaces}
    IN  [c EXCEPT !.history = history, !.snapshots = snapshots, !.plans = plans,
                  !.nil = IF history = {} THEN @ \cup {"history"} ELSE @]

(* A function, and another where it is not defined                         *)
Over(f, g) ==
    [x \in DOMAIN f \cup DOMAIN g |-> IF x \in DOMAIN f THEN f[x] ELSE g[x]]

(* What is projected of a runtime, completed by what is retained           *)
Completed(prev, g, running) ==
    LET back == BroughtBack(prev, g, running)
        workspaces == Over(running, [s \in back |-> prev.workspaces[s]])
        lost == {t \in LostTerminals(prev, g) : Home(t) \in DOMAIN workspaces}
        done == LostAgents(prev, g, workspaces)
        terminals == Over(ProjectTerminals(g),
                          [t \in lost |-> RetainedTerminal(prev, t)])
        agents == Over(ProjectAgents(prev, g),
                       [a \in done |-> RetainedAgent(prev, a)])
    IN  RetainDurable(prev,
            [up |-> TRUE,
             workspaces |-> Listed(workspaces, DOMAIN terminals, DOMAIN agents),
             terminals |-> terminals, agents |-> agents,
             views |-> ProjectActive(prev, g, workspaces),
             history |-> {}, snapshots |-> {}, plans |-> {}, keep |-> prev.keep,
             nil |-> DOMAIN running \ {s \in Sessions : Exists(g, s)}])

ProjectRuntime(prev, g) == Completed(prev, g, ProjectWorkspaces(prev, g))

-----------------------------------------------------------------------------
(***************************************************************************)
(* Reconciliation                                                          *)
(***************************************************************************)

Scope(kind, of) == [kind |-> kind, of |-> of]

NextSeq(c, scope) ==
    1 + Max({0} \cup {h.seq : h \in {x \in c.history : x.scope = scope}})

NextPlace(c) == 1 + Max({0} \cup {h.at : h \in c.history})

(* appendHistory, and what captureScreens appends for each terminal: to the*)
(* end of the list.                                                        *)
Recorded(c, scopes) ==
    [c EXCEPT !.history = @ \cup {[scope |-> scopes[i], seq |-> NextSeq(c, scopes[i]),
                                   at |-> NextPlace(c) + i - 1, old |-> FALSE] :
                                     i \in DOMAIN scopes},
              !.nil = IF scopes = << >> THEN @ ELSE @ \ {"history"}]

Newer(history, h) == {k \in history : k.at > h.at}
Newest(history) == {h \in history : Cardinality(Newer(history, h)) < MaxChunks}

(* pruneHistory: what is older than the retention goes, if there is one,   *)
(* and all but the newest chunks.                                          *)
Pruned(c) ==
    [c EXCEPT !.history = Newest(IF c.keep THEN @ ELSE {h \in @ : ~h.old})]

(* captureScreens: the live terminals whose screen has changed             *)
Captured(c, changed) ==
    Pruned(Recorded(c, [i \in DOMAIN changed |-> Scope("terminal", changed[i])]))

Live(c) == {t \in DOMAIN c.terminals : c.terminals[t].state = "live"}

(* runtimeEqual compares the catalogs as they are in memory: a list stored *)
(* empty is not the list that was never made.                              *)
runtimeEqual(c, d) == c = d

Seen(up) == IF up THEN rt ELSE NoRuntime
Candidate(c, g, up) == [ProjectRuntime(c, g) EXCEPT !.up = up]

(* reconcileLocked, with or without an answer of Zellij; an invalid catalog*)
(* is an error and nothing is stored.                                      *)
Reconcile(up, changed) ==
    \E found \in {Candidate(cat, Seen(up), up)} :
    \E next \in {IF up THEN Captured(found, changed) ELSE found} :
        /\ ToSet(changed) \subseteq IF up THEN Live(found) ELSE {}
        /\ NextPlace(found) + Len(changed) <= MaxPlace + 1
        /\ (ValidateCatalog(found) /\ ValidateCatalog(next)) = TRUE
        /\ ~runtimeEqual(cat, next)
        /\ cat' = next
        /\ UNCHANGED << rt, acts >>

-----------------------------------------------------------------------------
(***************************************************************************)
(* The user's own clients, the clock                                       *)
(***************************************************************************)

Act == acts < MaxActs /\ acts' = acts + 1

(* A session that starts again numbers its panes anew.                     *)
Born(g, s) == Cardinality({p \in g.born : Home(p) = s})
Unused(g, s) == MaxPanes[s] - Born(g, s)

With(g, panes) ==
    LET left == {Home(p) : p \in DOMAIN panes}
    IN  [panes |-> panes, clients |-> g.clients \cap left,
         born |-> {p \in g.born \cup DOMAIN panes : Home(p) \in left}]

(* Shells in new panes, one in each of the tabs, if the bound leaves them  *)
Shell(tab) == [tab |-> tab, state |-> "live", agent |-> FALSE]
Opened(g, s, tabs) ==
    LET new == {<< s, Born(g, s) + i >> : i \in DOMAIN tabs} IN
    With(g, [p \in DOMAIN g.panes \cup new |->
                IF p \in new THEN Shell(tabs[p[2] - Born(g, s)]) ELSE g.panes[p]])
Closed(g, gone) == With(g, [p \in DOMAIN g.panes \ gone |-> g.panes[p]])

UserOpens(s, tab) ==
    /\ Act /\ Unused(rt, s) > 0
    /\ rt' = Opened(rt, s, << tab >>)
    /\ UNCHANGED cat

UserCloses(gone) ==
    /\ Act /\ gone \subseteq DOMAIN rt.panes /\ gone # {}
    /\ rt' = Closed(rt, gone)
    /\ UNCHANGED cat

(* An agent is started in a pane or leaves it; a program ends and its pane *)
(* stays.                                                                  *)
ProgramChanges(p) ==
    /\ Act /\ p \in DOMAIN rt.panes /\ rt.panes[p].state = "live"
    /\ \/ rt' = [rt EXCEPT !.panes[p].agent = ~@]
       \/ rt' = [rt EXCEPT !.panes[p].state = "exited"]
    /\ UNCHANGED cat

ClientChanges(s) ==
    /\ Act /\ Exists(rt, s)
    /\ rt' = [rt EXCEPT !.clients = IF s \in @ THEN @ \ {s} ELSE @ \cup {s}]
    /\ UNCHANGED cat

(* The retention passes for everything recorded so far.                     *)
Ages ==
    /\ Act /\ \E h \in cat.history : ~h.old
    /\ cat' = [cat EXCEPT !.history = {[h EXCEPT !.old = TRUE] : h \in @}]
    /\ UNCHANGED rt

-----------------------------------------------------------------------------
(***************************************************************************)
(* Commands.  Each finds Zellij answering; one that is refused changes     *)
(* nothing and is no step.                                                 *)
(***************************************************************************)

(* Clone leaves no list of windows nil.                                    *)
Cloned(c) == [c EXCEPT !.nil = @ \cap {"history"}]

(* A command that leaves the runtime alone stores its catalog as it is,    *)
Store(result) ==
    \E next \in {result} :
        /\ Act /\ ValidateCatalog(next) = TRUE
        /\ cat' = next
        /\ UNCHANGED rt

(* one that changes it looks at the runtime again.                         *)
StoreObserved(result, runtime) ==
    \E g \in {runtime} : \E next \in {ProjectRuntime(result, g)} :
        /\ Act
        /\ rt' = g
        /\ cat' = IF ValidateCatalog(next) THEN next ELSE cat

(* resolveTerminal and requireManagedTerminal                              *)
Reachable(t) == t \in Live(cat) /\ t \in DOMAIN rt.panes /\ Managed(Home(t))

LiveCount(c, s) == Cardinality({t \in Live(c) : Home(t) = s})

(* verifyRuntimeEffect: a split that is not seen to add a pane is an error,*)
(* but the pane is there.                                                  *)
SeesMore(t, g) ==
    \A found \in {ProjectTerminals(g)} :
        Cardinality({p \in DOMAIN found : found[p].state = "live" /\ Home(p) = Home(t)})
            > LiveCount(cat, Home(t))

Split(t) ==
    /\ Reachable(t) /\ Unused(rt, Home(t)) > 0
    /\ \E g \in {Opened(rt, Home(t), << rt.panes[t].tab >>)} :
          \/ /\ SeesMore(t, g)
             /\ StoreObserved(Cloned(cat), g)
          \/ /\ ~SeesMore(t, g)
             /\ Act /\ rt' = g /\ UNCHANGED cat

Kill(t) ==
    /\ Reachable(t)
    /\ StoreObserved(Cloned(cat), Closed(rt, {t}))

Send(t) ==
    /\ Reachable(t) /\ NextPlace(cat) <= MaxPlace
    /\ StoreObserved(Recorded(Cloned(cat), << Scope("terminal", t) >>), rt)

AgentPrompt(a) ==
    /\ a \in DOMAIN cat.agents /\ Reachable(cat.agents[a].terminal)
    /\ NextPlace(cat) <= MaxPlace
    /\ StoreObserved(Recorded([Cloned(cat) EXCEPT !.agents[a].state = "running"],
                              << Scope("agent", a) >>), rt)

AgentWait(a) ==
    /\ a \in DOMAIN cat.agents /\ cat.agents[a].state = "running"
    /\ Store([Cloned(cat) EXCEPT !.agents[a].state = "waiting"])

AgentClaim(a) ==
    /\ a \in DOMAIN cat.agents /\ ~cat.agents[a].claimed
    /\ Store([Cloned(cat) EXCEPT !.agents[a].claimed = TRUE])

(* The observed state becomes the desired one.                             *)
Adopted(c, s, status) ==
    [Cloned(c) EXCEPT !.workspaces[s] =
        [@ EXCEPT !.desired = c.workspaces[s].observed, !.drift = FALSE,
                  !.status = status]]

Freeze(s) == s \in DOMAIN cat.workspaces /\ Store(Adopted(cat, s, "frozen"))

(* mutateActive; a prune is refused for good.                              *)
Pin(v) ==
    /\ v \in DOMAIN cat.views /\ ~cat.views[v].pinned
    /\ Store([Cloned(cat) EXCEPT !.views[v] = [kind |-> "pinned", pinned |-> TRUE]])

Unpinned(c, v) ==
    [Cloned(c) EXCEPT !.views[v] = [kind |-> "recent", pinned |-> FALSE]]

Unpin(v) ==
    /\ v \in DOMAIN cat.views /\ cat.views[v].pinned
    /\ Store(Unpinned(cat, v))

(* The retention is set or not; the history mode is stored and looked at   *)
(* nowhere.  A reload goes back to the default.                            *)
ConfigSave(keep) == keep # cat.keep /\ Store([Cloned(cat) EXCEPT !.keep = keep])
ConfigReload == ConfigSave(FALSE)

-----------------------------------------------------------------------------
(***************************************************************************)
(* Snapshots and plans                                                     *)
(***************************************************************************)

nextID(items) == 1 + Max({0} \cup Ids(items))

(* createSnapshots: one for each workspace of the list.                    *)
WithSnapshots(c, targets) ==
    LET first == nextID(c.snapshots)
    IN  [c EXCEPT !.snapshots = @ \cup
            {[id |-> first + i - 1, workspace |-> targets[i],
              state |-> c.workspaces[targets[i]].observed] : i \in DOMAIN targets}]

SnapshotCreate(targets) ==
    /\ targets # {} /\ targets \subseteq DOMAIN cat.workspaces
    /\ Store(WithSnapshots(Cloned(cat), SetToSeq(targets)))

(* deleteSnapshot: with its plans                                          *)
WithoutSnapshot(c, s) ==
    [Cloned(c) EXCEPT !.snapshots = @ \ {s},
                      !.plans = {p \in @ : p.snapshot # s.id}]

SnapshotDelete(s) == s \in cat.snapshots /\ Store(WithoutSnapshot(cat, s))

SnapshotPlan(s) ==
    /\ s \in cat.snapshots /\ s.workspace \in DOMAIN cat.workspaces
    /\ Store([Cloned(cat) EXCEPT !.plans = @ \cup
                {[id |-> nextID(cat.plans), snapshot |-> s.id,
                  workspace |-> s.workspace, status |-> "pending"]}])

Applied(c, plan) ==
    [c EXCEPT !.plans = (@ \ {plan}) \cup {[plan EXCEPT !.status = "applied"]}]

Pending(plan) == plan \in cat.plans /\ plan.status = "pending"

(* applyRestore in its modes freeze, pull                                  *)
RestoreFreeze(plan) ==
    /\ Pending(plan)
    /\ Store(Applied(WithSnapshots(Cloned(cat), << plan.workspace >>), plan))

Pulled(c, plan) == Applied(Adopted(c, plan.workspace, "ok"), plan)
RestorePull(plan) == Pending(plan) /\ Store(Pulled(cat, plan))

(* and push: pushSnapshot makes each tab that is missing, with its own pane*)
(* and a second one for the shell, tab by tab; a command that fails leaves *)
(* what was made before, and the catalog as it was.                        *)
MissingTabs(s, snapshot) ==
    Chosen([i \in DOMAIN snapshot.state |-> snapshot.state[i].name],
           Tabs \ TabsOf(rt, s))

PushedPanes(s, tabs, n) ==
    Opened(rt, s, [i \in 1 .. n |-> tabs[(i + 1) \div 2]])

RestorePush(plan) ==
    LET s == plan.workspace
        snapshot == CHOOSE x \in cat.snapshots : x.id = plan.snapshot
        tabs == MissingTabs(s, snapshot)
        all == 2 * Len(tabs)
    IN  /\ Pending(plan) /\ Exists(rt, s) /\ Managed(s)
        /\ Unused(rt, s) >= all
        /\ \/ StoreObserved(Applied(Cloned(cat), plan), PushedPanes(s, tabs, all))
           \/ /\ \E n \in 1 .. all - 1 : rt' = PushedPanes(s, tabs, n)
              /\ Act /\ UNCHANGED cat

-----------------------------------------------------------------------------
(* A first poll of a runtime in which some of the sessions run, or later   *)
(* in a daemon's life                                                      *)
First(running) ==
    /\ rt = With(NoRuntime, [p \in running \X {1} |-> Shell(TabOrder[1])])
    /\ cat = ProjectRuntime(EmptyCatalog, rt)

Init ==
    /\ \/ \E running \in SUBSET Sessions : First(running)
       \/ \E s \in Starts : rt = s.rt /\ cat = s.cat
    /\ acts = 0

(* One screen at a time: polls follow each other without anything between. *)
Next ==
    \/ \E up \in BOOLEAN : Reconcile(up, << >>)
    \/ \E p \in DOMAIN rt.panes : Reconcile(TRUE, << p >>)
    \/ \E s \in Sessions :
          \/ \E tab \in Tabs : UserOpens(s, tab)
          \/ UserCloses(PanesOf(rt, s))
          \/ ClientChanges(s) \/ Freeze(s) \/ Pin(s) \/ Unpin(s)
          \/ SnapshotCreate({s})
    \/ \E p \in AllPanes :
          \/ UserCloses({p}) \/ ProgramChanges(p)
          \/ Split(p) \/ Kill(p) \/ Send(p)
          \/ AgentPrompt(p) \/ AgentWait(p) \/ AgentClaim(p)
    \/ Ages
    \/ \E keep \in BOOLEAN : ConfigSave(keep)
    \/ ConfigReload
    \/ SnapshotCreate(DOMAIN cat.workspaces)
    \/ \E s \in cat.snapshots : SnapshotDelete(s) \/ SnapshotPlan(s)
    \/ \E plan \in cat.plans :
          RestoreFreeze(plan) \/ RestorePull(plan) \/ RestorePush(plan)

Spec == Init /\ [][Next]_vars

-----------------------------------------------------------------------------
(***************************************************************************)
(* Properties                                                              *)
(***************************************************************************)

TypeOK == RuntimeOK(rt) /\ CatalogOK(cat) /\ acts \in 0 .. MaxActs

(* Whatever the catalog has gone through, it is valid, and neither what    *)
(* Zellij shows now nor an outage can make a projection that tmhd refuses: *)
(* it would refuse every later one, too, and every poll and command that   *)
(* observes would fail for good (ProjectRuntime, ValidateCatalog).         *)
NeverStuck ==
    /\ ValidateCatalog(cat)
    /\ \A c \in {Candidate(cat, Seen(up), up) : up \in BOOLEAN} : ValidateCatalog(c)

(* A runtime that does not change is one revision, however often it is     *)
(* polled: what is projected from the projection is the same again         *)
(* (retainHistoricalResources, projectWorkspaces, projectActive).          *)
PollsSettle ==
    \A up \in BOOLEAN : \A c \in {Candidate(cat, Seen(up), up)} :
        runtimeEqual(Candidate(c, Seen(up), up), c)

(* A snapshot leaves the catalog by its own deletion only: no outage, end  *)
(* of a session or other command takes one (retainValidDurableData).       *)
SnapshotsDurable ==
    [][\A s \in cat.snapshots :
          s \in cat'.snapshots \/ cat' = WithoutSnapshot(cat, s)]_vars

(* What was recorded of a terminal stays though the terminal, its session  *)
(* or Zellij be gone, until it is too old or as many newer chunks as there *)
(* may be are kept in its stead (retainHistoricalResources, pruneHistory). *)
TerminalHistoryDurable ==
    [][\A h \in cat.history :
          h.scope.kind = "terminal" /\ ~h.old =>
              \/ \E k \in cat'.history : k.scope = h.scope /\ k.seq = h.seq
              \/ Cardinality(Newer(cat'.history, h)) >= MaxChunks]_vars

(* A workspace that was frozen keeps the state it was frozen at through    *)
(* outages, restarts of its session and changes by the user, until it is   *)
(* frozen again, restored by pull, or forgotten.                           *)
FrozenStays ==
    [][\A s \in DOMAIN cat.workspaces \cap DOMAIN cat'.workspaces :
          cat.workspaces[s].status = "frozen" =>
              \/ /\ cat'.workspaces[s].status = "frozen"
                 /\ cat'.workspaces[s].desired = cat.workspaces[s].desired
              \/ cat' = Adopted(cat, s, "frozen")
              \/ \E plan \in cat.plans : plan.workspace = s /\ cat' = Pulled(cat, plan)]_vars

(* A pin is lost with its workspace or by unpin only, not when its client  *)
(* goes (projectActive).                                                   *)
PinSurvives ==
    [][\A v \in DOMAIN cat.views :
          cat.views[v].pinned /\ v \in DOMAIN cat'.workspaces =>
              \/ v \in DOMAIN cat'.views /\ cat'.views[v].pinned
              \/ cat' = Unpinned(cat, v)]_vars
=============================================================================
