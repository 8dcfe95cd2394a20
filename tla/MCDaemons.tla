----------------------------- MODULE MCDaemons ------------------------------
(***************************************************************************)
(* The safety of what is behind tmh-next's client in one run.  One of      *)
(* three parts runs, the others rest: two daemons on one store, what       *)
(* projections and commands make of the catalog in it, or the demo's       *)
(* backend, which takes the place of both.                                 *)
(***************************************************************************)
EXTENDS MCControlPlane

CONSTANTS
    Configured, MaxPanes, ManagedPrefix, TabOrder, NoPane, Starts,  \* of Catalog
    MaxChunks, MaxCommands, MaxPlace,
    Fixture, MaxActs                                                \* of Demo

VARIABLES
    part,
    rt, stored, acts,
    demo, counters, tried

Daemon == INSTANCE Catalog WITH MaxActs <- MaxCommands, cat <- stored

Mock == INSTANCE Demo

Cases == INSTANCE MCCatalog
MCPanes == Cases!MCPanes
MCConfigured == Cases!MCConfigured
MCTabs == Cases!MCTabs
MCPrefix == Cases!MCPrefix
MCStarts == Cases!MCStarts

Scenario == INSTANCE MCScenario
MCFixture == Scenario!MCFixture

ASSUME CatalogAssumptions == Daemon!CatalogAssumption /\ Daemon!StartsAssumption
ASSUME DemoAssumptions == Mock!FixtureAssumption

catalogVars == << rt, stored, acts >>
mockVars == << demo, counters, tried >>
all == << part, vars, catalogVars, mockVars >>

DaemonsInit ==
    /\ part \in {"plane", "catalog", "mock"}
    /\ Init /\ Mock!Init
    /\ part # "plane" => live = {}
    /\ Daemon!Init
    /\ part # "catalog" => rt = Daemon!NoRuntime

DaemonsNext ==
    /\ UNCHANGED part
    /\ \/ part = "plane" /\ Next /\ UNCHANGED << catalogVars, mockVars >>
       \/ part = "catalog" /\ Daemon!Next /\ UNCHANGED << vars, mockVars >>
       \/ part = "mock" /\ Mock!Next /\ UNCHANGED << vars, catalogVars >>

DaemonsSpec == DaemonsInit /\ [][DaemonsNext]_all

-----------------------------------------------------------------------------
(* The catalogs of daemon and demo are well formed, see Catalog and Demo.  *)
BackendsTypeOK ==
    /\ part = "catalog" => Daemon!TypeOK
    /\ part = "mock" => Mock!TypeOK

(* No order of projections and commands leads to a catalog that the store  *)
(* refuses, see Catalog, or to one of the demo's from which something      *)
(* cannot be cleaned up, see Demo.                                         *)
NeverStuck ==
    /\ part = "catalog" => Daemon!NeverStuck
    /\ part = "mock" => Mock!CleanupPossible

(* Polls of a runtime that stays as it is come to an end, see Catalog.     *)
PollsSettle == part = "catalog" => Daemon!PollsSettle

(* What is to outlive a projection, an outage of Zellij included, does:    *)
(* snapshots, frozen workspaces, the history of terminals but for its age  *)
(* and the newest that are kept, and pins as long as their workspace is    *)
(* there, see Catalog.                                                     *)
OutagesKeep ==
    /\ Daemon!SnapshotsDurable
    /\ Daemon!TerminalHistoryDurable
    /\ Daemon!FrozenStays
    /\ Daemon!PinSurvives

(* A restore of the demo's can be undone until the next act, see Demo.     *)
UndoUntilNextAct == Mock!UndoUntilNextAct
=============================================================================
