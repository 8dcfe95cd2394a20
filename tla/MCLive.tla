------------------------------- MODULE MCLive -------------------------------
(***************************************************************************)
(* Liveness, in one run.  One of four systems runs, the others rest:       *)
(* tmh-next's root, its hub with one watcher, its clients that start a     *)
(* daemon, or tmh watch with the queue of reloads.  Each has the fairness  *)
(* of its own module, stated here of the part that runs.                   *)
(***************************************************************************)
EXTENDS TLC

CONSTANTS a1, a2, NoAct,               \* the user's actions
          c1, c2, c3, user, nobody     \* the daemons of clients and user

VARIABLES
    part,
    setup, rev, mine, tasks, cat, eventSeq, ready, mut, tickPending,
    timerArmed, armedToken,
    seq, stream, asked, slots, trouble, after, pipe, seen, failures,
    path, daemon, client,
    panes, busy, stale, typed, queue, old, notices, pending, armed, fires,
    events, step, todo, acts

(* A production client that only looks on while its watch stream breaks,   *)
(* and a demo whose user acts while ticks and actions fail.                *)
Root == INSTANCE TuiRoot WITH
    Acts <- {a1, a2}, MaxRevision <- 5,
    Setups <- {[watching |-> TRUE, acts |-> {}, failing |-> {"watch"},
                early |-> FALSE],
               [watching |-> FALSE, acts |-> {a1, a2},
                failing |-> {"execute", "tick"}, early |-> FALSE]}

Hub == INSTANCE WatchHub WITH
    Slots <- 2, Pipe <- 2, MaxSeq <- 6, MaxFailures <- 2

Start == INSTANCE DaemonStart WITH
    Clients <- {c1, c2, c3}, User <- user, Nobody <- nobody

Reloads == INSTANCE ReloadQueue WITH Window <- << "a", "b" >>, MaxActs <- 2

rootVars == << setup, rev, mine, tasks, cat, eventSeq, ready, mut, tickPending,
               timerArmed, armedToken >>
hubVars == << seq, stream, asked, slots, trouble, after, pipe, seen, failures >>
startVars == << path, daemon, client >>
reloadVars == << panes, busy, stale, typed, queue, old, notices, pending,
                 armed, fires, events, step, todo, acts >>
all == << part, rootVars, hubVars, startVars, reloadVars >>

(* A part that rests does so in one initial state.                         *)
Init ==
    /\ part \in {"root", "hub", "start", "reloads"}
    /\ Root!Init /\ Hub!Init /\ Start!Init /\ Reloads!Init
    /\ part # "root" => setup.watching
    /\ part # "start" => path = user /\ daemon[user] = "up"
    /\ part # "reloads" => busy = {}

butRoot == << part, hubVars, startVars, reloadVars >>
butHub == << part, rootVars, startVars, reloadVars >>
butStart == << part, rootVars, hubVars, reloadVars >>
butReloads == << part, rootVars, hubVars, startVars >>

Next ==
    \/ part = "root" /\ Root!Next /\ UNCHANGED butRoot
    \/ part = "hub" /\ Hub!Next /\ UNCHANGED butHub
    \/ part = "start" /\ Start!Next /\ UNCHANGED butStart
    \/ part = "reloads" /\ Reloads!Next /\ UNCHANGED butReloads

RootFairness ==
    \A k \in Root!TaskKinds :
        /\ SF_all(/\ part = "root"
                  /\ \E t \in tasks :
                        t.kind = k /\ Root!Serve(t) /\ UNCHANGED setup
                  /\ UNCHANGED butRoot)
        /\ WF_all(/\ part = "root"
                  /\ \E t \in tasks :
                        t.kind = k /\ Root!Deliver(t) /\ UNCHANGED setup
                  /\ UNCHANGED butRoot)

HubFairness ==
    /\ WF_all(part = "hub" /\ Hub!Serving /\ UNCHANGED butHub)
    /\ WF_all(part = "hub" /\ Hub!Watching /\ UNCHANGED butHub)

StartFairness ==
    \A c \in {c1, c2, c3} :
        /\ WF_all(part = "start" /\ Start!Start(c) /\ UNCHANGED butStart)
        /\ WF_all(part = "start" /\ Start!Probe(c) /\ UNCHANGED butStart)
        /\ WF_all(part = "start" /\ Start!Connect(c) /\ UNCHANGED butStart)

ReloadFairness ==
    /\ WF_all(part = "reloads" /\ Reloads!Watcher /\ UNCHANGED butReloads)
    /\ WF_all(part = "reloads" /\ Reloads!Work("watch") /\ UNCHANGED butReloads)
    /\ SF_all(part = "reloads" /\ Reloads!TakeEvent /\ UNCHANGED butReloads)
    /\ SF_all(part = "reloads" /\ Reloads!Tick /\ UNCHANGED butReloads)
    /\ \A p \in {"a", "b"} :
           WF_all(part = "reloads" /\ Reloads!Age(p) /\ UNCHANGED butReloads)

Fairness == RootFairness /\ HubFairness /\ StartFairness /\ ReloadFairness
FairSpec == Init /\ [][Next]_all /\ Fairness

-----------------------------------------------------------------------------
(* Once the backend stops committing, the UI shows its catalog, see        *)
(* TuiRoot.                                                                *)
ShowsLatest == part = "root" => Root!ShowsLatest

(* In the demo every action is answered and time goes on, in one chain of  *)
(* ticks, see TuiRoot.                                                     *)
DemoAnswers ==
    part = "root" =>
        /\ []Root!TickChainSingle
        /\ Root!ActionAnswered
        /\ Root!DemoAdvances

(* A watcher learns of every commit and nothing is dropped unnoticed, see  *)
(* WatchHub.                                                               *)
Informed == part = "hub" => []Hub!NothingSkipped /\ Hub!Informed

(* Every client ends up with a daemon that answers, unless the user stops  *)
(* the daemon or one that fails to start closes over another's socket, see *)
(* DaemonStart.                                                            *)
ClientsConnect == part = "start" => Start!ClientsConnect

(* The reload queue empties and freed panes are reloaded, see ReloadQueue. *)
ReloadsServed ==
    part = "reloads" =>
        /\ Reloads!QueueSettles
        /\ Reloads!FreedIsSourced
=============================================================================
