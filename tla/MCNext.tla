------------------------------- MODULE MCNext -------------------------------
(***************************************************************************)
(* The safety of tmh-next's client in one run.  One of four parts runs,    *)
(* the others rest in their initial states: the protocol of the root, its  *)
(* search lane, its notices, or what the user sees of it.                  *)
(***************************************************************************)
EXTENDS MCTuiRoot

CONSTANTS
    Queries, NoQuery, MaxObserved, MaxSearches, MaxTyped,  \* of SearchLane
    Texts, HelpSteps, MaxChains,                           \* of Notices
    Ids, Machine, Inner, Visits, MaxStack, MaxUpdates      \* of Cockpit

VARIABLES
    part,
    srev, scat, input, spage, searchSeq, searchText, retried, searches, failed,
    toasts, toastSeq, expiries, help, helpSeq, ticks,
    start, opened, loaded, shown, stack, page, ov, msgs, lane, crashed, keys, updates

Query == INSTANCE SearchLane WITH
    MaxRevision <- MaxObserved, MaxSeq <- MaxSearches, MaxTasks <- MaxTyped,
    rev <- srev, cat <- scat, page <- spage, tasks <- searches

Clock == INSTANCE Notices WITH Steps <- HelpSteps, MaxSeq <- MaxChains

Shell == INSTANCE Cockpit WITH
    Setups <- Visits, setup <- start, cat <- shown

Starts == INSTANCE MCStarts
MCVisits == Starts!MCSetups
MCMachine == << 1, 1, 2 >>
MCInner == << << << 11, 12 >>, << 13 >>, << >> >>,
              << << 21 >>, << 22 >>, << 23 >> >>,
              << << 31 >>, << 32, 33 >>, << >> >> >>

ASSUME LaneAssumptions == Query!QueriesAssumption
ASSUME LaneBounds == Query!BoundsAssumption
ASSUME ClockAssumptions == Clock!ClockAssumption
ASSUME ShellAssumptions == Shell!PagesAssumption /\ Shell!SetupsAssumption

laneVars == << srev, scat, input, spage, searchSeq, searchText, retried,
               searches, failed >>
clockVars == << toasts, toastSeq, expiries, help, helpSeq, ticks >>
shellVars == << start, opened, loaded, shown, stack, page, ov, msgs, lane,
                crashed, keys, updates >>
all == << part, vars, laneVars, clockVars, shellVars >>

NextSymmetry == Permutations(Acts)

NextInit ==
    /\ part \in {"root", "lane", "clock", "shell"}
    /\ Init /\ Query!Init /\ Clock!Init
    /\ part # "root" => setup = CHOOSE s \in Setups : TRUE
    /\ part # "shell" => start = CHOOSE s \in Visits : TRUE
    /\ Shell!Init

NextNext ==
    /\ UNCHANGED part
    /\ \/ part = "root" /\ Next
          /\ UNCHANGED << laneVars, clockVars, shellVars >>
       \/ part = "lane" /\ Query!Next
          /\ UNCHANGED << vars, clockVars, shellVars >>
       \/ part = "clock" /\ Clock!Next
          /\ UNCHANGED << vars, laneVars, shellVars >>
       \/ part = "shell" /\ Shell!Next
          /\ UNCHANGED << vars, laneVars, clockVars >>

NextSpec == NextInit /\ [][NextNext]_all

-----------------------------------------------------------------------------
(* The types of the root and of the pages, and home at the bottom of the   *)
(* stack, see TuiRoot and Cockpit.                                         *)
ClientTypeOK ==
    /\ TypeOK
    /\ part = "shell" => Shell!TypeOK /\ Shell!HomeIsBottom

(* Results of a superseded query never reach the page, and no query is     *)
(* lost, see SearchLane.                                                   *)
LatestSearchAnswered ==
    /\ Query!OnlyLatestShown
    /\ [](part = "lane" => Query!LatestIsAnswered)

(* Notifications go, and the help turns at its own pace, see Notices.      *)
NoticesKeepTime == part = "clock" => Clock!ToastsExpire /\ Clock!HelpTicksOnce

(* What keys, messages and catalogs in any order may do, see Cockpit.      *)
CrashesOnlyAstray == part = "shell" => Shell!CrashesOnlyAstray
DestroysConfirmed == Shell!DestroysConfirmed

(* Cursor and selection stay together, see Cockpit.                        *)
SelectionFollows == Shell!SelectionSticks /\ Shell!RefreshRealigns
=============================================================================
