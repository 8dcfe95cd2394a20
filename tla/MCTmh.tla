------------------------------- MODULE MCTmh --------------------------------
(***************************************************************************)
(* tmh in one run: session commands of several processes interleave, see   *)
(* SessionCommands, or commands write the configuration, see ConfigSync, or*)
(* one process shows its screens, see TmhTui, or one watches files and     *)
(* reloads panes, see ReloadQueue.  The parts that do not run rest in an   *)
(* initial state.                                                          *)
(***************************************************************************)
EXTENDS MCSessionCommands, TmhTui, MCScreens

VARIABLES
    part,
    panes, busy, stale, typed, queue, old, notices, pending, armed, fires,
    events, step, todo, done,
    scene, file, tmux, cmd, past, count

Reloads == INSTANCE ReloadQueue WITH
    Window <- << "a", "b" >>, MaxActs <- 2, acts <- done

Configs == INSTANCE MCConfigs

Syncs == INSTANCE ConfigSync WITH
    Dotted <- Configs!Dotted, Tools <- Procs, Live <- {"s", "t"},
    Imported <- Configs!Imported, Scenes <- Configs!Scenes

commandVars == << vars, mix >>
reloadVars == << panes, busy, stale, typed, queue, old, notices, pending,
                 armed, fires, events, step, todo, done >>
syncVars == << scene, file, tmux, cmd, past, count >>

TmhInit ==
    /\ part \in {"commands", "screens", "reloads", "configs"}
    /\ MCInit /\ ScreensInit /\ Reloads!Init /\ Syncs!Init
    /\ part # "screens" => setup = CHOOSE s \in Setups : TRUE
    /\ part # "reloads" => busy = {}
    /\ part # "configs" => scene = CHOOSE s \in Configs!Scenes : TRUE
    /\ part # "commands" =>
          /\ mix = CHOOSE x \in Mixes : TRUE
          /\ \A s \in Sessions : Exists(s) => s = s2

TmhNext ==
    /\ UNCHANGED part
    /\ \/ part = "commands" /\ MCNext
          /\ UNCHANGED << screens, reloadVars, syncVars >>
       \/ part = "screens" /\ ScreensNext
          /\ UNCHANGED << commandVars, reloadVars, syncVars >>
       \/ part = "reloads" /\ Reloads!Next
          /\ UNCHANGED << commandVars, screens, syncVars >>
       \/ part = "configs" /\ Syncs!Next
          /\ UNCHANGED << commandVars, screens, reloadVars >>

TmhSpec ==
    TmhInit /\ [][TmhNext]_<< part, commandVars, screens, reloadVars, syncVars >>

-----------------------------------------------------------------------------
(* The types of the commands and the journal, the screens, the queue and   *)
(* the configuration.                                                      *)
TmhTypeOK ==
    /\ TypeOK
    /\ part = "screens" => ScreensTypeOK
    /\ part = "reloads" => Reloads!TypeOK
    /\ part = "configs" => Syncs!TypeOK

(* What the commands that write the configuration make of it, see          *)
(* ConfigSync.                                                             *)
ConfigFaithful == part = "configs" => Syncs!ConfigFaithful
=============================================================================
