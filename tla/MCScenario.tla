----------------------------- MODULE MCScenario -----------------------------
(***************************************************************************)
(* A part of the demo's default scenario: three of its workspaces, with    *)
(* the terminals, agents, views and snapshots that behave differently.     *)
(* The first window of base has been split once, so that its snapshot does *)
(* not have the surface of its second terminal.                            *)
(***************************************************************************)
EXTENDS Integers

Pane(id, split) == [id |-> id, split |-> split]
Window(id, layout, panes) == [id |-> id, layout |-> layout, panes |-> panes]

Logs == Window(2, "even-horizontal", << Pane(3, "none") >>)
Base == << Window(1, "even-horizontal", << Pane(1, "none"), Pane(9, "none") >>), Logs >>
BaseSaved == << Window(1, "main-horizontal", << Pane(1, "none") >>), Logs >>
Ecp == << Window(4, "tiled", << Pane(4, "none"), Pane(5, "none") >>) >>
EcpSaved == << Window(4, "tiled", << Pane(4, "none") >>) >>
Kb == << Window(6, "even-vertical", << Pane(7, "none") >>) >>
KbWanted == << Window(6, "even-vertical", << Pane(7, "none"), Pane(8, "none") >>) >>

Settled(state, sel) ==
    [desired |-> state, observed |-> state, drift |-> FALSE, status |-> "ok",
     sel |-> sel]

MCFixture ==
    [ws |-> [base |-> Settled(Base, 1), ecp |-> Settled(Ecp, 4),
             kb |-> [desired |-> KbWanted, observed |-> Kb, drift |-> TRUE,
                     status |-> "drift", sel |-> 7]],
     terms |-> << [ws |-> "base", sf |-> 1, live |-> TRUE],
                  [ws |-> "ecp", sf |-> 4, live |-> TRUE],
                  [ws |-> "base", sf |-> 9, live |-> TRUE] >>,
     agents |-> << [ws |-> "base", term |-> 1, state |-> "running", claimed |-> FALSE],
                   [ws |-> "ecp", term |-> 0, state |-> "done", claimed |-> FALSE] >>,
     views |-> << [pinned |-> TRUE, fresh |-> TRUE],
                  [pinned |-> FALSE, fresh |-> FALSE] >>,
     snaps |-> {[id |-> 1, ws |-> "base", state |-> BaseSaved],
                [id |-> 2, ws |-> "ecp", state |-> EcpSaved],
                [id |-> 4, ws |-> "kb", state |-> Kb]},
     plans |-> {}, serial |-> 0,
     counters |-> [term |-> 3, sf |-> 9, snap |-> 4, plan |-> 0]]
=============================================================================
