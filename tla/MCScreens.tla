----------------------------- MODULE MCScreens -----------------------------
(***************************************************************************)
(* Where executions of TmhTui start and what happens in them: data change  *)
(* under the tree; marks, kills and the way back; every screen; edits of   *)
(* the settings; and panes that are listed late.                           *)
(***************************************************************************)
EXTENDS Sequences

MCLetters == {"a", "d", "m", "y", "'"}
MCIdents == {"s", "t", "e", "f", "@1", "0", "1"}
MCFits == [n \in {"s", "t", "e", "f", "@1"} |->
            CASE n = "e" -> 2 [] n \in {"s", "@1"} -> 1 [] OTHER -> 0]

Win(name, index, panes) == [name |-> name, index |-> index, panes |-> panes]
Ses(name, windows) == [name |-> name, windows |-> windows]

MCNewcomers == {Ses("t", << Win("e", "0", 1) >>)}
Off == [enabled |-> FALSE, windows |-> << >>]
On(windows) == [enabled |-> TRUE, windows |-> windows]
MCReports == {Off, On(<< "@1" >>)}

(* One mark is set; an empty target is no mark.                            *)
Setup(marked, ring, keys, acts, presses, ticks) ==
    [listing |-> << Ses("s", << Win("e", "0", 2), Win("f", "1", 1) >>) >>,
     report |-> Off,
     marks |-> [l \in MCLetters |->
        IF l = "a" THEN [target |-> marked, valid |-> marked # << >>]
        ELSE [target |-> << >>, valid |-> FALSE]],
     ring |-> ring, keys |-> keys, acts |-> acts, presses |-> presses,
     ticks |-> ticks]

TreeKeys == {"down", "left", "right", "tab", "/", "rune", "backspace", "esc"}

MCSetups == {
    Setup(<< >>, << >>, TreeKeys, 1, 1, {"poll"}),
    Setup(<< >>, << >>, TreeKeys, 0, 3, {"poll"}),
    Setup(<< "s", "e" >>, << << "s", "f" >>, << "t" >> >>,
          {"down", "m", "'", "a", "''"}, 0, 4, {}),
    Setup(<< "s", "e" >>, << << "s", "f" >>, << "t" >> >>,
          {"d", "y", "'", "a"}, 0, 4, {}),
    Setup(<< >>, << >>,
          {":", "enter", "D", "d", "y", "n", "t", "?", "esc", "ctrl+l", "q",
           "R", "r", "u"}, 0, 3, {}),
    [Setup(<< >>, << >>,
           {"S", ":", "enter", "right", "ctrl+s", "esc", "y", "n"}, 0, 5, {})
        EXCEPT !.listing = << >>],
    [Setup(<< >>, << >>, {"R"}, 1, 2, {"refresh"}) EXCEPT !.report = On(<< >>)],
    Setup(<< >>, << >>, {":", "enter"}, 0, 2, {"refresh"}),
    [Setup(<< >>, << >>, {"down", "up"}, 0, 4, {"poll"}) EXCEPT
        !.report = On(<< >>),
        !.listing = << Ses("s", << Win("e", "0", 1), Win("e", "1", 1) >>) >>]}
=============================================================================
