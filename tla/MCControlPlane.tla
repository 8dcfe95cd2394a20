--------------------------- MODULE MCControlPlane ---------------------------
(***************************************************************************)
(* Small instances of ControlPlane.                                        *)
(***************************************************************************)
EXTENDS ControlPlane, TLC

CONSTANTS d1, d2, p1, p2   \* model values: two daemons, two panes

(* One command of each kind that differs in what it does to the runtime    *)
(* and to the catalog: a split beside p1, a kill of p1, a configuration.   *)
MCActions == {[kind |-> "split", target |-> p1],
              [kind |-> "kill", target |-> p1],
              [kind |-> "config", target |-> p1]}

(* The liveness run leaves the split to the user's own clients.            *)
MCFewActions == {[kind |-> "kill", target |-> p1],
                 [kind |-> "config", target |-> p1]}

(* Daemons are interchangeable: no action tells one from the other.        *)
MCSymmetry == Permutations(Daemons)
=============================================================================
