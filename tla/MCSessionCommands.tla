------------------------- MODULE MCSessionCommands --------------------------
(***************************************************************************)
(* Small instances of SessionCommands: several mixes of commands in a run. *)
(***************************************************************************)
EXTENDS SessionCommands, TLC

CONSTANTS p1, p2, s1, s2, a, b,   \* model values
          Mixes                   \* the mixes of a run

VARIABLE mix   \* the commands of this execution, how many, and with a user?

(* A configuration of one session with two windows.                        *)
MCDeclared == s1 :> << a, b >>

Mix(ops, many, user) == [ops |-> ops, many |-> many, user |-> user]

(* Everything beside everything, and longer runs of what belongs together. *)
MCMixes == {Mix(AllOps, 2, TRUE),
            Mix({"kill", "undo", "init"}, 3, TRUE), Mix({"undo", "push"}, 3, TRUE),
            Mix({"kill", "undo", "push"}, 3, FALSE), Mix({"kill", "undo"}, 4, FALSE),
            Mix({"kill", "save", "restore", "undo"}, 3, FALSE)}

(* Two runs of init.                                                       *)
MCRaced == {Mix({"init"}, 2, FALSE)}

(* A server runs: a session of the user's own is there.                     *)
MCInit == Init /\ mix \in Mixes /\ Exists(s2)

MCNext ==
    /\ Next /\ UNCHANGED mix
    /\ acts' <= mix.many
    /\ \A p \in Procs : proc'[p].op \in mix.ops \cup {"none"}
    /\ live' # live /\ ~mix.user => proc' # proc

MCSpec == MCInit /\ [][MCNext]_<< vars, mix >>

MCSymmetry == Permutations(Procs)
=============================================================================
