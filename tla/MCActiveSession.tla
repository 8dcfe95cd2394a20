-------------------------- MODULE MCActiveSession --------------------------
(***************************************************************************)
(* Small instances of ActiveSession.                                       *)
(***************************************************************************)
EXTENDS ActiveSession, TLC

CONSTANTS p1, p2, w1, w2, s1, s2   \* model values

(* Processes, windows and sessions are told apart by identity alone.       *)
MCSymmetry ==
    Permutations(Procs) \cup Permutations(Windows) \cup Permutations(Sessions)
=============================================================================
