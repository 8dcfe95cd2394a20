--------------------------- MODULE MCActiveCases ---------------------------
(***************************************************************************)
(* Two instances of ActiveSession in one run: either commands come one at  *)
(* a time, and everything can go wrong around them, or two commands        *)
(* interleave over one window of one server that no one renames a session  *)
(* of.                                                                     *)
(***************************************************************************)
EXTENDS MCActiveSession

VARIABLE setup

Busy == { p \in Procs : proc[p] # Idle }
Involved ==
    { w \in Windows : \/ LinksOf(w) # {}
                      \/ \E r \in rows : r.win = w
                      \/ \E p \in Procs : Win(p) = w }

Alone == Cardinality(Busy) <= 1

Paired ==
    /\ Cardinality(Involved) <= 1
    /\ epoch = 1 /\ owner # "user"
    /\ \A p \in Procs : proc[p].cmd.op \notin {"kill", "killwin"}

MCInit == Init /\ setup \in {"alone", "pair"} /\ (setup = "pair" => Paired)

MCNext ==
    /\ Next /\ UNCHANGED setup
    /\ IF setup = "alone" THEN Alone' ELSE Paired'

MCSpec == MCInit /\ [][MCNext]_<< vars, setup >>
=============================================================================
