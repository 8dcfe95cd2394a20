----------------------------- MODULE MCTuiRoot ------------------------------
(***************************************************************************)
(* Small instances of TuiRoot.                                             *)
(***************************************************************************)
EXTENDS TuiRoot, TLC

CONSTANTS a1, a2   \* model values: the identities of two actions

Setup(watching, acts, failing, early) ==
    [watching |-> watching, acts |-> acts, failing |-> failing, early |-> early]

(* Production with a busy user, where every call may fail, and the demo;   *)
(* either user may be one who cannot wait for the first catalog.           *)
MCClients ==
    UNION { {Setup(TRUE, {a1, a2}, Fallible \ {"tick"}, early),
             Setup(FALSE, {a1, a2}, {"execute", "tick"}, early)} :
            early \in BOOLEAN }

(* One action on a connection where nothing fails.                         *)
MCOneAction == {Setup(TRUE, {a1}, {}, FALSE)}

(* An onlooker whose snapshot fetches may fail.                            *)
MCFetchFails == {Setup(TRUE, {}, {"fetch"}, FALSE)}

(* The two actions differ in their identity alone.                         *)
MCSymmetry == Permutations(Acts)
=============================================================================
