---------------------------- MODULE RevisionLog ----------------------------
(***************************************************************************)
(* What the control plane promises its clients, with no daemon, no runtime *)
(* and no database in sight: one log of committed revisions.  An entry is  *)
(* either the daemon's own observation or a client command, and a command  *)
(* is accepted only as the revision that follows the one its author had    *)
(* seen.  A key names a command together with that expected revision, so   *)
(* no key can be accepted twice.                                           *)
(***************************************************************************)
EXTENDS Integers, Sequences

CONSTANTS
    Keys,      \* command keys, records with a field rev: the expected revision
    Observed   \* the entry of a reconciliation, not a command key

VARIABLE log   \* the committed revisions, oldest first

Init == log = << >>

(* A reconciliation found a difference and recorded it.                    *)
Observe == log' = Append(log, Observed)

(* A command is committed on top of exactly the revision it expects.       *)
Commit(k) ==
    /\ k.rev = Len(log)
    /\ log' = Append(log, k)

Next == Observe \/ \E k \in Keys : Commit(k)

Spec == Init /\ [][Next]_log
=============================================================================
