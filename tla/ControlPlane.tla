---------------------------- MODULE ControlPlane ----------------------------
(***************************************************************************)
(* tmh-next's control plane: the tmhd daemons, the SQLite store they       *)
(* commit to and the Zellij runtime they observe and command.              *)
(*                                                                         *)
(* A daemon does one operation at a time (Client.mu): it reconciles        *)
(* (Snapshot, Search and the polling loop all call reconcileLocked) or it  *)
(* executes a command (executeLocked).  Every call that leaves the process *)
(* -- a read of the store, a Zellij command, a discovery, a transaction -- *)
(* is a step of its own, because the runtime is shared with the user's own *)
(* Zellij clients, the store with any other tmhd, and the operation's      *)
(* context can expire (or the process die) between any two of them.        *)
(*                                                                         *)
(* Two daemons on one store are a state the program reaches: while an old  *)
(* tmhd drains its connections its listener is already closed, and a new   *)
(* one starts beside it (cmd/tmhd/main.go).                                *)
(***************************************************************************)
EXTENDS Integers, Sequences, FiniteSets

CONSTANTS
    Daemons,      \* tmhd processes
    Panes,        \* Zellij panes of one managed session
    Actions,      \* what clients ask for: records [kind, target]
    NoKey,        \* "no command": a daemon that is idle or reconciling
    MaxRevision   \* clients, users and outages act below this revision only

Kinds == {"split", "kill", "send", "config"}

ASSUME DaemonsAssumption == Daemons # {} /\ IsFiniteSet(Daemons)
ASSUME ActionsAssumption ==
    \A a \in Actions : /\ a.kind \in Kinds
                       /\ a.kind # "config" => a.target \in Panes
ASSUME MaxRevisionAssumption == MaxRevision \in Nat

(* commandKey hashes the whole action, its ExpectedRevision included.      *)
Keys == [act : Actions, rev : 0 .. MaxRevision]

ASSUME NoKeyAssumption == NoKey \notin Keys

VARIABLES
    live,      \* the live panes of the Zellij session
    catalog,   \* the row of catalog_state
    results,   \* the rows of command_results
    pc,        \* where each daemon's current operation stands
    req,       \* the command a daemon executes, or NoKey
    cur,       \* the catalog the operation loaded
    work,      \* the catalog the operation is building
    ran,       \* history: commands whose Zellij command was accepted
    kept,      \* history: commands whose Zellij command changed the runtime
    acked      \* history: results that were returned to a client

vars == << live, catalog, results, pc, req, cur, work, ran, kept, acked >>
daemonVars == << pc, req, cur, work >>

(***************************************************************************)
(* Catalogs.  rev is Revision (0 stands for the nil catalog of an empty    *)
(* database), serial is MutationSerial, events is the audit log with NoKey *)
(* for a reconciliation's event, panes the terminals in state live,        *)
(* healthy the backend's status and config the last ConfigSave.            *)
(***************************************************************************)
NilCatalog == [rev |-> 0, serial |-> 0, events |-> << >>,
               panes |-> {}, healthy |-> TRUE, config |-> NoKey]

ProjectRuntime_defaultConfig(prev, ok, seen) ==
    [prev EXCEPT !.panes = IF ok THEN seen ELSE {}, !.healthy = ok,
                 !.config = NoKey]

ProjectRuntime(prev, ok, seen) ==
    [prev EXCEPT !.panes = IF ok THEN seen ELSE {}, !.healthy = ok]

runtimeEqual_statusOnly(left, right) ==
    left.healthy = right.healthy /\ left.config = right.config

runtimeEqual(left, right) ==
    /\ left.panes = right.panes
    /\ left.healthy = right.healthy
    /\ left.config = right.config

appendAudit(c, entry) == [c EXCEPT !.events = Append(@, entry)]

(* The catalog a reconciliation commits over base.                         *)
Revised(c, base) == [c EXCEPT !.rev = base + 1]

Reconciled(c, base) == appendAudit(Revised(c, base), NoKey)

Counted(c) == [c EXCEPT !.serial = @ + 1]

(* ConfigSave is the change that lives in the catalog alone.               *)
Applied(c, k) == IF k.act.kind = "config" THEN [c EXCEPT !.config = k] ELSE c

Mutated_serialDown(c, k, base) ==
    appendAudit([Revised(Applied(c, k), base) EXCEPT !.serial = @ - 1], k)

Mutated_noSerial(c, k, base) ==
    appendAudit(Revised(Applied(c, k), base), k)

(* The catalog a command commits over base.                                *)
Mutated(c, k, base) ==
    appendAudit(Counted(Revised(Applied(c, k), base)), k)

Committed == { r.key : r \in results }

Init ==
    /\ live \in SUBSET Panes
    /\ catalog = NilCatalog
    /\ results = {}
    /\ pc = [d \in Daemons |-> "idle"]
    /\ req = [d \in Daemons |-> NoKey]
    /\ cur = [d \in Daemons |-> NilCatalog]
    /\ work = [d \in Daemons |-> NilCatalog]
    /\ ran = {}
    /\ kept = {}
    /\ acked = {}

Goto(d, label) == pc' = [pc EXCEPT ![d] = label]

(* The operation of d ends and its locals are gone.                        *)
Finish(d) ==
    /\ pc' = [pc EXCEPT ![d] = "idle"]
    /\ req' = [req EXCEPT ![d] = NoKey]
    /\ cur' = [cur EXCEPT ![d] = NilCatalog]
    /\ work' = [work EXCEPT ![d] = NilCatalog]

(* The context expired, a call failed, or tmhd was killed and restarted:   *)
(* whatever had been done stays done and nothing more is.                  *)
Abort(d) ==
    /\ pc[d] # "idle"
    /\ Finish(d)
    /\ UNCHANGED << live, catalog, results, ran, kept, acked >>

(***************************************************************************)
(* reconcileLocked                                                         *)
(***************************************************************************)
ReconcileLoad(d) ==
    /\ pc[d] = "idle"
    /\ cur' = [cur EXCEPT ![d] = catalog]
    /\ Goto(d, "survey")
    /\ UNCHANGED << live, catalog, results, req, work, ran, kept, acked >>

(* A failed discovery is projected too, as a runtime with nothing in it.   *)
ReconcileDiscover(d, ok) ==
    /\ pc[d] = "survey"
    /\ ~ok => catalog.rev < MaxRevision
    /\ work' = [work EXCEPT ![d] = ProjectRuntime(cur[d], ok, live)]
    /\ Goto(d, "record")
    /\ UNCHANGED << live, catalog, results, req, cur, ran, kept, acked >>

(* Nothing to record: the previous catalog is returned as it is.           *)
ReconcileSame(d) ==
    /\ pc[d] = "record"
    /\ cur[d].rev > 0 /\ runtimeEqual(cur[d], work[d])
    /\ Finish(d)
    /\ UNCHANGED << live, catalog, results, ran, kept, acked >>

Swap_blind(base, next) == catalog' = next

(* A commit of next over base: the compare-and-swap of SaveCatalog and of  *)
(* SaveMutationResult.                                                     *)
Swap(base, next) ==
    /\ catalog.rev = base
    /\ next.rev = base + 1
    /\ catalog' = next

ReconcileSave(d) ==
    /\ pc[d] = "record"
    /\ ~(cur[d].rev > 0 /\ runtimeEqual(cur[d], work[d]))
    /\ Swap(cur[d].rev, Reconciled(work[d], cur[d].rev))
    /\ Finish(d)
    /\ UNCHANGED << live, results, ran, kept, acked >>

(***************************************************************************)
(* executeLocked                                                           *)
(***************************************************************************)

(* CommandResult: is there a row for the key?                              *)
Prior(k) == k \in Committed

(* A client sends, or sends again, a command written against a revision it *)
(* has seen; a command already committed is answered from its row.         *)
ExecuteBegin(d, k) ==
    /\ pc[d] = "idle"
    /\ k.rev <= catalog.rev /\ k.rev < MaxRevision
    /\ \/ /\ Prior(k)
          /\ acked' = acked \cup { r \in results : r.key = k }
          /\ UNCHANGED << pc, req >>
       \/ /\ ~Prior(k)
          /\ Goto(d, "load")
          /\ req' = [req EXCEPT ![d] = k]
          /\ UNCHANGED acked
    /\ UNCHANGED << live, catalog, results, cur, work, ran, kept >>

ExecuteLoad_anyRevision(d) ==
    /\ pc[d] = "load"
    /\ catalog.rev > 0
    /\ cur' = [cur EXCEPT ![d] = catalog]
    /\ Goto(d, "discover")
    /\ UNCHANGED << live, catalog, results, req, work, ran, kept, acked >>

(* not_found without a catalog, ErrRevisionConflict on a stale command.    *)
ExecuteLoad(d) ==
    /\ pc[d] = "load"
    /\ catalog.rev > 0
    /\ req[d].rev = catalog.rev
    /\ cur' = [cur EXCEPT ![d] = catalog]
    /\ Goto(d, "discover")
    /\ UNCHANGED << live, catalog, results, req, work, ran, kept, acked >>

(* resolveTerminal: a pane command needs its target live in the catalog    *)
(* and in the graph just discovered.                                       *)
Resolvable(d) ==
    \/ req[d].act.kind = "config"
    \/ req[d].act.target \in cur[d].panes \cap live

ExecuteDiscover(d) ==
    /\ pc[d] = "discover"
    /\ Resolvable(d)
    /\ work' = [work EXCEPT ![d] = cur[d]]
    /\ Goto(d, IF req[d].act.kind = "config" THEN "save" ELSE "run")
    /\ UNCHANGED << live, catalog, results, req, cur, ran, kept, acked >>

(* The Zellij command: new-pane, close-pane or write-chars.  Zellij may    *)
(* accept a split or a close and not carry it out.                         *)
Effect(a) ==
    \/ a.kind = "split" /\ \E p \in Panes \ live : live' = live \cup {p}
    \/ a.kind = "kill" /\ live' = live \ {a.target}
    \/ UNCHANGED live

ExecuteRun(d) ==
    /\ pc[d] = "run"
    /\ Effect(req[d].act)
    /\ ran' = ran \cup {req[d]}
    /\ kept' = IF live' = live THEN kept ELSE kept \cup {req[d]}
    /\ Goto(d, "observe")
    /\ UNCHANGED << catalog, results, req, cur, work, acked >>

(* verifyRuntimeEffect: the split must have raised the number of live      *)
(* panes, the closed pane must be gone.                                    *)
verifyRuntimeEffect_splitOnly(a, before, after) ==
    a.kind = "split" => Cardinality(after.panes) > Cardinality(before.panes)

verifyRuntimeEffect(a, before, after) ==
    /\ a.kind = "split" => Cardinality(after.panes) > Cardinality(before.panes)
    /\ a.kind = "kill" => a.target \notin after.panes

(* A runtime-changing command is rediscovered and verified before the save.*)
ExecuteObserve(d) ==
    LET seen == ProjectRuntime(work[d], TRUE, live)
    IN  /\ pc[d] = "observe"
        /\ verifyRuntimeEffect(req[d].act, cur[d], seen)
        /\ work' = [work EXCEPT ![d] = seen]
        /\ Goto(d, "save")
        /\ UNCHANGED << live, catalog, results, req, cur, ran, kept, acked >>

(* SaveMutationResult: the catalog and the command's row in one            *)
(* transaction.  The answer may never reach the client.                    *)
ExecuteSave(d) ==
    LET k    == req[d]
        base == cur[d].rev
        row  == [key |-> k, base |-> base, new |-> base + 1]
    IN  /\ pc[d] = "save"
        /\ Swap(base, Mutated(work[d], k, base))
        /\ k \notin Committed
        /\ results' = results \cup {row}
        /\ acked' \in {acked, acked \cup {row}}
        /\ Finish(d)
        /\ UNCHANGED << live, ran, kept >>

(***************************************************************************)
(* The user's own Zellij clients open and close panes of the session.      *)
(***************************************************************************)
External(p) ==
    /\ catalog.rev < MaxRevision
    /\ live' \in {live \cup {p}, live \ {p}} \ {live}
    /\ UNCHANGED << catalog, results, daemonVars, ran, kept, acked >>

Reconcile(d) ==
    \/ ReconcileLoad(d)
    \/ \E ok \in BOOLEAN : ReconcileDiscover(d, ok)
    \/ ReconcileSame(d)
    \/ ReconcileSave(d)

ExecuteStep(d) ==
    \/ ExecuteLoad(d)
    \/ ExecuteDiscover(d)
    \/ ExecuteRun(d)
    \/ ExecuteObserve(d)
    \/ ExecuteSave(d)

Next ==
    \/ \E d \in Daemons :
        \/ Reconcile(d)
        \/ \E k \in Keys : ExecuteBegin(d, k)
        \/ ExecuteStep(d)
        \/ Abort(d)
    \/ \E p \in Panes : External(p)

Spec == Init /\ [][Next]_vars

(***************************************************************************)
(* The polling loop comes round for ever and Client.mu is a fair lock; a   *)
(* Zellij that answers again and again is asked at such a time again and   *)
(* again; a sweep that has something to record does not run out of its     *)
(* 30 s for ever.  A command always ends: by its own steps or its timeout. *)
(***************************************************************************)
Fairness ==
    \A d \in Daemons :
        /\ SF_vars(ReconcileLoad(d))
        /\ SF_vars(ReconcileDiscover(d, TRUE))
        /\ SF_vars(ReconcileSave(d))
        /\ WF_vars(ExecuteStep(d) \/ Abort(d))

FairSpec == Spec /\ Fairness

-----------------------------------------------------------------------------
(***************************************************************************)
(* Properties                                                              *)
(***************************************************************************)
Entries == Keys \cup {NoKey}

Catalogs == [rev : Nat, serial : Nat, events : Seq(Entries),
             panes : SUBSET Panes, healthy : BOOLEAN, config : Entries]

Rows == [key : Keys, base : Nat, new : Nat]

Labels == {"idle", "survey", "record", "load", "discover", "run", "observe",
           "save"}

(* The shape of every variable.                                            *)
TypeOK ==
    /\ live \in SUBSET Panes
    /\ catalog \in Catalogs
    /\ results \in SUBSET Rows
    /\ pc \in [Daemons -> Labels]
    /\ req \in [Daemons -> Entries]
    /\ cur \in [Daemons -> Catalogs]
    /\ work \in [Daemons -> Catalogs]
    /\ ran \in SUBSET Keys
    /\ kept \in SUBSET ran
    /\ acked \in SUBSET Rows

(* The row of a command says where in the audit log it is: it was written  *)
(* over the revision its author expected and is the entry that follows.    *)
RowsAreLogged ==
    \A r \in results :
        /\ r.base = r.key.rev /\ r.new = r.base + 1
        /\ r.new <= Len(catalog.events)
        /\ catalog.events[r.new] = r.key

(* Every command in the audit log has its row: SaveMutationResult never    *)
(* exposes the catalog without the result, whichever daemon dies where.    *)
LoggedHaveRows ==
    \A i \in 1 .. Len(catalog.events) :
        catalog.events[i] # NoKey =>
            \E r \in results : r.key = catalog.events[i] /\ r.new = i

(* The three counters a client or an operator can see never drift apart:   *)
(* Revision and the audit log's sequence number are equal (the watch hub   *)
(* compares one with the other), MutationSerial counts the rows.           *)
CountersAgree ==
    /\ catalog.rev = Len(catalog.events)
    /\ catalog.serial = Cardinality(results)

(* The ledger as a whole: catalog_state and command_results tell the same  *)
(* story after any interleaving of daemons, aborts and restarts.           *)
LedgerAgrees == RowsAreLogged /\ LoggedHaveRows /\ CountersAgree

(* A result a client was given is durable and is the only one there is:    *)
(* a retry, on any daemon, after any crash, is told the same revision.     *)
AckedDurable ==
    /\ acked \subseteq results
    /\ \A r, s \in results : r.key = s.key \/ r.new = s.new => r = s

ConfigEntries ==
    { i \in 1 .. Len(catalog.events) :
        /\ catalog.events[i] # NoKey
        /\ catalog.events[i].act.kind = "config" }

(* No reconciliation or command, though it rewrites the whole catalog from *)
(* a copy it loaded earlier, loses a committed ConfigSave.                 *)
ConfigNotLost ==
    \/ ConfigEntries = {} /\ catalog.config = NoKey
    \/ \E i \in ConfigEntries : /\ \A j \in ConfigEntries : j <= i
                                /\ catalog.config = catalog.events[i]

(* A committed pane command was really issued, and the catalog committed   *)
(* with a confirmed kill no longer shows the pane.                         *)
CommittedWereCarriedOut ==
    \A r \in results :
        /\ r.key.act.kind # "config" => r.key \in ran
        /\ r.key.act.kind = "kill" /\ r.new = catalog.rev
               => r.key.act.target \notin catalog.panes

(* Whatever the races, no daemon carries a command out again that the      *)
(* catalog it loaded for it already contains: a retry that slips past the  *)
(* lookup of its row while another daemon commits is refused by revision.  *)
NeverRepeated ==
    \A d \in Daemons :
        pc[d] \in {"discover", "run", "observe", "save"} =>
            \A i \in 1 .. Len(cur[d].events) : cur[d].events[i] # req[d]

(* A committed split did open a pane: one that Zellij accepts and discards *)
(* is detected, answered invalid_state and not committed.                  *)
DiscardedSplitDetected ==
    \A r \in results : r.key.act.kind = "split" => r.key \in kept

(* The detailed daemons implement the revision log.                        *)
Log == INSTANCE RevisionLog WITH
           Observed <- NoKey, log <- catalog.events
RefinesLog == Log!Spec

(* Once the runtime is left alone the catalog comes to show it, whatever   *)
(* outages, timeouts and conflicts happened before.                        *)
Converges ==
    <>[][UNCHANGED live]_live => <>[](catalog.panes = live /\ catalog.healthy)
=============================================================================
