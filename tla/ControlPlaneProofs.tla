-------------------------- MODULE ControlPlaneProofs --------------------------
(***************************************************************************)
(* Proofs about ControlPlane, for any set of daemons, panes and actions    *)
(* and any bound.                                                          *)
(***************************************************************************)
EXTENDS ControlPlane, FiniteSetTheorems, TLAPS

(***************************************************************************)
(* The operators that build a catalog.                                     *)
(***************************************************************************)

(* The nil catalog is a catalog.                                           *)
LEMMA NilIsCatalog == NilCatalog \in Catalogs
BY DEF NilCatalog, Catalogs, Entries

(* A projection replaces the observed panes and the status, nothing else.  *)
LEMMA ProjectionFields ==
    ASSUME NEW c \in Catalogs, NEW ok \in BOOLEAN, NEW seen \in SUBSET Panes
    PROVE  LET p == ProjectRuntime(c, ok, seen)
           IN  /\ p \in Catalogs
               /\ p.rev = c.rev /\ p.serial = c.serial
               /\ p.events = c.events /\ p.config = c.config
               /\ ok => p.panes = seen
BY DEF ProjectRuntime, Catalogs

(* An audit entry goes to the end of the log, nothing else changes.        *)
LEMMA AuditFields ==
    ASSUME NEW c \in Catalogs, NEW entry \in Entries
    PROVE  LET n == appendAudit(c, entry)
           IN  /\ n \in Catalogs
               /\ n.rev = c.rev /\ n.serial = c.serial /\ n.config = c.config
               /\ n.events = Append(c.events, entry) /\ n.panes = c.panes
<1>1. c.events \in Seq(Entries)
  BY DEF Catalogs
<1>2. Append(c.events, entry) \in Seq(Entries)
  BY <1>1
<1> HIDE DEF Entries
<1> QED
  BY <1>1, <1>2 DEF appendAudit, Catalogs

(* A catalog put at the revision that follows base.                        *)
LEMMA RevisedFields ==
    ASSUME NEW c \in Catalogs, NEW base \in Nat
    PROVE  LET n == Revised(c, base)
           IN  /\ n \in Catalogs
               /\ n.rev = base + 1 /\ n.serial = c.serial
               /\ n.events = c.events /\ n.config = c.config
               /\ n.panes = c.panes
BY DEF Revised, Catalogs

(* A catalog with one more mutation counted.                               *)
LEMMA CountedFields ==
    ASSUME NEW c \in Catalogs
    PROVE  LET n == Counted(c)
           IN  /\ n \in Catalogs
               /\ n.rev = c.rev /\ n.serial = c.serial + 1
               /\ n.events = c.events /\ n.config = c.config
               /\ n.panes = c.panes
BY DEF Counted, Catalogs

(* A reconciliation's revision appends one entry and keeps the rest.       *)
LEMMA ReconciledFields ==
    ASSUME NEW c \in Catalogs, NEW base \in Nat
    PROVE  LET n == Reconciled(c, base)
           IN  /\ n \in Catalogs
               /\ n.rev = base + 1 /\ n.serial = c.serial
               /\ n.events = Append(c.events, NoKey) /\ n.config = c.config
               /\ n.panes = c.panes
<1> DEFINE c1 == Revised(c, base)
<1>1. NoKey \in Entries
  BY DEF Entries
<1>2. /\ c1 \in Catalogs /\ c1.rev = base + 1 /\ c1.serial = c.serial
      /\ c1.events = c.events /\ c1.config = c.config
      /\ c1.panes = c.panes
  BY RevisedFields
<1>3. Reconciled(c, base) = appendAudit(c1, NoKey)
  BY DEF Reconciled
<1> HIDE DEF c1
<1> QED
  BY <1>1, <1>2, <1>3, AuditFields

(* A command's revision appends the command, counts it and, for a          *)
(* ConfigSave, installs its configuration.                                 *)
LEMMA MutatedFields ==
    ASSUME NEW c \in Catalogs, NEW k \in Keys, NEW base \in Nat
    PROVE  LET n == Mutated(c, k, base)
           IN  /\ n \in Catalogs
               /\ n.rev = base + 1 /\ n.serial = c.serial + 1
               /\ n.events = Append(c.events, k)
               /\ n.config = IF k.act.kind = "config" THEN k ELSE c.config
               /\ n.panes = c.panes
<1> DEFINE c1 == Applied(c, k)
           c2 == Revised(c1, base)
           c3 == Counted(c2)
<1>1. k \in Entries
  BY DEF Entries
<1>2. /\ c1 \in Catalogs /\ c1.serial = c.serial /\ c1.events = c.events
      /\ c1.config = IF k.act.kind = "config" THEN k ELSE c.config
      /\ c1.panes = c.panes
  BY <1>1 DEF Applied, Catalogs
<1>3. Mutated(c, k, base) = appendAudit(c3, k)
  BY DEF Mutated
<1> HIDE DEF c1
<1>4. /\ c2 \in Catalogs /\ c2.rev = base + 1 /\ c2.serial = c1.serial
      /\ c2.events = c1.events /\ c2.config = c1.config
      /\ c2.panes = c1.panes
  BY <1>2, RevisedFields
<1> HIDE DEF c2
<1>5. /\ c3 \in Catalogs /\ c3.rev = c2.rev /\ c3.serial = c2.serial + 1
      /\ c3.events = c2.events /\ c3.config = c2.config
      /\ c3.panes = c2.panes
  BY <1>4, CountedFields
<1> HIDE DEF c3
<1> QED
  BY <1>1, <1>2, <1>3, <1>4, <1>5, AuditFields

(***************************************************************************)
(* Types                                                                   *)
(***************************************************************************)

(* The locals of an ended operation are well typed.                        *)
LEMMA FinishTypes ==
    ASSUME TypeOK, NEW d \in Daemons, Finish(d)
    PROVE  /\ pc' \in [Daemons -> Labels]
           /\ req' \in [Daemons -> Entries]
           /\ cur' \in [Daemons -> Catalogs]
           /\ work' \in [Daemons -> Catalogs]
BY NilIsCatalog DEF TypeOK, Finish, Labels, Entries

(* What a daemon must hold at a step that reads its request.               *)
Requesting ==
    \A d \in Daemons :
        pc[d] \in {"load", "discover", "run", "observe", "save"}
            => req[d] \in Keys

(* Types are preserved by every step, given that a daemon that executes    *)
(* has a request.                                                          *)
LEMMA TypeStep ==
    ASSUME TypeOK, Requesting, [Next]_vars
    PROVE  TypeOK' /\ Requesting'
<1>1. CASE UNCHANGED vars
  BY <1>1 DEF TypeOK, Requesting, vars
<1>2. ASSUME NEW d \in Daemons, ReconcileLoad(d)
      PROVE  TypeOK' /\ Requesting'
  BY <1>2 DEF ReconcileLoad, Goto, TypeOK, Requesting, Labels
<1>3. ASSUME NEW d \in Daemons, NEW ok \in BOOLEAN, ReconcileDiscover(d, ok)
      PROVE  TypeOK' /\ Requesting'
  <2>1. ProjectRuntime(cur[d], ok, live) \in Catalogs
    BY ProjectionFields DEF TypeOK
  <2> QED
    BY <1>3, <2>1 DEF ReconcileDiscover, Goto, TypeOK, Requesting, Labels
<1>4. ASSUME NEW d \in Daemons, ReconcileSame(d) \/ Abort(d)
      PROVE  TypeOK' /\ Requesting'
  <2>1. Finish(d) /\ UNCHANGED << live, catalog, results, ran, kept, acked >>
    BY <1>4 DEF ReconcileSame, Abort
  <2> QED
    BY <2>1, FinishTypes DEF TypeOK, Requesting, Finish
<1>5. ASSUME NEW d \in Daemons, ReconcileSave(d)
      PROVE  TypeOK' /\ Requesting'
  <2>1. Reconciled(work[d], cur[d].rev) \in Catalogs
    BY ReconciledFields DEF TypeOK, Catalogs
  <2>2. catalog' \in Catalogs
    BY <1>5, <2>1 DEF ReconcileSave, Swap
  <2>3. Finish(d) /\ UNCHANGED << live, results, ran, kept, acked >>
    BY <1>5 DEF ReconcileSave
  <2> QED
    BY <2>2, <2>3, FinishTypes DEF TypeOK, Requesting, Finish
<1>6. ASSUME NEW d \in Daemons, NEW k \in Keys, ExecuteBegin(d, k)
      PROVE  TypeOK' /\ Requesting'
  BY <1>6 DEF ExecuteBegin, Goto, TypeOK, Requesting, Labels, Entries
<1>7. ASSUME NEW d \in Daemons, ExecuteLoad(d)
      PROVE  TypeOK' /\ Requesting'
  BY <1>7 DEF ExecuteLoad, Goto, TypeOK, Requesting, Labels
<1>8. ASSUME NEW d \in Daemons, ExecuteDiscover(d)
      PROVE  TypeOK' /\ Requesting'
  BY <1>8 DEF ExecuteDiscover, Goto, TypeOK, Requesting, Labels
<1>9. ASSUME NEW d \in Daemons, ExecuteRun(d)
      PROVE  TypeOK' /\ Requesting'
  <2>1. req[d] \in Keys
    BY <1>9 DEF ExecuteRun, Requesting
  <2>2. live' \in SUBSET Panes
    BY <1>9 DEF ExecuteRun, Effect, TypeOK
  <2> QED
    BY <1>9, <2>1, <2>2 DEF ExecuteRun, Goto, TypeOK, Requesting, Labels
<1>10. ASSUME NEW d \in Daemons, ExecuteObserve(d)
       PROVE  TypeOK' /\ Requesting'
  <2>1. ProjectRuntime(work[d], TRUE, live) \in Catalogs
    BY ProjectionFields DEF TypeOK
  <2> QED
    BY <1>10, <2>1 DEF ExecuteObserve, Goto, TypeOK, Requesting, Labels
<1>11. ASSUME NEW d \in Daemons, ExecuteSave(d)
       PROVE  TypeOK' /\ Requesting'
  <2> DEFINE row == [key |-> req[d], base |-> cur[d].rev,
                     new |-> cur[d].rev + 1]
  <2>1. req[d] \in Keys /\ cur[d].rev \in Nat
    BY <1>11 DEF ExecuteSave, Requesting, TypeOK, Catalogs
  <2>2. row \in Rows
    BY <2>1 DEF Rows
  <2>3. catalog' \in Catalogs
    BY <1>11, <2>1, MutatedFields DEF ExecuteSave, Swap, TypeOK
  <2>4. results' = results \cup {row} /\ acked' \in {acked, acked \cup {row}}
    BY <1>11 DEF ExecuteSave
  <2>5. Finish(d) /\ UNCHANGED << live, ran, kept >>
    BY <1>11 DEF ExecuteSave
  <2> QED
    BY <2>2, <2>3, <2>4, <2>5, FinishTypes DEF TypeOK, Requesting, Finish
<1>12. ASSUME NEW p \in Panes, External(p)
       PROVE  TypeOK' /\ Requesting'
  BY <1>12 DEF External, daemonVars, TypeOK, Requesting
<1> QED
  BY <1>1, <1>2, <1>3, <1>4, <1>5, <1>6, <1>7, <1>8, <1>9, <1>10, <1>11, <1>12
     DEF Next, Reconcile, ExecuteStep

(* Every variable keeps its type.                                          *)
THEOREM TypeCorrect == Spec => []TypeOK
<1>1. Init => TypeOK /\ Requesting
  BY NilIsCatalog
     DEF Init, TypeOK, Requesting, Labels, Entries
<1>2. TypeOK /\ Requesting /\ [Next]_vars => (TypeOK /\ Requesting)'
  BY TypeStep
<1> QED
  BY <1>1, <1>2, PTL DEF Spec

(***************************************************************************)
(* The ledger.  What makes it inductive: an operation works on a copy of   *)
(* the catalog, and a copy that still has the current revision is the      *)
(* current catalog, because every commit moves the revision; so the        *)
(* compare-and-swap extends the very log the operation started from.       *)
(***************************************************************************)
Loaded ==
    \A d \in Daemons :
        pc[d] \notin {"idle", "load"} =>
            /\ cur[d].rev <= catalog.rev
            /\ cur[d].rev = catalog.rev => cur[d] = catalog

Building ==
    \A d \in Daemons :
        pc[d] \in {"record", "run", "observe", "save"} =>
            /\ work[d].events = cur[d].events
            /\ work[d].serial = cur[d].serial
            /\ work[d].config = cur[d].config

Expecting ==
    \A d \in Daemons :
        pc[d] \in {"discover", "run", "observe", "save"}
            => req[d].rev = cur[d].rev

IInv ==
    /\ TypeOK /\ Requesting
    /\ Loaded /\ Building /\ Expecting
    /\ IsFiniteSet(results) /\ LedgerAgrees
    /\ acked \subseteq results

(* A reconciliation's entry extends the log and leaves the rows right.     *)
LEMMA LedgerObserve ==
    ASSUME TypeOK, LedgerAgrees, catalog' \in Catalogs, UNCHANGED results,
           catalog'.rev = catalog.rev + 1, catalog'.serial = catalog.serial,
           catalog'.events = Append(catalog.events, NoKey)
    PROVE  LedgerAgrees'
<1> DEFINE ev == catalog.events
           n  == Len(ev)
<1>1. ev \in Seq(Entries) /\ n \in Nat
  BY DEF TypeOK, Catalogs
<1>2. /\ Len(catalog'.events) = n + 1
      /\ \A i \in 1 .. n : catalog'.events[i] = ev[i]
      /\ catalog'.events[n + 1] = NoKey
  BY <1>1
<1> HIDE DEF ev, n
<1>3. \A r \in results : r.base \in Nat /\ r.new \in Nat
  BY DEF TypeOK, Rows
<1>4. RowsAreLogged /\ LoggedHaveRows /\ CountersAgree /\ catalog.rev = n
  BY DEF LedgerAgrees, CountersAgree, n, ev
<1>5. RowsAreLogged'
  <2> SUFFICES ASSUME NEW r \in results
               PROVE  /\ r.base = r.key.rev /\ r.new = r.base + 1
                      /\ r.new <= Len(catalog'.events)
                      /\ catalog'.events[r.new] = r.key
    BY DEF RowsAreLogged
  <2>1. /\ r.base = r.key.rev /\ r.new = r.base + 1
        /\ r.new <= n /\ ev[r.new] = r.key
    BY <1>4 DEF RowsAreLogged, n, ev
  <2>2. r.new \in 1 .. n
    BY <2>1, <1>1, <1>3
  <2> QED
    BY <2>1, <2>2, <1>1, <1>2, <1>3
<1>6. LoggedHaveRows'
  <2> SUFFICES ASSUME NEW i \in 1 .. (n + 1), catalog'.events[i] # NoKey
               PROVE  \E r \in results : r.key = catalog'.events[i] /\ r.new = i
    BY <1>1, <1>2 DEF LoggedHaveRows
  <2>1. i \in 1 .. n
    BY <1>1, <1>2
  <2> QED
    BY <2>1, <1>2, <1>4 DEF LoggedHaveRows, n, ev
<1>7. CountersAgree'
  BY <1>1, <1>2, <1>4 DEF CountersAgree, n
<1> QED
  BY <1>5, <1>6, <1>7 DEF LedgerAgrees

(* So does a command's, with its row.                                      *)
LEMMA LedgerCommit ==
    ASSUME TypeOK, LedgerAgrees, IsFiniteSet(results),
           NEW k \in Keys, k.rev = catalog.rev,
           catalog' \in Catalogs, catalog'.rev = catalog.rev + 1,
           catalog'.serial = catalog.serial + 1,
           catalog'.events = Append(catalog.events, k),
           results' = results \cup
               {[key |-> k, base |-> catalog.rev, new |-> catalog.rev + 1]}
    PROVE  LedgerAgrees' /\ IsFiniteSet(results)'
<1> DEFINE ev  == catalog.events
           n   == Len(ev)
           row == [key |-> k, base |-> catalog.rev, new |-> catalog.rev + 1]
<1>1. ev \in Seq(Entries) /\ n \in Nat /\ k \in Entries /\ catalog.rev = n
  BY DEF TypeOK, Catalogs, Entries, LedgerAgrees, CountersAgree
<1>2. /\ Len(catalog'.events) = n + 1
      /\ \A i \in 1 .. n : catalog'.events[i] = ev[i]
      /\ catalog'.events[n + 1] = k
  BY <1>1
<1>a. row.key = k /\ row.base = n /\ row.new = n + 1
  BY <1>1
<1>b. results' = results \cup {row}
  OBVIOUS
<1> HIDE DEF ev, n, row
<1>3. \A r \in results : r.base \in Nat /\ r.new \in Nat
  BY DEF TypeOK, Rows
<1>4. RowsAreLogged /\ LoggedHaveRows /\ CountersAgree
  BY DEF LedgerAgrees
<1>c. \A r \in results : /\ r.base = r.key.rev /\ r.new = r.base + 1
                         /\ r.new \in 1 .. n /\ ev[r.new] = r.key
  BY <1>1, <1>3, <1>4 DEF RowsAreLogged, n, ev
<1>5. RowsAreLogged'
  <2> SUFFICES ASSUME NEW r \in results'
               PROVE  /\ r.base = r.key.rev /\ r.new = r.base + 1
                      /\ r.new <= Len(catalog'.events)
                      /\ catalog'.events[r.new] = r.key
    BY DEF RowsAreLogged
  <2>1. CASE r \in results
    BY <2>1, <1>1, <1>2, <1>c
  <2>2. CASE r = row
    BY <2>2, <1>1, <1>2, <1>a
  <2> QED
    BY <2>1, <2>2, <1>b
<1>6. LoggedHaveRows'
  <2> SUFFICES ASSUME NEW i \in 1 .. (n + 1), catalog'.events[i] # NoKey
               PROVE  \E r \in results' : r.key = catalog'.events[i] /\ r.new = i
    BY <1>1, <1>2 DEF LoggedHaveRows
  <2>1. CASE i \in 1 .. n
    <3>1. PICK r \in results : r.key = ev[i] /\ r.new = i
      BY <2>1, <1>2, <1>4 DEF LoggedHaveRows, n, ev
    <3> QED
      BY <2>1, <3>1, <1>2, <1>b
  <2>2. CASE i = n + 1
    BY <2>2, <1>2, <1>a, <1>b
  <2>3. i \in 1 .. n \/ i = n + 1
    BY <1>1
  <2> QED
    BY <2>1, <2>2, <2>3
<1>7. row \notin results
  BY <1>a, <1>c, <1>1
<1>8. /\ IsFiniteSet(results')
      /\ Cardinality(results') = Cardinality(results) + 1
  <2>1. /\ IsFiniteSet(results \cup {row})
        /\ Cardinality(results \cup {row}) = Cardinality(results) + 1
    BY <1>7, FS_AddElement
  <2> QED
    BY <2>1, <1>b
<1>9. CountersAgree'
  BY <1>1, <1>2, <1>4, <1>8 DEF CountersAgree, n
<1> QED
  BY <1>5, <1>6, <1>8, <1>9 DEF LedgerAgrees

(* An ended operation holds no stale copy and no unfinished work.          *)
LEMMA FinishKeeps ==
    ASSUME TypeOK, TypeOK', Loaded, Building, Expecting,
           NEW d \in Daemons, Finish(d),
           UNCHANGED catalog \/ catalog'.rev = catalog.rev + 1
    PROVE  Loaded' /\ Building' /\ Expecting'
<1>1. catalog.rev \in Nat /\ catalog'.rev \in Nat
  BY DEF TypeOK, Catalogs
<1>2. \A e \in Daemons : cur[e].rev \in Nat
  BY DEF TypeOK, Catalogs
<1>3. /\ pc'[d] = "idle" /\ cur'[d] = NilCatalog
      /\ \A e \in Daemons \ {d} : /\ pc'[e] = pc[e] /\ cur'[e] = cur[e]
                                  /\ req'[e] = req[e] /\ work'[e] = work[e]
  BY DEF Finish, TypeOK
<1>4. Building' /\ Expecting'
  BY <1>3 DEF Building, Expecting
<1>5. Loaded'
  <2> SUFFICES ASSUME NEW e \in Daemons, pc'[e] \notin {"idle", "load"}
               PROVE  /\ cur'[e].rev <= catalog'.rev
                      /\ cur'[e].rev = catalog'.rev => cur'[e] = catalog'
    BY DEF Loaded
  <2>1. e # d
    BY <1>3
  <2> QED
    BY <2>1, <1>1, <1>2, <1>3 DEF Loaded
<1> QED
  BY <1>4, <1>5

(* A step of d that does not touch the store and leaves the other daemons  *)
(* alone keeps the ledger.                                                 *)
LEMMA QuietStep ==
    ASSUME IInv, UNCHANGED << catalog, results, acked >>
    PROVE  LedgerAgrees' /\ IsFiniteSet(results)' /\ (acked \subseteq results)'
BY DEF IInv, LedgerAgrees, RowsAreLogged, LoggedHaveRows, CountersAgree

(* A commit extends the log the operation started from.                    *)
LEMMA SwapLoaded ==
    ASSUME IInv, NEW d \in Daemons, pc[d] \notin {"idle", "load"},
           NEW next, Swap(cur[d].rev, next)
    PROVE  /\ cur[d] = catalog /\ catalog' = next
           /\ next.rev = catalog.rev + 1
BY DEF IInv, Loaded, Swap

(* The inductive step.                                                     *)
LEMMA IInvStep ==
    ASSUME IInv, [Next]_vars
    PROVE  IInv'
<1> USE DEF IInv
<1>0. TypeOK' /\ Requesting'
  BY TypeStep
<1>1. CASE UNCHANGED vars
  BY <1>1, <1>0, QuietStep DEF vars, Loaded, Building, Expecting
<1>2. ASSUME NEW d \in Daemons, ReconcileLoad(d)
      PROVE  IInv'
  <2>1. UNCHANGED << catalog, results, acked >>
    BY <1>2 DEF ReconcileLoad
  <2>2. Loaded' /\ Building' /\ Expecting'
    BY <1>2 DEF ReconcileLoad, Goto, TypeOK, Catalogs,
                Loaded, Building, Expecting
  <2> QED
    BY <1>0, <2>1, <2>2, QuietStep
<1>3. ASSUME NEW d \in Daemons, NEW ok \in BOOLEAN, ReconcileDiscover(d, ok)
      PROVE  IInv'
  <2> DEFINE p == ProjectRuntime(cur[d], ok, live)
  <2>1. UNCHANGED << catalog, results, acked >>
    BY <1>3 DEF ReconcileDiscover
  <2>2. /\ p.serial = cur[d].serial /\ p.events = cur[d].events
        /\ p.config = cur[d].config
    BY ProjectionFields DEF TypeOK
  <2>3. /\ pc[d] = "survey" /\ pc' = [pc EXCEPT ![d] = "record"]
        /\ work' = [work EXCEPT ![d] = p]
        /\ UNCHANGED << req, cur, catalog >>
    BY <1>3 DEF ReconcileDiscover, Goto
  <2> HIDE DEF p
  <2>4. Loaded' /\ Building' /\ Expecting'
    BY <2>2, <2>3 DEF TypeOK, Loaded, Building, Expecting
  <2> QED
    BY <1>0, <2>1, <2>4, QuietStep
<1>4. ASSUME NEW d \in Daemons, ReconcileSame(d) \/ Abort(d)
      PROVE  IInv'
  <2>1. Finish(d) /\ UNCHANGED << catalog, results, acked >>
    BY <1>4 DEF ReconcileSame, Abort
  <2> QED
    BY <1>0, <2>1, QuietStep, FinishKeeps
<1>5. ASSUME NEW d \in Daemons, ReconcileSave(d)
      PROVE  IInv'
  <2> DEFINE next == Reconciled(work[d], cur[d].rev)
  <2>1. /\ pc[d] = "record" /\ Swap(cur[d].rev, next) /\ Finish(d)
        /\ UNCHANGED << results, acked >>
    BY <1>5 DEF ReconcileSave
  <2>2. /\ work[d] \in Catalogs /\ cur[d].rev \in Nat
        /\ work[d].events = cur[d].events /\ work[d].serial = cur[d].serial
    BY <2>1 DEF TypeOK, Building, Catalogs
  <2>3. /\ next \in Catalogs /\ next.serial = work[d].serial
        /\ next.events = Append(work[d].events, NoKey)
    BY <2>2, ReconciledFields
  <2> HIDE DEF next
  <2>4. /\ cur[d] = catalog /\ catalog' = next
        /\ next.rev = catalog.rev + 1
    BY <2>1, SwapLoaded
  <2>5. LedgerAgrees'
    BY <2>1, <2>2, <2>3, <2>4, LedgerObserve
  <2>6. Loaded' /\ Building' /\ Expecting'
    BY <1>0, <2>1, <2>4, FinishKeeps
  <2> QED
    BY <1>0, <2>1, <2>5, <2>6
<1>6. ASSUME NEW d \in Daemons, NEW k \in Keys, ExecuteBegin(d, k)
      PROVE  IInv'
  <2>1. UNCHANGED << catalog, results >> /\ (acked \subseteq results)'
    BY <1>6 DEF ExecuteBegin
  <2>2. Loaded' /\ Building' /\ Expecting'
    BY <1>6 DEF ExecuteBegin, Goto, TypeOK, Loaded, Building, Expecting
  <2>3. LedgerAgrees' /\ IsFiniteSet(results)'
    BY <2>1 DEF LedgerAgrees, RowsAreLogged, LoggedHaveRows, CountersAgree
  <2> QED
    BY <1>0, <2>1, <2>2, <2>3
<1>7. ASSUME NEW d \in Daemons, ExecuteLoad(d)
      PROVE  IInv'
  <2>1. UNCHANGED << catalog, results, acked >>
    BY <1>7 DEF ExecuteLoad
  <2>2. Loaded'
    BY <1>7 DEF ExecuteLoad, Goto, TypeOK, Catalogs, Loaded
  <2>3. Building'
    BY <1>7 DEF ExecuteLoad, Goto, TypeOK, Catalogs, Building
  <2>4. Expecting'
    BY <1>7 DEF ExecuteLoad, Goto, TypeOK, Catalogs, Expecting
  <2> QED
    BY <1>0, <2>1, <2>2, <2>3, <2>4, QuietStep
<1>8. ASSUME NEW d \in Daemons, ExecuteDiscover(d)
      PROVE  IInv'
  <2>1. UNCHANGED << catalog, results, acked >>
    BY <1>8 DEF ExecuteDiscover
  <2>2. Loaded' /\ Building' /\ Expecting'
    BY <1>8 DEF ExecuteDiscover, Goto, TypeOK, Loaded, Building, Expecting
  <2> QED
    BY <1>0, <2>1, <2>2, QuietStep
<1>9. ASSUME NEW d \in Daemons, ExecuteRun(d)
      PROVE  IInv'
  <2>1. UNCHANGED << catalog, results, acked >>
    BY <1>9 DEF ExecuteRun
  <2>2. Loaded' /\ Building' /\ Expecting'
    BY <1>9 DEF ExecuteRun, Goto, TypeOK, Loaded, Building, Expecting
  <2> QED
    BY <1>0, <2>1, <2>2, QuietStep
<1>10. ASSUME NEW d \in Daemons, ExecuteObserve(d)
       PROVE  IInv'
  <2> DEFINE p == ProjectRuntime(work[d], TRUE, live)
  <2>1. UNCHANGED << catalog, results, acked >>
    BY <1>10 DEF ExecuteObserve
  <2>2. /\ p.serial = work[d].serial /\ p.events = work[d].events
        /\ p.config = work[d].config
    BY ProjectionFields DEF TypeOK
  <2>3. /\ pc[d] = "observe" /\ pc' = [pc EXCEPT ![d] = "save"]
        /\ work' = [work EXCEPT ![d] = p]
        /\ UNCHANGED << req, cur, catalog >>
    BY <1>10 DEF ExecuteObserve, Goto
  <2> HIDE DEF p
  <2>4. Loaded' /\ Building' /\ Expecting'
    BY <2>2, <2>3 DEF TypeOK, Loaded, Building, Expecting
  <2> QED
    BY <1>0, <2>1, <2>4, QuietStep
<1>11. ASSUME NEW d \in Daemons, ExecuteSave(d)
       PROVE  IInv'
  <2> DEFINE k    == req[d]
             next == Mutated(work[d], k, cur[d].rev)
             row  == [key |-> k, base |-> cur[d].rev, new |-> cur[d].rev + 1]
  <2>1. /\ pc[d] = "save" /\ Swap(cur[d].rev, next) /\ Finish(d)
        /\ results' = results \cup {row}
        /\ acked' \in {acked, acked \cup {row}}
    BY <1>11 DEF ExecuteSave
  <2>2. /\ work[d] \in Catalogs /\ cur[d].rev \in Nat
        /\ work[d].events = cur[d].events /\ work[d].serial = cur[d].serial
        /\ k \in Keys /\ k.rev = cur[d].rev
    BY <2>1 DEF TypeOK, Building, Catalogs, Requesting, Expecting
  <2>3. /\ next \in Catalogs /\ next.serial = work[d].serial + 1
        /\ next.events = Append(work[d].events, k)
    BY <2>2, MutatedFields
  <2> HIDE DEF next, k
  <2>4. /\ cur[d] = catalog /\ catalog' = next
        /\ next.rev = catalog.rev + 1
    BY <2>1, SwapLoaded
  <2>5. LedgerAgrees' /\ IsFiniteSet(results)'
    BY <2>1, <2>2, <2>3, <2>4, LedgerCommit
  <2>6. Loaded' /\ Building' /\ Expecting'
    BY <1>0, <2>1, <2>4, FinishKeeps
  <2>7. (acked \subseteq results)'
    BY <2>1
  <2> QED
    BY <1>0, <2>5, <2>6, <2>7
<1>12. ASSUME NEW p \in Panes, External(p)
       PROVE  IInv'
  BY <1>12, <1>0, QuietStep DEF External, daemonVars, Loaded, Building, Expecting
<1> QED
  BY <1>1, <1>2, <1>3, <1>4, <1>5, <1>6, <1>7, <1>8, <1>9, <1>10, <1>11, <1>12
     DEF Next, Reconcile, ExecuteStep

(* The initial states satisfy the invariant.                               *)
LEMMA IInvInit == Init => IInv
<1> SUFFICES ASSUME Init PROVE IInv
  OBVIOUS
<1>1. TypeOK /\ Requesting
  BY NilIsCatalog DEF Init, TypeOK, Requesting, Labels, Entries
<1>2. Loaded /\ Building /\ Expecting
  BY DEF Init, Loaded, Building, Expecting
<1>3. IsFiniteSet(results) /\ Cardinality(results) = 0
  BY FS_EmptySet DEF Init
<1>4. LedgerAgrees
  BY <1>3 DEF Init, NilCatalog, LedgerAgrees, RowsAreLogged, LoggedHaveRows,
              CountersAgree
<1> QED
  BY <1>1, <1>2, <1>3, <1>4 DEF IInv, Init

(* The audit log, the rows, the revision and the mutation counter agree in *)
(* every reachable state, for any number of daemons on the store.          *)
THEOREM LedgerAlwaysAgrees == Spec => []LedgerAgrees
<1>1. IInv /\ [Next]_vars => IInv'
  BY IInvStep
<1>2. IInv => LedgerAgrees
  BY DEF IInv
<1> QED
  BY IInvInit, <1>1, <1>2, PTL DEF Spec

(* What a client was told is durable and unique.                           *)
THEOREM AnswersAreDurable == Spec => []AckedDurable
<1>1. IInv /\ [Next]_vars => IInv'
  BY IInvStep
<1>2. IInv => AckedDurable
  <2> SUFFICES ASSUME IInv, NEW r \in results, NEW s \in results,
                      r.key = s.key \/ r.new = s.new
               PROVE  r = s
    BY DEF IInv, AckedDurable
  <2>1. r \in Rows /\ s \in Rows
    BY DEF IInv, TypeOK
  <2>2. /\ r.base = r.key.rev /\ r.new = r.base + 1
        /\ s.base = s.key.rev /\ s.new = s.base + 1
        /\ catalog.events[r.new] = r.key /\ catalog.events[s.new] = s.key
    BY DEF IInv, LedgerAgrees, RowsAreLogged
  <2>3. r.key = s.key /\ r.base = s.base /\ r.new = s.new
    BY <2>1, <2>2 DEF Rows
  <2> QED
    BY <2>1, <2>3 DEF Rows
<1> QED
  BY IInvInit, <1>1, <1>2, PTL DEF Spec

(***************************************************************************)
(* Refinement                                                              *)
(***************************************************************************)

(* Only the two saves touch the catalog.                                   *)
LEMMA OnlySavesWrite ==
    ASSUME [Next]_vars, catalog' # catalog
    PROVE  \E d \in Daemons : ReconcileSave(d) \/ ExecuteSave(d)
BY DEF Next, vars, Reconcile, ExecuteStep, ReconcileLoad, ReconcileDiscover,
       ReconcileSame, ExecuteBegin, ExecuteLoad, ExecuteDiscover, ExecuteRun,
       ExecuteObserve, Abort, External

(* Each save appends one entry to the log of the current catalog: its own  *)
(* observation, or the command that expects exactly this revision.         *)
LEMMA SaveAppends ==
    ASSUME IInv, NEW d \in Daemons, ReconcileSave(d) \/ ExecuteSave(d)
    PROVE  \/ catalog'.events = Append(catalog.events, NoKey)
           \/ /\ req[d] \in Keys /\ req[d].rev = Len(catalog.events)
              /\ catalog'.events = Append(catalog.events, req[d])
<1> USE DEF IInv
<1>1. CASE ReconcileSave(d)
  <2> DEFINE next == Reconciled(work[d], cur[d].rev)
  <2>1. pc[d] = "record" /\ Swap(cur[d].rev, next)
    BY <1>1 DEF ReconcileSave
  <2>2. /\ work[d] \in Catalogs /\ cur[d].rev \in Nat
        /\ work[d].events = cur[d].events
    BY <2>1 DEF TypeOK, Building, Catalogs
  <2>3. next.events = Append(work[d].events, NoKey)
    BY <2>2, ReconciledFields
  <2> HIDE DEF next
  <2> QED
    BY <2>1, <2>2, <2>3, SwapLoaded
<1>2. CASE ExecuteSave(d)
  <2> DEFINE k    == req[d]
             next == Mutated(work[d], k, cur[d].rev)
  <2>1. pc[d] = "save" /\ Swap(cur[d].rev, next)
    BY <1>2 DEF ExecuteSave
  <2>2. /\ work[d] \in Catalogs /\ cur[d].rev \in Nat
        /\ work[d].events = cur[d].events
        /\ k \in Keys /\ k.rev = cur[d].rev
    BY <2>1 DEF TypeOK, Building, Catalogs, Requesting, Expecting
  <2>3. next.events = Append(work[d].events, k)
    BY <2>2, MutatedFields
  <2> HIDE DEF next
  <2>4. cur[d] = catalog /\ catalog' = next
    BY <2>1, SwapLoaded
  <2>5. catalog.rev = Len(catalog.events)
    BY DEF LedgerAgrees, CountersAgree
  <2> QED
    BY <2>2, <2>3, <2>4, <2>5
<1> QED
  BY <1>1, <1>2

(* The daemons implement the revision log.                                 *)
THEOREM ImplementsRevisionLog == Spec => RefinesLog
<1>1. Init => Log!Init
  BY DEF Init, NilCatalog, Log!Init
<1>2. IInv /\ [Next]_vars => [Log!Next]_(catalog.events)
  <2> SUFFICES ASSUME IInv, [Next]_vars, catalog' # catalog
               PROVE  Log!Next
    OBVIOUS
  <2>1. PICK d \in Daemons : ReconcileSave(d) \/ ExecuteSave(d)
    BY OnlySavesWrite
  <2> QED
    BY <2>1, SaveAppends DEF Log!Next, Log!Observe, Log!Commit
<1>3. IInv /\ [Next]_vars => IInv'
  BY IInvStep
<1> QED
  BY IInvInit, <1>1, <1>2, <1>3, PTL DEF Spec, RefinesLog, Log!Spec

(***************************************************************************)
(* What a commit keeps and what it stands for                              *)
(***************************************************************************)

(* An entry appended to the log moves the configuration exactly when it is *)
(* a ConfigSave.                                                           *)
LEMMA ConfigAppend ==
    ASSUME catalog \in Catalogs, ConfigNotLost, NEW e \in Entries,
           catalog'.events = Append(catalog.events, e),
           catalog'.config = IF e # NoKey /\ e.act.kind = "config"
                             THEN e ELSE catalog.config
    PROVE  ConfigNotLost'
<1> DEFINE n == Len(catalog.events)
<1>1. n \in Nat /\ catalog.events \in Seq(Entries)
  BY DEF Catalogs
<1>2. /\ Len(catalog'.events) = n + 1
      /\ \A i \in 1 .. n : catalog'.events[i] = catalog.events[i]
      /\ catalog'.events[n + 1] = e
  BY <1>1
<1> HIDE DEF n
<1>n. n = Len(catalog.events)
  BY DEF n
<1>3. CASE e # NoKey /\ e.act.kind = "config"
  <2>1. n + 1 \in ConfigEntries'
    BY <1>1, <1>2, <1>3 DEF ConfigEntries
  <2>2. \A j \in ConfigEntries' : j <= n + 1
    BY <1>1, <1>2 DEF ConfigEntries
  <2> QED
    BY <2>1, <2>2, <1>2, <1>3 DEF ConfigNotLost
<1>4. CASE ~(e # NoKey /\ e.act.kind = "config")
  <2>1. ConfigEntries' = ConfigEntries
    <3>1. ConfigEntries \subseteq ConfigEntries'
      BY <1>1, <1>2, <1>n DEF ConfigEntries
    <3>2. ASSUME NEW i \in ConfigEntries' PROVE i \in ConfigEntries
      <4>1. i \in 1 .. (n + 1) /\ catalog'.events[i] # NoKey
            /\ catalog'.events[i].act.kind = "config"
        BY <1>2 DEF ConfigEntries
      <4>2. i \in 1 .. n
        BY <4>1, <1>1, <1>2, <1>4
      <4> QED
        BY <4>1, <4>2, <1>2, <1>n DEF ConfigEntries
    <3> QED
      BY <3>1, <3>2
  <2>2. \A i \in ConfigEntries : catalog'.events[i] = catalog.events[i]
    BY <1>2, <1>n DEF ConfigEntries
  <2> QED
    BY <2>1, <2>2, <1>4 DEF ConfigNotLost
<1> QED
  BY <1>3, <1>4

(* No committed ConfigSave is ever lost.                                   *)
THEOREM ConfigNeverLost == Spec => []ConfigNotLost
<1>1. Init => ConfigNotLost
  BY DEF Init, NilCatalog, ConfigNotLost, ConfigEntries
<1>2. ASSUME IInv, ConfigNotLost, [Next]_vars PROVE ConfigNotLost'
  <2> USE DEF IInv
  <2>0. catalog \in Catalogs
    BY <1>2 DEF TypeOK
  <2>1. CASE UNCHANGED catalog
    BY <1>2, <2>1 DEF ConfigNotLost, ConfigEntries
  <2>2. ASSUME NEW d \in Daemons, ReconcileSave(d)
        PROVE  ConfigNotLost'
    <3> DEFINE next == Reconciled(work[d], cur[d].rev)
    <3>1. pc[d] = "record" /\ Swap(cur[d].rev, next)
      BY <2>2 DEF ReconcileSave
    <3>2. /\ work[d] \in Catalogs /\ cur[d].rev \in Nat
          /\ work[d].events = cur[d].events /\ work[d].config = cur[d].config
      BY <1>2, <3>1 DEF TypeOK, Building, Catalogs
    <3>3. /\ next.events = Append(work[d].events, NoKey)
          /\ next.config = work[d].config
      BY <3>2, ReconciledFields
    <3> HIDE DEF next
    <3>4. cur[d] = catalog /\ catalog' = next
      BY <1>2, <3>1, SwapLoaded
    <3>5. NoKey \in Entries
      BY DEF Entries
    <3> QED
      BY <1>2, <2>0, <3>2, <3>3, <3>4, <3>5, ConfigAppend
  <2>3. ASSUME NEW d \in Daemons, ExecuteSave(d)
        PROVE  ConfigNotLost'
    <3> DEFINE k    == req[d]
               next == Mutated(work[d], k, cur[d].rev)
    <3>1. pc[d] = "save" /\ Swap(cur[d].rev, next)
      BY <2>3 DEF ExecuteSave
    <3>2. /\ work[d] \in Catalogs /\ cur[d].rev \in Nat /\ k \in Keys
          /\ work[d].events = cur[d].events /\ work[d].config = cur[d].config
      BY <1>2, <3>1 DEF TypeOK, Building, Catalogs, Requesting
    <3>3. /\ next.events = Append(work[d].events, k)
          /\ next.config = IF k.act.kind = "config" THEN k
                           ELSE work[d].config
      BY <3>2, MutatedFields
    <3>4. k \in Entries /\ k # NoKey
      BY <3>2, NoKeyAssumption DEF Entries
    <3> HIDE DEF next, k
    <3>5. cur[d] = catalog /\ catalog' = next
      BY <1>2, <3>1, SwapLoaded
    <3> QED
      BY <1>2, <2>0, <3>2, <3>3, <3>4, <3>5, ConfigAppend
  <2> QED
    BY <1>2, <2>1, <2>2, <2>3, OnlySavesWrite
<1>3. IInv /\ [Next]_vars => IInv'
  BY IInvStep
<1> QED
  BY IInvInit, <1>1, <1>2, <1>3, PTL DEF Spec

(* A daemon about to commit a pane command has issued it and seen a killed *)
(* pane gone.                                                              *)
Issued ==
    \A d \in Daemons :
        /\ pc[d] \in {"observe", "save"} /\ req[d].act.kind # "config"
               => req[d] \in ran
        /\ pc[d] = "save" /\ req[d].act.kind = "kill"
               => req[d].act.target \notin work[d].panes

(* Every step keeps that.                                                  *)
LEMMA IssuedStep ==
    ASSUME IInv, Issued, [Next]_vars
    PROVE  Issued'
<1> USE DEF IInv
<1>1. ASSUME NEW d \in Daemons, Finish(d), UNCHANGED ran
      PROVE  Issued'
  BY <1>1 DEF Finish, Issued, TypeOK
<1>2. ASSUME NEW d \in Daemons,
             ReconcileLoad(d) \/ ExecuteLoad(d)
                 \/ \E ok \in BOOLEAN : ReconcileDiscover(d, ok)
      PROVE  Issued'
  BY <1>2 DEF ReconcileLoad, ExecuteLoad, ReconcileDiscover, Goto, Issued,
              TypeOK
<1>3. ASSUME NEW d \in Daemons, NEW k \in Keys, ExecuteBegin(d, k)
      PROVE  Issued'
  BY <1>3 DEF ExecuteBegin, Goto, Issued, TypeOK
<1>4. ASSUME NEW d \in Daemons, ExecuteDiscover(d)
      PROVE  Issued'
  <2>1. CASE req[d].act.kind = "config"
    BY <1>4, <2>1 DEF ExecuteDiscover, Goto, Issued, TypeOK
  <2>2. CASE req[d].act.kind # "config"
    BY <1>4, <2>2 DEF ExecuteDiscover, Goto, Issued, TypeOK
  <2> QED
    BY <2>1, <2>2
<1>5. ASSUME NEW d \in Daemons, ExecuteRun(d)
      PROVE  Issued'
  BY <1>5 DEF ExecuteRun, Goto, Issued, TypeOK
<1>6. ASSUME NEW d \in Daemons, ExecuteObserve(d)
      PROVE  Issued'
  <2> DEFINE p == ProjectRuntime(work[d], TRUE, live)
  <2>1. /\ pc[d] = "observe" /\ pc' = [pc EXCEPT ![d] = "save"]
        /\ work' = [work EXCEPT ![d] = p]
        /\ UNCHANGED << req, ran >>
        /\ req[d].act.kind = "kill" => req[d].act.target \notin p.panes
    BY <1>6 DEF ExecuteObserve, Goto, verifyRuntimeEffect
  <2> HIDE DEF p
  <2> QED
    BY <2>1 DEF Issued, TypeOK
<1>7. CASE UNCHANGED << daemonVars, ran >>
  BY <1>7 DEF daemonVars, Issued
<1> QED
  BY <1>1, <1>2, <1>3, <1>4, <1>5, <1>6, <1>7
     DEF Next, vars, daemonVars, Reconcile, ExecuteStep, ReconcileSame,
         ReconcileSave, ExecuteSave, Abort, External

(* A committed pane command was issued, and the catalog committed with a   *)
(* kill does not show the pane.                                            *)
THEOREM CommandsWereCarriedOut == Spec => []CommittedWereCarriedOut
<1>1. Init => Issued /\ CommittedWereCarriedOut
  BY DEF Init, Issued, CommittedWereCarriedOut
<1>2. ASSUME IInv, Issued, CommittedWereCarriedOut, [Next]_vars
      PROVE  CommittedWereCarriedOut'
  <2> USE DEF IInv
  <2>1. ran \subseteq ran'
    BY <1>2 DEF Next, vars, Reconcile, ExecuteStep, ReconcileLoad,
       ReconcileDiscover, ReconcileSame, ReconcileSave, ExecuteBegin,
       ExecuteLoad, ExecuteDiscover, ExecuteRun, ExecuteObserve, ExecuteSave,
       Abort, External
  <2>2. \A r \in results : r.new \in Nat /\ r.new <= catalog.rev
    BY <1>2 DEF LedgerAgrees, RowsAreLogged, CountersAgree, TypeOK, Rows
  <2>3. CASE UNCHANGED << catalog, results >>
    BY <1>2, <2>1, <2>3 DEF CommittedWereCarriedOut
  <2>4. ASSUME NEW d \in Daemons, ReconcileSave(d)
        PROVE  CommittedWereCarriedOut'
    <3> DEFINE next == Reconciled(work[d], cur[d].rev)
    <3>1. /\ pc[d] = "record" /\ Swap(cur[d].rev, next) /\ UNCHANGED results
      BY <2>4 DEF ReconcileSave
    <3> HIDE DEF next
    <3>2. catalog'.rev = catalog.rev + 1 /\ catalog.rev \in Nat
      BY <1>2, <3>1, SwapLoaded DEF TypeOK, Catalogs
    <3> QED
      BY <1>2, <2>1, <2>2, <3>1, <3>2 DEF CommittedWereCarriedOut
  <2>5. ASSUME NEW d \in Daemons, ExecuteSave(d)
        PROVE  CommittedWereCarriedOut'
    <3> DEFINE k    == req[d]
               next == Mutated(work[d], k, cur[d].rev)
               row  == [key |-> k, base |-> cur[d].rev,
                        new |-> cur[d].rev + 1]
    <3>1. /\ pc[d] = "save" /\ Swap(cur[d].rev, next)
          /\ results' = results \cup {row}
      BY <2>5 DEF ExecuteSave
    <3>2. work[d] \in Catalogs /\ cur[d].rev \in Nat /\ k \in Keys
      BY <1>2, <3>1 DEF TypeOK, Catalogs, Requesting
    <3>3. next.panes = work[d].panes
      BY <3>2, MutatedFields
    <3>4. /\ k.act.kind # "config" => k \in ran
          /\ k.act.kind = "kill" => k.act.target \notin work[d].panes
      BY <1>2, <3>1 DEF Issued
    <3> HIDE DEF next, k
    <3>5. /\ catalog'.rev = catalog.rev + 1 /\ catalog.rev \in Nat
          /\ catalog' = next
      BY <1>2, <3>1, SwapLoaded DEF TypeOK, Catalogs
    <3> QED
      BY <1>2, <2>1, <2>2, <3>1, <3>3, <3>4, <3>5
         DEF CommittedWereCarriedOut
  <2>6. CASE UNCHANGED catalog /\ results' # results
    <3>1. PICK d \in Daemons : ExecuteSave(d)
      BY <1>2, <2>6 DEF Next, vars, Reconcile, ExecuteStep, ReconcileLoad,
         ReconcileDiscover, ReconcileSame, ReconcileSave, ExecuteBegin,
         ExecuteLoad, ExecuteDiscover, ExecuteRun, ExecuteObserve, Abort,
         External
    <3> QED
      BY <3>1, <2>5
  <2> QED
    BY <1>2, <2>3, <2>4, <2>5, <2>6, OnlySavesWrite
<1>3. IInv /\ [Next]_vars => IInv'
  BY IInvStep
<1>4. IInv /\ Issued /\ [Next]_vars => Issued'
  BY IssuedStep
<1> QED
  BY IInvInit, <1>1, <1>2, <1>3, <1>4, PTL DEF Spec

(* The catalog a command may begin over does not contain the command: its  *)
(* row would have been written over an older revision.                     *)
LEMMA ExpectedIsNew ==
    ASSUME IInv, NEW k \in Keys, k.rev = catalog.rev,
           NEW i \in 1 .. Len(catalog.events)
    PROVE  catalog.events[i] # k
<1> USE DEF IInv
<1> SUFFICES ASSUME catalog.events[i] = k
             PROVE  FALSE
  OBVIOUS
<1>1. PICK r \in results : r.key = k /\ r.new = i
  BY NoKeyAssumption DEF LedgerAgrees, LoggedHaveRows
<1>2. /\ r.base = catalog.rev /\ r.new = r.base + 1
      /\ r.new <= Len(catalog.events) /\ catalog.rev = Len(catalog.events)
  BY <1>1 DEF LedgerAgrees, RowsAreLogged, CountersAgree
<1>3. catalog.rev \in Nat
  BY DEF TypeOK, Catalogs
<1> QED
  BY <1>2, <1>3

(* No daemon carries a command out again that its catalog contains.        *)
THEOREM CommandsAreNotRepeated == Spec => []NeverRepeated
<1>1. Init => NeverRepeated
  BY DEF Init, NeverRepeated
<1>2. ASSUME IInv, NeverRepeated, [Next]_vars PROVE NeverRepeated'
  <2> USE DEF IInv
  <2>1. ASSUME NEW d \in Daemons, Finish(d)
        PROVE  NeverRepeated'
    BY <1>2, <2>1 DEF Finish, NeverRepeated, TypeOK
  <2>2. ASSUME NEW d \in Daemons,
               ReconcileLoad(d) \/ \E ok \in BOOLEAN : ReconcileDiscover(d, ok)
        PROVE  NeverRepeated'
    BY <1>2, <2>2 DEF ReconcileLoad, ReconcileDiscover, Goto, NeverRepeated,
                      TypeOK
  <2>3. ASSUME NEW d \in Daemons, NEW k \in Keys, ExecuteBegin(d, k)
        PROVE  NeverRepeated'
    BY <1>2, <2>3 DEF ExecuteBegin, Goto, NeverRepeated, TypeOK
  <2>4. ASSUME NEW d \in Daemons, ExecuteLoad(d)
        PROVE  NeverRepeated'
    <3>1. /\ req[d] \in Keys /\ req[d].rev = catalog.rev
          /\ pc' = [pc EXCEPT ![d] = "discover"]
          /\ cur' = [cur EXCEPT ![d] = catalog] /\ req' = req
      BY <1>2, <2>4 DEF ExecuteLoad, Goto, Requesting
    <3>2. \A i \in 1 .. Len(catalog.events) : catalog.events[i] # req[d]
      BY <1>2, <3>1, ExpectedIsNew
    <3> QED
      BY <1>2, <3>1, <3>2 DEF NeverRepeated, TypeOK
  <2>5. ASSUME NEW d \in Daemons,
               ExecuteDiscover(d) \/ ExecuteRun(d) \/ ExecuteObserve(d)
        PROVE  NeverRepeated'
    <3>1. /\ UNCHANGED << cur, req >>
          /\ pc[d] \in {"discover", "run", "observe"}
          /\ \A e \in Daemons \ {d} : pc'[e] = pc[e]
      BY <1>2, <2>5 DEF ExecuteDiscover, ExecuteRun, ExecuteObserve, Goto, TypeOK
    <3> QED
      BY <1>2, <3>1 DEF NeverRepeated
  <2>6. CASE UNCHANGED daemonVars
    BY <1>2, <2>6 DEF daemonVars, NeverRepeated
  <2> QED
    BY <1>2, <2>1, <2>2, <2>3, <2>4, <2>5, <2>6
       DEF Next, vars, daemonVars, Reconcile, ExecuteStep, ReconcileSame,
           ReconcileSave, ExecuteSave, Abort, External
<1>3. IInv /\ [Next]_vars => IInv'
  BY IInvStep
<1> QED
  BY IInvInit, <1>1, <1>2, <1>3, PTL DEF Spec
=============================================================================
