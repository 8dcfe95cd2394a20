----------------------------- MODULE DemoProofs ------------------------------
(***************************************************************************)
(* Proofs about Demo as a part of MCDaemons, for any fixture and any       *)
(* number of acts, and the theorems about the backends that are of both    *)
(* parts, the catalog of tmhd and the demo's.                              *)
(***************************************************************************)
EXTENDS CatalogProofs

LEMMA MockFinite ==
    ASSUME NEW S
    PROVE  Mock!Cardinality(S) = Cardinality(S) /\ Mock!IsFiniteSet(S) = IsFiniteSet(S)
<1>1. Mock!Cardinality(S) = Cardinality(S) BY Zenon DEF Cardinality, Mock!Cardinality
<1>2. Mock!IsFiniteSet(S) = IsFiniteSet(S) BY Zenon DEF IsFiniteSet, Mock!IsFiniteSet
<1> QED BY <1>1, <1>2

LEMMA MockChosen ==
    ASSUME NEW T, NEW seq \in Seq(T), NEW S
    PROVE  Mock!Chosen(seq, S) \in Seq(T) /\ Picks(seq, Mock!Chosen(seq, S), S)
<1>1. Mock!Chosen(seq, S) = Chosen(seq, S) BY DEF Chosen, Mock!Chosen
<1> QED BY <1>1, ChosenOK

-----------------------------------------------------------------------------
(***************************************************************************)
(* States                                                                  *)
(***************************************************************************)

DemoWindows == [id : Nat, layout : Mock!Layouts, panes : Seq(Mock!PaneSpecs)]
WindowOK(w, m) == w \in DemoWindows /\ \A j \in DOMAIN w.panes : w.panes[j].id <= m

(* The states in which no surface has a number above a bound               *)
Shown(m) == {state \in Mock!States : Mock!Within(state, m)}

LEMMA WindowFields ==
    ASSUME NEW w \in DemoWindows
    PROVE  /\ w = [id |-> w.id, layout |-> w.layout, panes |-> w.panes]
           /\ w.id \in Nat /\ w.layout \in Mock!Layouts
           /\ w.panes \in Seq(Mock!PaneSpecs)
           /\ \A j \in DOMAIN w.panes : w.panes[j] \in Mock!PaneSpecs /\ w.panes[j].id \in Nat
<1>1. w = [id |-> w.id, layout |-> w.layout, panes |-> w.panes] BY DEF DemoWindows
<1>2. w.id \in Nat /\ w.layout \in Mock!Layouts BY DEF DemoWindows
<1>3. w.panes \in Seq(Mock!PaneSpecs) BY DEF DemoWindows
<1>4. \A p \in Mock!PaneSpecs : p.id \in Nat BY DEF Mock!PaneSpecs
<1>5. \A j \in DOMAIN w.panes : w.panes[j] \in Mock!PaneSpecs BY <1>3
<1> QED BY <1>1, <1>2, <1>3, <1>4, <1>5

LEMMA SurfacesAre ==
    ASSUME NEW state
    PROVE  /\ \A i \in DOMAIN state : \A j \in DOMAIN state[i].panes :
                 state[i].panes[j].id \in Mock!Surfaces(state)
           /\ \A x \in Mock!Surfaces(state) :
                 \E i \in DOMAIN state : \E j \in DOMAIN state[i].panes :
                    x = state[i].panes[j].id
<1>1. ASSUME NEW i \in DOMAIN state, NEW j \in DOMAIN state[i].panes
      PROVE  state[i].panes[j].id \in Mock!Surfaces(state)
  <2>1. state[i].panes[j] \in Mock!ToSet(state[i].panes) BY DEF Mock!ToSet
  <2> QED BY <2>1 DEF Mock!Surfaces, Mock!PanesOf
<1>2. ASSUME NEW x \in Mock!Surfaces(state)
      PROVE  \E i \in DOMAIN state : \E j \in DOMAIN state[i].panes :
                x = state[i].panes[j].id
  <2>1. PICK p \in Mock!PanesOf(state) : x = p.id BY DEF Mock!Surfaces
  <2>2. PICK i \in DOMAIN state : p \in Mock!ToSet(state[i].panes) BY DEF Mock!PanesOf
  <2>3. PICK j \in DOMAIN state[i].panes : p = state[i].panes[j] BY <2>2 DEF Mock!ToSet
  <2> QED BY <2>1, <2>2, <2>3
<1> QED BY <1>1, <1>2

LEMMA ShownIs ==
    ASSUME NEW state, NEW m
    PROVE  /\ state \in Shown(m) =>
                 /\ state \in Seq(DemoWindows) /\ state # << >>
                 /\ DOMAIN state = 1 .. Len(state) /\ Len(state) \in Nat \ {0}
                 /\ \A i \in DOMAIN state : WindowOK(state[i], m)
           /\ state \in Seq(DemoWindows) /\ state # << >>
                 /\ (\A i \in DOMAIN state : WindowOK(state[i], m)) => state \in Shown(m)
<1>1. Mock!States = Seq(DemoWindows) \ {<< >>} BY DEF Mock!States, DemoWindows
<1>2. ASSUME state \in Shown(m)
      PROVE  /\ state \in Seq(DemoWindows) /\ state # << >>
             /\ DOMAIN state = 1 .. Len(state) /\ Len(state) \in Nat \ {0}
             /\ \A i \in DOMAIN state : WindowOK(state[i], m)
  <2>1. state \in Seq(DemoWindows) /\ state # << >> /\ Mock!Within(state, m)
    BY <1>1, <1>2 DEF Shown
  <2>2. DOMAIN state = 1 .. Len(state) /\ Len(state) \in Nat \ {0} BY <2>1
  <2>3. ASSUME NEW i \in DOMAIN state PROVE WindowOK(state[i], m)
    <3>1. state[i] \in DemoWindows BY <2>1
    <3>2. \A j \in DOMAIN state[i].panes : state[i].panes[j].id <= m
      BY <2>1, SurfacesAre DEF Mock!Within
    <3> QED BY <3>1, <3>2 DEF WindowOK
  <2> QED BY <2>1, <2>2, <2>3
<1>3. ASSUME state \in Seq(DemoWindows), state # << >>,
             \A i \in DOMAIN state : WindowOK(state[i], m)
      PROVE  state \in Shown(m)
  <2>1. ASSUME NEW x \in Mock!Surfaces(state) PROVE x <= m
    <3>1. PICK i \in DOMAIN state : \E j \in DOMAIN state[i].panes : x = state[i].panes[j].id
      BY SurfacesAre
    <3> QED BY <1>3, <3>1 DEF WindowOK
  <2>2. Mock!Within(state, m) BY <2>1 DEF Mock!Within
  <2> QED BY <1>1, <1>3, <2>2 DEF Shown
<1> QED BY <1>2, <1>3

(* Windows that change, each in its place                                  *)
LEMMA ShownInPlace ==
    ASSUME NEW m, NEW state \in Shown(m), NEW n, NEW f,
           DOMAIN f = DOMAIN state, f = [i \in DOMAIN f |-> f[i]],
           \A i \in DOMAIN state : WindowOK(f[i], n)
    PROVE  f \in Shown(n)
<1>1. DOMAIN state = 1 .. Len(state) /\ Len(state) \in Nat \ {0} BY ShownIs
<1>2. \A i \in DOMAIN state : f[i] \in DemoWindows BY DEF WindowOK
<1>3. f \in [1 .. Len(state) -> DemoWindows] BY <1>1, <1>2
<1>4. f \in Seq(DemoWindows) /\ Len(f) = Len(state) BY <1>1, <1>3
<1>5. f # << >> BY <1>1, <1>4
<1> QED BY <1>4, <1>5, ShownIs

LEMMA WindowMade ==
    ASSUME NEW id \in Nat, NEW layout \in Mock!Layouts, NEW panes \in Seq(Mock!PaneSpecs), NEW m,
           \A j \in DOMAIN panes : panes[j].id <= m
    PROVE  WindowOK([id |-> id, layout |-> layout, panes |-> panes], m)
<1> DEFINE w == [id |-> id, layout |-> layout, panes |-> panes]
<1>1. w \in DemoWindows /\ w.panes = panes BY DEF DemoWindows
<1> HIDE DEF w
<1>2. WindowOK(w, m) BY <1>1 DEF WindowOK
<1> QED BY <1>2 DEF w

LEMMA LaidOut ==
    ASSUME NEW m, NEW w, WindowOK(w, m), NEW value \in Mock!Layouts
    PROVE  WindowOK([w EXCEPT !.layout = value], m)
<1> DEFINE x == [w EXCEPT !.layout = value]
<1>1. /\ w = [id |-> w.id, layout |-> w.layout, panes |-> w.panes]
      /\ w.id \in Nat /\ w.panes \in Seq(Mock!PaneSpecs)
      /\ \A j \in DOMAIN w.panes : w.panes[j].id <= m
  BY WindowFields DEF WindowOK
<1>2. x = [id |-> w.id, layout |-> value, panes |-> w.panes] BY <1>1
<1> HIDE DEF x
<1>3. WindowOK(x, m) BY <1>1, <1>2, WindowMade
<1> QED BY <1>3 DEF x

LEMMA PanesPut ==
    ASSUME NEW m, NEW w, WindowOK(w, m), NEW n, NEW panes \in Seq(Mock!PaneSpecs),
           \A j \in DOMAIN panes : panes[j].id <= n
    PROVE  WindowOK([w EXCEPT !.panes = panes], n)
<1> DEFINE x == [w EXCEPT !.panes = panes]
<1>1. /\ w = [id |-> w.id, layout |-> w.layout, panes |-> w.panes]
      /\ w.id \in Nat /\ w.layout \in Mock!Layouts
  BY WindowFields DEF WindowOK
<1>2. x = [id |-> w.id, layout |-> w.layout, panes |-> panes] BY <1>1
<1> HIDE DEF x
<1>3. WindowOK(x, n) BY <1>1, <1>2, WindowMade
<1> QED BY <1>3 DEF x

LEMMA PaneAdded ==
    ASSUME NEW m \in Nat, NEW w, WindowOK(w, m), NEW n \in Nat, m <= n,
           NEW p \in Mock!PaneSpecs, p.id <= n
    PROVE  /\ Append(w.panes, p) \in Seq(Mock!PaneSpecs)
           /\ \A j \in DOMAIN Append(w.panes, p) : Append(w.panes, p)[j].id <= n
<1> DEFINE s == w.panes
           t == Append(s, p)
<1>1. /\ s \in Seq(Mock!PaneSpecs) /\ \A j \in DOMAIN s : s[j].id <= m /\ s[j].id \in Nat
  BY WindowFields DEF WindowOK
<1> HIDE DEF s
<1>2. t \in Seq(Mock!PaneSpecs) /\ Len(t) = Len(s) + 1 /\ Len(s) \in Nat BY <1>1
<1>3. t[Len(t)] = p /\ \A j \in 1 .. Len(s) : t[j] = s[j] BY <1>1
<1>4. DOMAIN s = 1 .. Len(s) BY <1>1
<1> HIDE DEF t
<1>5. DOMAIN t = 1 .. Len(t) BY <1>2
<1>6. ASSUME NEW j \in DOMAIN t PROVE t[j].id <= n
  <2>1. CASE j = Len(t) BY <1>3, <2>1
  <2>2. CASE j # Len(t)
    <3>1. j \in 1 .. Len(s) BY <1>2, <1>5, <2>2
    <3>2. s[j].id <= m /\ s[j].id \in Nat BY <1>1, <1>4, <3>1
    <3> QED BY <1>3, <3>1, <3>2
  <2> QED BY <2>1, <2>2
<1> QED BY <1>2, <1>6 DEF t, s

LEMMA PaneMade ==
    ASSUME NEW id \in Nat, NEW split \in {"none", "lost"}
    PROVE  Mock!Pane(id, split) \in Mock!PaneSpecs /\ Mock!Pane(id, split).id = id
BY DEF Mock!Pane, Mock!PaneSpecs

-----------------------------------------------------------------------------
(***************************************************************************)
(* Operations                                                              *)
(***************************************************************************)

FieldOK(f, m) ==
    f \in {"window", "surface"} \X Nat /\ (f[1] = "surface" => f[2] <= m)

LEMMA SetFieldOK ==
    ASSUME NEW m \in Nat, NEW state \in Shown(m), NEW f, FieldOK(f, m),
           NEW value, f[1] = "window" => value \in Mock!Layouts
    PROVE  Mock!SetField(state, f, value) \in Shown(m)
<1>1. /\ state \in Seq(DemoWindows) /\ state # << >>
      /\ DOMAIN state = 1 .. Len(state) /\ Len(state) \in Nat \ {0}
      /\ \A i \in DOMAIN state : WindowOK(state[i], m)
  BY ShownIs
<1>2. CASE f[1] = "window"
  <2> DEFINE g == [i \in DOMAIN state |->
                      IF state[i].id = f[2] THEN [state[i] EXCEPT !.layout = value]
                      ELSE state[i]]
  <2>1. Mock!SetField(state, f, value) = g BY <1>2 DEF Mock!SetField
  <2>2. \A i \in DOMAIN state : WindowOK(g[i], m) BY <1>1, <1>2, LaidOut
  <2>3. DOMAIN g = DOMAIN state /\ g = [i \in DOMAIN g |-> g[i]] OBVIOUS
  <2> HIDE DEF g
  <2> QED BY <2>1, <2>2, <2>3, ShownInPlace
<1>3. CASE f[1] # "window" /\ f \in Mock!Fields(state) BY <1>3 DEF Mock!SetField
<1>4. CASE f[1] # "window" /\ f \notin Mock!Fields(state)
  <2> DEFINE k == Len(state)
             pane == Mock!Pane(f[2], "lost")
             panes == Append(state[k].panes, pane)
             g == [state EXCEPT ![k].panes = panes]
  <2>1. Mock!SetField(state, f, value) = g BY <1>4 DEF Mock!SetField
  <2>2. f[2] \in Nat /\ f[2] <= m BY <1>4 DEF FieldOK
  <2>3. pane \in Mock!PaneSpecs /\ pane.id = f[2] BY <2>2, PaneMade
  <2> HIDE DEF pane
  <2>4. k \in DOMAIN state /\ WindowOK(state[k], m) BY <1>1
  <2>5. panes \in Seq(Mock!PaneSpecs) /\ \A j \in DOMAIN panes : panes[j].id <= m
    BY <2>2, <2>3, <2>4, PaneAdded
  <2> HIDE DEF panes, k
  <2>6. WindowOK([state[k] EXCEPT !.panes = panes], m) BY <2>4, <2>5, PanesPut
  <2>7. \A i \in DOMAIN state : WindowOK(g[i], m) BY <1>1, <2>6
  <2>8. DOMAIN g = DOMAIN state /\ g = [i \in DOMAIN g |-> g[i]] BY <1>1
  <2> HIDE DEF g
  <2> QED BY <2>1, <2>7, <2>8, ShownInPlace
<1> QED BY <1>2, <1>3, <1>4

LEMMA RemoveFieldOK ==
    ASSUME NEW m \in Nat, NEW state \in Shown(m), NEW f
    PROVE  Mock!RemoveField(state, f) \in Shown(m)
<1> DEFINE left(w) == {p \in Mock!ToSet(w.panes) : p.id # f[2]}
           panes(w) == Mock!Chosen(w.panes, left(w))
           g == [i \in DOMAIN state |-> [state[i] EXCEPT !.panes = panes(state[i])]]
<1>1. \A i \in DOMAIN state : WindowOK(state[i], m) BY ShownIs
<1>2. Mock!RemoveField(state, f) = g BY DEF Mock!RemoveField
<1>3. ASSUME NEW w, WindowOK(w, m) PROVE WindowOK([w EXCEPT !.panes = panes(w)], m)
  <2> DEFINE s == panes(w)
             S == left(w)
  <2>1. w.panes \in Seq(Mock!PaneSpecs) BY <1>3, WindowFields DEF WindowOK
  <2>2. \A p \in S : p.id <= m BY <1>3 DEF WindowOK, Mock!ToSet
  <2>3. s = Mock!Chosen(w.panes, S) OBVIOUS
  <2> HIDE DEF s, S
  <2>4. s \in Seq(Mock!PaneSpecs) /\ Picks(w.panes, s, S) BY <2>1, <2>3, MockChosen
  <2>5. \A j \in DOMAIN s : s[j].id <= m BY <2>2, <2>4 DEF Picks
  <2>6. WindowOK([w EXCEPT !.panes = s], m) BY <1>3, <2>4, <2>5, PanesPut
  <2> QED BY <2>6 DEF s
<1> HIDE DEF panes
<1>4. \A i \in DOMAIN state : WindowOK(g[i], m) BY <1>1, <1>3
<1>5. DOMAIN g = DOMAIN state /\ g = [i \in DOMAIN g |-> g[i]] OBVIOUS
<1> HIDE DEF g
<1> QED BY <1>2, <1>4, <1>5, ShownInPlace

LEMMA OpFields ==
    ASSUME NEW m, NEW op \in Mock!Ops(m)
    PROVE  /\ FieldOK(op.field, m)
           /\ op.before \in Mock!Values(op.field) /\ op.after \in Mock!Values(op.field)
BY DEF Mock!Ops, FieldOK

LEMMA RedoOK ==
    ASSUME NEW m \in Nat, NEW state \in Shown(m), NEW op \in Mock!Ops(m)
    PROVE  Mock!Redo(state, op) \in Shown(m) /\ Mock!Revert(state, op) \in Shown(m)
<1>1. FieldOK(op.field, m) BY OpFields
<1>2. /\ op.field[1] = "window" /\ op.before # Mock!Absent => op.before \in Mock!Layouts
      /\ op.field[1] = "window" /\ op.after # Mock!Absent => op.after \in Mock!Layouts
  BY OpFields DEF Mock!Values
<1>3. Mock!RemoveField(state, op.field) \in Shown(m) BY RemoveFieldOK
<1>4. op.after # Mock!Absent => Mock!SetField(state, op.field, op.after) \in Shown(m)
  BY <1>1, <1>2, SetFieldOK
<1>5. op.before # Mock!Absent => Mock!SetField(state, op.field, op.before) \in Shown(m)
  BY <1>1, <1>2, SetFieldOK
<1> QED BY <1>3, <1>4, <1>5 DEF Mock!Redo, Mock!Revert

(* What operations make of a state is a state again.                       *)

LEMMA RedoneOK ==
    ASSUME NEW m \in Nat, NEW state \in Shown(m), NEW ops \in Seq(Mock!Ops(m))
    PROVE  Mock!Redone(state, ops) \in Shown(m)
<1> DEFINE n == Len(ops)
           next(f, i) == IF i = 0 THEN state ELSE Mock!Redo(f[i - 1], ops[i])
           upTo == CHOOSE f : f = [i \in 0 .. n |-> next(f, i)]
           g == [i \in 1 .. n |-> [s \in Shown(m) |-> Mock!Redo(s, ops[i])]]
<1>1. n \in Nat /\ \A i \in 1 .. n : ops[i] \in Mock!Ops(m) OBVIOUS
<1>2. Mock!Redone(state, ops) = upTo[n] BY DEF Mock!Redone
<1>3. g \in Ways(n, Shown(m)) BY <1>1, RedoOK DEF Ways
<1>4. PICK f \in [0 .. n -> Shown(m)] : Follows(f, n, state, g)
  <2> HIDE DEF g, n
  <2> QED BY <1>1, <1>3, Recursion
<1>5. ASSUME NEW i \in 0 .. n PROVE f[i] = next(f, i)
  <2>1. CASE i = 0 BY <1>4, <2>1 DEF Follows
  <2>2. CASE i # 0
    <3>1. i \in 1 .. n /\ i - 1 \in 0 .. n BY <1>1, <2>2
    <3>2. f[i] = g[i][f[i - 1]] BY <1>4, <3>1 DEF Follows
    <3>3. f[i - 1] \in Shown(m) BY <3>1
    <3> QED BY <2>2, <3>1, <3>2, <3>3
  <2> QED BY <2>1, <2>2
<1>6. f = [i \in 0 .. n |-> next(f, i)] BY <1>5
<1>7. upTo = [i \in 0 .. n |-> next(upTo, i)] BY <1>6, Zenon
<1> HIDE DEF upTo, g
<1> DEFINE Reached == {i \in 0 .. n : upTo[i] \in Shown(m)}
<1>8. 0 \in Reached
  <2>1. 0 \in 0 .. n BY <1>1
  <2> QED BY <1>7, <2>1
<1>9. ASSUME NEW i \in 1 .. n, i - 1 \in Reached PROVE i \in Reached
  <2>1. i \in 0 .. n /\ i # 0 BY <1>1
  <2>2. upTo[i] = Mock!Redo(upTo[i - 1], ops[i]) BY <1>7, <2>1
  <2>3. upTo[i - 1] \in Shown(m) BY <1>9
  <2> QED BY <1>1, <2>1, <2>2, <2>3, RedoOK
<1>10. n \in Reached
  <2> HIDE DEF Reached
  <2>1. \A i \in 0 .. n : i \in Reached BY <1>1, <1>8, <1>9, CountUp
  <2> QED BY <1>1, <2>1
<1> QED BY <1>2, <1>10

LEMMA RolledOK ==
    ASSUME NEW m \in Nat, NEW state \in Shown(m), NEW ops \in Seq(Mock!Ops(m))
    PROVE  Mock!Rolled(state, ops) \in Shown(m)
<1> DEFINE n == Len(ops)
           next(f, i) == IF i = 0 THEN state ELSE Mock!Revert(f[i - 1], ops[n + 1 - i])
           upTo == CHOOSE f : f = [i \in 0 .. n |-> next(f, i)]
           g == [i \in 1 .. n |-> [s \in Shown(m) |-> Mock!Revert(s, ops[n + 1 - i])]]
<1>1. n \in Nat /\ \A i \in 1 .. n : ops[n + 1 - i] \in Mock!Ops(m) OBVIOUS
<1>2. Mock!Rolled(state, ops) = upTo[n] BY DEF Mock!Rolled
<1>3. g \in Ways(n, Shown(m)) BY <1>1, RedoOK DEF Ways
<1>4. PICK f \in [0 .. n -> Shown(m)] : Follows(f, n, state, g)
  <2> HIDE DEF g, n
  <2> QED BY <1>1, <1>3, Recursion
<1>5. ASSUME NEW i \in 0 .. n PROVE f[i] = next(f, i)
  <2>1. CASE i = 0 BY <1>4, <2>1 DEF Follows
  <2>2. CASE i # 0
    <3>1. i \in 1 .. n /\ i - 1 \in 0 .. n BY <1>1, <2>2
    <3>2. f[i] = g[i][f[i - 1]] BY <1>4, <3>1 DEF Follows
    <3>3. f[i - 1] \in Shown(m) BY <3>1
    <3> QED BY <2>2, <3>1, <3>2, <3>3
  <2> QED BY <2>1, <2>2
<1>6. f = [i \in 0 .. n |-> next(f, i)] BY <1>5
<1>7. upTo = [i \in 0 .. n |-> next(upTo, i)] BY <1>6, Zenon
<1> HIDE DEF upTo, g
<1> DEFINE Reached == {i \in 0 .. n : upTo[i] \in Shown(m)}
<1>8. 0 \in Reached
  <2>1. 0 \in 0 .. n BY <1>1
  <2> QED BY <1>7, <2>1
<1>9. ASSUME NEW i \in 1 .. n, i - 1 \in Reached PROVE i \in Reached
  <2>1. i \in 0 .. n /\ i # 0 BY <1>1
  <2>2. upTo[i] = Mock!Revert(upTo[i - 1], ops[n + 1 - i]) BY <1>7, <2>1
  <2>3. upTo[i - 1] \in Shown(m) BY <1>9
  <2> QED BY <1>1, <2>1, <2>2, <2>3, RedoOK
<1>10. n \in Reached
  <2> HIDE DEF Reached
  <2>1. \A i \in 0 .. n : i \in Reached BY <1>1, <1>8, <1>9, CountUp
  <2> QED BY <1>1, <2>1
<1> QED BY <1>2, <1>10

-----------------------------------------------------------------------------
(***************************************************************************)
(* Operations in order                                                     *)
(***************************************************************************)

(* Finitely many operations, one for a field                               *)
Single(ops) == \A o, p \in ops : o.field = p.field => o = p
OpsOK(ops, m) == ops \in SUBSET Mock!Ops(m) /\ IsFiniteSet(ops) /\ Single(ops)

LEMMA EarlierOrders ==
    ASSUME NEW m, NEW S, OpsOK(S, m)
    PROVE  /\ \A o \in S : ~ Mock!Earlier(o, o)
           /\ \A o, p, q \in S :
                 Mock!Earlier(o, p) /\ Mock!Earlier(p, q) => Mock!Earlier(o, q)
           /\ \A o, p \in S : o # p => Mock!Earlier(o, p) \/ Mock!Earlier(p, o)
<1>1. \A o \in S : /\ o.field[1] \in {"window", "surface"} /\ o.field[2] \in Nat
                   /\ o.field = << o.field[1], o.field[2] >>
  <2>1. \A o \in S : FieldOK(o.field, m) BY OpFields DEF OpsOK
  <2> QED BY <2>1 DEF FieldOK
<1>2. ASSUME NEW o \in S, NEW p \in S, o # p PROVE Mock!Earlier(o, p) \/ Mock!Earlier(p, o)
  <2>1. o.field # p.field BY <1>2 DEF OpsOK, Single
  <2> DEFINE a == o.field
             b == p.field
  <2>2. a = << a[1], a[2] >> /\ b = << b[1], b[2] >> BY <1>1
  <2>3. a[1] # b[1] \/ a[2] # b[2]
    <3> HIDE DEF a, b
    <3>1. ASSUME a[1] = b[1], a[2] = b[2] PROVE a = b BY <2>2, <3>1
    <3>2. a # b BY <2>1 DEF a, b
    <3> QED BY <3>1, <3>2
  <2> QED BY <1>1, <2>3 DEF Mock!Earlier
<1>3. ASSUME NEW o \in S, NEW p \in S, NEW q \in S, Mock!Earlier(o, p), Mock!Earlier(p, q)
      PROVE  Mock!Earlier(o, q)
  BY <1>1, <1>3 DEF Mock!Earlier
<1> QED BY <1>1, <1>2, <1>3 DEF Mock!Earlier

(* No two operations have as many before them, so that every rank is       *)
(* somebody's.                                                             *)
LEMMA RankedOps ==
    ASSUME NEW m, NEW S, OpsOK(S, m)
    PROVE  /\ Cardinality(S) \in Nat
           /\ \A k \in 0 .. Cardinality(S) - 1 :
                 \E o \in S : Cardinality({p \in S : Mock!Earlier(p, o)}) = k
<1> DEFINE B(o) == {p \in S : Mock!Earlier(p, o)}
           n == Cardinality(S)
           rank == [o \in S |-> Cardinality(B(o))]
<1>1. IsFiniteSet(S) /\ n \in Nat BY FS_CardinalityType DEF OpsOK
<1>2. ASSUME NEW o \in S PROVE Cardinality(B(o)) \in 0 .. n - 1 /\ IsFiniteSet(B(o))
  <2>1. B(o) \in SUBSET S /\ B(o) # S BY EarlierOrders
  <2>2. IsFiniteSet(B(o)) /\ Cardinality(B(o)) <= n /\ Cardinality(B(o)) # n
    BY <1>1, <2>1, FS_Subset
  <2>3. Cardinality(B(o)) \in Nat BY <2>2, FS_CardinalityType
  <2> QED BY <1>1, <2>2, <2>3
<1>3. ASSUME NEW o \in S, NEW p \in S, Mock!Earlier(o, p)
      PROVE  Cardinality(B(o)) < Cardinality(B(p))
  <2>1. o \in B(p) /\ o \notin B(o) BY <1>3, EarlierOrders
  <2>2. B(o) \in SUBSET B(p) BY <1>3, EarlierOrders
  <2>3. Cardinality(B(o)) <= Cardinality(B(p)) /\ Cardinality(B(o)) # Cardinality(B(p))
    BY <1>2, <2>1, <2>2, FS_Subset
  <2> QED BY <1>2, <2>3
<1>4. ASSUME NEW o \in S, NEW p \in S, Cardinality(B(o)) = Cardinality(B(p))
      PROVE  o = p
  <2> HIDE DEF B
  <2>1. Cardinality(B(o)) \in 0 .. n - 1 BY <1>2
  <2>2. Mock!Earlier(o, p) => FALSE BY <1>1, <1>3, <1>4, <2>1
  <2>3. Mock!Earlier(p, o) => FALSE BY <1>1, <1>3, <1>4, <2>1
  <2> QED BY <2>2, <2>3, EarlierOrders
<1>5. rank \in Injection(S, 0 .. n - 1) BY <1>2, <1>4 DEF Injection, IsInjective
<1>6. IsFiniteSet(0 .. n - 1) /\ Cardinality(0 .. n - 1) = n
  <2> HIDE DEF n
  <2>1. n - 1 \in Int /\ 0 \in Int BY <1>1
  <2>2. /\ IsFiniteSet(0 .. n - 1)
        /\ Cardinality(0 .. n - 1) = IF 0 > n - 1 THEN 0 ELSE n - 1 - 0 + 1
    BY <2>1, FS_Interval
  <2> QED BY <1>1, <2>2
<1>7. rank \in Surjection(S, 0 .. n - 1) BY <1>5, <1>6, FS_Injection
<1>8. \A k \in 0 .. n - 1 : \E o \in S : rank[o] = k BY <1>7 DEF Surjection
<1> QED BY <1>1, <1>8

LEMMA PlanOrderOK ==
    ASSUME NEW m, NEW S, OpsOK(S, m)
    PROVE  Mock!InPlanOrder(S) \in Seq(Mock!Ops(m))
<1> DEFINE s == Mock!InPlanOrder(S)
           R(o) == Cardinality({p \in S : Mock!Earlier(p, o)})
           n == Cardinality(S)
<1>1. n \in Nat /\ \A k \in 0 .. n - 1 : \E o \in S : R(o) = k BY RankedOps
<1>2. s = [k \in 1 .. n |-> CHOOSE o \in S : R(o) = k - 1]
  <2>1. Mock!Cardinality(S) = n BY MockFinite
  <2>2. \A o : Mock!Cardinality({p \in S : Mock!Earlier(p, o)}) = R(o) BY MockFinite
  <2> HIDE DEF n, R
  <2> QED BY <2>1, <2>2 DEF Mock!InPlanOrder
<1>3. ASSUME NEW k \in 1 .. n PROVE s[k] \in S
  <2>1. k - 1 \in 0 .. n - 1 BY <1>1
  <2>2. \E o \in S : R(o) = k - 1 BY <1>1, <2>1
  <2>3. s[k] = CHOOSE o \in S : R(o) = k - 1 BY <1>2
  <2> HIDE DEF s, R
  <2> QED BY <2>2, <2>3
<1>4. \A k \in 1 .. n : s[k] \in Mock!Ops(m) BY <1>3 DEF OpsOK
<1> HIDE DEF s, n
<1>5. s \in [1 .. n -> Mock!Ops(m)] BY <1>2, <1>4
<1> QED BY <1>1, <1>5 DEF s

LEMMA ImagesFinite ==
    ASSUME NEW S, IsFiniteSet(S), NEW f
    PROVE  IsFiniteSet({f[x] : x \in S})
<1> DEFINE g == [x \in S |-> f[x]]
           T == {f[x] : x \in S}
<1>1. g \in Surjection(S, T) BY Zenon DEF Surjection
<1> HIDE DEF g, T
<1>2. IsFiniteSet(T) BY <1>1, FS_Surjection
<1> QED BY <1>2 DEF T

(* The fields of a state                                                   *)
LEMMA FieldsOK ==
    ASSUME NEW m \in Nat, NEW state \in Shown(m)
    PROVE  /\ IsFiniteSet(Mock!Fields(state))
           /\ \A f \in Mock!Fields(state) :
                 /\ FieldOK(f, m) /\ Mock!Value(state, f) \in Mock!Values(f)
<1> DEFINE W == { << "window", state[i].id >> : i \in DOMAIN state }
           S == { << "surface", s >> : s \in Mock!Surfaces(state) }
<1>1. /\ DOMAIN state = 1 .. Len(state) /\ Len(state) \in Nat
      /\ \A i \in DOMAIN state : WindowOK(state[i], m)
  BY ShownIs
<1>2. \A i \in DOMAIN state : state[i].id \in Nat /\ state[i].layout \in Mock!Layouts
  BY <1>1, WindowFields DEF WindowOK
<1>3. \A s \in Mock!Surfaces(state) : s \in 0 .. m
  <2> TAKE s \in Mock!Surfaces(state)
  <2>1. PICK i \in DOMAIN state : \E j \in DOMAIN state[i].panes : s = state[i].panes[j].id
    BY SurfacesAre
  <2>2. PICK j \in DOMAIN state[i].panes : s = state[i].panes[j].id BY <2>1
  <2>3. s \in Nat /\ s <= m BY <1>1, <2>2, WindowFields DEF WindowOK
  <2> QED BY <2>3
<1>4. Mock!Fields(state) = W \cup S BY DEF Mock!Fields
<1>5. IsFiniteSet(W)
  <2> DEFINE f == [i \in DOMAIN state |-> << "window", state[i].id >>]
  <2>1. W = {f[i] : i \in DOMAIN state} OBVIOUS
  <2>2. IsFiniteSet(DOMAIN state) BY <1>1, FS_Interval
  <2> HIDE DEF f, W
  <2> QED BY <2>1, <2>2, ImagesFinite
<1>6. IsFiniteSet(S)
  <2> DEFINE f == [s \in Mock!Surfaces(state) |-> << "surface", s >>]
  <2>1. S = {f[s] : s \in Mock!Surfaces(state)} OBVIOUS
  <2>2. IsFiniteSet(0 .. m) BY FS_Interval
  <2>3. IsFiniteSet(Mock!Surfaces(state)) BY <1>3, <2>2, FS_Subset
  <2> HIDE DEF f, S
  <2> QED BY <2>1, <2>3, ImagesFinite
<1>7. ASSUME NEW f \in Mock!Fields(state)
      PROVE  FieldOK(f, m) /\ Mock!Value(state, f) \in Mock!Values(f)
  <2>1. CASE f \in W
    <3>1. PICK i \in DOMAIN state : f = << "window", state[i].id >> BY <2>1
    <3>2. FieldOK(f, m) BY <1>2, <3>1 DEF FieldOK
    <3>3. f[1] = "window" /\ f[2] = state[i].id BY <3>1
    <3> DEFINE k == CHOOSE j \in DOMAIN state : state[j].id = f[2]
    <3>4. k \in DOMAIN state BY <3>3
    <3>5. Mock!Value(state, f) = state[k].layout BY <3>3 DEF Mock!Value
    <3> HIDE DEF k
    <3> QED BY <1>2, <3>2, <3>3, <3>4, <3>5 DEF Mock!Values
  <2>2. CASE f \in S
    <3>1. PICK s \in Mock!Surfaces(state) : f = << "surface", s >> BY <2>2
    <3>2. FieldOK(f, m) BY <1>3, <3>1 DEF FieldOK
    <3> QED BY <3>1, <3>2 DEF Mock!Value, Mock!Values
  <2> QED BY <1>4, <2>1, <2>2
<1>8. IsFiniteSet(W \cup S)
  <2> HIDE DEF W, S
  <2> QED BY <1>5, <1>6, FS_Union
<1> QED BY <1>4, <1>7, <1>8

LEMMA DiffOK ==
    ASSUME NEW m \in Nat, NEW a \in Shown(m), NEW b \in Shown(m)
    PROVE  OpsOK(Mock!Diff(a, b), m)
<1> DEFINE A == Mock!Fields(a) \cup Mock!Fields(b)
           G == { g \in A : Mock!Value(a, g) # Mock!Value(b, g) }
           op(f) == Mock!Op(f, Mock!Value(a, f), Mock!Value(b, f))
           D == {op(f) : f \in G}
<1>1. Mock!Diff(a, b) = D BY DEF Mock!Diff
<1>2. \A f \in G : /\ FieldOK(f, m)
                   /\ Mock!Value(a, f) \in Mock!Values(f)
                   /\ Mock!Value(b, f) \in Mock!Values(f)
  <2>1. \A f : f \notin Mock!Fields(a) => Mock!Value(a, f) \in Mock!Values(f)
    BY DEF Mock!Value, Mock!Values
  <2>2. \A f : f \notin Mock!Fields(b) => Mock!Value(b, f) \in Mock!Values(f)
    BY DEF Mock!Value, Mock!Values
  <2> QED BY <2>1, <2>2, FieldsOK
<1>3. \A f : op(f).field = f BY DEF Mock!Op
<1>4. ASSUME NEW f \in G PROVE op(f) \in Mock!Ops(m)
  <2> DEFINE x == Mock!Value(a, f)
             y == Mock!Value(b, f)
  <2>1. FieldOK(f, m) /\ x \in Mock!Values(f) /\ y \in Mock!Values(f) BY <1>2
  <2>2. op(f) = [field |-> f, before |-> x, after |-> y] BY DEF Mock!Op
  <2> HIDE DEF x, y, op
  <2>3. /\ x \in Mock!Layouts \cup {Mock!Absent, "present"}
        /\ y \in Mock!Layouts \cup {Mock!Absent, "present"}
    BY <2>1 DEF Mock!Values
  <2> QED BY <2>1, <2>2, <2>3 DEF Mock!Ops, FieldOK
<1>5. IsFiniteSet(D)
  <2> DEFINE h == [f \in G |-> op(f)]
  <2>1. IsFiniteSet(A) BY FieldsOK, FS_Union
  <2>2. IsFiniteSet(G)
    <3> HIDE DEF A
    <3> QED BY <2>1, FS_Subset
  <2>3. D = {h[f] : f \in G} OBVIOUS
  <2> HIDE DEF h, G, D
  <2> QED BY <2>2, <2>3, ImagesFinite
<1> HIDE DEF op, G
<1>6. Single(D)
  <2>1. ASSUME NEW o \in D, NEW p \in D, o.field = p.field PROVE o = p
    <3>1. PICK f \in G : o = op(f) OBVIOUS
    <3>2. PICK g \in G : p = op(g) OBVIOUS
    <3> QED BY <1>3, <2>1, <3>1, <3>2
  <2> QED BY <2>1 DEF Single
<1>7. D \in SUBSET Mock!Ops(m) BY <1>4
<1> HIDE DEF D
<1> QED BY <1>1, <1>5, <1>6, <1>7 DEF OpsOK

-----------------------------------------------------------------------------
(***************************************************************************)
(* The invariant: the catalog part by part                                 *)
(***************************************************************************)

Numbers == [term : Nat, sf : Nat, snap : Nat, plan : Nat]
Covers(n, k) == n.term <= k.term /\ n.sf <= k.sf /\ n.snap <= k.snap /\ n.plan <= k.plan

DemoTerms(terms, n) ==
    \A t \in DOMAIN terms :
       t \in 1 .. n.term /\ terms[t] \in [ws : Mock!Workspaces, sf : Nat, live : BOOLEAN]
DemoAgents(agents, terms) ==
    \A a \in DOMAIN agents :
       agents[a] \in [ws : Mock!Workspaces, term : DOMAIN terms \cup {Mock!NoTerminal},
                      state : {"running", "waiting", "done"}, claimed : BOOLEAN]
DemoViews(views) == \A v \in DOMAIN views : views[v] \in [pinned : BOOLEAN, fresh : BOOLEAN]
DemoSpaces(ws, n) ==
    /\ DOMAIN ws = Mock!Workspaces
    /\ \A w \in Mock!Workspaces : Mock!WorkspaceOK(ws[w], n)
DemoSnaps(snaps, n) == \A s \in snaps : Mock!SnapshotOK(s, n)
DemoPlans(plans, n, serial) ==
    \A p \in plans : /\ Mock!PlanOK(p, n, serial)
                     /\ OpsOK(p.ops.push, n.sf) /\ OpsOK(p.ops.pull, n.sf)

HasParts(c) ==
    {"ws", "terms", "agents", "views", "snaps", "plans", "serial"} \subseteq DOMAIN c

(* What validates and is typed for these counters and this serial          *)
Whole(c, n, serial) ==
    /\ HasParts(c) /\ n \in Numbers
    /\ DemoSpaces(c.ws, n) /\ DemoTerms(c.terms, n) /\ DemoAgents(c.agents, c.terms)
    /\ DemoViews(c.views) /\ DemoSnaps(c.snaps, n) /\ DemoPlans(c.plans, n, serial)

DemoInv ==
    /\ Whole(demo, counters, demo.serial) /\ demo.serial \in Nat /\ Mock!Valid(demo)
    /\ tried \in 0 .. MaxActs /\ demo.serial <= tried

(* What an act makes of it                                                 *)
DemoActed == DemoInv' /\ (demo' = demo \/ demo'.serial = demo.serial + 1)

LEMMA DemoTypeOK ==
    ASSUME DemoInv
    PROVE  Mock!TypeOK
<1>1. Mock!CatalogOK(demo, counters)
  BY DEF DemoInv, Whole, HasParts, Numbers, DemoSpaces, DemoTerms, DemoAgents, DemoViews,
         DemoSnaps, DemoPlans, Mock!CatalogOK
<1> QED BY <1>1 DEF DemoInv, Mock!TypeOK

LEMMA SpaceFields ==
    ASSUME NEW n \in Numbers, NEW w
    PROVE  /\ Mock!WorkspaceOK(w, n) =>
                 /\ w = [desired |-> w.desired, observed |-> w.observed, drift |-> w.drift,
                         status |-> w.status, sel |-> w.sel]
                 /\ w.desired \in Shown(n.sf) /\ w.observed \in Shown(n.sf)
                 /\ w.status \in {"ok", "drift", "frozen"} /\ w.sel \in Nat
           /\ Mock!WorkspaceOK(w, n) => w.drift \in BOOLEAN
           /\ n.sf \in Nat
BY DEF Mock!WorkspaceOK, Shown, Numbers

LEMMA SpaceMade ==
    ASSUME NEW n \in Numbers, NEW desired \in Shown(n.sf), NEW observed \in Shown(n.sf),
           NEW drift \in BOOLEAN, NEW status \in {"ok", "drift", "frozen"}, NEW sel \in Nat
    PROVE  Mock!WorkspaceOK([desired |-> desired, observed |-> observed, drift |-> drift,
                             status |-> status, sel |-> sel], n)
<1> DEFINE w == [desired |-> desired, observed |-> observed, drift |-> drift,
                 status |-> status, sel |-> sel]
<1>1. desired \in Mock!States /\ observed \in Mock!States
      /\ Mock!Within(desired, n.sf) /\ Mock!Within(observed, n.sf)
  BY DEF Shown
<1>2. w \in [desired : Mock!States, observed : Mock!States, drift : BOOLEAN,
             status : {"ok", "drift", "frozen"}, sel : Nat]
  BY <1>1
<1>3. w.desired = desired /\ w.observed = observed OBVIOUS
<1> HIDE DEF w
<1>4. Mock!WorkspaceOK(w, n) BY <1>1, <1>2, <1>3 DEF Mock!WorkspaceOK
<1> QED BY <1>4 DEF w

LEMMA PlanFields ==
    ASSUME NEW n, NEW serial, NEW p, Mock!PlanOK(p, n, serial)
    PROVE  /\ p = [id |-> p.id, snapshot |-> p.snapshot, ws |-> p.ws, status |-> p.status,
                   serial |-> p.serial, ops |-> p.ops, mode |-> p.mode, undo |-> p.undo,
                   made |-> p.made, was |-> p.was]
           /\ p.id \in 1 .. n.plan /\ p.snapshot \in Nat /\ p.ws \in Mock!Workspaces
           /\ p.status \in {"pending", "applied", "undone"} /\ p.serial \in 0 .. serial
           /\ p.ops \in [push : SUBSET Mock!Ops(n.sf), pull : SUBSET Mock!Ops(n.sf)]
           /\ p.mode \in {"none", "push", "pull", "freeze"} /\ p.undo \in Seq(Mock!Ops(n.sf))
BY DEF Mock!PlanOK

LEMMA PlanMade ==
    ASSUME NEW n, NEW last, NEW p,
           p = [id |-> p.id, snapshot |-> p.snapshot, ws |-> p.ws, status |-> p.status,
                serial |-> p.serial, ops |-> p.ops, mode |-> p.mode, undo |-> p.undo,
                made |-> p.made, was |-> p.was],
           p.id \in 1 .. n.plan, p.snapshot \in Nat, p.ws \in Mock!Workspaces,
           p.status \in {"pending", "applied", "undone"}, p.serial \in 0 .. last,
           p.ops \in [push : SUBSET Mock!Ops(n.sf), pull : SUBSET Mock!Ops(n.sf)],
           p.mode \in {"none", "push", "pull", "freeze"}, p.undo \in Seq(Mock!Ops(n.sf))
    PROVE  Mock!PlanOK(p, n, last)
BY DEF Mock!PlanOK

(* Counters only grow.                                                     *)
LEMMA OpsGrow ==
    ASSUME NEW m \in Nat, NEW n \in Nat, m <= n
    PROVE  Mock!Ops(m) \subseteq Mock!Ops(n) /\ Shown(m) \subseteq Shown(n)
<1>1. ASSUME NEW op \in Mock!Ops(m) PROVE op \in Mock!Ops(n)
  <2>1. FieldOK(op.field, m) BY OpFields
  <2>2. op.field[1] = "surface" => op.field[2] <= n BY <2>1 DEF FieldOK
  <2> QED BY <2>2 DEF Mock!Ops
<1>2. ASSUME NEW state \in Shown(m) PROVE state \in Shown(n)
  <2>1. /\ state \in Seq(DemoWindows) /\ state # << >>
        /\ \A i \in DOMAIN state : WindowOK(state[i], m)
    BY ShownIs
  <2>2. ASSUME NEW i \in DOMAIN state PROVE WindowOK(state[i], n)
    <3>1. \A j \in DOMAIN state[i].panes : /\ state[i].panes[j].id <= m
                                           /\ state[i].panes[j].id \in Nat
      BY <2>1, WindowFields DEF WindowOK
    <3>2. \A j \in DOMAIN state[i].panes : state[i].panes[j].id <= n BY <3>1
    <3> QED BY <2>1, <3>2 DEF WindowOK
  <2> QED BY <2>1, <2>2, ShownIs
<1> QED BY <1>1, <1>2

LEMMA SpaceGrows ==
    ASSUME NEW n \in Numbers, NEW k \in Numbers, Covers(n, k), NEW w, Mock!WorkspaceOK(w, n)
    PROVE  Mock!WorkspaceOK(w, k)
<1>1. n.sf \in Nat /\ k.sf \in Nat /\ n.sf <= k.sf BY DEF Covers, Numbers
<1>2. w.desired \in Shown(k.sf) /\ w.observed \in Shown(k.sf)
  BY <1>1, OpsGrow, SpaceFields
<1> QED BY <1>2 DEF Mock!WorkspaceOK, Shown

LEMMA SnapshotGrows ==
    ASSUME NEW n \in Numbers, NEW k \in Numbers, Covers(n, k), NEW s, Mock!SnapshotOK(s, n)
    PROVE  Mock!SnapshotOK(s, k)
<1>1. n.sf \in Nat /\ k.sf \in Nat /\ n.sf <= k.sf /\ n.snap \in Nat /\ k.snap \in Nat
      /\ n.snap <= k.snap
  BY DEF Covers, Numbers
<1>2. /\ s = [id |-> s.id, ws |-> s.ws, state |-> s.state]
      /\ s.id \in 1 .. n.snap /\ s.ws \in Mock!Workspaces /\ s.state \in Shown(n.sf)
  BY DEF Mock!SnapshotOK, Shown
<1>3. s.id \in 1 .. k.snap /\ s.state \in Shown(k.sf) BY <1>1, <1>2, OpsGrow
<1> HIDE DEF Numbers
<1>4. s.state \in Mock!States /\ Mock!Within(s.state, k.sf) BY <1>3 DEF Shown
<1> QED BY <1>2, <1>3, <1>4 DEF Mock!SnapshotOK

LEMMA PlanGrows ==
    ASSUME NEW n \in Numbers, NEW k \in Numbers, Covers(n, k), NEW s \in Nat, NEW t \in Nat,
           s <= t, NEW p, Mock!PlanOK(p, n, s)
    PROVE  Mock!PlanOK(p, k, t)
<1>1. n.sf \in Nat /\ k.sf \in Nat /\ n.sf <= k.sf /\ n.plan \in Nat /\ k.plan \in Nat
      /\ n.plan <= k.plan
  BY DEF Covers, Numbers
<1> DEFINE N == Mock!Ops(n.sf)
           K == Mock!Ops(k.sf)
<1>2. N \subseteq K BY <1>1, OpsGrow
<1>3. /\ p = [id |-> p.id, snapshot |-> p.snapshot, ws |-> p.ws, status |-> p.status,
              serial |-> p.serial, ops |-> p.ops, mode |-> p.mode, undo |-> p.undo,
              made |-> p.made, was |-> p.was]
      /\ p.id \in 1 .. n.plan /\ p.snapshot \in Nat /\ p.ws \in Mock!Workspaces
      /\ p.status \in {"pending", "applied", "undone"} /\ p.serial \in 0 .. s
      /\ p.ops \in [push : SUBSET N, pull : SUBSET N]
      /\ p.mode \in {"none", "push", "pull", "freeze"} /\ p.undo \in Seq(N)
  BY PlanFields
<1> HIDE DEF N, K
<1>4. p.id \in 1 .. k.plan /\ p.serial \in 0 .. t BY <1>1, <1>3
<1>5. p.ops \in [push : SUBSET K, pull : SUBSET K] /\ p.undo \in Seq(K) BY <1>2, <1>3
<1>6. /\ p.ops \in [push : SUBSET Mock!Ops(k.sf), pull : SUBSET Mock!Ops(k.sf)]
      /\ p.undo \in Seq(Mock!Ops(k.sf))
  BY <1>5 DEF K
<1> QED BY <1>3, <1>4, <1>6, PlanMade

LEMMA Grown ==
    ASSUME NEW c, NEW n, NEW k \in Numbers, Covers(n, k), NEW s \in Nat, NEW t \in Nat, s <= t,
           Whole(c, n, s)
    PROVE  Whole(c, k, t)
<1>1. /\ HasParts(c) /\ n \in Numbers
      /\ DemoSpaces(c.ws, n) /\ DemoTerms(c.terms, n) /\ DemoAgents(c.agents, c.terms)
      /\ DemoViews(c.views) /\ DemoSnaps(c.snaps, n) /\ DemoPlans(c.plans, n, s)
  BY DEF Whole
<1>2. DemoSpaces(c.ws, k) BY <1>1, SpaceGrows DEF DemoSpaces
<1>3. n.term \in Nat /\ k.term \in Nat /\ n.term <= k.term
      /\ n.sf \in Nat /\ k.sf \in Nat /\ n.sf <= k.sf
  BY <1>1 DEF Covers, Numbers
<1>4. DemoTerms(c.terms, k) BY <1>1, <1>3 DEF DemoTerms
<1>5. DemoSnaps(c.snaps, k) BY <1>1, SnapshotGrows DEF DemoSnaps
<1>6. DemoPlans(c.plans, k, t)
  <2>1. ASSUME NEW p \in c.plans
        PROVE  Mock!PlanOK(p, k, t) /\ OpsOK(p.ops.push, k.sf) /\ OpsOK(p.ops.pull, k.sf)
    <3>1. Mock!PlanOK(p, n, s) /\ OpsOK(p.ops.push, n.sf) /\ OpsOK(p.ops.pull, n.sf)
      BY <1>1 DEF DemoPlans
    <3>2. Mock!PlanOK(p, k, t) BY <1>1, <3>1, PlanGrows
    <3>3. Mock!Ops(n.sf) \subseteq Mock!Ops(k.sf) BY <1>3, OpsGrow
    <3> QED BY <3>1, <3>2, <3>3 DEF OpsOK
  <2> QED BY <2>1 DEF DemoPlans
<1> QED BY <1>1, <1>2, <1>4, <1>5, <1>6 DEF Whole

-----------------------------------------------------------------------------
(***************************************************************************)
(* Steps                                                                   *)
(***************************************************************************)

LEMMA SerialSet ==
    ASSUME NEW c, HasParts(c), NEW serial
    PROVE  LET d == [c EXCEPT !.serial = serial]
           IN  /\ DOMAIN d = DOMAIN c /\ d.serial = serial
               /\ d.ws = c.ws /\ d.terms = c.terms /\ d.agents = c.agents
               /\ d.views = c.views /\ d.snaps = c.snaps /\ d.plans = c.plans
BY DEF HasParts

(* An act that leaves the catalog well formed for the next serial          *)
LEMMA Executed ==
    ASSUME DemoInv, NEW act, NEW ids, Mock!ExecuteWith(act, ids), Covers(counters, ids),
           Whole(act, ids, demo.serial + 1)
    PROVE  DemoActed
<1>1. /\ tried \in 0 .. MaxActs /\ MaxActs \in Nat /\ tried < MaxActs /\ tried' = tried + 1
      /\ counters' = ids /\ demo.serial \in Nat /\ demo.serial <= tried /\ ids \in Numbers
  BY DemoAssumptions DEF DemoInv, Mock!ExecuteWith, Mock!FixtureAssumption, Whole
<1>2. CASE Mock!Valid(act)
  <2> DEFINE d == [act EXCEPT !.serial = demo.serial + 1]
  <2>1. demo' = d BY <1>2 DEF Mock!ExecuteWith, Mock!Counted
  <2>2. HasParts(act) BY DEF Whole
  <2>3. /\ DOMAIN d = DOMAIN act /\ d.serial = demo.serial + 1
        /\ d.ws = act.ws /\ d.terms = act.terms /\ d.agents = act.agents
        /\ d.views = act.views /\ d.snaps = act.snaps /\ d.plans = act.plans
    BY <2>2, SerialSet
  <2> HIDE DEF d
  <2>4. Mock!Valid(d) BY <1>2, <2>3 DEF Mock!Valid, Mock!ValidTerminal
  <2>5. Whole(d, ids, d.serial) BY <2>3 DEF Whole, HasParts
  <2>6. Whole(demo', counters', demo'.serial) /\ Mock!Valid(demo)' BY <1>1, <2>1, <2>4, <2>5
  <2> QED BY <1>1, <2>1, <2>3, <2>6 DEF DemoInv, DemoActed
<1>3. CASE ~ Mock!Valid(act)
  <2>1. demo' = demo BY <1>3 DEF Mock!ExecuteWith
  <2>2. Whole(demo, ids, demo.serial) BY <1>1, Grown DEF DemoInv
  <2>3. Whole(demo', counters', demo'.serial) /\ Mock!Valid(demo)'
    BY <1>1, <2>1, <2>2 DEF DemoInv
  <2> QED BY <1>1, <2>1, <2>3 DEF DemoInv, DemoActed
<1> QED BY <1>2, <1>3

LEMMA CoversItself ==
    ASSUME NEW n \in Numbers
    PROVE  Covers(n, n)
BY DEF Covers, Numbers

(* What the actions start from                                             *)
LEMMA AsItIs ==
    ASSUME DemoInv
    PROVE  /\ Whole(demo, counters, demo.serial + 1)
           /\ counters \in Numbers /\ Covers(counters, counters)
           /\ demo.serial \in Nat /\ demo.serial <= demo.serial + 1
           /\ HasParts(demo)
<1>1. Whole(demo, counters, demo.serial) /\ demo.serial \in Nat BY DEF DemoInv
<1>2. counters \in Numbers /\ HasParts(demo) BY <1>1 DEF Whole
<1>3. Covers(counters, counters) BY <1>2, CoversItself
<1>4. demo.serial <= demo.serial + 1 /\ demo.serial + 1 \in Nat BY <1>1
<1>5. Whole(demo, counters, demo.serial + 1) BY <1>1, <1>2, <1>3, <1>4, Grown
<1> QED BY <1>1, <1>2, <1>3, <1>4, <1>5

(* An act that takes no id                                                 *)
LEMMA ExecutedOK ==
    ASSUME DemoInv, NEW act, Mock!Execute(act), Whole(act, counters, demo.serial + 1)
    PROVE  DemoActed
<1>1. Covers(counters, counters) BY AsItIs
<1>2. Mock!ExecuteWith(act, counters) BY DEF Mock!Execute
<1> QED BY <1>1, <1>2, Executed

(* An act that is refused after it has taken its ids                       *)
LEMMA RefusedOK ==
    ASSUME DemoInv, NEW ids \in Numbers, Mock!Refused(ids), Covers(counters, ids)
    PROVE  DemoActed
<1>1. /\ tried \in 0 .. MaxActs /\ MaxActs \in Nat /\ tried < MaxActs /\ tried' = tried + 1
      /\ counters' = ids /\ demo' = demo /\ demo.serial \in Nat /\ demo.serial <= tried
  BY DemoAssumptions DEF DemoInv, Mock!Refused, Mock!FixtureAssumption
<1>2. Whole(demo, ids, demo.serial) BY <1>1, Grown DEF DemoInv
<1>3. Whole(demo', counters', demo'.serial) /\ Mock!Valid(demo)' BY <1>1, <1>2 DEF DemoInv
<1> QED BY <1>1, <1>3 DEF DemoInv, DemoActed

LEMMA PutSpace ==
    ASSUME NEW c, NEW n, NEW serial, Whole(c, n, serial), NEW w \in Mock!Workspaces, NEW x,
           Mock!WorkspaceOK(x, n)
    PROVE  Whole([c EXCEPT !.ws[w] = x], n, serial)
<1> DEFINE d == [c EXCEPT !.ws[w] = x]
<1>1. HasParts(c) /\ DemoSpaces(c.ws, n) BY DEF Whole
<1>2. /\ DOMAIN d = DOMAIN c /\ d.ws = [c.ws EXCEPT ![w] = x] /\ d.terms = c.terms
      /\ d.agents = c.agents /\ d.views = c.views /\ d.snaps = c.snaps /\ d.plans = c.plans
  BY <1>1 DEF HasParts
<1>3. DemoSpaces([c.ws EXCEPT ![w] = x], n) BY <1>1 DEF DemoSpaces
<1> HIDE DEF d
<1>4. Whole(d, n, serial) BY <1>2, <1>3 DEF Whole, HasParts
<1> QED BY <1>4 DEF d

LEMMA PutTerms ==
    ASSUME NEW c, NEW n, NEW serial, Whole(c, n, serial), NEW terms, DemoTerms(terms, n),
           DOMAIN c.terms \subseteq DOMAIN terms
    PROVE  Whole([c EXCEPT !.terms = terms], n, serial)
<1> DEFINE d == [c EXCEPT !.terms = terms]
<1>1. HasParts(c) /\ DemoAgents(c.agents, c.terms) BY DEF Whole
<1>2. /\ DOMAIN d = DOMAIN c /\ d.terms = terms /\ d.ws = c.ws
      /\ d.agents = c.agents /\ d.views = c.views /\ d.snaps = c.snaps /\ d.plans = c.plans
  BY <1>1 DEF HasParts
<1>3. DemoAgents(c.agents, terms) BY <1>1 DEF DemoAgents
<1> HIDE DEF d
<1>4. Whole(d, n, serial) BY <1>2, <1>3 DEF Whole, HasParts
<1> QED BY <1>4 DEF d

LEMMA PutAgents ==
    ASSUME NEW c, NEW n, NEW serial, Whole(c, n, serial), NEW agents,
           DemoAgents(agents, c.terms)
    PROVE  Whole([c EXCEPT !.agents = agents], n, serial)
<1> DEFINE d == [c EXCEPT !.agents = agents]
<1>1. HasParts(c) BY DEF Whole
<1>2. /\ DOMAIN d = DOMAIN c /\ d.agents = agents /\ d.ws = c.ws
      /\ d.terms = c.terms /\ d.views = c.views /\ d.snaps = c.snaps /\ d.plans = c.plans
  BY <1>1 DEF HasParts
<1> HIDE DEF d
<1>3. Whole(d, n, serial) BY <1>2 DEF Whole, HasParts
<1> QED BY <1>3 DEF d

LEMMA PutViews ==
    ASSUME NEW c, NEW n, NEW serial, Whole(c, n, serial), NEW views, DemoViews(views)
    PROVE  Whole([c EXCEPT !.views = views], n, serial)
<1> DEFINE d == [c EXCEPT !.views = views]
<1>1. HasParts(c) BY DEF Whole
<1>2. /\ DOMAIN d = DOMAIN c /\ d.views = views /\ d.ws = c.ws
      /\ d.terms = c.terms /\ d.agents = c.agents /\ d.snaps = c.snaps /\ d.plans = c.plans
  BY <1>1 DEF HasParts
<1> HIDE DEF d
<1>3. Whole(d, n, serial) BY <1>2 DEF Whole, HasParts
<1> QED BY <1>3 DEF d

LEMMA PutSnaps ==
    ASSUME NEW c, NEW n, NEW serial, Whole(c, n, serial), NEW snaps, DemoSnaps(snaps, n)
    PROVE  Whole([c EXCEPT !.snaps = snaps], n, serial)
<1> DEFINE d == [c EXCEPT !.snaps = snaps]
<1>1. HasParts(c) BY DEF Whole
<1>2. /\ DOMAIN d = DOMAIN c /\ d.snaps = snaps /\ d.ws = c.ws
      /\ d.terms = c.terms /\ d.agents = c.agents /\ d.views = c.views /\ d.plans = c.plans
  BY <1>1 DEF HasParts
<1> HIDE DEF d
<1>3. Whole(d, n, serial) BY <1>2 DEF Whole, HasParts
<1> QED BY <1>3 DEF d

LEMMA PutPlans ==
    ASSUME NEW c, NEW n, NEW serial, Whole(c, n, serial), NEW plans,
           DemoPlans(plans, n, serial)
    PROVE  Whole([c EXCEPT !.plans = plans], n, serial)
<1> DEFINE d == [c EXCEPT !.plans = plans]
<1>1. HasParts(c) BY DEF Whole
<1>2. /\ DOMAIN d = DOMAIN c /\ d.plans = plans /\ d.ws = c.ws
      /\ d.terms = c.terms /\ d.agents = c.agents /\ d.views = c.views /\ d.snaps = c.snaps
  BY <1>1 DEF HasParts
<1> HIDE DEF d
<1>3. Whole(d, n, serial) BY <1>2 DEF Whole, HasParts
<1> QED BY <1>3 DEF d

(* Workspaces that actions make                                            *)
LEMMA SelOK ==
    ASSUME NEW n \in Numbers, NEW w, Mock!WorkspaceOK(w, n), NEW s \in Nat
    PROVE  Mock!WorkspaceOK([w EXCEPT !.sel = s], n)
<1> DEFINE x == [w EXCEPT !.sel = s]
<1>1. /\ w = [desired |-> w.desired, observed |-> w.observed, drift |-> w.drift,
              status |-> w.status, sel |-> w.sel]
      /\ w.desired \in Shown(n.sf) /\ w.observed \in Shown(n.sf)
      /\ w.status \in {"ok", "drift", "frozen"}
  BY SpaceFields
<1>2. w.drift \in BOOLEAN BY SpaceFields
<1>3. x = [desired |-> w.desired, observed |-> w.observed, drift |-> w.drift,
           status |-> w.status, sel |-> s]
  BY <1>1
<1> HIDE DEF x
<1>4. Mock!WorkspaceOK(x, n) BY <1>1, <1>2, <1>3, SpaceMade
<1> QED BY <1>4 DEF x

LEMMA FrozenOK ==
    ASSUME NEW n \in Numbers, NEW w, Mock!WorkspaceOK(w, n)
    PROVE  Mock!WorkspaceOK(Mock!Frozen(w), n)
<1> DEFINE x == Mock!Frozen(w)
<1>1. /\ w = [desired |-> w.desired, observed |-> w.observed, drift |-> w.drift,
              status |-> w.status, sel |-> w.sel]
      /\ w.observed \in Shown(n.sf) /\ w.sel \in Nat
  BY SpaceFields
<1> DEFINE seen == w.observed
           no == FALSE
           status == "frozen"
<1>2. x = [w EXCEPT !.desired = seen, !.drift = no, !.status = status]
  BY DEF Mock!Frozen
<1>3. seen \in Shown(n.sf) /\ w.sel \in Nat /\ status \in {"ok", "drift", "frozen"} BY <1>1
<1>4. w = [desired |-> w.desired, observed |-> seen, drift |-> w.drift,
           status |-> w.status, sel |-> w.sel]
  BY <1>1
<1> DEFINE y == [w EXCEPT !.desired = seen]
<1> HIDE DEF x, seen, no, status
<1>5. x = [desired |-> seen, observed |-> seen, drift |-> no, status |-> status,
           sel |-> w.sel]
  <2>1. x = [y EXCEPT !.drift = no, !.status = status] BY <1>2
  <2>2. y = [desired |-> seen, observed |-> seen, drift |-> w.drift,
             status |-> w.status, sel |-> w.sel]
    BY <1>4
  <2> HIDE DEF y
  <2> QED BY <2>1, <2>2
<1>6. no \in BOOLEAN BY DEF no
<1>7. Mock!WorkspaceOK(x, n) BY <1>3, <1>5, <1>6, SpaceMade
<1> QED BY <1>7 DEF x

LEMMA ReconciledOK ==
    ASSUME NEW n \in Numbers, NEW w, Mock!WorkspaceOK(w, n)
    PROVE  Mock!WorkspaceOK(Mock!Reconciled(w), n)
<1> DEFINE x == Mock!Reconciled(w)
           drift == w.desired # w.observed /\ Mock!Diff(w.desired, w.observed) # {}
           status == IF w.desired # w.observed THEN "drift"
                     ELSE IF w.status = "frozen" THEN w.status ELSE "ok"
<1>1. /\ w = [desired |-> w.desired, observed |-> w.observed, drift |-> w.drift,
              status |-> w.status, sel |-> w.sel]
      /\ w.desired \in Shown(n.sf) /\ w.observed \in Shown(n.sf) /\ w.sel \in Nat
      /\ w.status \in {"ok", "drift", "frozen"}
  BY SpaceFields
<1>2. drift \in BOOLEAN OBVIOUS
<1>3. status \in {"ok", "drift", "frozen"} BY <1>1
<1>4. x = [w EXCEPT !.drift = drift, !.status = status] BY DEF Mock!Reconciled
<1> HIDE DEF x, drift, status
<1>5. x = [desired |-> w.desired, observed |-> w.observed, drift |-> drift,
           status |-> status, sel |-> w.sel]
  BY <1>1, <1>4
<1>6. Mock!WorkspaceOK(x, n) BY <1>1, <1>2, <1>3, <1>5, SpaceMade
<1> QED BY <1>6 DEF x

LEMMA TargetOK ==
    ASSUME NEW n \in Numbers, NEW w, Mock!WorkspaceOK(w, n), NEW mode,
           NEW state \in Shown(n.sf)
    PROVE  /\ Mock!WorkspaceOK([w EXCEPT ![Mock!Target(mode)] = state], n)
           /\ w[Mock!Target(mode)] \in Shown(n.sf)
<1>1. /\ w = [desired |-> w.desired, observed |-> w.observed, drift |-> w.drift,
              status |-> w.status, sel |-> w.sel]
      /\ w.desired \in Shown(n.sf) /\ w.observed \in Shown(n.sf) /\ w.sel \in Nat
      /\ w.status \in {"ok", "drift", "frozen"}
  BY SpaceFields
<1>2. w.drift \in BOOLEAN BY SpaceFields
<1>3. CASE Mock!Target(mode) = "observed"
  <2> DEFINE x == [w EXCEPT !.observed = state]
  <2>1. x = [desired |-> w.desired, observed |-> state, drift |-> w.drift,
             status |-> w.status, sel |-> w.sel]
    BY <1>1
  <2> HIDE DEF x
  <2>2. Mock!WorkspaceOK(x, n) BY <1>1, <1>2, <2>1, SpaceMade
  <2> QED BY <1>1, <1>3, <2>2 DEF x
<1>4. CASE Mock!Target(mode) = "desired"
  <2> DEFINE x == [w EXCEPT !.desired = state]
  <2>1. x = [desired |-> state, observed |-> w.observed, drift |-> w.drift,
             status |-> w.status, sel |-> w.sel]
    BY <1>1
  <2> HIDE DEF x
  <2>2. Mock!WorkspaceOK(x, n) BY <1>1, <1>2, <2>1, SpaceMade
  <2> QED BY <1>1, <1>4, <2>2 DEF x
<1> QED BY <1>3, <1>4 DEF Mock!Target

LEMMA WithPaneOK ==
    ASSUME NEW n \in Numbers, NEW w, Mock!WorkspaceOK(w, n), NEW source,
           NEW new \in Nat, new <= n.sf
    PROVE  Mock!WorkspaceOK(Mock!WithPane(w, source, new), n)
<1> DEFINE x == Mock!WithPane(w, source, new)
           pane == Mock!Pane(new, "none")
           split(v) == [v EXCEPT !.layout = "even-horizontal",
                                 !.panes = Append(v.panes, pane)]
           seen == [i \in DOMAIN w.observed |->
                       IF source \in Mock!Surfaces(<< w.observed[i] >>)
                       THEN split(w.observed[i]) ELSE w.observed[i]]
<1>1. /\ w = [desired |-> w.desired, observed |-> w.observed, drift |-> w.drift,
              status |-> w.status, sel |-> w.sel]
      /\ w.observed \in Shown(n.sf) /\ w.sel \in Nat
      /\ w.status \in {"ok", "drift", "frozen"} /\ n.sf \in Nat
  BY SpaceFields
<1>2. w.drift \in BOOLEAN BY SpaceFields
<1>3. x = [w EXCEPT !.observed = seen, !.desired = seen] BY DEF Mock!WithPane
<1>4. pane \in Mock!PaneSpecs /\ pane.id <= n.sf BY PaneMade
<1> HIDE DEF pane
<1>5. ASSUME NEW v, WindowOK(v, n.sf) PROVE WindowOK(split(v), n.sf)
  <2> DEFINE panes == Append(v.panes, pane)
             y == [v EXCEPT !.panes = panes]
             z == [y EXCEPT !.layout = "even-horizontal"]
  <2>1. panes \in Seq(Mock!PaneSpecs) /\ \A j \in DOMAIN panes : panes[j].id <= n.sf
    BY <1>1, <1>4, <1>5, PaneAdded
  <2> HIDE DEF panes
  <2>2. WindowOK(y, n.sf) BY <1>5, <2>1, PanesPut
  <2> HIDE DEF y
  <2>3. "even-horizontal" \in Mock!Layouts BY DEF Mock!Layouts
  <2>4. WindowOK(z, n.sf) BY <2>2, <2>3, LaidOut
  <2>5. v = [id |-> v.id, layout |-> v.layout, panes |-> v.panes]
    BY <1>5, WindowFields DEF WindowOK
  <2> DEFINE u == split(v)
  <2>6. u = [id |-> v.id, layout |-> "even-horizontal", panes |-> panes]
    <3>1. u = [v EXCEPT !.layout = "even-horizontal", !.panes = panes] BY DEF panes
    <3> HIDE DEF u
    <3> QED BY <2>5, <3>1
  <2>7. y = [id |-> v.id, layout |-> v.layout, panes |-> panes] BY <2>5 DEF y
  <2>8. z = [id |-> v.id, layout |-> "even-horizontal", panes |-> panes] BY <2>7
  <2>9. WindowOK(u, n.sf)
    <3> HIDE DEF z, u
    <3> QED BY <2>4, <2>6, <2>8
  <2> QED BY <2>9
<1> HIDE DEF split
<1>6. \A i \in DOMAIN w.observed : WindowOK(w.observed[i], n.sf) BY <1>1, ShownIs
<1>7. \A i \in DOMAIN w.observed : WindowOK(seen[i], n.sf) BY <1>5, <1>6
<1>8. DOMAIN seen = DOMAIN w.observed /\ seen = [i \in DOMAIN seen |-> seen[i]] OBVIOUS
<1> HIDE DEF seen, x
<1>9. seen \in Shown(n.sf) BY <1>1, <1>7, <1>8, ShownInPlace
<1>10. x = [desired |-> seen, observed |-> seen, drift |-> w.drift,
            status |-> w.status, sel |-> w.sel]
  BY <1>1, <1>3
<1>11. Mock!WorkspaceOK(x, n) BY <1>1, <1>2, <1>9, <1>10, SpaceMade
<1> QED BY <1>11 DEF x

-----------------------------------------------------------------------------
(***************************************************************************)
(* Workspaces, terminals, views and agents                                 *)
(***************************************************************************)

LEMMA PartsOf ==
    ASSUME DemoInv
    PROVE  /\ DOMAIN demo.ws = Mock!Workspaces
           /\ \A w \in Mock!Workspaces : Mock!WorkspaceOK(demo.ws[w], counters)
           /\ DemoTerms(demo.terms, counters) /\ DemoAgents(demo.agents, demo.terms)
           /\ DemoViews(demo.views) /\ DemoSnaps(demo.snaps, counters)
           /\ DemoPlans(demo.plans, counters, demo.serial + 1)
BY AsItIs DEF Whole, DemoSpaces

LEMMA TermOf ==
    ASSUME DemoInv, NEW t \in DOMAIN demo.terms
    PROVE  /\ demo.terms[t].ws \in Mock!Workspaces /\ demo.terms[t].sf \in Nat
           /\ demo.terms[t] = [ws |-> demo.terms[t].ws, sf |-> demo.terms[t].sf,
                               live |-> demo.terms[t].live]
           /\ t \in 1 .. counters.term
<1>1. demo.terms[t] \in [ws : Mock!Workspaces, sf : Nat, live : BOOLEAN]
      /\ t \in 1 .. counters.term
  BY PartsOf DEF DemoTerms
<1> QED BY <1>1

LEMMA DemoAttach ==
    ASSUME DemoInv, NEW t \in DOMAIN demo.terms, Mock!Attach(t)
    PROVE  DemoActed
<1> DEFINE h == demo.terms[t].ws
           x == [demo.ws[h] EXCEPT !.sel = demo.terms[t].sf]
           act == [demo EXCEPT !.ws[h] = x]
<1>1. h \in Mock!Workspaces /\ demo.terms[t].sf \in Nat BY TermOf
<1>2. Mock!WorkspaceOK(demo.ws[h], counters) /\ counters \in Numbers
  BY <1>1, PartsOf, AsItIs
<1>3. Mock!WorkspaceOK(x, counters) BY <1>1, <1>2, SelOK
<1>4. Mock!Execute(act) BY DEF Mock!Attach
<1> HIDE DEF x, h
<1>5. Whole(act, counters, demo.serial + 1) BY <1>1, <1>3, AsItIs, PutSpace
<1> HIDE DEF act
<1> QED BY <1>4, <1>5, ExecutedOK

LEMMA DemoFreeze ==
    ASSUME DemoInv, NEW w \in Mock!Workspaces, Mock!Freeze(w)
    PROVE  DemoActed
<1> DEFINE x == Mock!Frozen(demo.ws[w])
           act == [demo EXCEPT !.ws[w] = x]
<1>1. Mock!WorkspaceOK(demo.ws[w], counters) /\ counters \in Numbers BY PartsOf, AsItIs
<1>2. Mock!WorkspaceOK(x, counters) BY <1>1, FrozenOK
<1>3. Mock!Execute(act) BY DEF Mock!Freeze
<1> HIDE DEF x
<1>4. Whole(act, counters, demo.serial + 1) BY <1>2, AsItIs, PutSpace
<1> HIDE DEF act
<1> QED BY <1>3, <1>4, ExecutedOK

LEMMA TermPut ==
    ASSUME DemoInv, NEW t \in DOMAIN demo.terms, NEW x,
           x \in [ws : Mock!Workspaces, sf : Nat, live : BOOLEAN]
    PROVE  Whole([demo EXCEPT !.terms[t] = x], counters, demo.serial + 1)
<1> DEFINE terms == [demo.terms EXCEPT ![t] = x]
           act == [demo EXCEPT !.terms[t] = x]
<1>1. DemoTerms(terms, counters) BY PartsOf DEF DemoTerms
<1>2. DOMAIN demo.terms \subseteq DOMAIN terms OBVIOUS
<1>3. act = [demo EXCEPT !.terms = terms] OBVIOUS
<1> HIDE DEF act, terms
<1>4. Whole(act, counters, demo.serial + 1) BY <1>1, <1>2, <1>3, AsItIs, PutTerms
<1> QED BY <1>4 DEF act

LEMMA DemoLink ==
    ASSUME DemoInv, NEW t \in DOMAIN demo.terms, NEW w \in Mock!Workspaces, Mock!Link(t, w)
    PROVE  DemoActed
<1> DEFINE x == Mock!Linked(t, w)
           state == demo.ws[w].observed
           panes == state[1].panes
           act == [demo EXCEPT !.terms[t] = x]
<1>1. Mock!WorkspaceOK(demo.ws[w], counters) /\ counters \in Numbers BY PartsOf, AsItIs
<1>2. state \in Shown(counters.sf) BY <1>1, SpaceFields
<1>3. 1 \in DOMAIN state /\ WindowOK(state[1], counters.sf) BY <1>2, ShownIs
<1>4. panes \in Seq(Mock!PaneSpecs) /\ \A j \in DOMAIN panes : panes[j].id \in Nat
  BY <1>3, WindowFields DEF WindowOK
<1>5. panes # << >> => panes[1].id \in Nat BY <1>4
<1> DEFINE term == demo.terms[t]
           sf == IF panes = << >> THEN term.sf ELSE panes[1].id
<1>6. term \in [ws : Mock!Workspaces, sf : Nat, live : BOOLEAN] BY PartsOf DEF DemoTerms
<1>7. sf \in Nat BY <1>5, <1>6
<1>8. x = [term EXCEPT !.ws = w, !.sf = sf] BY DEF Mock!Linked
<1> HIDE DEF sf, term, x
<1>9. x \in [ws : Mock!Workspaces, sf : Nat, live : BOOLEAN] BY <1>6, <1>7, <1>8
<1>10. Whole(act, counters, demo.serial + 1) BY <1>9, TermPut
<1>11. Mock!Execute(act) BY DEF Mock!Link, x
<1> HIDE DEF act
<1> QED BY <1>10, <1>11, ExecutedOK

LEMMA DemoKill ==
    ASSUME DemoInv, NEW t \in DOMAIN demo.terms, Mock!Kill(t)
    PROVE  DemoActed
<1> DEFINE term == demo.terms[t]
           x == [term EXCEPT !.live = FALSE]
           agents == Mock!Detached(demo.agents, t)
           killed == [demo EXCEPT !.terms[t] = x]
           act == [killed EXCEPT !.agents = agents]
<1>1. x \in [ws : Mock!Workspaces, sf : Nat, live : BOOLEAN] BY PartsOf DEF DemoTerms
<1>2. Whole(killed, counters, demo.serial + 1)
  <2> HIDE DEF x
  <2> QED BY <1>1, TermPut
<1>3. DOMAIN killed.terms = DOMAIN demo.terms BY AsItIs DEF HasParts
<1>4. DemoAgents(agents, killed.terms)
  <2>1. ASSUME NEW a \in DOMAIN agents
        PROVE  agents[a] \in [ws : Mock!Workspaces,
                              term : DOMAIN killed.terms \cup {Mock!NoTerminal},
                              state : {"running", "waiting", "done"}, claimed : BOOLEAN]
    <3> HIDE DEF killed
    <3>1. a \in DOMAIN demo.agents BY DEF Mock!Detached
    <3>2. demo.agents[a] \in [ws : Mock!Workspaces,
                              term : DOMAIN killed.terms \cup {Mock!NoTerminal},
                              state : {"running", "waiting", "done"}, claimed : BOOLEAN]
      BY <1>3, <3>1, PartsOf DEF DemoAgents
    <3> QED BY <3>1, <3>2 DEF Mock!Detached
  <2> QED BY <2>1 DEF DemoAgents
<1>5. Mock!Killed(t) = act BY AsItIs DEF Mock!Killed, HasParts
<1> HIDE DEF killed, agents
<1>6. Whole(act, counters, demo.serial + 1) BY <1>2, <1>4, PutAgents
<1>7. Mock!Execute(act) BY <1>5 DEF Mock!Kill
<1> HIDE DEF act
<1> QED BY <1>6, <1>7, ExecutedOK

LEMMA TakenIs ==
    ASSUME DemoInv, NEW kind \in {"term", "sf", "snap", "plan"}, NEW n \in Nat
    PROVE  /\ Mock!Taken(kind, n) \in Numbers /\ Covers(counters, Mock!Taken(kind, n))
           /\ Mock!Taken(kind, n)[kind] = counters[kind] + n
           /\ counters[kind] \in Nat /\ Mock!Taken(kind, n).term \in Nat
<1>1. /\ counters = [term |-> counters.term, sf |-> counters.sf, snap |-> counters.snap,
                     plan |-> counters.plan]
      /\ counters.term \in Nat /\ counters.sf \in Nat /\ counters.snap \in Nat
      /\ counters.plan \in Nat
  BY AsItIs DEF Numbers
<1>2. counters[kind] \in Nat BY <1>1
<1>3. Mock!Taken(kind, n) = [counters EXCEPT ![kind] = counters[kind] + n] BY DEF Mock!Taken
<1>4. CASE kind = "term" BY <1>1, <1>2, <1>3, <1>4 DEF Numbers, Covers
<1>5. CASE kind = "sf" BY <1>1, <1>2, <1>3, <1>5 DEF Numbers, Covers
<1>6. CASE kind = "snap" BY <1>1, <1>2, <1>3, <1>6 DEF Numbers, Covers
<1>7. CASE kind = "plan" BY <1>1, <1>2, <1>3, <1>7 DEF Numbers, Covers
<1> QED BY <1>4, <1>5, <1>6, <1>7

LEMMA DemoSplit ==
    ASSUME DemoInv, NEW t \in DOMAIN demo.terms, Mock!Split(t)
    PROVE  DemoActed
<1> DEFINE new == counters.sf + 1
           h == demo.terms[t].ws
           last == counters.term + 1
           pane == [ws |-> h, sf |-> new, live |-> TRUE]
           x == Mock!WithPane(demo.ws[h], demo.terms[t].sf, new)
           terms == [u \in DOMAIN demo.terms \cup {last} |->
                        IF u = last THEN pane ELSE demo.terms[u]]
           moved == [demo EXCEPT !.ws[h] = x]
           full == [moved EXCEPT !.terms = terms]
           there == demo.terms[t].sf \in Mock!Surfaces(demo.ws[h].observed)
           taken == Mock!Taken("sf", 1)
           ids == [taken EXCEPT !.term = taken.term + 1]
<1>1. h \in Mock!Workspaces BY TermOf
<1>2. counters \in Numbers /\ counters.sf \in Nat /\ counters.term \in Nat
  BY AsItIs DEF Numbers
<1>3. /\ ids = [term |-> counters.term + 1, sf |-> counters.sf + 1, snap |-> counters.snap,
                plan |-> counters.plan]
  <2>1. counters = [term |-> counters.term, sf |-> counters.sf, snap |-> counters.snap,
                    plan |-> counters.plan]
    BY <1>2 DEF Numbers
  <2> DEFINE n == counters.sf + 1
             m == counters.term + 1
  <2>2. taken = [counters EXCEPT !.sf = n] BY DEF Mock!Taken
  <2>3. taken.term + 1 = m BY <2>1, <2>2
  <2>4. ids = [taken EXCEPT !.term = m] BY <2>3
  <2> HIDE DEF taken, n, m, ids
  <2>5. taken = [term |-> counters.term, sf |-> n, snap |-> counters.snap,
                 plan |-> counters.plan]
    BY <2>1, <2>2
  <2>6. ids = [term |-> m, sf |-> n, snap |-> counters.snap, plan |-> counters.plan]
    BY <2>4, <2>5
  <2> QED BY <2>6 DEF n, m
<1>4. ids \in Numbers /\ Covers(counters, ids) /\ ids.sf = new /\ ids.term = last
  BY <1>2, <1>3 DEF Numbers, Covers
<1>5. Mock!ExecuteWith(full, ids) \/ Mock!Refused(ids)
  BY AsItIs DEF Mock!Split, Mock!HomeOf, HasParts
<1> HIDE DEF ids, there
<1>6. Whole(demo, ids, demo.serial + 1)
  <2>1. demo.serial + 1 \in Nat /\ demo.serial + 1 <= demo.serial + 1 BY AsItIs
  <2> QED BY <1>4, <2>1, AsItIs, Grown
<1>7. Mock!WorkspaceOK(demo.ws[h], ids) BY <1>1, <1>6 DEF Whole, DemoSpaces
<1>8. new \in Nat /\ new <= ids.sf BY <1>2, <1>4
<1>9. Mock!WorkspaceOK(x, ids) BY <1>4, <1>7, <1>8, WithPaneOK
<1>10. Whole(moved, ids, demo.serial + 1)
  <2> HIDE DEF x, h
  <2> QED BY <1>1, <1>6, <1>9, PutSpace
<1>11. moved.terms = demo.terms BY AsItIs DEF HasParts
<1>12. DemoTerms(terms, ids)
  <2>1. DemoTerms(demo.terms, ids) BY <1>6 DEF Whole
  <2>2. last \in 1 .. ids.term BY <1>2, <1>4
  <2>3. pane \in [ws : Mock!Workspaces, sf : Nat, live : BOOLEAN] BY <1>1, <1>8
  <2> HIDE DEF pane, last
  <2> QED BY <2>1, <2>2, <2>3 DEF DemoTerms
<1>13. DOMAIN moved.terms \subseteq DOMAIN terms BY <1>11
<1> HIDE DEF moved, terms
<1>14. Whole(full, ids, demo.serial + 1) BY <1>10, <1>12, <1>13, PutTerms
<1> HIDE DEF full
<1>15. ASSUME Mock!ExecuteWith(full, ids) PROVE DemoActed BY <1>4, <1>14, <1>15, Executed
<1>16. ASSUME Mock!Refused(ids) PROVE DemoActed BY <1>4, <1>16, RefusedOK
<1> QED BY <1>5, <1>15, <1>16

LEMMA ViewPut ==
    ASSUME DemoInv, NEW v \in DOMAIN demo.views, NEW x, x \in [pinned : BOOLEAN, fresh : BOOLEAN]
    PROVE  Whole([demo EXCEPT !.views[v] = x], counters, demo.serial + 1)
<1> DEFINE views == [demo.views EXCEPT ![v] = x]
           act == [demo EXCEPT !.views[v] = x]
<1>1. DemoViews(views) BY PartsOf DEF DemoViews
<1>2. act = [demo EXCEPT !.views = views] OBVIOUS
<1> HIDE DEF act, views
<1>3. Whole(act, counters, demo.serial + 1) BY <1>1, <1>2, AsItIs, PutViews
<1> QED BY <1>3 DEF act

LEMMA DemoPin ==
    ASSUME DemoInv, NEW v \in DOMAIN demo.views,
           Mock!Pin(v) \/ Mock!Unpin(v) \/ Mock!Touch(v)
    PROVE  DemoActed
<1> DEFINE view == demo.views[v]
           pinned == [view EXCEPT !.pinned = TRUE]
           loose == [view EXCEPT !.pinned = FALSE]
           fresh == [view EXCEPT !.fresh = TRUE]
           T == [pinned : BOOLEAN, fresh : BOOLEAN]
<1>1. view \in T BY PartsOf DEF DemoViews
<1>2. pinned \in T /\ loose \in T /\ fresh \in T BY <1>1
<1>3. \/ Mock!Execute([demo EXCEPT !.views[v] = pinned])
      \/ Mock!Execute([demo EXCEPT !.views[v] = loose])
      \/ Mock!Execute([demo EXCEPT !.views[v] = fresh])
  BY DEF Mock!Pin, Mock!Unpin, Mock!Touch
<1> HIDE DEF pinned, loose, fresh
<1>4. ASSUME NEW x \in T, Mock!Execute([demo EXCEPT !.views[v] = x]) PROVE DemoActed
  <2> DEFINE act == [demo EXCEPT !.views[v] = x]
  <2>1. Whole(act, counters, demo.serial + 1) BY ViewPut
  <2>2. Mock!Execute(act) BY <1>4
  <2> HIDE DEF act
  <2> QED BY <2>1, <2>2, ExecutedOK
<1> QED BY <1>2, <1>3, <1>4

LEMMA DemoPrune ==
    ASSUME DemoInv, NEW v \in DOMAIN demo.views, Mock!Prune(v)
    PROVE  DemoActed
<1> DEFINE views == [u \in DOMAIN demo.views \ {v} |-> demo.views[u]]
           act == [demo EXCEPT !.views = views]
<1>1. DemoViews(views) BY PartsOf DEF DemoViews
<1>2. Mock!Execute(act) BY DEF Mock!Prune
<1> HIDE DEF views
<1>3. Whole(act, counters, demo.serial + 1) BY <1>1, AsItIs, PutViews
<1> HIDE DEF act
<1> QED BY <1>2, <1>3, ExecutedOK

LEMMA DemoAgentActs ==
    ASSUME DemoInv, NEW a \in DOMAIN demo.agents,
           Mock!AgentPrompt(a) \/ Mock!AgentWait(a) \/ Mock!AgentClaim(a)
    PROVE  DemoActed
<1> DEFINE agent == demo.agents[a]
           runs == [agent EXCEPT !.state = "running"]
           waits == [agent EXCEPT !.state = "waiting"]
           claimed == [agent EXCEPT !.claimed = TRUE]
           T == [ws : Mock!Workspaces, term : DOMAIN demo.terms \cup {Mock!NoTerminal},
                 state : {"running", "waiting", "done"}, claimed : BOOLEAN]
<1>1. agent \in T BY PartsOf DEF DemoAgents
<1>2. runs \in T /\ waits \in T /\ claimed \in T BY <1>1
<1>3. \/ Mock!Execute([demo EXCEPT !.agents[a] = runs])
      \/ Mock!Execute([demo EXCEPT !.agents[a] = waits])
      \/ Mock!Execute([demo EXCEPT !.agents[a] = claimed])
  BY DEF Mock!AgentPrompt, Mock!AgentWait, Mock!AgentClaim
<1> HIDE DEF runs, waits, claimed
<1>4. ASSUME NEW x \in T, Mock!Execute([demo EXCEPT !.agents[a] = x]) PROVE DemoActed
  <2> DEFINE agents == [demo.agents EXCEPT ![a] = x]
             act == [demo EXCEPT !.agents[a] = x]
  <2>1. DemoAgents(agents, demo.terms) BY PartsOf DEF DemoAgents
  <2>2. act = [demo EXCEPT !.agents = agents] OBVIOUS
  <2>3. Mock!Execute(act) BY <1>4
  <2> HIDE DEF act, agents
  <2>4. Whole(act, counters, demo.serial + 1) BY <2>1, <2>2, AsItIs, PutAgents
  <2> QED BY <2>3, <2>4, ExecutedOK
<1> QED BY <1>2, <1>3, <1>4

LEMMA DemoOther ==
    ASSUME DemoInv, Mock!Other
    PROVE  DemoActed
BY AsItIs, ExecutedOK DEF Mock!Other

LEMMA DemoTick ==
    ASSUME DemoInv, Mock!Tick
    PROVE  /\ DemoInv' /\ demo'.plans = demo.plans /\ demo'.serial = demo.serial
           /\ tried' = tried
<1>1. PICK old \in SUBSET { v \in DOMAIN demo.views : demo.views[v].fresh } :
         demo' = [demo EXCEPT !.views =
                    [v \in DOMAIN @ |-> IF v \in old THEN [@[v] EXCEPT !.fresh = FALSE]
                                        ELSE @[v]]]
  BY DEF Mock!Tick
<1> DEFINE views == [v \in DOMAIN demo.views |->
                        IF v \in old THEN [demo.views[v] EXCEPT !.fresh = FALSE]
                        ELSE demo.views[v]]
           d == [demo EXCEPT !.views = views]
<1>2. demo' = d BY <1>1
<1>3. counters' = counters /\ tried' = tried BY DEF Mock!Tick
<1>4. DemoViews(views) BY PartsOf DEF DemoViews
<1> HIDE DEF views
<1>5. Whole(demo, counters, demo.serial) /\ HasParts(demo) BY AsItIs DEF DemoInv
<1>6. Whole(d, counters, demo.serial) BY <1>4, <1>5, PutViews
<1>7. /\ d.ws = demo.ws /\ d.terms = demo.terms /\ d.agents = demo.agents
      /\ d.snaps = demo.snaps /\ d.plans = demo.plans /\ d.serial = demo.serial
  BY <1>5 DEF HasParts
<1> HIDE DEF d
<1>8. Mock!Valid(d) BY <1>7 DEF DemoInv, Mock!Valid, Mock!ValidTerminal
<1>9. Whole(demo', counters', demo'.serial) /\ Mock!Valid(demo)' BY <1>2, <1>3, <1>6, <1>7, <1>8
<1> QED BY <1>2, <1>3, <1>7, <1>9 DEF DemoInv

-----------------------------------------------------------------------------
(***************************************************************************)
(* Snapshots and restore plans                                             *)
(***************************************************************************)

LEMMA MoreTaken ==
    ASSUME DemoInv, NEW kind \in {"term", "sf", "snap", "plan"}, NEW k \in Nat
    PROVE  LET ids == Mock!Taken(kind, k)
           IN  /\ ids \in Numbers /\ Covers(counters, ids) /\ ids[kind] = counters[kind] + k
               /\ counters[kind] \in Nat /\ Whole(demo, ids, demo.serial + 1)
<1> DEFINE ids == Mock!Taken(kind, k)
<1>1. /\ ids \in Numbers /\ Covers(counters, ids) /\ ids[kind] = counters[kind] + k
      /\ counters[kind] \in Nat
  BY TakenIs
<1> HIDE DEF ids
<1>2. demo.serial + 1 \in Nat /\ demo.serial + 1 <= demo.serial + 1 BY AsItIs
<1>3. Whole(demo, ids, demo.serial + 1) BY <1>1, <1>2, AsItIs, Grown
<1> QED BY <1>1, <1>3 DEF ids

LEMMA DemoCaptured ==
    ASSUME DemoInv, NEW k \in Nat, NEW targets, DOMAIN targets = 1 .. k,
           \A i \in 1 .. k : targets[i] \in Mock!Workspaces
    PROVE  DemoSnaps(Mock!Captured(targets), Mock!Taken("snap", k))
<1> DEFINE ids == Mock!Taken("snap", k)
<1>1. /\ ids \in Numbers /\ ids.snap = counters.snap + k /\ counters.snap \in Nat
      /\ Whole(demo, ids, demo.serial + 1)
  BY MoreTaken
<1> HIDE DEF ids
<1>2. ASSUME NEW s \in Mock!Captured(targets) PROVE Mock!SnapshotOK(s, ids)
  <2>1. PICK i \in 1 .. k : s = [id |-> counters.snap + i, ws |-> targets[i],
                                 state |-> demo.ws[targets[i]].observed]
    BY DEF Mock!Captured
  <2> DEFINE state == demo.ws[targets[i]].observed
             number == counters.snap + i
  <2>2. Mock!WorkspaceOK(demo.ws[targets[i]], ids) BY <1>1 DEF Whole, DemoSpaces
  <2>3. state \in Shown(ids.sf) BY <1>1, <2>2, SpaceFields
  <2>4. number \in 1 .. ids.snap BY <1>1
  <2>5. s = [id |-> number, ws |-> targets[i], state |-> state] BY <2>1
  <2> HIDE DEF state, number
  <2>6. s.state = state BY <2>5
  <2>7. state \in Mock!States /\ Mock!Within(state, ids.sf) BY <2>3 DEF Shown
  <2>8. s \in [id : 1 .. ids.snap, ws : Mock!Workspaces, state : Mock!States]
    BY <2>4, <2>5, <2>7
  <2> QED BY <2>6, <2>7, <2>8 DEF Mock!SnapshotOK
<1> QED BY <1>2 DEF DemoSnaps, ids

LEMMA DemoSnapshotCreate ==
    ASSUME DemoInv, NEW k \in Nat, NEW targets \in [1 .. k -> Mock!Workspaces],
           Mock!SnapshotCreate(targets)
    PROVE  DemoActed
<1> DEFINE ids == Mock!Taken("snap", k)
           snaps == demo.snaps \cup Mock!Captured(targets)
           act == [demo EXCEPT !.snaps = snaps]
<1>1. Len(targets) = k OBVIOUS
<1>2. Mock!ExecuteWith(act, ids) BY <1>1 DEF Mock!SnapshotCreate
<1>3. ids \in Numbers /\ Covers(counters, ids) /\ Whole(demo, ids, demo.serial + 1)
  BY MoreTaken
<1>4. DemoSnaps(Mock!Captured(targets), ids) BY DemoCaptured
<1>5. DemoSnaps(snaps, ids) BY <1>3, <1>4 DEF DemoSnaps, Whole
<1> HIDE DEF snaps, ids
<1>6. Whole(act, ids, demo.serial + 1) BY <1>3, <1>5, PutSnaps
<1> HIDE DEF act
<1> QED BY <1>2, <1>3, <1>6, Executed

LEMMA MockSetToSeq ==
    ASSUME NEW S, IsFiniteSet(S)
    PROVE  Mock!SetToSeq(S) \in [1 .. Cardinality(S) -> S] /\ Cardinality(S) \in Nat
<1>1. ExistsBijection(1 .. Cardinality(S), S) /\ Cardinality(S) \in Nat
  BY FS_CardinalityType
<1>2. PICK f : f \in Bijection(1 .. Cardinality(S), S) BY <1>1 DEF ExistsBijection
<1>3. f \in [1 .. Cardinality(S) -> S] /\ Mock!IsInjective(f)
  BY <1>2 DEF Bijection, Injection, IsInjective, Mock!IsInjective
<1>4. Mock!SetToSeq(S) = CHOOSE h \in [1 .. Cardinality(S) -> S] : Mock!IsInjective(h)
  <2>1. Mock!Cardinality(S) = Cardinality(S) BY MockFinite
  <2> QED BY <2>1 DEF Mock!SetToSeq
<1> QED BY <1>1, <1>3, <1>4

LEMMA DemoSnapshotDelete ==
    ASSUME DemoInv, NEW s \in demo.snaps, Mock!SnapshotDelete(s)
    PROVE  DemoActed
<1> DEFINE snaps == demo.snaps \ {s}
           plans == {p \in demo.plans : p.snapshot # s.id}
           left == [demo EXCEPT !.snaps = snaps]
           act == [left EXCEPT !.plans = plans]
<1>1. DemoSnaps(snaps, counters) BY PartsOf DEF DemoSnaps
<1>2. DemoPlans(plans, counters, demo.serial + 1) BY PartsOf DEF DemoPlans
<1>3. Mock!Execute(act)
  BY AsItIs DEF Mock!SnapshotDelete, Mock!WithoutSnapshot, HasParts
<1> HIDE DEF snaps
<1>4. Whole(left, counters, demo.serial + 1) BY <1>1, AsItIs, PutSnaps
<1> HIDE DEF left, plans
<1>5. Whole(act, counters, demo.serial + 1) BY <1>2, <1>4, PutPlans
<1> HIDE DEF act
<1> QED BY <1>3, <1>5, ExecutedOK

LEMMA DemoSnapshotPlan ==
    ASSUME DemoInv, NEW s \in demo.snaps, Mock!SnapshotPlan(s)
    PROVE  DemoActed
<1> DEFINE ids == Mock!Taken("plan", 1)
           q == Mock!PlanFor(s)
           w == demo.ws[s.ws]
           push == Mock!Diff(w.observed, s.state)
           pull == Mock!Diff(w.desired, w.observed)
           ops == [push |-> push, pull |-> pull]
           number == counters.plan + 1
           plans == demo.plans \cup {q}
           act == [demo EXCEPT !.plans = plans]
<1>1. /\ ids \in Numbers /\ Covers(counters, ids) /\ Whole(demo, ids, demo.serial + 1)
      /\ ids.plan = number /\ counters.plan \in Nat
  BY MoreTaken
<1>2. Mock!ExecuteWith(act, ids) BY DEF Mock!SnapshotPlan
<1>3. q = [id |-> number, snapshot |-> s.id, ws |-> s.ws, status |-> "pending",
           serial |-> 0, ops |-> ops, mode |-> "none", undo |-> << >>, made |-> {},
           was |-> w]
  BY DEF Mock!PlanFor
<1> HIDE DEF ids
<1>4. Mock!SnapshotOK(s, ids) /\ DemoSpaces(demo.ws, ids) BY <1>1 DEF Whole, DemoSnaps
<1>5. s.id \in 1 .. ids.snap /\ s.ws \in Mock!Workspaces /\ s.state \in Shown(ids.sf)
  BY <1>4 DEF Mock!SnapshotOK, Shown
<1>6. w.desired \in Shown(ids.sf) /\ w.observed \in Shown(ids.sf) /\ ids.sf \in Nat
  BY <1>1, <1>4, <1>5, SpaceFields DEF DemoSpaces
<1>7. OpsOK(push, ids.sf) /\ OpsOK(pull, ids.sf) BY <1>5, <1>6, DiffOK
<1> HIDE DEF push, pull
<1>8. ops \in [push : SUBSET Mock!Ops(ids.sf), pull : SUBSET Mock!Ops(ids.sf)]
  BY <1>7 DEF OpsOK
<1>9. ops.push = push /\ ops.pull = pull OBVIOUS
<1>10. s.id \in Nat /\ number \in 1 .. ids.plan /\ 0 \in 0 .. demo.serial + 1
  BY <1>1, <1>5, AsItIs DEF Numbers
<1> DEFINE pending == "pending"
           none == "none"
           empty == << >>
<1>11. /\ pending \in {"pending", "applied", "undone"}
       /\ none \in {"none", "push", "pull", "freeze"}
       /\ empty \in Seq(Mock!Ops(ids.sf))
  OBVIOUS
<1>12. q = [id |-> number, snapshot |-> s.id, ws |-> s.ws, status |-> pending,
            serial |-> 0, ops |-> ops, mode |-> none, undo |-> empty, made |-> {},
            was |-> w]
  BY <1>3
<1> HIDE DEF q, w, ops, number, pending, none, empty
<1>13. /\ q.id = number /\ q.snapshot = s.id /\ q.ws = s.ws /\ q.status = pending
       /\ q.serial = 0 /\ q.ops = ops /\ q.mode = none /\ q.undo = empty
       /\ q.made = {} /\ q.was = w
  BY <1>12
<1>14. q = [id |-> q.id, snapshot |-> q.snapshot, ws |-> q.ws, status |-> q.status,
            serial |-> q.serial, ops |-> q.ops, mode |-> q.mode, undo |-> q.undo,
            made |-> q.made, was |-> q.was]
  BY <1>12, <1>13
<1>15. Mock!PlanOK(q, ids, demo.serial + 1)
  BY <1>5, <1>8, <1>10, <1>11, <1>13, <1>14, PlanMade
<1>16. DemoPlans(plans, ids, demo.serial + 1)
  BY <1>1, <1>7, <1>9, <1>13, <1>15 DEF DemoPlans, Whole
<1> HIDE DEF plans
<1>17. Whole(act, ids, demo.serial + 1) BY <1>1, <1>16, PutPlans
<1> HIDE DEF act
<1> QED BY <1>1, <1>2, <1>17, Executed

LEMMA PlanOf ==
    ASSUME DemoInv, NEW p \in demo.plans
    PROVE  /\ Mock!PlanOK(p, counters, demo.serial) /\ p.ws \in Mock!Workspaces
           /\ OpsOK(p.ops.push, counters.sf) /\ OpsOK(p.ops.pull, counters.sf)
           /\ p.undo \in Seq(Mock!Ops(counters.sf))
           /\ p.id \in 1 .. counters.plan /\ p.serial \in 0 .. demo.serial
<1>1. Mock!PlanOK(p, counters, demo.serial)
      /\ OpsOK(p.ops.push, counters.sf) /\ OpsOK(p.ops.pull, counters.sf)
  BY DEF DemoInv, Whole, DemoPlans
<1> QED BY <1>1, PlanFields

LEMMA DemoApplied ==
    ASSUME DemoInv, NEW n \in Numbers, DemoPlans(demo.plans, n, demo.serial + 1),
           NEW p \in demo.plans, NEW mode \in {"push", "pull", "freeze"},
           NEW undo \in Seq(Mock!Ops(n.sf)), NEW made
    PROVE  DemoPlans(Mock!Applied(p, mode, undo, made), n, demo.serial + 1)
<1> DEFINE applied == "applied"
           serial == demo.serial + 1
           was == demo.ws[p.ws]
           R(a, b, c, d, e, f) ==
               [id |-> p.id, snapshot |-> p.snapshot, ws |-> p.ws, status |-> a,
                serial |-> b, ops |-> p.ops, mode |-> c, undo |-> d, made |-> e, was |-> f]
           r1 == [p EXCEPT !.status = applied]
           r2 == [r1 EXCEPT !.serial = serial]
           r3 == [r2 EXCEPT !.mode = mode]
           r4 == [r3 EXCEPT !.undo = undo]
           r5 == [r4 EXCEPT !.made = made]
           q == [r5 EXCEPT !.was = was]
<1>1. Mock!Applied(p, mode, undo, made) = (demo.plans \ {p}) \cup {q} BY DEF Mock!Applied
<1>2. Mock!PlanOK(p, n, serial) /\ OpsOK(p.ops.push, n.sf) /\ OpsOK(p.ops.pull, n.sf)
  BY DEF DemoPlans
<1>3. applied \in {"pending", "applied", "undone"} /\ serial \in 0 .. serial BY AsItIs
<1> HIDE DEF applied, serial, was
<1>4. /\ p = [id |-> p.id, snapshot |-> p.snapshot, ws |-> p.ws, status |-> p.status,
              serial |-> p.serial, ops |-> p.ops, mode |-> p.mode, undo |-> p.undo,
              made |-> p.made, was |-> p.was]
      /\ p.id \in 1 .. n.plan /\ p.snapshot \in Nat /\ p.ws \in Mock!Workspaces
      /\ p.ops \in [push : SUBSET Mock!Ops(n.sf), pull : SUBSET Mock!Ops(n.sf)]
  BY <1>2, PlanFields
<1>5. r1 = R(applied, p.serial, p.mode, p.undo, p.made, p.was) BY <1>4
<1> HIDE DEF r1
<1>6. r2 = R(applied, serial, p.mode, p.undo, p.made, p.was) BY <1>5
<1> HIDE DEF r2
<1>7. r3 = R(applied, serial, mode, p.undo, p.made, p.was) BY <1>6
<1> HIDE DEF r3
<1>8. r4 = R(applied, serial, mode, undo, p.made, p.was) BY <1>7
<1> HIDE DEF r4
<1>9. r5 = R(applied, serial, mode, undo, made, p.was) BY <1>8
<1> HIDE DEF r5
<1>10. q = R(applied, serial, mode, undo, made, was) BY <1>9
<1> HIDE DEF q
<1>11. /\ q.id = p.id /\ q.snapshot = p.snapshot /\ q.ws = p.ws /\ q.status = applied
       /\ q.serial = serial /\ q.ops = p.ops /\ q.mode = mode /\ q.undo = undo
       /\ q.made = made /\ q.was = was
  BY <1>10
<1>12. q = [id |-> q.id, snapshot |-> q.snapshot, ws |-> q.ws, status |-> q.status,
            serial |-> q.serial, ops |-> q.ops, mode |-> q.mode, undo |-> q.undo,
            made |-> q.made, was |-> q.was]
  BY <1>10, <1>11
<1> HIDE DEF R
<1>13. Mock!PlanOK(q, n, serial) BY <1>3, <1>4, <1>11, <1>12, PlanMade
<1>14. \A r \in (demo.plans \ {p}) \cup {q} :
          /\ Mock!PlanOK(r, n, serial)
          /\ OpsOK(r.ops.push, n.sf) /\ OpsOK(r.ops.pull, n.sf)
  BY <1>2, <1>11, <1>13 DEF DemoPlans, serial
<1> QED BY <1>1, <1>14 DEF DemoPlans, serial

LEMMA DemoApply ==
    ASSUME DemoInv, NEW p \in demo.plans, NEW mode \in {"push", "pull"},
           NEW chosen \in SUBSET p.ops[mode], Mock!RestoreApply(p, mode, chosen)
    PROVE  DemoActed
<1> DEFINE w == demo.ws[p.ws]
           state == w[Mock!Target(mode)]
           ops == Mock!InPlanOrder(chosen)
           redone == Mock!Redone(state, ops)
           v == [w EXCEPT ![Mock!Target(mode)] = redone]
           x == Mock!Reconciled(v)
           plans == Mock!Applied(p, mode, ops, {})
           moved == [demo EXCEPT !.ws[p.ws] = x]
           act == [moved EXCEPT !.plans = plans]
<1>1. counters \in Numbers /\ counters.sf \in Nat BY AsItIs DEF Numbers
<1>2. OpsOK(chosen, counters.sf)
  <2>1. p.ops[mode] = p.ops.push \/ p.ops[mode] = p.ops.pull OBVIOUS
  <2>2. OpsOK(p.ops[mode], counters.sf) BY <2>1, PlanOf
  <2>3. IsFiniteSet(chosen) BY <2>2, FS_Subset DEF OpsOK
  <2> QED BY <2>2, <2>3 DEF OpsOK, Single
<1>3. ops \in Seq(Mock!Ops(counters.sf)) BY <1>2, PlanOrderOK
<1>4. p.ws \in Mock!Workspaces /\ Mock!WorkspaceOK(w, counters) BY PlanOf, PartsOf
<1>5. state \in Shown(counters.sf)
  BY <1>1, <1>4, SpaceFields DEF Mock!Target
<1>6. redone \in Shown(counters.sf)
  <2> HIDE DEF state, ops
  <2> QED BY <1>1, <1>3, <1>5, RedoneOK
<1>7. Mock!Execute(act)
  BY AsItIs DEF Mock!RestoreApply, HasParts
<1>8. Mock!WorkspaceOK(v, counters)
  <2> HIDE DEF redone, w
  <2> QED BY <1>1, <1>4, <1>6, TargetOK
<1> HIDE DEF v
<1>9. Mock!WorkspaceOK(x, counters) BY <1>1, <1>8, ReconciledOK
<1> HIDE DEF x, ops
<1>10. Whole(moved, counters, demo.serial + 1) BY <1>4, <1>9, AsItIs, PutSpace
<1>11. DemoPlans(plans, counters, demo.serial + 1)
  BY <1>1, <1>3, PartsOf, DemoApplied
<1> HIDE DEF moved, plans
<1>12. Whole(act, counters, demo.serial + 1) BY <1>10, <1>11, PutPlans
<1> HIDE DEF act
<1> QED BY <1>7, <1>12, ExecutedOK

LEMMA DemoRestoreFreeze ==
    ASSUME DemoInv, NEW p \in demo.plans, Mock!RestoreFreeze(p)
    PROVE  DemoActed
<1> DEFINE ids == Mock!Taken("snap", 1)
           targets == << p.ws >>
           made == Mock!Captured(targets)
           snaps == demo.snaps \cup made
           x == Mock!Reconciled(demo.ws[p.ws])
           plans == Mock!Applied(p, "freeze", << >>, made)
           saved == [demo EXCEPT !.snaps = snaps]
           moved == [saved EXCEPT !.ws[p.ws] = x]
           act == [moved EXCEPT !.plans = plans]
<1>1. /\ ids \in Numbers /\ Covers(counters, ids) /\ Whole(demo, ids, demo.serial + 1)
  BY MoreTaken
<1>2. Mock!ExecuteWith(act, ids)
  BY AsItIs DEF Mock!RestoreFreeze, HasParts
<1>3. p.ws \in Mock!Workspaces BY PlanOf
<1>4. DemoSnaps(made, ids)
  <2>1. DOMAIN targets = 1 .. 1 /\ \A i \in 1 .. 1 : targets[i] \in Mock!Workspaces
    BY <1>3
  <2> HIDE DEF targets
  <2> QED BY <2>1, DemoCaptured
<1>5. Mock!WorkspaceOK(demo.ws[p.ws], ids) BY <1>1, <1>3 DEF Whole, DemoSpaces
<1> HIDE DEF ids, made
<1>6. Mock!WorkspaceOK(x, ids) BY <1>1, <1>5, ReconciledOK
<1>7. DemoSnaps(snaps, ids) BY <1>1, <1>4 DEF DemoSnaps, Whole
<1> HIDE DEF x, snaps
<1>8. Whole(saved, ids, demo.serial + 1) BY <1>1, <1>7, PutSnaps
<1> HIDE DEF saved
<1>9. Whole(moved, ids, demo.serial + 1) BY <1>3, <1>6, <1>8, PutSpace
<1>10. DemoPlans(plans, ids, demo.serial + 1)
  <2> DEFINE none == << >>
  <2>1. none \in Seq(Mock!Ops(ids.sf)) OBVIOUS
  <2>2. DemoPlans(demo.plans, ids, demo.serial + 1) BY <1>1 DEF Whole
  <2> HIDE DEF none
  <2>3. DemoPlans(Mock!Applied(p, "freeze", none, made), ids, demo.serial + 1)
    BY <1>1, <2>1, <2>2, DemoApplied
  <2> QED BY <2>3 DEF none
<1> HIDE DEF moved, plans
<1>11. Whole(act, ids, demo.serial + 1) BY <1>9, <1>10, PutPlans
<1> HIDE DEF act
<1> QED BY <1>1, <1>2, <1>11, Executed

LEMMA UndonePlans ==
    ASSUME DemoInv, NEW p \in demo.plans
    PROVE  DemoPlans((demo.plans \ {p}) \cup {[p EXCEPT !.status = "undone"]}, counters,
                     demo.serial + 1)
<1> DEFINE undone == "undone"
           q == [p EXCEPT !.status = undone]
           n == counters
           serial == demo.serial + 1
<1>1. Mock!PlanOK(p, n, serial) /\ OpsOK(p.ops.push, n.sf) /\ OpsOK(p.ops.pull, n.sf)
  BY PartsOf DEF DemoPlans
<1>2. undone \in {"pending", "applied", "undone"} OBVIOUS
<1> HIDE DEF undone, serial, n
<1>3. /\ p = [id |-> p.id, snapshot |-> p.snapshot, ws |-> p.ws, status |-> p.status,
              serial |-> p.serial, ops |-> p.ops, mode |-> p.mode, undo |-> p.undo,
              made |-> p.made, was |-> p.was]
      /\ p.id \in 1 .. n.plan /\ p.snapshot \in Nat /\ p.ws \in Mock!Workspaces
      /\ p.serial \in 0 .. serial
      /\ p.ops \in [push : SUBSET Mock!Ops(n.sf), pull : SUBSET Mock!Ops(n.sf)]
      /\ p.mode \in {"none", "push", "pull", "freeze"} /\ p.undo \in Seq(Mock!Ops(n.sf))
  BY <1>1, PlanFields
<1>4. q = [id |-> p.id, snapshot |-> p.snapshot, ws |-> p.ws, status |-> undone,
           serial |-> p.serial, ops |-> p.ops, mode |-> p.mode, undo |-> p.undo,
           made |-> p.made, was |-> p.was]
  BY <1>3
<1> HIDE DEF q
<1>5. /\ q.id = p.id /\ q.snapshot = p.snapshot /\ q.ws = p.ws /\ q.status = undone
      /\ q.serial = p.serial /\ q.ops = p.ops /\ q.mode = p.mode /\ q.undo = p.undo
      /\ q.made = p.made /\ q.was = p.was
  BY <1>4
<1>6. q = [id |-> q.id, snapshot |-> q.snapshot, ws |-> q.ws, status |-> q.status,
           serial |-> q.serial, ops |-> q.ops, mode |-> q.mode, undo |-> q.undo,
           made |-> q.made, was |-> q.was]
  BY <1>4, <1>5
<1>7. Mock!PlanOK(q, n, serial) BY <1>2, <1>3, <1>5, <1>6, PlanMade
<1>8. DemoPlans(demo.plans, n, serial) BY PartsOf DEF n, serial
<1>9. DemoPlans((demo.plans \ {p}) \cup {q}, n, serial)
  BY <1>1, <1>5, <1>7, <1>8 DEF DemoPlans
<1> QED BY <1>9 DEF q, n, serial, undone

LEMMA DemoUndo ==
    ASSUME DemoInv, NEW p \in demo.plans, Mock!ReconcileUndo(p)
    PROVE  DemoActed
<1> DEFINE w == demo.ws[p.ws]
           state == w[Mock!Target(p.mode)]
           rolled == Mock!Rolled(state, p.undo)
           v == [w EXCEPT ![Mock!Target(p.mode)] = rolled]
           x == Mock!Reverted(p)
           snaps == demo.snaps \ p.made
           plans == (demo.plans \ {p}) \cup {[p EXCEPT !.status = "undone"]}
           moved == [demo EXCEPT !.ws[p.ws] = x]
           left == [moved EXCEPT !.snaps = snaps]
           act == [left EXCEPT !.plans = plans]
<1>1. counters \in Numbers /\ counters.sf \in Nat BY AsItIs DEF Numbers
<1>2. /\ p.ws \in Mock!Workspaces /\ p.undo \in Seq(Mock!Ops(counters.sf))
      /\ Mock!WorkspaceOK(w, counters)
  BY PlanOf, PartsOf
<1>3. state \in Shown(counters.sf) BY <1>1, <1>2, SpaceFields DEF Mock!Target
<1>4. Mock!Execute(act)
  BY AsItIs DEF Mock!ReconcileUndo, Mock!Undone, HasParts
<1>5. x = Mock!Reconciled(w) \/ x = Mock!Reconciled(v) BY DEF Mock!Reverted
<1> HIDE DEF state
<1>6. rolled \in Shown(counters.sf) BY <1>1, <1>2, <1>3, RolledOK
<1> HIDE DEF rolled, w
<1>7. Mock!WorkspaceOK(v, counters) BY <1>1, <1>2, <1>6, TargetOK
<1> HIDE DEF v, x
<1>8. Mock!WorkspaceOK(x, counters) BY <1>1, <1>2, <1>5, <1>7, ReconciledOK
<1>9. Whole(moved, counters, demo.serial + 1) BY <1>2, <1>8, AsItIs, PutSpace
<1>10. DemoSnaps(snaps, counters) BY PartsOf DEF DemoSnaps
<1> HIDE DEF moved, snaps
<1>11. Whole(left, counters, demo.serial + 1) BY <1>9, <1>10, PutSnaps
<1>12. DemoPlans(plans, counters, demo.serial + 1) BY UndonePlans
<1> HIDE DEF left, plans
<1>13. Whole(act, counters, demo.serial + 1) BY <1>11, <1>12, PutPlans
<1> HIDE DEF act
<1> QED BY <1>4, <1>13, ExecutedOK

-----------------------------------------------------------------------------
(***************************************************************************)
(* The invariant, and what it is for                                       *)
(***************************************************************************)

LEMMA DemoStarts == DaemonsInit => DemoInv
<1> SUFFICES ASSUME DaemonsInit PROVE DemoInv OBVIOUS
<1>1. demo = Fixture /\ counters = Fixture.counters /\ tried = 0
  BY DEF DaemonsInit, Mock!Init
<1>2. /\ Mock!CatalogOK(Fixture, Fixture.counters) /\ Mock!Valid(Fixture)
      /\ Fixture.plans = {} /\ Fixture.serial = 0 /\ MaxActs \in Nat
  BY DemoAssumptions DEF Mock!FixtureAssumption
<1>3. Whole(Fixture, Fixture.counters, 0)
  BY <1>2 DEF Mock!CatalogOK, Whole, HasParts, Numbers, DemoSpaces, DemoTerms, DemoAgents,
              DemoViews, DemoSnaps, DemoPlans
<1> QED BY <1>1, <1>2, <1>3 DEF DemoInv

LEMMA DemoActs ==
    ASSUME DemoInv, Mock!Next, ~ Mock!Tick
    PROVE  DemoActed
<1>1. ASSUME NEW t \in DOMAIN demo.terms,
             Mock!Attach(t) \/ Mock!Split(t) \/ Mock!Kill(t)
                \/ \E w \in Mock!Workspaces : Mock!Link(t, w)
      PROVE  DemoActed
  BY <1>1, DemoAttach, DemoSplit, DemoKill, DemoLink
<1>2. ASSUME NEW v \in DOMAIN demo.views,
             Mock!Pin(v) \/ Mock!Unpin(v) \/ Mock!Touch(v) \/ Mock!Prune(v)
      PROVE  DemoActed
  BY <1>2, DemoPin, DemoPrune
<1>3. ASSUME NEW a \in DOMAIN demo.agents,
             Mock!AgentPrompt(a) \/ Mock!AgentWait(a) \/ Mock!AgentClaim(a)
      PROVE  DemoActed
  BY <1>3, DemoAgentActs
<1>4. ASSUME NEW w \in Mock!Workspaces, Mock!SnapshotCreate(<< w >>) PROVE DemoActed
  <2> DEFINE targets == << w >>
  <2>1. targets \in [1 .. 1 -> Mock!Workspaces] /\ 1 \in Nat OBVIOUS
  <2>2. Mock!SnapshotCreate(targets) BY <1>4
  <2> HIDE DEF targets
  <2> QED BY <2>1, <2>2, DemoSnapshotCreate
<1>5. ASSUME Mock!SnapshotCreate(Mock!SetToSeq(Mock!Workspaces)) PROVE DemoActed
  <2> DEFINE targets == Mock!SetToSeq(Mock!Workspaces)
             k == Cardinality(Mock!Workspaces)
  <2>1. Mock!IsFiniteSet(Mock!Workspaces)
    BY DemoAssumptions DEF Mock!FixtureAssumption
  <2>2. IsFiniteSet(Mock!Workspaces) BY <2>1, MockFinite
  <2>3. targets \in [1 .. k -> Mock!Workspaces] /\ k \in Nat BY <2>2, MockSetToSeq
  <2>4. Mock!SnapshotCreate(targets) BY <1>5
  <2> HIDE DEF targets, k
  <2> QED BY <2>3, <2>4, DemoSnapshotCreate
<1>6. ASSUME NEW s \in demo.snaps, Mock!SnapshotDelete(s) \/ Mock!SnapshotPlan(s)
      PROVE  DemoActed
  BY <1>6, DemoSnapshotDelete, DemoSnapshotPlan
<1>7. ASSUME NEW p \in demo.plans,
             \/ \E mode \in {"push", "pull"} :
                   \E chosen \in SUBSET p.ops[mode] \ {{}} :
                      Mock!RestoreApply(p, mode, chosen)
             \/ Mock!RestoreFreeze(p) \/ Mock!ReconcileUndo(p)
      PROVE  DemoActed
  BY <1>7, DemoApply, DemoRestoreFreeze, DemoUndo
<1>8. ASSUME NEW w \in Mock!Workspaces, Mock!Freeze(w) PROVE DemoActed
  BY <1>8, DemoFreeze
<1>9. ASSUME Mock!Other PROVE DemoActed BY <1>9, DemoOther
<1> QED BY <1>1, <1>2, <1>3, <1>4, <1>5, <1>6, <1>7, <1>8, <1>9 DEF Mock!Next

LEMMA DemoStays ==
    ASSUME DemoInv, UNCHANGED mockVars
    PROVE  DemoInv'
<1>1. demo' = demo /\ counters' = counters /\ tried' = tried BY DEF mockVars
<1>2. Whole(demo, counters, demo.serial) /\ Mock!Valid(demo) BY DEF DemoInv
<1>3. Whole(demo', counters', demo'.serial) /\ Mock!Valid(demo)' BY <1>1, <1>2
<1> QED BY <1>1, <1>3 DEF DemoInv

LEMMA DemoCases ==
    ASSUME [DaemonsNext]_all
    PROVE  Mock!Next \/ UNCHANGED mockVars
BY DEF DaemonsNext, all

LEMMA DemoAlways == DaemonsSpec => []DemoInv
<1>1. DaemonsInit => DemoInv BY DemoStarts
<1>2. DemoInv /\ [DaemonsNext]_all => DemoInv'
  <2> SUFFICES ASSUME DemoInv, [DaemonsNext]_all PROVE DemoInv' OBVIOUS
  <2>1. CASE UNCHANGED mockVars BY <2>1, DemoStays
  <2>2. CASE Mock!Tick BY <2>2, DemoTick
  <2>3. CASE Mock!Next /\ ~ Mock!Tick BY <2>3, DemoActs DEF DemoActed
  <2> QED BY <2>1, <2>2, <2>3, DemoCases
<1> QED BY <1>1, <1>2, PTL DEF DaemonsSpec

(* The catalogs of daemon and demo keep their types, and no counter of the *)
(* demo's is behind an id in use (mock/backend.go, runtimegraph).          *)
THEOREM BackendsTyped == DaemonsSpec => []BackendsTypeOK
<1>1. CatalogInv /\ DemoInv => BackendsTypeOK
  BY CatalogTypeOK, DemoTypeOK DEF BackendsTypeOK
<1> QED BY <1>1, CatalogAlways, DemoAlways, PTL

(* A terminal that is killed and a snapshot that is deleted leave a valid  *)
(* catalog.                                                                *)
LEMMA DemoCleansUp ==
    ASSUME DemoInv
    PROVE  Mock!CleanupPossible
<1>1. HasParts(demo) /\ Mock!Valid(demo) BY AsItIs DEF DemoInv
<1>2. ASSUME NEW t \in Mock!Live PROVE Mock!Valid(Mock!Killed(t))
  <2> DEFINE d == Mock!Killed(t)
             x == [demo.terms[t] EXCEPT !.live = FALSE]
  <2>1. t \in DOMAIN demo.terms BY DEF Mock!Live
  <2>2. /\ d.ws = demo.ws /\ d.snaps = demo.snaps /\ d.plans = demo.plans
        /\ d.terms = [demo.terms EXCEPT ![t] = x]
        /\ d.agents = Mock!Detached(demo.agents, t)
    BY <1>1 DEF Mock!Killed, HasParts
  <2>3. x.ws = demo.terms[t].ws /\ x.sf = demo.terms[t].sf BY <2>1, TermOf
  <2> HIDE DEF d, x
  <2>4. \A u \in DOMAIN d.terms : Mock!ValidTerminal(d, u)
    BY <1>1, <2>1, <2>2, <2>3 DEF Mock!Valid, Mock!ValidTerminal
  <2>5. ASSUME NEW a \in DOMAIN d.agents, d.agents[a].term # Mock!NoTerminal
        PROVE  d.terms[d.agents[a].term].live
    <3>1. a \in DOMAIN demo.agents
          /\ d.agents[a] = IF demo.agents[a].term = t
                           THEN [demo.agents[a] EXCEPT !.term = Mock!NoTerminal]
                           ELSE demo.agents[a]
      BY <2>2 DEF Mock!Detached
    <3> DEFINE u == demo.agents[a].term
    <3>2. demo.agents[a] \in [ws : Mock!Workspaces,
                              term : DOMAIN demo.terms \cup {Mock!NoTerminal},
                              state : {"running", "waiting", "done"}, claimed : BOOLEAN]
      BY <3>1, PartsOf DEF DemoAgents
    <3>3. u # t /\ d.agents[a] = demo.agents[a] BY <2>5, <3>1, <3>2
    <3>4. u # Mock!NoTerminal /\ u \in DOMAIN demo.terms BY <2>5, <3>2, <3>3
    <3>5. demo.terms[u].live BY <1>1, <3>1, <3>4 DEF Mock!Valid
    <3>6. d.terms[u] = demo.terms[u] BY <2>2, <3>3, <3>4
    <3> QED BY <3>3, <3>5, <3>6
  <2>6. Mock!Valid(d) BY <1>1, <2>2, <2>4, <2>5 DEF Mock!Valid
  <2> QED BY <2>6 DEF d
<1>3. ASSUME NEW s \in demo.snaps PROVE Mock!Valid(Mock!WithoutSnapshot(s))
  <2> DEFINE d == Mock!WithoutSnapshot(s)
  <2>1. /\ d.ws = demo.ws /\ d.terms = demo.terms /\ d.agents = demo.agents
        /\ d.snaps = demo.snaps \ {s}
        /\ d.plans = {p \in demo.plans : p.snapshot # s.id}
    BY <1>1 DEF Mock!WithoutSnapshot, HasParts
  <2> HIDE DEF d
  <2>2. ASSUME NEW p \in d.plans
        PROVE  \E r \in d.snaps : r.id = p.snapshot /\ r.ws = p.ws
    <3>1. p \in demo.plans /\ p.snapshot # s.id BY <2>1
    <3>2. PICK r \in demo.snaps : r.id = p.snapshot /\ r.ws = p.ws
      BY <1>1, <3>1 DEF Mock!Valid
    <3> QED BY <2>1, <3>1, <3>2
  <2>3. Mock!Valid(d) BY <1>1, <2>1, <2>2 DEF Mock!Valid, Mock!ValidTerminal
  <2> QED BY <2>3 DEF d
<1> QED BY <1>2, <1>3 DEF Mock!CleanupPossible

(* The daemon's catalog is always one from which the next projection, of   *)
(* whatever is seen of Zellij, is accepted by the store, and of the demo's *)
(* terminals and snapshots each can be cleaned up (projector.go,           *)
(* ValidateCatalog).                                                       *)
THEOREM BackendsNeverStuck == DaemonsSpec => []NeverStuck
<1>1. CatalogInv /\ DemoInv => NeverStuck
  BY CatalogNeverStuck, DemoCleansUp DEF NeverStuck
<1> QED BY <1>1, CatalogAlways, DemoAlways, PTL

(***************************************************************************)
(* Which plans a step applies                                              *)
(***************************************************************************)

FreshOnly(plans) ==
    \A p \in plans \ demo.plans : p.status = "applied" => p.serial = demo.serial + 1

(* An act is counted, and a plan that it applies has the catalog's serial. *)
ActCounted ==
    /\ tried' = tried + 1
    /\ demo' = demo \/ FreshOnly(demo'.plans)

LEMMA ExecutedPlans ==
    ASSUME NEW act, NEW ids, Mock!ExecuteWith(act, ids), HasParts(act), FreshOnly(act.plans)
    PROVE  ActCounted
<1>1. tried' = tried + 1 BY DEF Mock!ExecuteWith
<1>2. CASE Mock!Valid(act)
  <2> DEFINE d == [act EXCEPT !.serial = demo.serial + 1]
  <2>1. demo' = d BY <1>2 DEF Mock!ExecuteWith, Mock!Counted
  <2>2. d.plans = act.plans BY SerialSet
  <2> HIDE DEF d
  <2> QED BY <1>1, <2>1, <2>2 DEF ActCounted
<1>3. CASE ~ Mock!Valid(act) BY <1>1, <1>3 DEF Mock!ExecuteWith, ActCounted
<1> QED BY <1>2, <1>3

(* An act that leaves the plans alone                                      *)
LEMMA PlansKept ==
    ASSUME NEW act, NEW ids, Mock!ExecuteWith(act, ids), HasParts(act), act.plans = demo.plans
    PROVE  ActCounted
<1>1. FreshOnly(act.plans) BY DEF FreshOnly
<1> QED BY <1>1, ExecutedPlans

LEMMA TermsCounted ==
    ASSUME DemoInv, NEW t \in DOMAIN demo.terms,
           \/ Mock!Attach(t) \/ Mock!Split(t) \/ Mock!Kill(t)
           \/ \E w \in Mock!Workspaces : Mock!Link(t, w)
    PROVE  ActCounted
<1>1. HasParts(demo) BY AsItIs
<1>2. CASE Mock!Attach(t)
  <2> DEFINE act == [demo EXCEPT !.ws[demo.terms[t].ws].sel = demo.terms[t].sf]
  <2>1. HasParts(act) /\ act.plans = demo.plans BY <1>1 DEF HasParts
  <2>2. Mock!ExecuteWith(act, counters) BY <1>2 DEF Mock!Attach, Mock!Execute
  <2> HIDE DEF act
  <2> QED BY <2>1, <2>2, PlansKept
<1>3. CASE Mock!Kill(t)
  <2> DEFINE act == Mock!Killed(t)
  <2>1. HasParts(act) /\ act.plans = demo.plans BY <1>1 DEF Mock!Killed, HasParts
  <2>2. Mock!ExecuteWith(act, counters) BY <1>3 DEF Mock!Kill, Mock!Execute
  <2> HIDE DEF act
  <2> QED BY <2>1, <2>2, PlansKept
<1>4. ASSUME NEW w \in Mock!Workspaces, Mock!Link(t, w) PROVE ActCounted
  <2> DEFINE act == [demo EXCEPT !.terms[t] = Mock!Linked(t, w)]
  <2>1. HasParts(act) /\ act.plans = demo.plans BY <1>1 DEF HasParts
  <2>2. Mock!ExecuteWith(act, counters) BY <1>4 DEF Mock!Link, Mock!Execute
  <2> HIDE DEF act
  <2> QED BY <2>1, <2>2, PlansKept
<1>5. CASE Mock!Split(t)
  <2> DEFINE new == counters.sf + 1
             home == demo.terms[t].ws
             last == counters.term + 1
             pane == [ws |-> home, sf |-> new, live |-> TRUE]
             act == [demo EXCEPT
                       !.ws[home] = Mock!WithPane(@, demo.terms[t].sf, new),
                       !.terms = [u \in DOMAIN @ \cup {last} |->
                                    IF u = last THEN pane ELSE @[u]]]
             ids == [Mock!Taken("sf", 1) EXCEPT !.term = @ + 1]
  <2>1. HasParts(act) /\ act.plans = demo.plans BY <1>1 DEF HasParts
  <2>2. Mock!ExecuteWith(act, ids) \/ Mock!Refused(ids) BY <1>5 DEF Mock!Split
  <2> HIDE DEF act, ids
  <2>3. CASE Mock!ExecuteWith(act, ids) BY <2>1, <2>3, PlansKept
  <2>4. CASE Mock!Refused(ids) BY <2>4 DEF Mock!Refused, ActCounted
  <2> QED BY <2>2, <2>3, <2>4
<1> QED BY <1>2, <1>3, <1>4, <1>5

LEMMA ViewsCounted ==
    ASSUME DemoInv, NEW v \in DOMAIN demo.views,
           Mock!Pin(v) \/ Mock!Unpin(v) \/ Mock!Touch(v) \/ Mock!Prune(v)
    PROVE  ActCounted
<1>1. HasParts(demo) BY AsItIs
<1>2. ASSUME NEW views, Mock!Execute([demo EXCEPT !.views = views]) PROVE ActCounted
  <2> DEFINE act == [demo EXCEPT !.views = views]
  <2>1. HasParts(act) /\ act.plans = demo.plans BY <1>1 DEF HasParts
  <2>2. Mock!ExecuteWith(act, counters) BY <1>2 DEF Mock!Execute
  <2> HIDE DEF act
  <2> QED BY <2>1, <2>2, PlansKept
<1>3. CASE Mock!Pin(v)
  <2>1. Mock!Execute([demo EXCEPT !.views = [@ EXCEPT ![v].pinned = TRUE]])
    BY <1>3 DEF Mock!Pin
  <2> QED BY <1>2, <2>1
<1>4. CASE Mock!Unpin(v)
  <2>1. Mock!Execute([demo EXCEPT !.views = [@ EXCEPT ![v].pinned = FALSE]])
    BY <1>4 DEF Mock!Unpin
  <2> QED BY <1>2, <2>1
<1>5. CASE Mock!Touch(v)
  <2>1. Mock!Execute([demo EXCEPT !.views = [@ EXCEPT ![v].fresh = TRUE]])
    BY <1>5 DEF Mock!Touch
  <2> QED BY <1>2, <2>1
<1>6. CASE Mock!Prune(v)
  <2>1. Mock!Execute([demo EXCEPT !.views = [u \in DOMAIN @ \ {v} |-> @[u]]])
    BY <1>6 DEF Mock!Prune
  <2> QED BY <1>2, <2>1
<1> QED BY <1>3, <1>4, <1>5, <1>6

LEMMA AgentsCounted ==
    ASSUME DemoInv, NEW a \in DOMAIN demo.agents,
           Mock!AgentPrompt(a) \/ Mock!AgentWait(a) \/ Mock!AgentClaim(a)
    PROVE  ActCounted
<1>1. HasParts(demo) BY AsItIs
<1>2. ASSUME NEW agents, Mock!Execute([demo EXCEPT !.agents = agents]) PROVE ActCounted
  <2> DEFINE act == [demo EXCEPT !.agents = agents]
  <2>1. HasParts(act) /\ act.plans = demo.plans BY <1>1 DEF HasParts
  <2>2. Mock!ExecuteWith(act, counters) BY <1>2 DEF Mock!Execute
  <2> HIDE DEF act
  <2> QED BY <2>1, <2>2, PlansKept
<1>3. CASE Mock!AgentPrompt(a)
  <2>1. Mock!Execute([demo EXCEPT !.agents = [@ EXCEPT ![a].state = "running"]])
    BY <1>3 DEF Mock!AgentPrompt
  <2> QED BY <1>2, <2>1
<1>4. CASE Mock!AgentWait(a)
  <2>1. Mock!Execute([demo EXCEPT !.agents = [@ EXCEPT ![a].state = "waiting"]])
    BY <1>4 DEF Mock!AgentWait
  <2> QED BY <1>2, <2>1
<1>5. CASE Mock!AgentClaim(a)
  <2>1. Mock!Execute([demo EXCEPT !.agents = [@ EXCEPT ![a].claimed = TRUE]])
    BY <1>5 DEF Mock!AgentClaim
  <2> QED BY <1>2, <2>1
<1> QED BY <1>3, <1>4, <1>5

LEMMA SpacesCounted ==
    ASSUME DemoInv,
           \/ Mock!Other
           \/ \E w \in Mock!Workspaces : Mock!Freeze(w) \/ Mock!SnapshotCreate(<< w >>)
           \/ Mock!SnapshotCreate(Mock!SetToSeq(Mock!Workspaces))
    PROVE  ActCounted
<1>1. HasParts(demo) BY AsItIs
<1>2. CASE Mock!Other BY <1>1, <1>2, PlansKept DEF Mock!Other, Mock!Execute
<1>3. ASSUME NEW w \in Mock!Workspaces, Mock!Freeze(w) PROVE ActCounted
  <2> DEFINE act == [demo EXCEPT !.ws[w] = Mock!Frozen(@)]
  <2>1. HasParts(act) /\ act.plans = demo.plans BY <1>1 DEF HasParts
  <2>2. Mock!ExecuteWith(act, counters) BY <1>3 DEF Mock!Freeze, Mock!Execute
  <2> HIDE DEF act
  <2> QED BY <2>1, <2>2, PlansKept
<1>4. ASSUME NEW targets, Mock!SnapshotCreate(targets) PROVE ActCounted
  <2> DEFINE act == [demo EXCEPT !.snaps = @ \cup Mock!Captured(targets)]
             ids == Mock!Taken("snap", Len(targets))
  <2>1. HasParts(act) /\ act.plans = demo.plans BY <1>1 DEF HasParts
  <2>2. Mock!ExecuteWith(act, ids) BY <1>4 DEF Mock!SnapshotCreate
  <2> HIDE DEF act, ids
  <2> QED BY <2>1, <2>2, PlansKept
<1>5. ASSUME NEW w, Mock!SnapshotCreate(<< w >>) PROVE ActCounted
  <2> DEFINE targets == << w >>
  <2>1. Mock!SnapshotCreate(targets) BY <1>5
  <2> HIDE DEF targets
  <2> QED BY <2>1, <1>4
<1>6. CASE Mock!SnapshotCreate(Mock!SetToSeq(Mock!Workspaces)) BY <1>4, <1>6
<1> QED BY <1>2, <1>3, <1>5, <1>6

LEMMA PlansCounted ==
    ASSUME DemoInv,
           \/ \E s \in demo.snaps : Mock!SnapshotDelete(s) \/ Mock!SnapshotPlan(s)
           \/ \E p \in demo.plans :
                 \/ \E mode \in {"push", "pull"} :
                       \E chosen \in SUBSET p.ops[mode] \ {{}} :
                          Mock!RestoreApply(p, mode, chosen)
                 \/ Mock!RestoreFreeze(p) \/ Mock!ReconcileUndo(p)
    PROVE  ActCounted
<1>1. HasParts(demo) BY AsItIs
<1>2. ASSUME NEW s \in demo.snaps, Mock!SnapshotDelete(s) PROVE ActCounted
  <2> DEFINE act == Mock!WithoutSnapshot(s)
  <2>1. HasParts(act) /\ act.plans = {p \in demo.plans : p.snapshot # s.id}
    BY <1>1 DEF Mock!WithoutSnapshot, HasParts
  <2>2. Mock!ExecuteWith(act, counters) BY <1>2 DEF Mock!SnapshotDelete, Mock!Execute
  <2> HIDE DEF act
  <2>3. FreshOnly(act.plans) BY <2>1 DEF FreshOnly
  <2> QED BY <2>1, <2>2, <2>3, ExecutedPlans
<1>3. ASSUME NEW s \in demo.snaps, Mock!SnapshotPlan(s) PROVE ActCounted
  <2> DEFINE q == Mock!PlanFor(s)
             act == [demo EXCEPT !.plans = @ \cup {q}]
             ids == Mock!Taken("plan", 1)
  <2>1. q.status = "pending" BY DEF Mock!PlanFor
  <2>2. Mock!ExecuteWith(act, ids) BY <1>3 DEF Mock!SnapshotPlan
  <2> HIDE DEF q, ids
  <2>3. HasParts(act) /\ act.plans = demo.plans \cup {q} BY <1>1 DEF HasParts
  <2> HIDE DEF act
  <2>4. FreshOnly(act.plans) BY <2>1, <2>3 DEF FreshOnly
  <2> QED BY <2>2, <2>3, <2>4, ExecutedPlans
<1>4. ASSUME NEW p \in demo.plans, NEW mode, NEW undo, NEW made
      PROVE  FreshOnly(Mock!Applied(p, mode, undo, made))
  <2>1. p = [id |-> p.id, snapshot |-> p.snapshot, ws |-> p.ws, status |-> p.status,
             serial |-> p.serial, ops |-> p.ops, mode |-> p.mode, undo |-> p.undo,
             made |-> p.made, was |-> p.was]
    BY PlanOf, PlanFields
  <2> DEFINE q == [p EXCEPT !.status = "applied", !.serial = demo.serial + 1, !.mode = mode,
                            !.undo = undo, !.made = made, !.was = demo.ws[p.ws]]
  <2>2. q.serial = demo.serial + 1 BY <2>1
  <2>3. Mock!Applied(p, mode, undo, made) = (demo.plans \ {p}) \cup {q} BY DEF Mock!Applied
  <2> HIDE DEF q
  <2> QED BY <2>2, <2>3 DEF FreshOnly
<1>5. ASSUME NEW p \in demo.plans, NEW mode, NEW chosen, Mock!RestoreApply(p, mode, chosen)
      PROVE  ActCounted
  <2> DEFINE ops == Mock!InPlanOrder(chosen)
             state == Mock!Redone(demo.ws[p.ws][Mock!Target(mode)], ops)
             plans == Mock!Applied(p, mode, ops, {})
             act == [demo EXCEPT
                       !.ws[p.ws] = Mock!Reconciled([@ EXCEPT ![Mock!Target(mode)] = state]),
                       !.plans = plans]
  <2>1. Mock!ExecuteWith(act, counters) BY <1>5 DEF Mock!RestoreApply, Mock!Execute
  <2>2. FreshOnly(plans) BY <1>4
  <2> HIDE DEF plans, state
  <2>3. HasParts(act) /\ act.plans = plans BY <1>1 DEF HasParts
  <2> HIDE DEF act
  <2> QED BY <2>1, <2>2, <2>3, ExecutedPlans
<1>6. ASSUME NEW p \in demo.plans, Mock!RestoreFreeze(p) PROVE ActCounted
  <2> DEFINE made == Mock!Captured(<< p.ws >>)
             plans == Mock!Applied(p, "freeze", << >>, made)
             act == [demo EXCEPT !.snaps = @ \cup made,
                                 !.ws[p.ws] = Mock!Reconciled(@),
                                 !.plans = plans]
             ids == Mock!Taken("snap", 1)
  <2>1. Mock!ExecuteWith(act, ids) BY <1>6 DEF Mock!RestoreFreeze
  <2>2. FreshOnly(plans) BY <1>4
  <2> HIDE DEF plans, made, ids
  <2>3. HasParts(act) /\ act.plans = plans BY <1>1 DEF HasParts
  <2> HIDE DEF act
  <2> QED BY <2>1, <2>2, <2>3, ExecutedPlans
<1>7. ASSUME NEW p \in demo.plans, Mock!ReconcileUndo(p) PROVE ActCounted
  <2> DEFINE q == [p EXCEPT !.status = "undone"]
             act == Mock!Undone(p)
  <2>1. p = [id |-> p.id, snapshot |-> p.snapshot, ws |-> p.ws, status |-> p.status,
             serial |-> p.serial, ops |-> p.ops, mode |-> p.mode, undo |-> p.undo,
             made |-> p.made, was |-> p.was]
    BY PlanOf, PlanFields
  <2>2. q.status = "undone" BY <2>1
  <2>3. HasParts(act) /\ act.plans = (demo.plans \ {p}) \cup {q}
    BY <1>1 DEF Mock!Undone, HasParts
  <2>4. Mock!ExecuteWith(act, counters) BY <1>7 DEF Mock!ReconcileUndo, Mock!Execute
  <2> HIDE DEF act, q
  <2>5. FreshOnly(act.plans) BY <2>2, <2>3 DEF FreshOnly
  <2> QED BY <2>3, <2>4, <2>5, ExecutedPlans
<1> QED BY <1>2, <1>3, <1>5, <1>6, <1>7

LEMMA ActsCounted ==
    ASSUME DemoInv, Mock!Next, ~ Mock!Tick
    PROVE  ActCounted
BY TermsCounted, ViewsCounted, AgentsCounted, SpacesCounted, PlansCounted DEF Mock!Next

UndoStep ==
    \A p \in demo.plans \cup demo'.plans :
       (p \in demo'.plans /\ Mock!Undoable(demo', p)) <=>
          \/ /\ p \in demo.plans /\ Mock!Undoable(demo, p)
             /\ tried' = tried \/ demo' = demo
          \/ /\ p \notin demo.plans
             /\ p.status = "applied" /\ Mock!Latest(demo', p)

(* A restore of the demo's can be undone from the moment it is applied,    *)
(* if no plan with a later id is applied, until the user does something    *)
(* else, and then never again: an act of its own has the next serial, and  *)
(* ticks and refused acts, a split without its source surface among them,  *)
(* leave plans and serial alone (backend.go, apply, ReconcileUndo).        *)
THEOREM UndoneUntilNextAct == DaemonsSpec => UndoUntilNextAct
<1>1. ASSUME DemoInv, [DaemonsNext]_all PROVE UndoStep \/ UNCHANGED mockVars
  <2>1. ASSUME Mock!Tick PROVE UndoStep
    <3>1. demo'.plans = demo.plans /\ demo'.serial = demo.serial /\ tried' = tried
      BY <1>1, <2>1, DemoTick
    <3> QED BY <3>1 DEF UndoStep, Mock!Undoable, Mock!Latest
  <2>2. ASSUME DemoActed, ActCounted PROVE UndoStep
    <3>1. CASE demo' = demo BY <3>1 DEF UndoStep
    <3>2. CASE demo'.serial = demo.serial + 1 /\ demo' # demo
      <4>1. tried' # tried
        <5>1. tried \in Nat BY <1>1, DemoAssumptions DEF DemoInv, Mock!FixtureAssumption
        <5> QED BY <2>2, <5>1 DEF ActCounted
      <4>2. ASSUME NEW p \in demo.plans PROVE ~ Mock!Undoable(demo', p)
        <5>1. p.serial \in 0 .. demo.serial /\ demo.serial \in Nat BY <1>1, PlanOf, AsItIs
        <5>2. p.serial # demo.serial + 1 BY <5>1
        <5> QED BY <3>2, <5>2 DEF Mock!Undoable
      <4>3. ASSUME NEW p \in demo'.plans, p \notin demo.plans, p.status = "applied"
            PROVE  p.serial = demo'.serial
        BY <2>2, <3>2, <4>3 DEF ActCounted, FreshOnly
      <4>4. ASSUME NEW p \in demo.plans \cup demo'.plans
            PROVE  (p \in demo'.plans /\ Mock!Undoable(demo', p)) <=>
                      \/ /\ p \in demo.plans /\ Mock!Undoable(demo, p)
                         /\ tried' = tried \/ demo' = demo
                      \/ /\ p \notin demo.plans
                         /\ p.status = "applied" /\ Mock!Latest(demo', p)
        <5>1. CASE p \in demo.plans BY <3>2, <4>1, <4>2, <5>1
        <5>2. CASE p \notin demo.plans BY <4>3, <5>2 DEF Mock!Undoable
        <5> QED BY <5>1, <5>2
      <4> QED BY <4>4 DEF UndoStep
    <3> QED BY <2>2, <3>1, <3>2 DEF DemoActed
  <2>3. ASSUME Mock!Next, ~ Mock!Tick PROVE UndoStep
    BY <1>1, <2>2, <2>3, DemoActs, ActsCounted
  <2> QED BY <1>1, <2>1, <2>3, DemoCases
<1>2. DemoInv /\ [DaemonsNext]_all => [UndoStep]_(Mock!dvars)
  BY <1>1 DEF mockVars, Mock!dvars
<1>3. DaemonsSpec => [][UndoStep]_(Mock!dvars) BY <1>2, DemoAlways, PTL DEF DaemonsSpec
<1> QED BY <1>3, PTL DEF UndoUntilNextAct, Mock!UndoUntilNextAct, UndoStep

=============================================================================
