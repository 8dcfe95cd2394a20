---------------------------- MODULE TmhTuiProofs -----------------------------
(***************************************************************************)
(* Proofs about TmhTui, for any sessions and windows, whatever their names,*)
(* any keys in any order, any marks and any number of messages under way.  *)
(***************************************************************************)
EXTENDS TmhTui, SequenceTheorems, WellFoundedInduction, TLAPS

-----------------------------------------------------------------------------
(***************************************************************************)
(* Recursion along a sequence                                              *)
(***************************************************************************)

(* A set of numbers has a least one.                                       *)
LEMMA LeastNumber ==
    ASSUME NEW T, T \subseteq Nat, T # {}
    PROVE  \E x \in T : \A y \in T : x <= y
<1>1. \E x \in T : \A y \in T : ~ (<<y, x>> \in OpToRel(<,Nat))
  BY WFMin, NatLessThanWellFounded, Zenon
<1>2. \A x, y \in T : ~ (<<y, x>> \in OpToRel(<,Nat)) => x <= y BY DEF OpToRel
<1> QED BY <1>1, <1>2

(* A set of numbers that has 0 and goes on to n has all that are between.  *)
LEMMA CountUp ==
    ASSUME NEW T, NEW n \in Nat, 0 \in T, \A i \in 1 .. n : i - 1 \in T => i \in T
    PROVE  \A i \in 0 .. n : i \in T
<1> DEFINE Out == { i \in 0 .. n : i \notin T }
<1>1. SUFFICES ASSUME Out # {} PROVE FALSE OBVIOUS
<1>2. Out \subseteq Nat BY DEF Out
<1>3. PICK x \in Out : \A y \in Out : x <= y
  <2> HIDE DEF Out
  <2> QED BY <1>1, <1>2, LeastNumber
<1>4. x \in 0 .. n /\ x \notin T OBVIOUS
<1>5. x # 0 /\ x - 1 \in 0 .. n /\ ~ (x <= x - 1) BY <1>4
<1>6. x - 1 \notin Out BY <1>3, <1>5
<1> QED BY <1>4, <1>5, <1>6

(* What goes from each value to the next by a function can be followed to  *)
(* the end.                                                                *)
Ways(n, S) == [1 .. n -> [S -> S]]
Follows(f, n, a, g) == f[0] = a /\ \A i \in 1 .. n : f[i] = g[i][f[i - 1]]

LEMMA Recursion ==
    ASSUME NEW n \in Nat, NEW S, NEW a \in S, NEW g \in Ways(n, S)
    PROVE  \E f \in [0 .. n -> S] : Follows(f, n, a, g)
<1> USE DEF Ways
<1> DEFINE Solves(f, k) ==
               /\ f \in [0 .. k -> S] /\ f[0] = a
               /\ \A i \in 1 .. k : f[i] = g[i][f[i - 1]]
           Solved == { k \in 0 .. n : \E f : Solves(f, k) }
<1>1. 0 \in Solved
  <2>1. Solves([i \in 0 .. 0 |-> a], 0) OBVIOUS
  <2> HIDE DEF Solves
  <2> QED BY <2>1
<1>2. ASSUME NEW k \in 1 .. n, k - 1 \in Solved PROVE k \in Solved
  <2>1. PICK f : Solves(f, k - 1) BY <1>2
  <2> DEFINE e == [i \in 0 .. k |-> IF i = k THEN g[k][f[k - 1]] ELSE f[i]]
  <2>2. k \in Nat /\ k # 0 /\ k - 1 \in 0 .. k - 1 OBVIOUS
  <2>3. f \in [0 .. k - 1 -> S] /\ f[k - 1] \in S BY <2>1, <2>2
  <2>4. g[k][f[k - 1]] \in S BY <2>3
  <2>5. e \in [0 .. k -> S] BY <2>2, <2>3, <2>4
  <2>6. e[0] = a BY <2>1, <2>2
  <2>7. ASSUME NEW i \in 1 .. k PROVE e[i] = g[i][e[i - 1]]
    <3>1. i \in 0 .. k /\ i - 1 \in 0 .. k /\ i - 1 # k /\ (i # k => i \in 1 .. k - 1)
      BY <2>2
    <3>2. e[i - 1] = f[i - 1] BY <3>1
    <3> QED BY <2>1, <3>1, <3>2
  <2>8. Solves(e, k) BY <2>5, <2>6, <2>7
  <2> HIDE DEF Solves
  <2> QED BY <2>8
<1>3. n \in Solved
  <2> HIDE DEF Solved
  <2>1. \A i \in 0 .. n : i \in Solved BY <1>1, <1>2, CountUp
  <2> QED BY <2>1
<1> QED BY <1>3 DEF Follows

(* Sequences one behind the other are a sequence.                          *)
LEMMA FlattenType ==
    ASSUME NEW T, NEW seqs \in Seq(Seq(T))
    PROVE  FlattenSeq(seqs) \in Seq(T)
<1> DEFINE n == Len(seqs)
           next(f, i) == IF i = 1 THEN seqs[i] ELSE f[i - 1] \o seqs[i]
           flatten == CHOOSE f : f = [i \in 1 .. n |-> next(f, i)]
<1>1. n \in Nat /\ \A i \in 1 .. n : seqs[i] \in Seq(T) OBVIOUS
<1>2. CASE n = 0
  BY <1>2, EmptySeq DEF FlattenSeq
<1>3. CASE n # 0
  <2>1. FlattenSeq(seqs) = flatten[n] BY <1>3 DEF FlattenSeq
  <2> DEFINE g == [i \in 1 .. n |-> [s \in Seq(T) |->
                      IF i = 1 THEN seqs[i] ELSE s \o seqs[i]]]
  <2>2. g \in Ways(n, Seq(T)) BY <1>1 DEF Ways
  <2>3. << >> \in Seq(T) OBVIOUS
  <2>4. PICK h \in [0 .. n -> Seq(T)] : Follows(h, n, << >>, g)
    <3> HIDE DEF g, n
    <3> QED BY <1>1, <2>2, <2>3, Recursion
  <2> DEFINE f == [i \in 1 .. n |-> h[i]]
  <2>5. ASSUME NEW i \in 1 .. n PROVE f[i] = next(f, i)
    <3>1. i - 1 \in 0 .. n /\ (i # 1 => i - 1 \in 1 .. n) BY <1>1
    <3>2. h[i] = IF i = 1 THEN seqs[i] ELSE h[i - 1] \o seqs[i] BY <2>4, <3>1 DEF Follows
    <3> QED BY <3>1, <3>2
  <2>6. f = [i \in 1 .. n |-> next(f, i)] BY <2>5
  <2>7. flatten = [i \in 1 .. n |-> next(flatten, i)]
    <3> HIDE DEF f
    <3> QED BY <2>6, Zenon
  <2> HIDE DEF flatten
  <2> DEFINE Reached == { i \in 0 .. n : i = 0 \/ flatten[i] \in Seq(T) }
  <2>8. ASSUME NEW i \in 1 .. n, i - 1 \in Reached PROVE i \in Reached
    <3>1. i \in 0 .. n /\ (i - 1 = 0 => i = 1) /\ seqs[i] \in Seq(T) BY <1>1
    <3>2. flatten[i] = IF i = 1 THEN seqs[i] ELSE flatten[i - 1] \o seqs[i] BY <2>7
    <3>3. i # 1 => flatten[i - 1] \in Seq(T) BY <2>8, <3>1
    <3>4. flatten[i] \in Seq(T)
      <4>1. CASE i = 1 BY <3>1, <3>2, <4>1
      <4>2. CASE i # 1 BY <3>1, <3>2, <3>3, <4>2
      <4> QED BY <4>1, <4>2
    <3> QED BY <3>1, <3>4
  <2>9. 0 \in Reached BY <1>1
  <2>10. n \in Reached
    <3> HIDE DEF Reached
    <3>1. \A i \in 0 .. n : i \in Reached BY <1>1, <2>8, <2>9, CountUp
    <3> QED BY <1>1, <3>1
  <2> QED BY <1>3, <2>1, <2>10
<1> QED BY <1>2, <1>3

(* The filter finds the rows that match, all of them and no others.        *)
Matches(rows, i, typed) == \E n \in rows[i].names : Fits[n] >= typed

Complete(rows, hits, typed) ==
    \A i \in DOMAIN rows : Matches(rows, i, typed) =>
        \E j \in DOMAIN hits : hits[j] = i

LEMMA HitsOK ==
    ASSUME NEW T, NEW rows \in Seq(T), NEW typed
    PROVE  /\ Hits(rows, typed) \in Seq(Nat)
           /\ \A j \in DOMAIN Hits(rows, typed) :
                  /\ Hits(rows, typed)[j] \in DOMAIN rows
                  /\ Matches(rows, Hits(rows, typed)[j], typed)
           /\ Complete(rows, Hits(rows, typed), typed)
<1> DEFINE n == Len(rows)
           M(i) == Matches(rows, i, typed)
           next(f, i) == IF i = 0 THEN << >>
                         ELSE IF M(i) THEN Append(f[i - 1], i) ELSE f[i - 1]
           upTo == CHOOSE f : f = [i \in 0 .. n |-> next(f, i)]
<1>1. n \in Nat /\ DOMAIN rows = 1 .. n OBVIOUS
<1>2. Hits(rows, typed) = upTo[n] BY DEF Hits, Matches
<1> DEFINE g == [i \in 1 .. n |-> [s \in Seq(Nat) |-> IF M(i) THEN Append(s, i) ELSE s]]
<1>3. g \in Ways(n, Seq(Nat))
  <2>1. ASSUME NEW i \in 1 .. n, NEW s \in Seq(Nat)
        PROVE  (IF M(i) THEN Append(s, i) ELSE s) \in Seq(Nat)
    <3>1. i \in Nat BY <1>1
    <3> HIDE DEF M
    <3> QED BY <3>1
  <2> HIDE DEF M
  <2> QED BY <2>1 DEF Ways
<1>4. PICK f \in [0 .. n -> Seq(Nat)] : Follows(f, n, << >>, g)
  <2>1. << >> \in Seq(Nat) OBVIOUS
  <2> HIDE DEF g, n
  <2> QED BY <1>1, <1>3, <2>1, Recursion
<1>5. ASSUME NEW i \in 0 .. n PROVE f[i] = next(f, i)
  <2>1. CASE i = 0 BY <1>4, <2>1 DEF Follows
  <2>2. CASE i # 0
    <3>1. i \in 1 .. n /\ i - 1 \in 0 .. n BY <1>1, <2>2
    <3>2. f[i] = g[i][f[i - 1]] BY <1>4, <3>1 DEF Follows
    <3>3. f[i - 1] \in Seq(Nat) BY <3>1
    <3> HIDE DEF M
    <3> QED BY <2>2, <3>1, <3>2, <3>3
  <2> QED BY <2>1, <2>2
<1>6. f = [i \in 0 .. n |-> next(f, i)] BY <1>5
<1>7. upTo = [i \in 0 .. n |-> next(upTo, i)] BY <1>6, Zenon
<1> HIDE DEF upTo, M, g
<1> DEFINE Good(s, k) ==
               /\ s \in Seq(Nat)
               /\ \A j \in 1 .. Len(s) : s[j] \in 1 .. k /\ M(s[j])
               /\ \A i \in 1 .. k : M(i) => \E j \in 1 .. Len(s) : s[j] = i
           Reached == { i \in 0 .. n : Good(upTo[i], i) }
<1>8. 0 \in Reached
  <2>1. 0 \in 0 .. n /\ upTo[0] = << >> BY <1>1, <1>7
  <2>2. 1 .. 0 = {} /\ << >> \in Seq(Nat) /\ 1 .. Len(<< >>) = {} OBVIOUS
  <2>3. Good(<< >>, 0) BY <2>2
  <2> HIDE DEF Good
  <2> QED BY <2>1, <2>3
<1>9. ASSUME NEW i \in 1 .. n, i - 1 \in Reached PROVE i \in Reached
  <2> DEFINE s == upTo[i - 1]
  <2>1. i \in 0 .. n /\ i \in Nat /\ i # 0 BY <1>1
  <2>2. upTo[i] = IF M(i) THEN Append(s, i) ELSE s BY <1>7, <2>1
  <2>3. Good(s, i - 1) BY <1>9
  <2> HIDE DEF s
  <2>4. CASE M(i)
    <3> DEFINE t == Append(s, i)
    <3>1. t \in Seq(Nat) /\ Len(t) = Len(s) + 1 /\ Len(s) \in Nat BY <2>1, <2>3
    <3>2. t[Len(t)] = i /\ \A j \in 1 .. Len(s) : t[j] = s[j] BY <2>1, <2>3
    <3> HIDE DEF t
    <3>3. ASSUME NEW j \in 1 .. Len(t) PROVE t[j] \in 1 .. i /\ M(t[j])
      <4>1. CASE j = Len(t)
        <5>1. t[j] = i BY <3>2, <4>1
        <5> QED BY <2>1, <2>4, <5>1
      <4>2. CASE j # Len(t)
        <5>1. j \in 1 .. Len(s) BY <3>1, <4>2
        <5>2. t[j] = s[j] /\ s[j] \in 1 .. i - 1 /\ M(s[j]) BY <2>3, <3>2, <5>1
        <5>3. s[j] \in 1 .. i BY <2>1, <5>2
        <5> QED BY <5>2, <5>3
      <4> QED BY <4>1, <4>2
    <3>4. ASSUME NEW k \in 1 .. i, M(k) PROVE \E j \in 1 .. Len(t) : t[j] = k
      <4>1. CASE k = i BY <3>1, <3>2, <4>1
      <4>2. CASE k # i
        <5>1. k \in 1 .. i - 1 BY <2>1, <4>2
        <5>2. PICK j \in 1 .. Len(s) : s[j] = k BY <2>3, <3>4, <5>1
        <5> QED BY <3>1, <3>2, <5>2
      <4> QED BY <4>1, <4>2
    <3>5. Good(t, i) BY <3>1, <3>3, <3>4
    <3> QED BY <2>1, <2>2, <2>4, <3>5 DEF t
  <2>5. CASE ~M(i)
    <3>1. Good(s, i)
      <4>1. \A j \in 1 .. Len(s) : s[j] \in 1 .. i /\ M(s[j]) BY <2>1, <2>3
      <4>2. \A k \in 1 .. i : M(k) => k \in 1 .. i - 1 BY <2>1, <2>5
      <4> QED BY <2>3, <4>1, <4>2
    <3> QED BY <2>1, <2>2, <2>5, <3>1
  <2> QED BY <2>4, <2>5
<1>10. Good(upTo[n], n)
  <2> HIDE DEF Good
  <2>1. \A i \in 0 .. n : i \in Reached
    <3> HIDE DEF Reached
    <3> QED BY <1>1, <1>8, <1>9, CountUp
  <2> QED BY <1>1, <2>1
<1>11. Good(Hits(rows, typed), n)
  <2> HIDE DEF Good
  <2> QED BY <1>2, <1>10
<1> HIDE DEF n
<1> DEFINE hits == Hits(rows, typed)
<1>12. DOMAIN hits = 1 .. Len(hits) BY <1>11
<1> HIDE DEF hits
<1> QED BY <1>1, <1>11, <1>12 DEF M, hits, Complete

LEMMA HitsAll ==
    ASSUME NEW T, NEW rows \in Seq(T), NEW typed, NEW i \in DOMAIN rows,
           Matches(rows, i, typed)
    PROVE  \E j \in DOMAIN Hits(rows, typed) : Hits(rows, typed)[j] = i
<1>1. Complete(rows, Hits(rows, typed), typed) BY HitsOK
<1> QED BY <1>1 DEF Complete

-----------------------------------------------------------------------------
(***************************************************************************)
(* The tree                                                                *)
(***************************************************************************)
Levels == {"header", "alias", "session", "window", "pane"}
Targets == Seq(Idents \cup {"active-runtime"} \cup Nat)

(* A row has an id, which is the target of one that can be killed or       *)
(* marked, but of a pane.                                                  *)
GoodRow ==
    { r \in [level : Levels, id : Targets, target : Targets,
             names : SUBSET Idents, of : AnyWindow \cup {NoWindow}] :
        r.id # Nothing /\ (r.level \in {"session", "window"} => r.id = r.target) }

LEMMA RowTypes ==
    ASSUME NEW s \in AnySession
    PROVE  /\ SessionRow(s) \in GoodRow
           /\ \A w \in AnyWindow : WindowRow(s, w) \in GoodRow
           /\ \A w \in AnyWindow, i \in Nat : PaneRow(s, w, i) \in GoodRow
<1>1. s.name \in Idents BY DEF AnySession
<1>2. \A x \in Idents : << x >> \in Targets /\ << x >> # << >> BY DEF Targets
<1>3. \A x, y \in Idents : << x, y >> \in Targets /\ << x, y >> # << >> BY DEF Targets
<1>4. \A x, y \in Idents, i \in Nat : << x, y, i >> \in Targets /\ << x, y, i >> # << >>
  BY DEF Targets
<1>5. \A w \in AnyWindow : w.name \in Idents /\ w.index \in Idents BY DEF AnyWindow
<1>7. SessionRow(s) \in GoodRow
  BY <1>1, <1>2 DEF SessionRow, Row, GoodRow, Levels, Nothing
<1>8. ASSUME NEW w \in AnyWindow PROVE WindowRow(s, w) \in GoodRow
  BY <1>1, <1>3, <1>5 DEF WindowRow, Row, GoodRow, Levels, Nothing
<1>9. ASSUME NEW w \in AnyWindow, NEW i \in Nat PROVE PaneRow(s, w, i) \in GoodRow
  <2>1. << s.name, w.name, i >> \in Targets /\ << s.name, w.index, i >> \in Targets
        /\ << s.name, w.name, i >> # << >>
    BY <1>1, <1>4, <1>5
  <2>2. {s.name, w.name} \in SUBSET Idents BY <1>1, <1>5
  <2> QED BY <2>1, <2>2 DEF PaneRow, Row, GoodRow, Levels, Nothing
<1> QED BY <1>7, <1>8, <1>9

LEMMA ActiveRowsType ==
    ASSUME NEW d, d.report \in AnyReport
    PROVE  ActiveRows(d) \in Seq(GoodRow)
<1>1. \A x \in Idents : << x >> \in Targets /\ << x >> # << >> BY DEF Targets
<1>2. Nothing \in Targets /\ << "active-runtime" >> \in Targets /\ << "active-runtime" >> # << >>
  BY DEF Targets, Nothing
<1>3. Row("header", << "active-runtime" >>, Nothing, {}, NoWindow) \in GoodRow
  BY <1>1, <1>2 DEF Row, GoodRow, Levels, Nothing
<1>4. ASSUME NEW x \in Idents
      PROVE  Alias(x) \in GoodRow
  BY <1>1, <1>2 DEF Alias, Row, GoodRow, Levels, Nothing
<1> DEFINE ids == d.report.windows
           aliases == [i \in DOMAIN ids |-> Alias(ids[i])]
           header == Row("header", << "active-runtime" >>, Nothing, {}, NoWindow)
<1>5. aliases \in Seq(GoodRow)
  <2>1. ids \in Seq(Idents) BY DEF AnyReport
  <2> HIDE DEF ids
  <2>2. Len(ids) \in Nat /\ DOMAIN ids = 1 .. Len(ids) BY <2>1
  <2>3. \A i \in 1 .. Len(ids) : aliases[i] \in GoodRow BY <1>4, <2>1, <2>2
  <2>4. aliases \in [1 .. Len(ids) -> GoodRow] BY <2>2, <2>3
  <2> HIDE DEF aliases
  <2> QED BY <2>2, <2>4
<1>6. header \in GoodRow BY <1>3
<1>7. << header >> \in Seq(GoodRow)
  <2> HIDE DEF header
  <2> QED BY <1>6
<1>8. ActiveRows(d) = IF ~d.report.enabled THEN << >> ELSE << header >> \o aliases
  BY DEF ActiveRows
<1>9. << >> \in Seq(GoodRow) OBVIOUS
<1> HIDE DEF header, aliases, ids
<1> QED BY <1>5, <1>7, <1>8, <1>9

LEMMA Joined ==
    << >> \in Seq(GoodRow) /\ \A s, t \in Seq(GoodRow) : s \o t \in Seq(GoodRow)
OBVIOUS

LEMMA SessionRowsType ==
    ASSUME NEW d, NEW s \in AnySession
    PROVE  SessionRows(d, s) \in Seq(GoodRow)
<1>1. ASSUME NEW w \in AnyWindow PROVE WindowRows(d, s, w) \in Seq(GoodRow)
  <2> DEFINE panes == [i \in 1 .. w.panes |-> PaneRow(s, w, i - 1)]
  <2>1. w.panes \in Nat BY DEF AnyWindow
  <2>2. \A i \in 1 .. w.panes : PaneRow(s, w, i - 1) \in GoodRow
    <3>1. \A i \in 1 .. w.panes : i - 1 \in Nat BY <2>1
    <3> QED BY <3>1, RowTypes
  <2>3. panes \in [1 .. w.panes -> GoodRow] BY <2>2
  <2>4. panes \in Seq(GoodRow)
    <3> HIDE DEF panes
    <3> QED BY <2>1, <2>3
  <2>5. << WindowRow(s, w) >> \in Seq(GoodRow) BY RowTypes
  <2>6. \/ WindowRows(d, s, w) = << WindowRow(s, w) >> \o panes
        \/ WindowRows(d, s, w) = << WindowRow(s, w) >> \o << >>
    BY DEF WindowRows
  <2> HIDE DEF panes
  <2> QED BY <2>4, <2>5, <2>6, Joined, Zenon
<1> DEFINE pieces == [i \in DOMAIN s.windows |-> WindowRows(d, s, s.windows[i])]
           n == Len(s.windows)
<1>2. s.windows \in Seq(AnyWindow) BY DEF AnySession
<1>3. n \in Nat /\ DOMAIN s.windows = 1 .. n BY <1>2
<1>4. \A i \in 1 .. n : pieces[i] \in Seq(GoodRow) BY <1>1, <1>2, <1>3
<1>5. pieces \in [1 .. n -> Seq(GoodRow)] BY <1>3, <1>4
<1>6. pieces \in Seq(Seq(GoodRow))
  <2> HIDE DEF pieces, n
  <2> QED BY <1>3, <1>5
<1>7. FlattenSeq(pieces) \in Seq(GoodRow)
  <2> HIDE DEF pieces
  <2> QED BY <1>6, FlattenType
<1>8. << SessionRow(s) >> \in Seq(GoodRow) BY RowTypes
<1>9. \/ SessionRows(d, s) = << SessionRow(s) >> \o << >>
      \/ SessionRows(d, s) = << SessionRow(s) >> \o FlattenSeq(pieces)
  BY DEF SessionRows
<1> HIDE DEF pieces
<1> QED BY <1>7, <1>8, <1>9, Joined, Zenon

(* What stands in the tree below the active session.                       *)
Listed(d) == FlattenSeq([i \in DOMAIN d.listing |-> SessionRows(d, d.listing[i])])

LEMMA ListedType ==
    ASSUME NEW d, d.listing \in Seq(AnySession)
    PROVE  Listed(d) \in Seq(GoodRow)
<1> DEFINE pieces == [i \in DOMAIN d.listing |-> SessionRows(d, d.listing[i])]
           n == Len(d.listing)
<1>1. n \in Nat /\ DOMAIN d.listing = 1 .. n OBVIOUS
<1>2. \A i \in 1 .. n : d.listing[i] \in AnySession OBVIOUS
<1>3. \A i \in 1 .. n : pieces[i] \in Seq(GoodRow) BY <1>1, <1>2, SessionRowsType
<1>4. pieces \in [1 .. n -> Seq(GoodRow)] BY <1>1, <1>3
<1>5. pieces \in Seq(Seq(GoodRow))
  <2> HIDE DEF pieces, n
  <2> QED BY <1>1, <1>4
<1>6. FlattenSeq(pieces) \in Seq(GoodRow)
  <2> HIDE DEF pieces
  <2> QED BY <1>5, FlattenType
<1> QED BY <1>6 DEF Listed

LEMMA RowsOfType ==
    ASSUME NEW d, d.listing \in Seq(AnySession), d.report \in AnyReport
    PROVE  RowsOf(d) \in Seq(GoodRow)
<1>1. ActiveRows(d) \in Seq(GoodRow) /\ Listed(d) \in Seq(GoodRow)
  BY ActiveRowsType, ListedType
<1>2. RowsOf(d) = IF ~d.loaded THEN << >> ELSE ActiveRows(d) \o Listed(d)
  BY DEF RowsOf, Listed
<1> QED BY <1>1, <1>2

(* The rows depend on the listing, the report and what is folded.          *)
SameTree(d, e) ==
    /\ d.loaded = e.loaded /\ d.listing = e.listing
    /\ d.collapsed = e.collapsed /\ d.expanded = e.expanded

LEMMA ListedSame ==
    ASSUME NEW d, NEW e, SameTree(d, e)
    PROVE  Listed(d) = Listed(e)
<1>1. \A s, w : WindowRows(d, s, w) = WindowRows(e, s, w) BY DEF WindowRows, SameTree
<1>2. ASSUME NEW s PROVE SessionRows(d, s) = SessionRows(e, s)
  <2>1. [i \in DOMAIN s.windows |-> WindowRows(d, s, s.windows[i])] =
        [i \in DOMAIN s.windows |-> WindowRows(e, s, s.windows[i])]
    BY <1>1
  <2> QED BY <2>1, Zenon DEF SessionRows, SameTree
<1>3. d.listing = e.listing BY DEF SameTree
<1>4. [i \in DOMAIN d.listing |-> SessionRows(d, d.listing[i])] =
      [i \in DOMAIN e.listing |-> SessionRows(e, e.listing[i])]
  BY <1>2, <1>3
<1> QED BY <1>4, Zenon DEF Listed

LEMMA RowsOfSame ==
    ASSUME NEW d, NEW e, SameTree(d, e), d.report = e.report
    PROVE  RowsOf(d) = RowsOf(e)
<1>1. Listed(d) = Listed(e) BY ListedSame
<1>2. ActiveRows(d) = ActiveRows(e) BY DEF ActiveRows
<1>3. \A x : RowsOf(x) = IF ~x.loaded THEN << >> ELSE ActiveRows(x) \o Listed(x)
  BY DEF RowsOf, Listed
<1>4. d.loaded = e.loaded BY DEF SameTree
<1> QED BY <1>1, <1>2, <1>3, <1>4

-----------------------------------------------------------------------------
(***************************************************************************)
(* The dashboard: its rows are those of its data, its filter's places are  *)
(* those of its rows, and the cursor is on a row as soon as there is one.  *)
(***************************************************************************)
Fields(d) ==
    d \in [loaded : BOOLEAN, listing : Seq(AnySession), report : AnyReport,
           rows : Seq(GoodRow), collapsed : {d.collapsed}, expanded : {d.expanded},
           cursor : Nat, typed : Nat, focused : BOOLEAN,
           filtered : [on : BOOLEAN, at : Seq(Nat)], filterCursor : Nat,
           preview : {d.preview}, lastRow : {d.lastRow}, pane : {d.pane}]

(* The filter has the focus while it is in use.                            *)
Filtering(d) ==
    /\ d.filtered.at # << >> => d.filtered.on
    /\ ~d.focused => d.typed = 0 /\ ~d.filtered.on

Synced(d) ==
    /\ Fields(d) /\ Filtering(d)
    /\ d.rows = RowsOf(d)
    /\ d.filtered.at = IF d.typed = 0 THEN << >> ELSE Hits(d.rows, d.typed)

OnRow(d) == effectiveRows(d) # << >> => HasRow(d)
DashOK(d) == Synced(d) /\ OnRow(d)

LEMMA EffectiveOK ==
    ASSUME NEW d, Synced(d)
    PROVE  /\ effectiveRows(d) \in Seq(Nat)
           /\ \A i \in DOMAIN effectiveRows(d) : effectiveRows(d)[i] \in DOMAIN d.rows
           /\ Shown(d) \subseteq Targets \ {Nothing}
<1>1. d.rows \in Seq(GoodRow) /\ d.filtered.at \in Seq(Nat) BY DEF Synced, Fields
<1>2. ASSUME d.filtered.on
      PROVE  /\ effectiveRows(d) \in Seq(Nat)
             /\ \A i \in DOMAIN effectiveRows(d) : effectiveRows(d)[i] \in DOMAIN d.rows
  <2>1. effectiveRows(d) = d.filtered.at BY <1>2 DEF effectiveRows
  <2>2. CASE d.typed = 0
    <3>1. d.filtered.at = << >> BY <2>2 DEF Synced
    <3> QED BY <2>1, <3>1
  <2>3. CASE d.typed # 0
    <3>1. d.filtered.at = Hits(d.rows, d.typed) BY <2>3 DEF Synced
    <3> QED BY <1>1, <2>1, <3>1, HitsOK
  <2> QED BY <2>2, <2>3
<1>3. ASSUME ~d.filtered.on
      PROVE  /\ effectiveRows(d) \in Seq(Nat)
             /\ \A i \in DOMAIN effectiveRows(d) : effectiveRows(d)[i] \in DOMAIN d.rows
  <2>1. effectiveRows(d) = [i \in DOMAIN d.rows |-> i] BY <1>3 DEF effectiveRows
  <2>2. Len(d.rows) \in Nat /\ DOMAIN d.rows = 1 .. Len(d.rows) BY <1>1
  <2>3. effectiveRows(d) \in [1 .. Len(d.rows) -> Nat] BY <2>1, <2>2
  <2>4. effectiveRows(d) \in Seq(Nat) BY <2>2, <2>3
  <2> QED BY <2>1, <2>4
<1>4. ASSUME NEW i \in DOMAIN effectiveRows(d)
      PROVE  d.rows[effectiveRows(d)[i]].id \in Targets \ {Nothing}
  <2>1. effectiveRows(d)[i] \in DOMAIN d.rows BY <1>2, <1>3
  <2>2. d.rows[effectiveRows(d)[i]] \in GoodRow BY <1>1, <2>1
  <2> QED BY <2>2 DEF GoodRow
<1> QED BY <1>2, <1>3, <1>4 DEF Shown

(* The row under the cursor.                                               *)
LEMMA CurrentRowOK ==
    ASSUME NEW d, Synced(d), HasRow(d)
    PROVE  /\ currentRow(d) \in GoodRow
           /\ currentTargetKey(d) = currentRow(d).id
           /\ currentTargetKey(d) \in Shown(d)
<1>1. effectiveRows(d)[effectiveCursor(d)] \in DOMAIN d.rows
  BY EffectiveOK DEF HasRow
<1>2. d.rows \in Seq(GoodRow) BY DEF Synced, Fields
<1> QED BY <1>1, <1>2 DEF currentRow, currentTargetKey, HasRow, Shown

(* Where the cursor goes, and nothing else does.                           *)
OnlyMoves(d, e) ==
    /\ e = [d EXCEPT !.cursor = e.cursor, !.filterCursor = e.filterCursor]
    /\ e.cursor \in Nat /\ e.filterCursor \in Nat

LEMMA MovesKeep ==
    ASSUME NEW d, NEW e, Synced(d), OnlyMoves(d, e)
    PROVE  /\ Synced(e) /\ e.rows = d.rows /\ e.filtered = d.filtered
           /\ effectiveRows(e) = effectiveRows(d) /\ Shown(e) = Shown(d)
<1>1. Fields(e) BY DEF Synced, Fields, OnlyMoves
<1>2. /\ SameTree(d, e) /\ e.report = d.report /\ e.rows = d.rows
      /\ e.filtered = d.filtered /\ e.typed = d.typed /\ e.focused = d.focused
  BY DEF Synced, Fields, OnlyMoves, SameTree
<1>3. RowsOf(e) = RowsOf(d) BY <1>2, RowsOfSame
<1>4. effectiveRows(e) = effectiveRows(d) BY <1>2 DEF effectiveRows
<1>5. Shown(e) = Shown(d) BY <1>2, <1>4 DEF Shown
<1> QED BY <1>1, <1>2, <1>3, <1>4, <1>5 DEF Synced, Filtering

LEMMA SetCursorOK ==
    ASSUME NEW d, Synced(d), NEW at \in Int
    PROVE  /\ DashOK(setCursor(d, at)) /\ OnlyMoves(d, setCursor(d, at))
           /\ at \in DOMAIN effectiveRows(d) => effectiveCursor(setCursor(d, at)) = at
<1> DEFINE n == Len(effectiveRows(d))
           to == IF at < 1 THEN 1 ELSE IF at > n THEN n ELSE at
           e == setCursor(d, at)
<1>1. n \in Nat /\ DOMAIN effectiveRows(d) = 1 .. n BY EffectiveOK
<1>2. to \in Nat /\ (n # 0 => to \in 1 .. n) /\ (at \in 1 .. n => to = at)
  <2> HIDE DEF n
  <2>1. n \in Nat BY <1>1
  <2> QED BY <2>1
<1>3. e = IF n = 0 THEN [d EXCEPT !.cursor = 1, !.filterCursor = 1]
          ELSE IF d.filtered.on THEN [d EXCEPT !.filterCursor = to]
          ELSE [d EXCEPT !.cursor = to]
  BY DEF setCursor
<1> HIDE DEF e, to
<1>4. OnlyMoves(d, e) BY <1>2, <1>3 DEF OnlyMoves, Synced, Fields
<1>5. n # 0 => effectiveCursor(e) = to
  <2>1. e.filtered = d.filtered BY <1>4, MovesKeep
  <2> QED BY <1>3, <2>1 DEF effectiveCursor, Synced, Fields
<1>6. effectiveRows(e) = effectiveRows(d) /\ Synced(e) BY <1>4, MovesKeep
<1>7. OnRow(e)
  <2> SUFFICES ASSUME effectiveRows(e) # << >> PROVE HasRow(e) BY DEF OnRow
  <2>1. n # 0 BY <1>6, EffectiveOK, EmptySeq
  <2> QED BY <1>1, <1>2, <1>5, <1>6, <2>1 DEF HasRow
<1> QED BY <1>1, <1>2, <1>4, <1>5, <1>6, <1>7 DEF DashOK, e

LEMMA CursorType ==
    ASSUME NEW d, Synced(d)
    PROVE  effectiveCursor(d) \in Nat
BY DEF effectiveCursor, Synced, Fields

(* The row of an id that is shown is found.                                *)
LEMMA RestoreOK ==
    ASSUME NEW d, Synced(d), NEW id
    PROVE  /\ DashOK(restoreCursorByID(d, id)) /\ OnlyMoves(d, restoreCursorByID(d, id))
           /\ id \in Shown(d) =>
                 /\ HasRow(restoreCursorByID(d, id))
                 /\ currentTargetKey(restoreCursorByID(d, id)) = id
<1> DEFINE here == {i \in DOMAIN effectiveRows(d) : d.rows[effectiveRows(d)[i]].id = id}
           first == CHOOSE i \in here : \A j \in here : i <= j
           e == restoreCursorByID(d, id)
<1>1. CASE id = Nothing \/ here = {}
  <2>1. e = setCursor(d, effectiveCursor(d)) BY <1>1 DEF restoreCursorByID, clampCursor
  <2>2. DashOK(e) /\ OnlyMoves(d, e)
    <3>1. effectiveCursor(d) \in Int BY CursorType
    <3> QED BY <2>1, <3>1, SetCursorOK
  <2>3. id \notin Shown(d) BY <1>1, EffectiveOK DEF Shown
  <2> QED BY <2>2, <2>3
<1>2. CASE id # Nothing /\ here # {}
  <2>1. DOMAIN effectiveRows(d) \subseteq Nat BY EffectiveOK
  <2>2. here \subseteq Nat BY <2>1
  <2>3. \E i \in here : \A j \in here : i <= j
    <3> HIDE DEF here
    <3> QED BY <1>2, <2>2, LeastNumber
  <2>4. first \in here
    <3> HIDE DEF here
    <3> QED BY <2>3
  <2>5. e = setCursor(d, first) BY <1>2 DEF restoreCursorByID
  <2>6. first \in Int /\ first \in DOMAIN effectiveRows(d)
        /\ d.rows[effectiveRows(d)[first]].id = id
    <3> HIDE DEF first
    <3>1. first \in Int
      <4> HIDE DEF here
      <4> QED BY <2>2, <2>4
    <3> QED BY <2>4, <3>1
  <2> HIDE DEF first, here, e
  <2>7. DashOK(e) /\ OnlyMoves(d, e) /\ effectiveCursor(e) = first
    BY <2>5, <2>6, SetCursorOK
  <2>8. effectiveRows(e) = effectiveRows(d) /\ e.rows = d.rows BY <2>7, MovesKeep
  <2>9. HasRow(e) /\ currentTargetKey(e) = id
    BY <2>6, <2>7, <2>8 DEF HasRow, currentTargetKey, currentRow
  <2> QED BY <2>7, <2>9 DEF e
<1> QED BY <1>1, <1>2

(* Rows that are built anew fit the data, the places of the filter them.   *)
Fitting(d) ==
    /\ Fields(d) /\ Filtering(d)
    /\ d.typed = 0 => d.filtered.at = << >>

LEMMA FilterOK ==
    ASSUME NEW d, Fields(d), d.typed # 0 => d.focused, d.rows = RowsOf(d)
    PROVE  Synced(applyFilter(d)) /\ applyFilter(d).rows = d.rows
<1> DEFINE hits == Hits(d.rows, d.typed)
           e == applyFilter(d)
<1>1. hits \in Seq(Nat)
  <2>1. d.rows \in Seq(GoodRow) BY DEF Fields
  <2> QED BY <2>1, HitsOK
<1>2. e = [d EXCEPT !.filtered = IF d.typed = 0 THEN [on |-> FALSE, at |-> << >>]
                                 ELSE [on |-> d.filtered.on \/ hits # << >>, at |-> hits]]
  BY DEF applyFilter
<1>3. (d.filtered.on \/ hits # << >>) \in BOOLEAN BY DEF Fields
<1>4. Hits(e.rows, e.typed) = hits BY <1>2 DEF Fields
<1> HIDE DEF hits, e
<1>5. Fields(e)
  <2> DEFINE found == IF d.typed = 0 THEN [on |-> FALSE, at |-> << >>]
                      ELSE [on |-> d.filtered.on \/ hits # << >>, at |-> hits]
  <2>1. found \in [on : BOOLEAN, at : Seq(Nat)]
    <3>1. << >> \in Seq(Nat) OBVIOUS
    <3>2. CASE d.typed = 0 BY <3>1, <3>2
    <3>3. CASE d.typed # 0 BY <1>1, <1>3, <3>3
    <3> QED BY <3>2, <3>3
  <2>2. e = [d EXCEPT !.filtered = found] BY <1>2
  <2> HIDE DEF found
  <2> QED BY <2>1, <2>2 DEF Fields
<1>6. SameTree(d, e) /\ d.report = e.report /\ e.rows = d.rows /\ e.typed = d.typed
      /\ e.focused = d.focused
  BY <1>2 DEF Fields, SameTree
<1>7. RowsOf(e) = RowsOf(d) BY <1>6, RowsOfSame
<1>8. e.filtered = IF d.typed = 0 THEN [on |-> FALSE, at |-> << >>]
                   ELSE [on |-> d.filtered.on \/ hits # << >>, at |-> hits]
  BY <1>2 DEF Fields
<1>9. Filtering(e)
  <2>1. CASE d.typed = 0
    <3>1. e.filtered.at = << >> /\ e.filtered.on = FALSE BY <1>8, <2>1
    <3> QED BY <1>6, <2>1, <3>1 DEF Filtering
  <2>2. CASE d.typed # 0
    <3>1. e.filtered.at = hits /\ e.filtered.on = (d.filtered.on \/ hits # << >>)
      BY <1>8, <2>2
    <3>2. e.focused BY <1>6, <2>2
    <3> QED BY <3>1, <3>2 DEF Filtering
  <2> QED BY <2>1, <2>2
<1>10. e.filtered.at = IF e.typed = 0 THEN << >> ELSE Hits(e.rows, e.typed)
  BY <1>4, <1>6, <1>8
<1> QED BY <1>5, <1>6, <1>7, <1>9, <1>10 DEF Synced, e

LEMMA RebuildOK ==
    ASSUME NEW d, Fitting(d), ~d.loaded => d.rows = << >> /\ Synced(d)
    PROVE  Synced(rebuildRows(d))
<1> DEFINE next == [d EXCEPT !.rows = RowsOf(d)]
<1>1. RowsOf(d) \in Seq(GoodRow) BY RowsOfType DEF Fitting, Fields
<1> HIDE DEF next
<1>2. Fields(next) BY <1>1 DEF next, Fitting, Fields
<1>3. /\ SameTree(d, next) /\ next.report = d.report /\ next.rows = RowsOf(d)
      /\ next.typed = d.typed /\ next.filtered = d.filtered /\ next.focused = d.focused
  BY DEF next, Fitting, Fields, SameTree
<1>4. next.rows = RowsOf(next) BY <1>3, RowsOfSame
<1>5. Fitting(next) BY <1>2, <1>3 DEF Fitting, Filtering
<1>6. CASE d.typed # 0 /\ d.loaded
  <2>1. Fields(next) /\ (next.typed # 0 => next.focused) BY <1>5 DEF Fitting, Filtering
  <2>2. Synced(applyFilter(next)) BY <1>4, <2>1, FilterOK
  <2> QED BY <1>6, <2>2 DEF rebuildRows, next
<1>7. CASE ~(d.typed # 0 /\ d.loaded)
  <2>1. rebuildRows(d) = next BY <1>7 DEF rebuildRows, next
  <2>2. next.filtered.at = IF next.typed = 0 THEN << >> ELSE Hits(next.rows, next.typed)
    <3>1. CASE d.typed = 0 BY <1>3, <3>1 DEF Fitting
    <3>2. CASE d.typed # 0
      <4>1. Synced(d) BY <1>7, <3>2
      <4>2. d.rows = RowsOf(d) BY <4>1 DEF Synced
      <4> QED BY <1>3, <3>2, <4>1, <4>2 DEF Synced
    <3> QED BY <3>1, <3>2
  <2> QED BY <1>2, <1>4, <1>5, <2>1, <2>2 DEF Synced, Fitting
<1> QED BY <1>6, <1>7

(* Data that is replaced leaves the selection where it is if its row is    *)
(* still shown.                                                            *)
StaysOn(was, e) ==
    currentTargetKey(was) \in Shown(e) =>
        HasRow(e) /\ currentTargetKey(e) = currentTargetKey(was)

(* The preview and what it is of stay, or it is at least not another one.  *)
Unseen(d, e) == e.preview = d.preview /\ e.lastRow = d.lastRow /\ e.pane = d.pane
Carried(d, e) ==
    /\ e.lastRow = d.lastRow
    /\ e.preview = Nothing \/ (e.preview = d.preview /\ e.pane = d.pane)

LEMMA MovesCarry ==
    ASSUME NEW d, NEW e, Synced(d), OnlyMoves(d, e)
    PROVE  Unseen(d, e) /\ Carried(d, e)
BY DEF OnlyMoves, Unseen, Carried, Synced, Fields

LEMMA RebuiltOK ==
    ASSUME NEW was, NEW d, Synced(was), Fitting(d), was.loaded => d.loaded,
           ~d.loaded => d.rows = << >> /\ Synced(d)
    PROVE  /\ DashOK(Rebuilt(was, d)) /\ StaysOn(was, Rebuilt(was, d))
           /\ Shown(Rebuilt(was, d)) = Shown(rebuildRows(d))
           /\ Unseen(d, Rebuilt(was, d))
<1> DEFINE n == rebuildRows(d)
           e == Rebuilt(was, d)
           key == currentTargetKey(was)
<1>1. Synced(n) BY RebuildOK
<1>2. e = restoreCursorByID(n, key) BY DEF Rebuilt
<1>3. Unseen(d, n) BY DEF rebuildRows, applyFilter, Unseen, Fitting, Fields
<1> HIDE DEF n, e, key
<1>4. DashOK(e) /\ OnlyMoves(n, e) BY <1>1, <1>2, RestoreOK
<1>5. key \in Shown(n) => HasRow(e) /\ currentTargetKey(e) = key BY <1>1, <1>2, RestoreOK
<1>6. Shown(e) = Shown(n) BY <1>1, <1>4, MovesKeep
<1>7. Unseen(n, e) BY <1>1, <1>4 DEF OnlyMoves, Unseen, Synced, Fields
<1> QED BY <1>3, <1>4, <1>5, <1>6, <1>7 DEF StaysOn, Unseen, n, e, key

LEMMA SetDataOK ==
    ASSUME NEW d, Synced(d), NEW listing \in Seq(AnySession)
    PROVE  /\ DashOK(SetData(d, listing)) /\ StaysOn(d, SetData(d, listing))
           /\ Carried(d, SetData(d, listing))
<1> DEFINE e == [d EXCEPT !.loaded = TRUE, !.listing = listing]
<1>1. Fitting(e) /\ e.loaded BY DEF Synced, Fields, Filtering, Fitting
<1>2. SetData(d, listing) = Rebuilt(d, e) BY DEF SetData
<1>3. Unseen(d, e) BY DEF Unseen, Synced, Fields
<1> HIDE DEF e
<1>4. DashOK(Rebuilt(d, e)) /\ StaysOn(d, Rebuilt(d, e)) /\ Unseen(e, Rebuilt(d, e))
  BY <1>1, RebuiltOK
<1> QED BY <1>2, <1>3, <1>4 DEF Unseen, Carried

LEMMA StatusSynced ==
    ASSUME NEW d, Synced(d), NEW report \in AnyReport
    PROVE  LET e == [d EXCEPT !.report = report] IN
           /\ Fitting(e) /\ e.loaded = d.loaded /\ e.rows = d.rows
           /\ ~e.loaded => e.rows = << >> /\ Synced(e)
<1> DEFINE e == [d EXCEPT !.report = report]
<1>1. Fitting(e) /\ e.loaded = d.loaded /\ e.rows = d.rows
  BY DEF Synced, Fields, Filtering, Fitting
<1>2. ASSUME ~e.loaded PROVE e.rows = << >> /\ Synced(e)
  <2>1. RowsOf(d) = << >> /\ RowsOf(e) = << >> BY <1>1, <1>2 DEF RowsOf
  <2>2. d.rows = << >> BY <2>1 DEF Synced
  <2>3. e.typed = d.typed /\ e.filtered = d.filtered BY DEF Synced, Fields
  <2> HIDE DEF e
  <2> QED BY <1>1, <2>1, <2>2, <2>3 DEF Synced, Fitting
<1> HIDE DEF e
<1> QED BY <1>1, <1>2 DEF e

LEMMA SetActiveStatusOK ==
    ASSUME NEW d, Synced(d), NEW report \in AnyReport
    PROVE  /\ DashOK(SetActiveStatus(d, report)) /\ StaysOn(d, SetActiveStatus(d, report))
           /\ Unseen(d, SetActiveStatus(d, report))
<1> DEFINE e == [d EXCEPT !.report = report]
<1>1. Fitting(e) /\ e.loaded = d.loaded /\ (~e.loaded => e.rows = << >> /\ Synced(e))
  BY StatusSynced
<1>2. SetActiveStatus(d, report) = Rebuilt(d, e) BY DEF SetActiveStatus
<1>3. Unseen(d, e) BY DEF Unseen, Synced, Fields
<1> HIDE DEF e
<1>4. DashOK(Rebuilt(d, e)) /\ StaysOn(d, Rebuilt(d, e)) /\ Unseen(e, Rebuilt(d, e))
  BY <1>1, RebuiltOK
<1> QED BY <1>2, <1>3, <1>4 DEF Unseen

(* A report changes the rows of the active session and no others.          *)
LEMMA AliasRows ==
    ASSUME NEW d, d.report \in AnyReport
    PROVE  \A i \in DOMAIN ActiveRows(d) : ActiveRows(d)[i].level \in {"header", "alias"}
<1> DEFINE header == Row("header", << "active-runtime" >>, Nothing, {}, NoWindow)
           alias(i) == Alias(d.report.windows[i])
           n == Len(d.report.windows)
<1>1. n \in Nat /\ DOMAIN d.report.windows = 1 .. n BY DEF AnyReport
<1>2. header.level = "header" /\ \A i : alias(i).level = "alias" BY DEF Alias, Row
<1>3. ActiveRows(d) = IF ~d.report.enabled THEN << >>
                      ELSE << header >> \o [i \in 1 .. n |-> alias(i)]
  BY <1>1 DEF ActiveRows
<1> HIDE DEF header, alias, n
<1> DEFINE aliases == [i \in 1 .. n |-> alias(i)]
<1>4. Len(aliases) = n /\ \A i \in 1 .. n : aliases[i] = alias(i) BY <1>1
<1> DEFINE T == {alias(i) : i \in 1 .. n}
<1>5. << header >> \in Seq({header}) /\ aliases \in Seq(T)
  <2>1. aliases \in [1 .. n -> T] OBVIOUS
  <2> HIDE DEF aliases, T
  <2> QED BY <1>1, <2>1
<1> HIDE DEF T
<1> HIDE DEF aliases
<1>6. ASSUME NEW i \in DOMAIN (<< header >> \o aliases)
      PROVE  (<< header >> \o aliases)[i].level \in {"header", "alias"}
  <2>1. i \in 1 .. n + 1 BY <1>1, <1>4, <1>5
  <2>2. CASE i = 1 BY <1>2, <1>5, <2>2
  <2>3. CASE i # 1
    <3>1. i - 1 \in 1 .. n /\ (<< header >> \o aliases)[i] = aliases[i - 1]
      BY <1>1, <1>4, <1>5, <2>1, <2>3
    <3> QED BY <1>2, <1>4, <3>1
  <2> QED BY <2>2, <2>3
<1>7. CASE ~d.report.enabled
  <2>1. ActiveRows(d) = << >> /\ DOMAIN << >> = {} BY <1>3, <1>7
  <2> QED BY <2>1
<1>8. CASE d.report.enabled
  <2>1. ActiveRows(d) = << header >> \o aliases BY <1>3, <1>8 DEF aliases
  <2> QED BY <1>6, <2>1, Zenon
<1> QED BY <1>7, <1>8

LEMMA StatusShows ==
    ASSUME NEW d, Synced(d), NEW report \in AnyReport, HasRow(d), ~NothingFound(d),
           currentRow(d).level \notin {"header", "alias"}
    PROVE  currentTargetKey(d) \in Shown(SetActiveStatus(d, report))
<1> DEFINE e == [d EXCEPT !.report = report]
           n == rebuildRows(e)
           i == effectiveRows(d)[effectiveCursor(d)]
           L == Listed(d)
           A == ActiveRows(d)
           B == ActiveRows(e)
<1>1. Fitting(e) /\ e.loaded = d.loaded /\ (~e.loaded => e.rows = << >> /\ Synced(e))
  BY StatusSynced
<1>2. SameTree(d, e) /\ e.report = report /\ e.typed = d.typed /\ e.filtered = d.filtered
  BY DEF Synced, Fields, SameTree
<1>3. i \in DOMAIN d.rows /\ currentRow(d) = d.rows[i] /\ currentTargetKey(d) = d.rows[i].id
  BY EffectiveOK DEF HasRow, currentRow, currentTargetKey
<1>4. d.rows \in Seq(GoodRow) /\ d.rows = RowsOf(d) BY DEF Synced, Fields
<1>5. d.loaded
  <2>1. d.rows # << >> BY <1>3, <1>4
  <2> QED BY <1>4, <2>1 DEF RowsOf
<1>6. A \in Seq(GoodRow) /\ B \in Seq(GoodRow) /\ L \in Seq(GoodRow) /\ Listed(e) = L
  BY <1>2, ActiveRowsType, ListedType, ListedSame DEF Synced, Fields
<1>7. d.rows = A \o L /\ RowsOf(e) = B \o L
  BY <1>1, <1>4, <1>5, <1>6 DEF RowsOf, Listed
<1>8. Fields(e) BY <1>1 DEF Fitting
<1>9. /\ n.rows = RowsOf(e)
      /\ n.filtered = IF d.typed = 0 THEN d.filtered
                      ELSE [on |-> d.filtered.on \/ Hits(RowsOf(e), d.typed) # << >>,
                            at |-> Hits(RowsOf(e), d.typed)]
  <2> HIDE DEF e
  <2> QED BY <1>1, <1>2, <1>5, <1>8 DEF rebuildRows, applyFilter, Fields
<1>10. SetActiveStatus(d, report) = Rebuilt(d, e) BY DEF SetActiveStatus
<1> DEFINE k == i - Len(A) + Len(B)
<1>11. i \notin DOMAIN A
  <2>1. ASSUME i \in DOMAIN A PROVE (A \o L)[i] = A[i] BY <1>6, <2>1
  <2>2. \A j \in DOMAIN A : A[j].level \in {"header", "alias"}
    BY AliasRows DEF Synced, Fields
  <2> HIDE DEF A
  <2> QED BY <1>3, <1>7, <2>1, <2>2
<1> HIDE DEF e, n, i, A, B, L
<1>12. k \in DOMAIN (B \o L) /\ (B \o L)[k] = d.rows[i]
  <2>1. Len(A) \in Nat /\ Len(B) \in Nat /\ Len(L) \in Nat /\ DOMAIN A = 1 .. Len(A)
        /\ DOMAIN d.rows = 1 .. Len(A) + Len(L) /\ DOMAIN (B \o L) = 1 .. Len(B) + Len(L)
    BY <1>6, <1>7
  <2>2. i \in Nat /\ i > Len(A) /\ i <= Len(A) + Len(L) BY <1>3, <1>11, <2>1
  <2>3. (A \o L)[i] = L[i - Len(A)] BY <1>6, <2>2
  <2>4. k \in Nat /\ k > Len(B) /\ k <= Len(B) + Len(L) /\ k - Len(B) = i - Len(A)
    BY <2>1, <2>2
  <2>5. (B \o L)[k] = L[k - Len(B)] BY <1>6, <2>4
  <2> QED BY <1>7, <2>1, <2>3, <2>4, <2>5
<1> HIDE DEF k
<1>13. n.rows = B \o L /\ n.rows[k].id = currentTargetKey(d) BY <1>3, <1>7, <1>9, <1>12
<1>14. \E j \in DOMAIN effectiveRows(n) : effectiveRows(n)[j] = k
  <2>1. CASE d.typed = 0
    <3>1. n.filtered = d.filtered BY <1>9, <2>1
    <3>2. ~d.filtered.on
      <4>1. d.filtered.at = << >> BY <2>1 DEF Synced
      <4> QED BY <4>1 DEF HasRow, effectiveRows
    <3>3. effectiveRows(n) = [j \in DOMAIN n.rows |-> j] BY <3>1, <3>2 DEF effectiveRows
    <3> QED BY <1>12, <1>13, <3>3
  <2>2. CASE d.typed # 0
    <3>1. d.filtered.on /\ d.filtered.at = Hits(d.rows, d.typed)
      BY <2>2 DEF Synced, NothingFound
    <3>2. effectiveRows(n) = Hits(B \o L, d.typed)
      <4> DEFINE h == Hits(B \o L, d.typed)
      <4>1. n.filtered = [on |-> d.filtered.on \/ h # << >>, at |-> h]
        BY <1>7, <1>9, <2>2
      <4> HIDE DEF h
      <4>2. n.filtered.on = (d.filtered.on \/ h # << >>) /\ n.filtered.at = h BY <4>1
      <4>3. n.filtered.on BY <3>1, <4>2
      <4> QED BY <4>2, <4>3 DEF effectiveRows, h
    <3>3. effectiveRows(d) = Hits(d.rows, d.typed) BY <3>1 DEF effectiveRows
    <3>4. Matches(d.rows, i, d.typed)
      <4>1. \A j \in DOMAIN Hits(d.rows, d.typed) :
               Matches(d.rows, Hits(d.rows, d.typed)[j], d.typed)
        BY <1>4, HitsOK
      <4> QED BY <3>3, <4>1 DEF i, HasRow
    <3>5. Matches(B \o L, k, d.typed) BY <1>12, <3>4 DEF Matches
    <3>6. B \o L \in Seq(GoodRow) BY <1>6
    <3> DEFINE all == B \o L
    <3> HIDE DEF all
    <3>7. \E j \in DOMAIN Hits(all, d.typed) : Hits(all, d.typed)[j] = k
      <4>1. all \in Seq(GoodRow) /\ k \in DOMAIN all /\ Matches(all, k, d.typed)
        BY <1>12, <3>5, <3>6 DEF all
      <4> QED BY <4>1, HitsAll
    <3> QED BY <3>2, <3>7 DEF all
  <2> QED BY <2>1, <2>2
<1>15. currentTargetKey(d) \in Shown(n) BY <1>13, <1>14 DEF Shown
<1>16. Shown(Rebuilt(d, e)) = Shown(n) BY <1>1, <1>5, RebuiltOK DEF n
<1> QED BY <1>10, <1>15, <1>16

LEMMA ClearOK ==
    ASSUME NEW d, Synced(d)
    PROVE  DashOK(clearFilter(d)) /\ Carried(d, clearFilter(d))
<1> DEFINE e == [d EXCEPT !.typed = 0, !.focused = FALSE,
                          !.filtered = [on |-> FALSE, at |-> << >>]]
<1>1. clearFilter(d) = restoreCursorByID(e, currentTargetKey(d)) BY DEF clearFilter
<1>2. Fields(e) /\ e.rows = d.rows /\ SameTree(d, e) /\ e.report = d.report
      /\ e.typed = 0 /\ e.filtered = [on |-> FALSE, at |-> << >>] /\ e.focused = FALSE
  <2>1. << >> \in Seq(Nat) OBVIOUS
  <2> QED BY <2>1 DEF Synced, Fields, SameTree
<1>6. Unseen(d, e) BY DEF Unseen, Synced, Fields
<1> HIDE DEF e
<1>3. RowsOf(e) = RowsOf(d) BY <1>2, RowsOfSame
<1>4. e.filtered.at = << >> /\ ~e.filtered.on BY <1>2
<1>5. Synced(e) BY <1>2, <1>3, <1>4 DEF Synced, Filtering
<1>7. DashOK(clearFilter(d)) /\ Unseen(e, clearFilter(d)) BY <1>1, <1>5, RestoreOK, MovesCarry
<1> QED BY <1>6, <1>7 DEF Unseen, Carried

LEMMA TypedOK ==
    ASSUME NEW d, Synced(d), d.focused, NEW n \in Nat
    PROVE  DashOK(Typed(d, n)) /\ Carried(d, Typed(d, n))
<1> DEFINE e == [d EXCEPT !.typed = n]
<1>1. Typed(d, n) = restoreCursorByID(applyFilter(e), currentTargetKey(d)) BY DEF Typed
<1>2. /\ Fields(e) /\ e.rows = d.rows /\ SameTree(d, e) /\ e.report = d.report
      /\ e.typed = n /\ e.filtered = d.filtered /\ e.focused
  BY DEF Synced, Fields, SameTree
<1>5. Unseen(d, e) BY DEF Unseen, Synced, Fields
<1> HIDE DEF e
<1>3. RowsOf(e) = RowsOf(d) BY <1>2, RowsOfSame
<1>4. Synced(applyFilter(e)) BY <1>2, <1>3, FilterOK DEF Synced
<1>6. Unseen(e, applyFilter(e)) BY <1>2 DEF applyFilter, Unseen, Fields
<1>7. DashOK(Typed(d, n)) /\ Unseen(applyFilter(e), Typed(d, n))
  BY <1>1, <1>4, RestoreOK, MovesCarry
<1> QED BY <1>5, <1>6, <1>7 DEF Unseen, Carried

(* What is shown of a row.                                                 *)
OnlyShows(d, e) ==
    e = [d EXCEPT !.preview = e.preview, !.lastRow = e.lastRow, !.pane = e.pane]

LEMMA ShowsKeep ==
    ASSUME NEW d, NEW e, DashOK(d), OnlyShows(d, e)
    PROVE  /\ DashOK(e) /\ e.rows = d.rows /\ Shown(e) = Shown(d)
           /\ HasRow(e) = HasRow(d) /\ currentRow(e) = currentRow(d)
           /\ currentTargetKey(e) = currentTargetKey(d)
<1>1. Fields(e) BY DEF DashOK, Synced, Fields, OnlyShows
<1>2. /\ SameTree(d, e) /\ e.report = d.report /\ e.rows = d.rows
      /\ e.filtered = d.filtered /\ e.typed = d.typed /\ e.focused = d.focused
      /\ e.cursor = d.cursor /\ e.filterCursor = d.filterCursor
  BY DEF DashOK, Synced, Fields, OnlyShows, SameTree
<1>3. RowsOf(e) = RowsOf(d) BY <1>2, RowsOfSame
<1>4. effectiveRows(e) = effectiveRows(d) /\ effectiveCursor(e) = effectiveCursor(d)
  BY <1>2 DEF effectiveRows, effectiveCursor
<1>5. HasRow(e) = HasRow(d) BY <1>4 DEF HasRow
<1>6. currentRow(e) = currentRow(d) BY <1>2, <1>4 DEF currentRow
<1>7. Shown(e) = Shown(d) BY <1>2, <1>4 DEF Shown
<1>8. currentTargetKey(e) = currentTargetKey(d) BY <1>5, <1>6 DEF currentTargetKey
<1>9. OnRow(e) BY <1>4, <1>5 DEF DashOK, OnRow
<1> QED BY <1>1, <1>2, <1>3, <1>5, <1>6, <1>7, <1>8, <1>9
        DEF DashOK, Synced, Filtering

LEMMA ResetOK ==
    ASSUME NEW d, DashOK(d)
    PROVE  OnlyShows(d, maybeResetPreviewPane(d)) /\ DashOK(maybeResetPreviewPane(d))
<1>1. OnlyShows(d, maybeResetPreviewPane(d))
  BY DEF OnlyShows, maybeResetPreviewPane, DashOK, Synced, Fields
<1> QED BY <1>1, ShowsKeep

LEMMA SetPreviewOK ==
    ASSUME NEW d, DashOK(d), NEW target
    PROVE  OnlyShows(d, SetPreview(d, target)) /\ DashOK(SetPreview(d, target))
<1>1. OnlyShows(d, SetPreview(d, target))
  BY DEF OnlyShows, SetPreview, DashOK, Synced, Fields
<1> QED BY <1>1, ShowsKeep

(* What is folded changes and the rows with it.                            *)
LEMMA RefoldOK ==
    ASSUME NEW d, Synced(d), d.loaded, NEW folded, NEW unfolded
    PROVE  /\ DashOK(Rebuilt(d, [d EXCEPT !.collapsed = folded]))
           /\ Carried(d, Rebuilt(d, [d EXCEPT !.collapsed = folded]))
           /\ DashOK(Rebuilt(d, [d EXCEPT !.expanded = unfolded]))
           /\ Carried(d, Rebuilt(d, [d EXCEPT !.expanded = unfolded]))
<1> DEFINE e == [d EXCEPT !.collapsed = folded]
           f == [d EXCEPT !.expanded = unfolded]
<1>1. Fitting(e) /\ e.loaded /\ Fitting(f) /\ f.loaded
  BY DEF Synced, Fields, Filtering, Fitting
<1>2. Unseen(d, e) /\ Unseen(d, f) BY DEF Unseen, Synced, Fields
<1> HIDE DEF e, f
<1>3. DashOK(Rebuilt(d, e)) /\ Unseen(e, Rebuilt(d, e))
      /\ DashOK(Rebuilt(d, f)) /\ Unseen(f, Rebuilt(d, f))
  BY <1>1, RebuiltOK
<1>4. Carried(d, Rebuilt(d, e)) /\ Carried(d, Rebuilt(d, f))
  BY <1>2, <1>3 DEF Unseen, Carried
<1> QED BY <1>3, <1>4 DEF e, f

LEMMA RowsAreLoaded ==
    ASSUME NEW d, Synced(d), HasRow(d)
    PROVE  d.loaded
<1>1. d.rows # << >> BY EffectiveOK, EmptySeq DEF HasRow
<1> QED BY <1>1 DEF Synced, RowsOf

LEMMA FoldOK ==
    ASSUME NEW d, DashOK(d), HasRow(d)
    PROVE  /\ DashOK(Fold(d)) /\ DashOK(Unfold(d)) /\ DashOK(Toggle(d)) /\ DashOK(CyclePane(d))
           /\ Carried(d, Fold(d)) /\ Carried(d, Unfold(d)) /\ Carried(d, Toggle(d))
           /\ Carried(d, CyclePane(d))
<1> DEFINE r == currentRow(d)
           up == restoreCursorByID(d, SubSeq(r.id, 1, 2))
<1>1. Synced(d) /\ d.loaded BY RowsAreLoaded DEF DashOK
<1>2. DashOK(up) /\ Carried(d, up) /\ Carried(d, d)
  BY <1>1, RestoreOK, MovesCarry DEF Carried
<1>3. DashOK(Fold(d)) /\ Carried(d, Fold(d)) BY <1>1, <1>2, RefoldOK DEF Fold
<1>4. DashOK(Unfold(d)) /\ Carried(d, Unfold(d)) BY <1>1, <1>2, RefoldOK DEF Unfold
<1>5. DashOK(Toggle(d)) /\ Carried(d, Toggle(d)) BY <1>1, <1>2, RefoldOK DEF Toggle
<1>6. DashOK(CyclePane(d)) /\ Carried(d, CyclePane(d))
  <2>1. OnlyShows(d, CyclePane(d)) BY <1>1 DEF OnlyShows, CyclePane, Synced, Fields
  <2>2. Carried(d, CyclePane(d)) BY <1>1 DEF Carried, CyclePane, Synced, Fields
  <2> QED BY <2>1, <2>2, ShowsKeep
<1> QED BY <1>3, <1>4, <1>5, <1>6

LEMMA UpdateOK ==
    ASSUME NEW d, DashOK(d), NEW key
    PROVE  DashOK(Update(d, key)) /\ Carried(d, Update(d, key))
<1>1. Synced(d) BY DEF DashOK
<1>2. effectiveCursor(d) \in Nat /\ Len(effectiveRows(d)) \in Nat
  BY <1>1, CursorType, EffectiveOK
<1>3. \A at \in Int : DashOK(setCursor(d, at)) /\ Carried(d, setCursor(d, at))
  BY <1>1, SetCursorOK, MovesCarry
<1>11. Carried(d, d) BY DEF Carried
<1>4. \A delta \in Int : DashOK(moveCursor(d, delta)) /\ Carried(d, moveCursor(d, delta))
  <2>1. \A delta \in Int : effectiveCursor(d) + delta \in Int BY <1>2
  <2> QED BY <1>3, <1>11, <2>1 DEF moveCursor
<1>5. ASSUME d.focused
      PROVE  DashOK(updateFilterInput(d, key)) /\ Carried(d, updateFilterInput(d, key))
  <2>1. d.typed \in Nat BY <1>1 DEF Synced, Fields
  <2>2. d.typed > 0 => d.typed - 1 \in Nat BY <2>1
  <2>3. d.typed + 1 \in Nat BY <2>1
  <2>4. DashOK(clearFilter(d)) /\ Carried(d, clearFilter(d)) BY <1>1, ClearOK
  <2>5. \A n \in Nat : DashOK(Typed(d, n)) /\ Carried(d, Typed(d, n)) BY <1>1, <1>5, TypedOK
  <2> QED BY <1>11, <2>2, <2>3, <2>4, <2>5 DEF updateFilterInput
<1> DEFINE e == [d EXCEPT !.focused = TRUE,
                          !.filtered = [on |-> TRUE, at |-> d.filtered.at]]
<1>6. ASSUME ~d.focused PROVE DashOK(e) /\ Carried(d, e)
  <2>7. Carried(d, e) BY <1>1 DEF Carried, Synced, Fields
  <2>1. Fields(e) /\ e.rows = d.rows /\ SameTree(d, e) /\ e.report = d.report
        /\ e.typed = d.typed /\ e.filtered = [on |-> TRUE, at |-> d.filtered.at] /\ e.focused
    BY <1>1 DEF Synced, Fields, SameTree
  <2> HIDE DEF e
  <2>2. RowsOf(e) = RowsOf(d) BY <2>1, RowsOfSame
  <2>3. e.filtered.on /\ e.filtered.at = d.filtered.at BY <2>1
  <2>4. Synced(e) BY <1>1, <2>1, <2>2, <2>3 DEF Synced, Filtering
  <2>5. d.filtered.at = << >> BY <1>1, <1>6 DEF Synced, Filtering
  <2>6. OnRow(e) BY <2>3, <2>5 DEF OnRow, effectiveRows
  <2> QED BY <2>4, <2>6, <2>7 DEF DashOK
<1>7. DashOK(clearFilter(d)) /\ Carried(d, clearFilter(d)) BY <1>1, ClearOK
<1>8. HasRow(d) => /\ DashOK(Fold(d)) /\ DashOK(Unfold(d)) /\ DashOK(Toggle(d))
                   /\ DashOK(CyclePane(d)) /\ Carried(d, Fold(d)) /\ Carried(d, Unfold(d))
                   /\ Carried(d, Toggle(d)) /\ Carried(d, CyclePane(d))
  BY FoldOK
<1>9. CASE d.focused
  <2>1. Update(d, key) = updateFilterInput(d, key) BY <1>9 DEF Update
  <2> QED BY <1>5, <1>9, <2>1
<1>10. CASE ~d.focused
  <2>1. Len(effectiveRows(d)) \in Int BY <1>2
  <2> QED BY <1>3, <1>4, <1>6, <1>7, <1>8, <1>10, <1>11, <2>1 DEF Update
<1> QED BY <1>9, <1>10

-----------------------------------------------------------------------------
(***************************************************************************)
(* The root model                                                          *)
(***************************************************************************)
AllScreens == {"dashboard", "palette", "confirm", "diff", "settings", "history", "error"}

(* Screens that are shown before there is a model of them: only settings.  *)
Always == {"dashboard", "history", "error", "settings"}

Parts(x) ==
    x \in [dash : {x.dash}, screen : AllScreens, help : {x.help}, confirm : {x.confirm},
           palette : {x.palette}, settings : {x.settings}, built : {x.built},
           activeSeq : {x.activeSeq}, reportAt : {x.reportAt}, paneSeq : {x.paneSeq},
           panesAt : {x.panesAt}, panes : {x.panes}, pending : {x.pending},
           marks : {x.marks}, ring : Seq(Targets)]

ModelOK(x) ==
    /\ Parts(x) /\ DashOK(x.dash) /\ Len(x.ring) <= MaxRing
    /\ x.screen \in Always \cup x.built
    /\ "confirm" \in x.built => x.confirm.target # Nothing

(* Neither lane of requests is touched, no screen is lost.                 *)
SameLanes(x, y) ==
    /\ y.activeSeq = x.activeSeq /\ y.reportAt = x.reportAt
    /\ y.paneSeq = x.paneSeq /\ y.panesAt = x.panesAt
    /\ x.built \subseteq y.built

Leads(x, y) == ModelOK(y) /\ SameLanes(x, y)

LEMMA LeadsOn ==
    ASSUME NEW x, NEW y, NEW z, Leads(x, y), Leads(y, z)
    PROVE  Leads(x, z)
BY DEF Leads, SameLanes

LEMMA SelectedType ==
    ASSUME NEW d, DashOK(d)
    PROVE  SelectedTarget(d) \in Targets /\ SelectedAttachTarget(d) \in Targets
<1>1. Nothing \in Targets BY DEF Nothing, Targets
<1>2. HasRow(d) => currentRow(d) \in GoodRow BY CurrentRowOK DEF DashOK
<1>3. HasRow(d) => currentRow(d).target \in Targets /\ currentRow(d).id \in Targets
  BY <1>2 DEF GoodRow
<1> QED BY <1>1, <1>3 DEF SelectedTarget, SelectedAttachTarget

LEMMA PushOK ==
    ASSUME ScreensAssumption, NEW ring \in Seq(Targets), Len(ring) <= MaxRing,
           NEW target \in Targets
    PROVE  /\ PushLocation(ring, target) \in Seq(Targets)
           /\ Len(PushLocation(ring, target)) <= MaxRing
           /\ target # Nothing => /\ PushLocation(ring, target) # << >>
                                  /\ Head(PushLocation(ring, target)) = target
<1>1. MaxRing \in Nat \ {0} /\ Len(ring) \in Nat BY DEF ScreensAssumption
<1> DEFINE longer == << target >> \o ring
           n == IF Len(ring) < MaxRing THEN Len(ring) + 1 ELSE MaxRing
<1>2. longer \in Seq(Targets) /\ Len(longer) = Len(ring) + 1 /\ longer[1] = target
  BY <1>1
<1>3. n \in 1 .. Len(longer) /\ n \in Nat /\ n <= MaxRing BY <1>1, <1>2
<1> HIDE DEF longer, n
<1> DEFINE new == SubSeq(longer, 1, n)
<1>4. new \in Seq(Targets) /\ Len(new) = n /\ new[1] = target
  BY <1>2, <1>3, SubSeqProperties
<1>5. PushLocation(ring, target) = IF target = Nothing THEN ring ELSE new
  BY DEF PushLocation, longer, n
<1> HIDE DEF new
<1>6. new # << >> /\ Head(new) = target BY <1>3, <1>4
<1> QED BY <1>3, <1>4, <1>5, <1>6

LEMMA JumpOK ==
    ASSUME ScreensAssumption, NEW x, ModelOK(x), NEW target
    PROVE  /\ Leads(x, Jump(x, target))
           /\ Jump(x, target).ring = PushLocation(x.ring, SelectedTarget(x.dash))
           /\ Jump(x, target).dash = restoreCursorByID(x.dash, target)
<1> DEFINE y == Jump(x, target)
           ring == PushLocation(x.ring, SelectedTarget(x.dash))
           dash == restoreCursorByID(x.dash, target)
<1>1. ring \in Seq(Targets) /\ Len(ring) <= MaxRing
  <2>1. SelectedTarget(x.dash) \in Targets BY SelectedType DEF ModelOK
  <2>2. x.ring \in Seq(Targets) BY DEF ModelOK, Parts
  <2> QED BY <2>1, <2>2, PushOK DEF ModelOK
<1>2. DashOK(dash) BY RestoreOK DEF ModelOK, DashOK
<1>3. y = [x EXCEPT !.ring = ring, !.dash = dash] BY DEF Jump
<1> HIDE DEF y, ring, dash
<1>4. /\ Parts(y) /\ y.dash = dash /\ y.ring = ring /\ y.screen = x.screen
      /\ y.built = x.built /\ y.confirm = x.confirm /\ SameLanes(x, y)
  BY <1>1, <1>3 DEF ModelOK, Parts, SameLanes
<1>5. ModelOK(y) BY <1>1, <1>2, <1>4 DEF ModelOK
<1> QED BY <1>4, <1>5 DEF Leads, y, ring, dash

LEMMA PreviewedOK ==
    ASSUME NEW x, ModelOK(x)
    PROVE  /\ Leads(x, Previewed(x))
           /\ Previewed(x).dash = maybeResetPreviewPane(x.dash)
           /\ \A t \in Captures(x) : t.kind = "preview"
<1> DEFINE y == Previewed(x)
           dash == maybeResetPreviewPane(x.dash)
<1>1. DashOK(dash) BY ResetOK DEF ModelOK
<1>2. y = [x EXCEPT !.dash = dash] BY DEF Previewed
<1>3. \A t \in Captures(x) : t.kind = "preview" BY DEF Captures, Ask
<1> HIDE DEF y, dash
<1>4. /\ Parts(y) /\ y.dash = dash /\ y.ring = x.ring /\ y.screen = x.screen
      /\ y.built = x.built /\ y.confirm = x.confirm /\ SameLanes(x, y)
  BY <1>2 DEF ModelOK, Parts, SameLanes
<1>5. ModelOK(y) BY <1>1, <1>4 DEF ModelOK
<1> QED BY <1>3, <1>4, <1>5 DEF Leads, y, dash

LEMMA SwappedOK ==
    ASSUME ScreensAssumption, NEW x, ModelOK(x), x.ring # << >>
    PROVE  Leads(x, Swapped(x)) /\ Carried(x.dash, Swapped(x).dash)
<1> DEFINE popped == [x EXCEPT !.ring = Tail(x.ring)]
           back == [popped EXCEPT !.dash = restoreCursorByID(x.dash, Head(x.ring))]
<1>1. Tail(x.ring) \in Seq(Targets) /\ Len(Tail(x.ring)) <= MaxRing
  <2>1. x.ring \in Seq(Targets) /\ Len(x.ring) <= MaxRing /\ MaxRing \in Nat
    BY DEF ModelOK, Parts, ScreensAssumption
  <2>2. Tail(x.ring) \in Seq(Targets) /\ Len(Tail(x.ring)) = Len(x.ring) - 1
        /\ Len(x.ring) \in Nat
    BY <2>1
  <2> QED BY <2>1, <2>2
<1>2. Leads(x, popped)
  <2>1. /\ Parts(popped) /\ popped.dash = x.dash /\ popped.ring = Tail(x.ring)
        /\ popped.screen = x.screen /\ popped.built = x.built /\ popped.confirm = x.confirm
        /\ SameLanes(x, popped)
    BY <1>1 DEF ModelOK, Parts, SameLanes
  <2> HIDE DEF popped
  <2> QED BY <1>1, <2>1 DEF ModelOK, Leads
<1>3. Leads(popped, back)
  <2> DEFINE dash == restoreCursorByID(x.dash, Head(x.ring))
  <2>1. DashOK(dash) BY RestoreOK DEF ModelOK, DashOK
  <2>2. back = [popped EXCEPT !.dash = dash] OBVIOUS
  <2> HIDE DEF back, popped, dash
  <2>3. /\ Parts(back) /\ back.dash = dash /\ back.ring = popped.ring
        /\ back.screen = popped.screen /\ back.built = popped.built
        /\ back.confirm = popped.confirm /\ SameLanes(popped, back)
    BY <1>2, <2>2 DEF Leads, ModelOK, Parts, SameLanes
  <2> QED BY <1>2, <2>1, <2>3 DEF ModelOK, Leads
<1>4. /\ Leads(popped, Jump(popped, Head(x.ring)))
      /\ Jump(popped, Head(x.ring)).dash = restoreCursorByID(popped.dash, Head(x.ring))
  <2> HIDE DEF popped
  <2> QED BY <1>2, JumpOK DEF Leads
<1>5. Swapped(x) = back \/ Swapped(x) = Jump(popped, Head(x.ring)) BY DEF Swapped
<1>6. popped.dash = x.dash /\ back.dash = restoreCursorByID(x.dash, Head(x.ring))
  BY DEF ModelOK, Parts
<1>7. Carried(x.dash, restoreCursorByID(x.dash, Head(x.ring)))
  BY RestoreOK, MovesCarry DEF ModelOK, DashOK
<1> HIDE DEF popped, back
<1> QED BY <1>2, <1>3, <1>4, <1>5, <1>6, <1>7, LeadsOn

(* What the screens are built of besides.                                  *)
LEMMA BuildsOK ==
    ASSUME ScreensAssumption, NEW x, ModelOK(x)
    PROVE  /\ Leads(x, Confirm(x)) /\ Leads(x, Attached(x)) /\ Leads(x, Opened(x))
           /\ Leads(x, Diffed(x)) /\ Leads(x, Diffed([x EXCEPT !.screen = "diff"]))
           /\ \A s : Leads(x, [x EXCEPT !.screen = "settings", !.settings = s,
                                        !.built = @ \cup {"settings"}])
<1> USE DEF ModelOK, Leads, SameLanes
<1>1. Leads(x, Confirm(x))
  BY DEF Confirm, Parts, AllScreens
<1>2. Leads(x, Attached(x))
  <2>1. SelectedAttachTarget(x.dash) \in Targets /\ x.ring \in Seq(Targets)
    BY SelectedType DEF Parts
  <2> DEFINE ring == PushLocation(x.ring, SelectedAttachTarget(x.dash))
  <2>2. ring \in Seq(Targets) /\ Len(ring) <= MaxRing BY <2>1, PushOK
  <2>3. Attached(x) = [x EXCEPT !.ring = ring] BY DEF Attached
  <2> HIDE DEF ring
  <2> QED BY <2>2, <2>3 DEF Parts
<1>3. Leads(x, Opened(x)) BY DEF Opened, Parts, AllScreens
<1>4. Leads(x, Diffed(x)) BY DEF Diffed, Parts
<1>5. Leads(x, Diffed([x EXCEPT !.screen = "diff"])) BY DEF Diffed, Parts, AllScreens
<1>6. \A s : Leads(x, [x EXCEPT !.screen = "settings", !.settings = s,
                                !.built = @ \cup {"settings"}])
  BY DEF Parts, AllScreens
<1> QED BY <1>1, <1>2, <1>3, <1>4, <1>5, <1>6

(* Twice '' leads back.                                                    *)
LEMMA TwiceBack ==
    ASSUME ScreensAssumption, ModelOK(m)
    PROVE  JumpsReturn
<1> DEFINE there == Swapped(m)
           popped == [m EXCEPT !.ring = Tail(m.ring)]
           last == Head(m.ring)
           t == SelectedTarget(m.dash)
<1> SUFFICES ASSUME m.ring # << >>, HasRow(m.dash),
                    currentRow(m.dash).level \in {"session", "window"},
                    t # last, SelectedTarget(there.dash) = last
             PROVE  currentTargetKey(Swapped(there).dash) = currentTargetKey(m.dash)
  BY DEF JumpsReturn
<1>1. Synced(m.dash) /\ m.ring \in Seq(Targets) /\ Len(m.ring) <= MaxRing
  BY DEF ModelOK, DashOK, Parts
<1>2. t = currentTargetKey(m.dash) /\ t \in Shown(m.dash) /\ t # Nothing /\ t \in Targets
  <2>1. currentRow(m.dash) \in GoodRow /\ currentTargetKey(m.dash) = currentRow(m.dash).id
        /\ currentTargetKey(m.dash) \in Shown(m.dash)
    BY <1>1, CurrentRowOK
  <2>2. t = currentRow(m.dash).target BY DEF SelectedTarget
  <2> QED BY <2>1, <2>2 DEF GoodRow
<1>3. ModelOK(popped) /\ popped.dash = m.dash /\ popped.ring = Tail(m.ring)
  <2>1. Tail(m.ring) \in Seq(Targets) /\ Len(Tail(m.ring)) <= MaxRing
    <3>1. Len(m.ring) \in Nat /\ MaxRing \in Nat BY <1>1 DEF ScreensAssumption
    <3>2. Tail(m.ring) \in Seq(Targets) /\ Len(Tail(m.ring)) = Len(m.ring) - 1 BY <1>1
    <3> QED BY <1>1, <3>1, <3>2
  <2> QED BY <2>1 DEF ModelOK, Parts
<1>4. there = Jump(popped, last) BY DEF Swapped
<1> HIDE DEF popped, t, last
<1>5. /\ there.dash = restoreCursorByID(m.dash, last)
      /\ there.ring = PushLocation(popped.ring, t)
      /\ ModelOK(there)
  BY <1>3, <1>4, JumpOK DEF Leads, t
<1>6. there.ring # << >> /\ Head(there.ring) = t
  <2>1. popped.ring \in Seq(Targets) /\ Len(popped.ring) <= MaxRing
    BY <1>3 DEF ModelOK, Parts
  <2> QED BY <1>2, <1>5, <2>1, PushOK
<1> HIDE DEF there
<1>7. Swapped(there).dash = restoreCursorByID(there.dash, t)
  <2>1. SelectedTarget(there.dash) # Head(there.ring) BY <1>6
  <2> DEFINE rest == [there EXCEPT !.ring = Tail(there.ring)]
  <2>2. Swapped(there) = Jump(rest, Head(there.ring)) BY <2>1 DEF Swapped
  <2>3. rest.dash = there.dash BY <1>5 DEF ModelOK, Parts
  <2>4. Jump(rest, Head(there.ring)).dash = restoreCursorByID(rest.dash, Head(there.ring))
    <3>1. ModelOK(rest)
      <4>1. there.ring \in Seq(Targets) /\ Len(there.ring) <= MaxRing
        BY <1>5 DEF ModelOK, Parts
      <4>2. Tail(there.ring) \in Seq(Targets) /\ Len(Tail(there.ring)) <= MaxRing
        <5>1. Len(there.ring) \in Nat /\ MaxRing \in Nat BY <4>1 DEF ScreensAssumption
        <5>2. Tail(there.ring) \in Seq(Targets) /\ Len(Tail(there.ring)) = Len(there.ring) - 1
          BY <1>6, <4>1
        <5> QED BY <4>1, <5>1, <5>2
      <4> QED BY <1>5, <4>2 DEF ModelOK, Parts
    <3> HIDE DEF rest
    <3> QED BY <3>1, JumpOK
  <2> QED BY <1>6, <2>2, <2>3, <2>4
<1>8. Synced(there.dash) /\ Shown(there.dash) = Shown(m.dash)
  BY <1>1, <1>5, RestoreOK, MovesKeep DEF DashOK
<1>9. currentTargetKey(restoreCursorByID(there.dash, t)) = t
  BY <1>2, <1>8, RestoreOK
<1> QED BY <1>2, <1>7, <1>9

-----------------------------------------------------------------------------
(***************************************************************************)
(* Requests and what they bring: a lane is the requests and answers of a   *)
(* kind, numbered; what is shown is no newer than the answer to the latest.*)
(***************************************************************************)
InLane(t, ask, answer) == t.kind \in {ask, answer}

Lane(T, version, ask, answer, now, seen) ==
    /\ now \in Nat /\ seen \in Nat /\ version \in Nat /\ seen <= version
    /\ \A t \in T : InLane(t, ask, answer) => t.seq \in Nat /\ t.seq <= now
    /\ \A t \in T : t.kind = answer =>
          t.at \in Nat /\ t.at <= version /\ (t.seq = now => seen <= t.at)
    /\ \A t, u \in T :
          InLane(t, ask, answer) /\ InLane(u, ask, answer) /\ t.seq = u.seq => t = u

LEMMA LaneKept ==
    ASSUME NEW T, NEW U, NEW version, NEW later \in Nat, NEW ask, NEW answer,
           NEW now, NEW seen, Lane(T, version, ask, answer, now, seen), version <= later,
           \A t \in U : InLane(t, ask, answer) => t \in T
    PROVE  Lane(U, later, ask, answer, now, seen)
<1>1. \A t \in U : t.kind = answer => InLane(t, ask, answer) BY DEF InLane
<1>2. \A t \in U : t.kind = answer => t.at \in Nat /\ t.at <= later /\ (t.seq = now => seen <= t.at)
  <2> SUFFICES ASSUME NEW t \in U, t.kind = answer
               PROVE  t.at \in Nat /\ t.at <= later /\ (t.seq = now => seen <= t.at)
    OBVIOUS
  <2>1. t \in T BY <1>1
  <2>2. t.at \in Nat /\ t.at <= version /\ (t.seq = now => seen <= t.at) BY <2>1 DEF Lane
  <2>3. version \in Nat BY DEF Lane
  <2> QED BY <2>2, <2>3
<1>3. now \in Nat /\ seen \in Nat /\ seen <= later BY DEF Lane
<1> QED BY <1>2, <1>3 DEF Lane

LEMMA LaneAsked ==
    ASSUME NEW T, NEW U, NEW version, NEW ask, NEW answer, ask # answer,
           NEW now, NEW seen, Lane(T, version, ask, answer, now, seen),
           \A t \in U : InLane(t, ask, answer) =>
                           t \in T \/ t = Numbered(ask, now + 1)
    PROVE  Lane(U, version, ask, answer, now + 1, seen)
<1> DEFINE new == Numbered(ask, now + 1)
<1>1. new.kind = ask /\ new.seq = now + 1 BY DEF Numbered
<1> HIDE DEF new
<1>2. now \in Nat /\ now + 1 \in Nat /\ seen \in Nat /\ version \in Nat /\ seen <= version
  BY DEF Lane
<1>3. \A t \in T : InLane(t, ask, answer) => t.seq \in Nat /\ t.seq <= now /\ t.seq # now + 1
  BY <1>2 DEF Lane
<1>4. \A t \in U : InLane(t, ask, answer) => t.seq \in Nat /\ t.seq <= now + 1
  BY <1>1, <1>2, <1>3 DEF new
<1>5. ASSUME NEW t \in U, t.kind = answer
      PROVE  t.at \in Nat /\ t.at <= version /\ (t.seq = now + 1 => seen <= t.at)
  <2>1. InLane(t, ask, answer) /\ t # new BY <1>1, <1>5 DEF InLane
  <2>2. t \in T BY <2>1 DEF new
  <2> QED BY <1>3, <1>5, <2>1, <2>2 DEF Lane
<1>6. ASSUME NEW t \in U, NEW u \in U, InLane(t, ask, answer), InLane(u, ask, answer),
             t.seq = u.seq
      PROVE  t = u
  <2>1. (t \in T \/ t = new) /\ (u \in T \/ u = new) BY <1>6 DEF new
  <2>2. CASE t \in T /\ u \in T BY <1>6, <2>2 DEF Lane
  <2>3. CASE t \in T /\ u = new BY <1>1, <1>3, <1>6, <2>3
  <2>4. CASE t = new /\ u \in T BY <1>1, <1>3, <1>6, <2>4
  <2> QED BY <2>1, <2>2, <2>3, <2>4
<1> QED BY <1>2, <1>4, <1>5, <1>6 DEF Lane

LEMMA LaneAnswered ==
    ASSUME NEW T, NEW U, NEW version, NEW ask, NEW answer,
           NEW now, NEW seen, Lane(T, version, ask, answer, now, seen),
           NEW task \in T, task.kind = ask, NEW new,
           new.kind = answer, new.seq = task.seq, new.at = version,
           \A t \in U : InLane(t, ask, answer) => t \in T \ {task} \/ t = new
    PROVE  Lane(U, version, ask, answer, now, seen)
<1>1. InLane(task, ask, answer) /\ InLane(new, ask, answer) BY DEF InLane
<1>2. now \in Nat /\ seen \in Nat /\ version \in Nat /\ seen <= version BY DEF Lane
<1>3. \A t \in U : InLane(t, ask, answer) => t.seq \in Nat /\ t.seq <= now
  BY <1>1 DEF Lane
<1>4. ASSUME NEW t \in U, t.kind = answer
      PROVE  t.at \in Nat /\ t.at <= version /\ (t.seq = now => seen <= t.at)
  <2>1. InLane(t, ask, answer) BY <1>4 DEF InLane
  <2>2. CASE t = new BY <1>2, <2>2
  <2>3. CASE t \in T BY <1>4, <2>3 DEF Lane
  <2> QED BY <2>1, <2>2, <2>3
<1>5. ASSUME NEW t \in U, NEW u \in U, InLane(t, ask, answer), InLane(u, ask, answer),
             t.seq = u.seq
      PROVE  t = u
  <2>1. ASSUME NEW x \in T \ {task}, InLane(x, ask, answer) PROVE x.seq # new.seq
    BY <1>1, <2>1 DEF Lane
  <2>2. CASE t \in T \ {task} /\ u \in T \ {task} BY <1>5, <2>2 DEF Lane
  <2>3. CASE t \in T \ {task} /\ u = new BY <1>5, <2>1, <2>3
  <2>4. CASE t = new /\ u \in T \ {task} BY <1>5, <2>1, <2>4
  <2> QED BY <1>5, <2>2, <2>3, <2>4
<1> QED BY <1>2, <1>3, <1>4, <1>5 DEF Lane

LEMMA LaneTaken ==
    ASSUME NEW T, NEW U, NEW version, NEW ask, NEW answer,
           NEW now, NEW seen, Lane(T, version, ask, answer, now, seen),
           NEW task \in T, task.kind = answer, task.seq = now,
           \A t \in U : InLane(t, ask, answer) => t \in T \ {task}
    PROVE  Lane(U, version, ask, answer, now, task.at) /\ seen <= task.at
<1>1. InLane(task, ask, answer) BY DEF InLane
<1>2. now \in Nat /\ version \in Nat /\ task.at \in Nat /\ task.at <= version
      /\ seen <= task.at
  BY DEF Lane
<1>3. \A t \in U : InLane(t, ask, answer) => t \in T /\ t.seq # now BY <1>1 DEF Lane
<1>4. \A t \in U : t.kind = answer => InLane(t, ask, answer) BY DEF InLane
<1>5. \A t \in U : t.kind = answer =>
         t.at \in Nat /\ t.at <= version /\ (t.seq = now => task.at <= t.at)
  BY <1>3, <1>4 DEF Lane
<1> QED BY <1>2, <1>3, <1>5 DEF Lane

-----------------------------------------------------------------------------
(***************************************************************************)
(* What tmux lists                                                         *)
(***************************************************************************)
LEMMA RemoveAtType ==
    ASSUME NEW T, NEW s \in Seq(T), NEW i \in DOMAIN s
    PROVE  RemoveAt(s, i) \in Seq(T)
<1>1. Len(s) \in Nat /\ i \in 1 .. Len(s) OBVIOUS
<1>2. SubSeq(s, 1, i - 1) \in Seq(T)
  <2>1. \A k \in 1 .. i - 1 : s[k] \in T BY <1>1
  <2> QED BY <1>1, <2>1, SubSeqProperties
<1>3. SubSeq(s, i + 1, Len(s)) \in Seq(T)
  <2>1. \A k \in i + 1 .. Len(s) : s[k] \in T BY <1>1
  <2> QED BY <1>1, <2>1, SubSeqProperties
<1> QED BY <1>2, <1>3 DEF RemoveAt

LEMMA WithoutType ==
    ASSUME NEW listing \in Seq(AnySession), NEW i \in DOMAIN listing,
           NEW j \in DOMAIN listing[i].windows
    PROVE  Removed(listing, i, j) \in Seq(AnySession)
<1>1. listing[i] \in AnySession OBVIOUS
<1> DEFINE s == listing[i]
           fewer == RemoveAt(s.windows, j)
           t == [s EXCEPT !.windows = fewer]
<1>2. fewer \in Seq(AnyWindow)
  <2>1. s.windows \in Seq(AnyWindow) BY <1>1 DEF AnySession
  <2> HIDE DEF s
  <2> QED BY <2>1, RemoveAtType DEF s
<1>3. t \in AnySession
  <2> HIDE DEF fewer
  <2> QED BY <1>1, <1>2 DEF AnySession
<1>4. RemoveAt(listing, i) \in Seq(AnySession) BY RemoveAtType
<1>5. [listing EXCEPT ![i] = t] \in Seq(AnySession)
  <2> HIDE DEF t
  <2> QED BY <1>3
<1>6. [listing EXCEPT ![i].windows = RemoveAt(@, j)] = [listing EXCEPT ![i] = t]
  OBVIOUS
<1> QED BY <1>4, <1>5, <1>6 DEF Removed

LEMMA KilledType ==
    ASSUME server.listing \in Seq(AnySession), NEW level, NEW t,
           NEW i \in DOMAIN server.listing, NEW j \in DOMAIN server.listing[i].windows
    PROVE  Killed(level, t, i, j) \in Seq(AnySession)
<1> DEFINE listing == server.listing
           s == listing[i]
           w == s.windows[j]
           v == [w EXCEPT !.panes = w.panes - 1]
           u == [s EXCEPT !.windows = [s.windows EXCEPT ![j] = v]]
<1>1. s \in AnySession OBVIOUS
<1>2. s.windows \in Seq(AnyWindow) BY <1>1 DEF AnySession
<1>3. w \in AnyWindow BY <1>2
<1>4. w.panes > 1 => [listing EXCEPT ![i] = u] \in Seq(AnySession)
  <2> SUFFICES ASSUME w.panes > 1 PROVE [listing EXCEPT ![i] = u] \in Seq(AnySession)
    OBVIOUS
  <2>1. v \in AnyWindow
    <3> HIDE DEF w
    <3>1. w.panes \in Nat /\ w.panes - 1 \in Nat BY <1>3 DEF AnyWindow
    <3> QED BY <1>3, <3>1 DEF AnyWindow
  <2>2. [s.windows EXCEPT ![j] = v] \in Seq(AnyWindow)
    <3> HIDE DEF v
    <3> QED BY <1>2, <2>1
  <2>3. u \in AnySession
    <3> DEFINE windows == [s.windows EXCEPT ![j] = v]
    <3> HIDE DEF windows, s
    <3> QED BY <1>1, <2>2 DEF AnySession, windows
  <2> HIDE DEF u
  <2> QED BY <2>3
<1>5. [server.listing EXCEPT ![i].windows[j].panes = @ - 1] = [listing EXCEPT ![i] = u]
  OBVIOUS
<1>6. RemoveAt(listing, i) \in Seq(AnySession) /\ Removed(listing, i, j) \in Seq(AnySession)
  BY RemoveAtType, WithoutType
<1> HIDE DEF u
<1> QED BY <1>4, <1>5, <1>6 DEF Killed

(* The first of the windows that a kill is for.                            *)
LEMMA FirstHit ==
    ASSUME NEW H, H # {}, \A x \in H : x[2] \in Nat
    PROVE  (CHOOSE x \in H : \A y \in H : x[2] <= y[2]) \in H
<1> DEFINE T == {x[2] : x \in H}
<1>1. PICK n \in T : \A k \in T : n <= k
  <2>1. T \subseteq Nat /\ T # {} OBVIOUS
  <2> HIDE DEF T
  <2> QED BY <2>1, LeastNumber
<1>2. \E x \in H : \A y \in H : x[2] <= y[2]
  <2>1. PICK x \in H : x[2] = n BY <1>1
  <2> QED BY <1>1, <2>1
<1> QED BY <1>2

-----------------------------------------------------------------------------
(***************************************************************************)
(* The invariant                                                           *)
(***************************************************************************)
Thens == {{}, {Load}, {Load, Switch("dashboard")}}

(* A command or a message changes the model to one that fits.              *)
Harmless(t, built) ==
    /\ t.kind = "data" => t.listing \in Seq(AnySession)
    /\ t.kind = "report" => t.report \in AnyReport
    /\ t.kind = "switch" => t.how \in AllScreens /\ t.how \in Always \cup built
    /\ t.kind = "action" => t.then \in Thens

Quiet(t) == t.kind \notin {"status", "report", "panes", "paneData"}

Inv ==
    /\ ModelOK(m)
    /\ server \in [listing : Seq(AnySession), report : AnyReport, version : Nat]
    /\ \A t \in tasks : Harmless(t, m.built)
    /\ Lane(tasks, server.version, "status", "report", m.activeSeq, m.reportAt)
    /\ Lane(tasks, server.version, "panes", "paneData", m.paneSeq, m.panesAt)
    /\ used \in [keys : Nat, acts : Nat]

LEMMA HarmlessStays ==
    ASSUME NEW t, NEW built, NEW more, Harmless(t, built), built \subseteq more
    PROVE  Harmless(t, more)
BY DEF Harmless

LEMMA QuietInLane ==
    ASSUME NEW t, Quiet(t)
    PROVE  ~InLane(t, "status", "report") /\ ~InLane(t, "panes", "paneData")
BY DEF Quiet, InLane

(* A step that asks for nothing in a lane and takes nothing from one.      *)
LEMMA Quietly ==
    ASSUME Inv, Leads(m, m'), used' \in [keys : Nat, acts : Nat],
           server' \in [listing : Seq(AnySession), report : AnyReport, version : Nat],
           server.version <= server'.version,
           \A t \in tasks' : t \in tasks \/ (Quiet(t) /\ Harmless(t, m'.built))
    PROVE  Inv'
<1>1. ModelOK(m') /\ SameLanes(m, m') BY DEF Leads
<1>2. \A t \in tasks' : Harmless(t, m'.built)
  <2>1. m.built \subseteq m'.built BY <1>1 DEF SameLanes
  <2> QED BY <2>1, HarmlessStays DEF Inv
<1>3. server'.version \in Nat OBVIOUS
<1>4. Lane(tasks', server'.version, "status", "report", m.activeSeq, m.reportAt)
  <2>1. Lane(tasks, server.version, "status", "report", m.activeSeq, m.reportAt)
    BY DEF Inv
  <2>2. \A t \in tasks' : InLane(t, "status", "report") => t \in tasks BY QuietInLane
  <2> QED BY <1>3, <2>1, <2>2, LaneKept
<1>5. Lane(tasks', server'.version, "panes", "paneData", m.paneSeq, m.panesAt)
  <2>1. Lane(tasks, server.version, "panes", "paneData", m.paneSeq, m.panesAt)
    BY DEF Inv
  <2>2. \A t \in tasks' : InLane(t, "panes", "paneData") => t \in tasks BY QuietInLane
  <2> QED BY <1>3, <2>1, <2>2, LaneKept
<1> QED BY <1>1, <1>2, <1>4, <1>5 DEF Inv, SameLanes

LEMMA Stays ==
    ASSUME ModelOK(m)
    PROVE  Leads(m, m)
BY DEF Leads, SameLanes

(* A key's step.                                                           *)
LEMMA PressedOK ==
    ASSUME Inv, NEW next, Leads(m, next), NEW commands, Pressed(next, commands),
           \A t \in commands : Quiet(t) /\ Harmless(t, next.built)
    PROVE  Inv'
<1>1. m' = next /\ tasks' = tasks \cup commands /\ server' = server
      /\ used' = [used EXCEPT !.keys = @ + 1]
  BY DEF Pressed, Presses
<1>2. used' \in [keys : Nat, acts : Nat] BY <1>1 DEF Inv
<1>3. server \in [listing : Seq(AnySession), report : AnyReport, version : Nat]
      /\ server.version <= server.version
  BY DEF Inv
<1> QED BY <1>1, <1>2, <1>3, Quietly

LEMMA StopOK ==
    ASSUME Inv, NEW how, Stop(how)
    PROVE  Inv'
<1>1. Leads(m, m') BY Stays DEF Stop, Inv
<1>2. tasks' = tasks /\ server' = server /\ used' = [used EXCEPT !.keys = @ + 1]
  BY DEF Stop, Presses
<1>3. used' \in [keys : Nat, acts : Nat] BY <1>2 DEF Inv
<1>4. server \in [listing : Seq(AnySession), report : AnyReport, version : Nat]
      /\ server.version <= server.version
  BY DEF Inv
<1> QED BY <1>1, <1>2, <1>3, <1>4, Quietly

(* A message's step that is of no lane.                                    *)
LEMMA BecomeOK ==
    ASSUME Inv, NEW next, Leads(m, next), NEW commands, NEW task,
           Becomes(next, commands, task),
           \A t \in commands : Quiet(t) /\ Harmless(t, next.built)
    PROVE  Inv'
<1>1. m' = next /\ tasks' = (tasks \ {task}) \cup commands /\ server' = server /\ used' = used
  BY DEF Becomes
<1>2. used' \in [keys : Nat, acts : Nat] BY <1>1 DEF Inv
<1>3. server \in [listing : Seq(AnySession), report : AnyReport, version : Nat]
      /\ server.version <= server.version
  BY DEF Inv
<1> QED BY <1>1, <1>2, <1>3, Quietly

-----------------------------------------------------------------------------
(***************************************************************************)
(* Each step keeps it                                                      *)
(***************************************************************************)
LEMMA PlainOK ==
    ASSUME NEW x, ModelOK(x), NEW v, NEW k
    PROVE  /\ Leads(x, [x EXCEPT !.help = v]) /\ Leads(x, [x EXCEPT !.pending = v])
           /\ Leads(x, [x EXCEPT !.marks = v]) /\ Leads(x, [x EXCEPT !.marks[k] = v])
           /\ Leads(x, [x EXCEPT !.settings = v]) /\ Leads(x, [x EXCEPT !.settings.dirty = v])
           /\ Leads(x, [x EXCEPT !.palette.param = v])
           /\ v \in AllScreens /\ v \in Always \cup x.built => Leads(x, [x EXCEPT !.screen = v])
           /\ DashOK(v) => Leads(x, [x EXCEPT !.dash = v])
<1> USE DEF Leads, ModelOK, SameLanes
<1>1. Leads(x, [x EXCEPT !.help = v]) /\ Leads(x, [x EXCEPT !.pending = v]) BY DEF Parts
<1>2. Leads(x, [x EXCEPT !.marks = v]) /\ Leads(x, [x EXCEPT !.marks[k] = v]) BY DEF Parts
<1>3. Leads(x, [x EXCEPT !.settings = v]) /\ Leads(x, [x EXCEPT !.settings.dirty = v])
      /\ Leads(x, [x EXCEPT !.palette.param = v])
  BY DEF Parts
<1>4. v \in AllScreens /\ v \in Always \cup x.built => Leads(x, [x EXCEPT !.screen = v])
  BY DEF Parts
<1>5. DashOK(v) => Leads(x, [x EXCEPT !.dash = v]) BY DEF Parts
<1> QED BY <1>1, <1>2, <1>3, <1>4, <1>5

LEMMA PlainTasks ==
    ASSUME NEW built
    PROVE  /\ Quiet(Load) /\ Harmless(Load, built)
           /\ Quiet(Saved) /\ Harmless(Saved, built)
           /\ \A how \in {"dashboard", "history", "settings"} :
                  Quiet(Switch(how)) /\ Harmless(Switch(how), built)
           /\ "diff" \in built => Quiet(Switch("diff")) /\ Harmless(Switch("diff"), built)
           /\ \A then \in Thens : Quiet(Action(then)) /\ Harmless(Action(then), built)
           /\ \A kind \in {"attach", "goto", "preview", "invalidate"} : \A of :
                  Quiet(Ask(kind, of)) /\ Harmless(Ask(kind, of), built)
           /\ \A kind \in {"failed", "find", "save"} : \A how :
                  Quiet(Tell(kind, how)) /\ Harmless(Tell(kind, how), built)
<1> USE DEF Quiet, Harmless
<1>1. Quiet(Load) /\ Harmless(Load, built) /\ Quiet(Saved) /\ Harmless(Saved, built)
  BY DEF Load, Saved
<1>2. \A how \in {"dashboard", "history", "settings"} :
         Quiet(Switch(how)) /\ Harmless(Switch(how), built)
  BY DEF Switch, Tell, AllScreens, Always
<1>3. "diff" \in built => Quiet(Switch("diff")) /\ Harmless(Switch("diff"), built)
  BY DEF Switch, Tell, AllScreens
<1>4. \A then \in Thens : Quiet(Action(then)) /\ Harmless(Action(then), built)
  BY DEF Action
<1>5. \A kind \in {"attach", "goto", "preview", "invalidate"} : \A of :
         Quiet(Ask(kind, of)) /\ Harmless(Ask(kind, of), built)
  BY DEF Ask
<1>6. \A kind \in {"failed", "find", "save"} : \A how :
         Quiet(Tell(kind, how)) /\ Harmless(Tell(kind, how), built)
  BY DEF Tell
<1> QED BY <1>1, <1>2, <1>3, <1>4, <1>5, <1>6

LEMMA KindTasks ==
    ASSUME NEW t, NEW built, t.kind \in {"preview", "kill"}
    PROVE  Quiet(t) /\ Harmless(t, built)
BY DEF Quiet, Harmless

LEMMA ThenTasks ==
    ASSUME NEW built, NEW then \in Thens, NEW t \in then
    PROVE  Quiet(t) /\ Harmless(t, built)
<1>1. t = Load \/ t = Switch("dashboard") BY DEF Thens
<1> QED BY <1>1, PlainTasks

(* What others do to tmux.                                                 *)
LEMMA ChangeOK ==
    ASSUME Inv, NEW listing \in Seq(AnySession), NEW report \in AnyReport,
           Change(listing, report)
    PROVE  Inv'
<1>1. m' = m /\ tasks' = tasks /\ used' = [used EXCEPT !.acts = @ + 1]
      /\ server' = [listing |-> listing, report |-> report, version |-> server.version + 1]
  BY DEF Change
<1>2. server.version \in Nat BY DEF Inv
<1>3. /\ server' \in [listing : Seq(AnySession), report : AnyReport, version : Nat]
      /\ server.version <= server'.version
  BY <1>1, <1>2
<1>4. used' \in [keys : Nat, acts : Nat]
  <2>1. used \in [keys : Nat, acts : Nat] BY DEF Inv
  <2> QED BY <1>1, <2>1
<1>5. Leads(m, m') BY <1>1, Stays DEF Inv
<1> QED BY <1>1, <1>3, <1>4, <1>5, Quietly

LEMMA OthersOK ==
    ASSUME ScreensAssumption, Inv,
           \/ \E s \in Newcomers : Open(s)
           \/ \E i, j \in 1 .. 3 : Close(i, j)
           \/ \E report \in Reports : Relink(report)
    PROVE  Inv'
<1>1. server.listing \in Seq(AnySession) /\ server.report \in AnyReport BY DEF Inv
<1>2. ASSUME NEW s \in Newcomers, Open(s) PROVE Inv'
  <2>1. s \in AnySession BY DEF ScreensAssumption
  <2>2. << s >> \o server.listing \in Seq(AnySession) BY <1>1, <2>1
  <2> QED BY <1>1, <1>2, <2>2, ChangeOK DEF Open
<1>3. ASSUME NEW i \in 1 .. 3, NEW j \in 1 .. 3, Close(i, j) PROVE Inv'
  <2>1. Removed(server.listing, i, j) \in Seq(AnySession)
    BY <1>1, <1>3, WithoutType DEF Close
  <2> QED BY <1>1, <1>3, <2>1, ChangeOK DEF Close
<1>4. ASSUME NEW report \in Reports, Relink(report) PROVE Inv'
  <2>1. report \in AnyReport BY DEF ScreensAssumption
  <2> QED BY <1>1, <1>4, <2>1, ChangeOK DEF Relink
<1> QED BY <1>2, <1>3, <1>4

LEMMA KillOK ==
    ASSUME Inv, NEW task \in tasks, Kill(task)
    PROVE  Inv'
<1> DEFINE hits == {ij \in (DOMAIN server.listing) \X (1 .. 3) :
                       /\ ij[2] \in DOMAIN server.listing[ij[1]].windows
                       /\ Hit(task.of, ij[1], ij[2], task.level)}
           ij == CHOOSE x \in hits : \A y \in hits : x[2] <= y[2]
<1>1. m' = m /\ used' = used BY DEF Kill
<1>2. server \in [listing : Seq(AnySession), report : AnyReport, version : Nat] BY DEF Inv
<1>3. \/ /\ hits # {}
         /\ server' = [server EXCEPT !.listing = Killed(task.level, task.of, ij[1], ij[2]),
                                     !.version = @ + 1]
         /\ tasks' = (tasks \ {task}) \cup {Ask("invalidate", task.of)}
      \/ tasks' = tasks \ {task} /\ server' = server
  BY Zenon DEF Kill
<1>4. /\ server' \in [listing : Seq(AnySession), report : AnyReport, version : Nat]
      /\ server.version <= server'.version
  <2>1. CASE server' = server BY <1>2, <2>1
  <2>2. CASE /\ hits # {}
             /\ server' = [server EXCEPT !.listing = Killed(task.level, task.of, ij[1], ij[2]),
                                         !.version = @ + 1]
    <3>1. ij \in hits
      <4>1. \A x \in hits : x[2] \in Nat OBVIOUS
      <4> HIDE DEF hits
      <4> QED BY <2>2, <4>1, FirstHit
    <3>2. ij[1] \in DOMAIN server.listing /\ ij[2] \in DOMAIN server.listing[ij[1]].windows
      <4> HIDE DEF ij
      <4> QED BY <3>1
    <3> HIDE DEF ij, hits
    <3>3. Killed(task.level, task.of, ij[1], ij[2]) \in Seq(AnySession)
      BY <1>2, <3>2, KilledType
    <3> DEFINE listing == Killed(task.level, task.of, ij[1], ij[2])
    <3>4. server' = [server EXCEPT !.listing = listing, !.version = server.version + 1]
      BY <2>2
    <3>5. listing \in Seq(AnySession) BY <3>3
    <3> HIDE DEF listing
    <3>6. server.version \in Nat /\ server.report \in AnyReport BY <1>2
    <3>7. server' = [listing |-> listing, report |-> server.report,
                     version |-> server.version + 1]
      BY <1>2, <3>4
    <3> QED BY <3>5, <3>6, <3>7
  <2> QED BY <1>3, <2>1, <2>2
<1>5. \A t \in tasks' : t \in tasks \/ (Quiet(t) /\ Harmless(t, m'.built))
  <2> HIDE DEF hits, ij
  <2> QED BY <1>3, PlainTasks
<1>6. Leads(m, m') /\ used' \in [keys : Nat, acts : Nat] BY <1>1, Stays DEF Inv
<1> QED BY <1>4, <1>5, <1>6, Quietly

LEMMA InvalidateOK ==
    ASSUME Inv, NEW task \in tasks, InvalidateMark(task)
    PROVE  Inv'
<1> DEFINE marks == [l \in Letters |-> IF m.marks[l].target = task.of
                        THEN [m.marks[l] EXCEPT !.valid = FALSE] ELSE m.marks[l]]
<1>1. m' = [m EXCEPT !.marks = marks] /\ used' = used /\ server' = server
      /\ tasks' = (tasks \ {task}) \cup {Load, Switch("dashboard")}
  BY DEF InvalidateMark
<1> HIDE DEF marks
<1>2. Leads(m, m') BY <1>1, PlainOK DEF Inv
<1>3. \A t \in tasks' : t \in tasks \/ (Quiet(t) /\ Harmless(t, m'.built))
  BY <1>1, PlainTasks
<1>4. /\ server' \in [listing : Seq(AnySession), report : AnyReport, version : Nat]
      /\ server.version <= server'.version /\ used' \in [keys : Nat, acts : Nat]
  BY <1>1 DEF Inv
<1> QED BY <1>2, <1>3, <1>4, Quietly

LEMMA ServeOK ==
    ASSUME Inv, NEW task \in tasks, Serve(task)
    PROVE  Inv'
<1>1. PICK answer \in Answers(task) : tasks' = (tasks \ {task}) \cup answer BY DEF Serve
<1>2. m' = m /\ server' = server /\ used' = used BY DEF Serve
<1>3. server \in [listing : Seq(AnySession), report : AnyReport, version : Nat]
      /\ Harmless(task, m.built)
  BY DEF Inv
<1>4. /\ Leads(m, m') /\ used' \in [keys : Nat, acts : Nat]
      /\ server' \in [listing : Seq(AnySession), report : AnyReport, version : Nat]
      /\ server.version <= server'.version
  BY <1>2, Stays DEF Inv
<1>5. ASSUME \A t \in answer : Quiet(t) /\ Harmless(t, m.built) PROVE Inv'
  <2>1. \A t \in tasks' : t \in tasks \/ (Quiet(t) /\ Harmless(t, m'.built))
    BY <1>1, <1>2, <1>5
  <2> QED BY <1>4, <2>1, Quietly
<1>6. CASE task.kind = "load"
  <2>1. answer = {[kind |-> "data", listing |-> server.listing]} \/ answer = {Tell("failed", "data")}
    BY <1>1, <1>6 DEF Answers
  <2>2. Quiet([kind |-> "data", listing |-> server.listing])
        /\ Harmless([kind |-> "data", listing |-> server.listing], m.built)
    BY <1>3 DEF Quiet, Harmless
  <2>3. Quiet(Tell("failed", "data")) /\ Harmless(Tell("failed", "data"), m.built)
    BY PlainTasks
  <2>4. \A t \in answer : Quiet(t) /\ Harmless(t, m.built)
    BY <2>1, <2>2, <2>3, Zenon
  <2> QED BY <1>5, <2>4
<1>7. CASE task.kind = "status"
  <2> DEFINE new == [kind |-> "report", seq |-> task.seq, report |-> server.report,
                     at |-> server.version]
  <2>1. answer = {new} \/ answer = {} BY <1>1, <1>7 DEF Answers
  <2>2. new.kind = "report" /\ new.seq = task.seq /\ new.at = server.version
        /\ Harmless(new, m.built) /\ ~InLane(new, "panes", "paneData")
    BY <1>3 DEF Harmless, InLane
  <2> HIDE DEF new
  <2>3. CASE answer = {new}
    <3>1. Lane(tasks, server.version, "status", "report", m.activeSeq, m.reportAt)
          /\ Lane(tasks, server.version, "panes", "paneData", m.paneSeq, m.panesAt)
      BY DEF Inv
    <3>2. \A t \in tasks' : t \in tasks \ {task} \/ t = new BY <1>1, <2>3
    <3>3. Lane(tasks', server.version, "status", "report", m.activeSeq, m.reportAt)
      BY <1>7, <2>2, <3>1, <3>2, LaneAnswered
    <3>4. Lane(tasks', server.version, "panes", "paneData", m.paneSeq, m.panesAt)
      <4>1. \A t \in tasks' : InLane(t, "panes", "paneData") => t \in tasks BY <2>2, <3>2
      <4>2. server.version \in Nat /\ server.version <= server.version BY <1>3
      <4> QED BY <3>1, <4>1, <4>2, LaneKept
    <3>5. \A t \in tasks' : Harmless(t, m.built) BY <2>2, <3>2 DEF Inv
    <3> QED BY <1>2, <3>3, <3>4, <3>5 DEF Inv
  <2> QED BY <1>5, <2>1, <2>3
<1>8. CASE task.kind = "panes"
  <2>1. PICK found : answer = {[kind |-> "paneData", seq |-> task.seq, at |-> server.version,
                                panes |-> found]}
    BY <1>1, <1>8 DEF Answers
  <2> DEFINE new == [kind |-> "paneData", seq |-> task.seq, at |-> server.version,
                     panes |-> found]
  <2>2. new.kind = "paneData" /\ new.seq = task.seq /\ new.at = server.version
        /\ Harmless(new, m.built) /\ ~InLane(new, "status", "report")
    BY DEF Harmless, InLane
  <2>3. answer = {new} BY <2>1
  <2> HIDE DEF new
  <2>4. Lane(tasks, server.version, "status", "report", m.activeSeq, m.reportAt)
        /\ Lane(tasks, server.version, "panes", "paneData", m.paneSeq, m.panesAt)
    BY DEF Inv
  <2>5. \A t \in tasks' : t \in tasks \ {task} \/ t = new BY <1>1, <2>3
  <2>6. Lane(tasks', server.version, "panes", "paneData", m.paneSeq, m.panesAt)
    BY <1>8, <2>2, <2>4, <2>5, LaneAnswered
  <2>7. Lane(tasks', server.version, "status", "report", m.activeSeq, m.reportAt)
    <3>1. \A t \in tasks' : InLane(t, "status", "report") => t \in tasks BY <2>2, <2>5
    <3>2. server.version \in Nat /\ server.version <= server.version BY <1>3
    <3> QED BY <2>4, <3>1, <3>2, LaneKept
  <2>8. \A t \in tasks' : Harmless(t, m.built) BY <2>2, <2>5 DEF Inv
  <2> QED BY <1>2, <2>6, <2>7, <2>8 DEF Inv
<1>9. CASE task.kind = "attach"
  <2>1. answer = {Load} BY <1>1, <1>9 DEF Answers
  <2> QED BY <1>5, <2>1, PlainTasks
<1>10. CASE task.kind = "find"
  <2>1. \A t \in answer : \E p : t = Ask("goto", p) BY <1>1, <1>10 DEF Answers
  <2> QED BY <1>5, <2>1, PlainTasks
<1>11. CASE task.kind = "action"
  <2>1. answer = task.then \/ answer = {} BY <1>1, <1>11 DEF Answers
  <2>2. task.then \in Thens BY <1>3, <1>11 DEF Harmless
  <2> QED BY <1>5, <2>1, <2>2, ThenTasks
<1>12. CASE task.kind = "save"
  <2>1. answer = {Saved} \/ answer = {} BY <1>1, <1>12 DEF Answers
  <2> QED BY <1>5, <2>1, PlainTasks
<1>13. task.kind \in {"load", "status", "panes", "attach", "find", "action", "save"}
  BY <1>1 DEF Answers
<1> QED BY <1>6, <1>7, <1>8, <1>9, <1>10, <1>11, <1>12, <1>13

(* Data begin the next request for the active session's status.            *)
LEMMA DataOK ==
    ASSUME Inv, NEW task \in tasks, dataLoaded(task)
    PROVE  Inv' /\ StaysOn(m.dash, m'.dash)
<1> DEFINE dash == SetData(m.dash, task.listing)
           next == [m EXCEPT !.dash = dash, !.activeSeq = m.activeSeq + 1]
<1>1. task.listing \in Seq(AnySession) BY DEF Inv, Harmless, dataLoaded
<1>2. ModelOK(m) /\ Synced(m.dash) BY DEF Inv, ModelOK, DashOK
<1>3. DashOK(dash) /\ StaysOn(m.dash, dash) BY <1>1, <1>2, SetDataOK
<1>4. /\ m' = Previewed(next) /\ server' = server /\ used' = used
      /\ tasks' = (tasks \ {task}) \cup
                     (Captures(next) \cup {Numbered("status", next.activeSeq)})
  BY DEF dataLoaded, Becomes
<1> HIDE DEF dash
<1>5. /\ Parts(next) /\ next.dash = dash /\ next.activeSeq = m.activeSeq + 1
      /\ next.reportAt = m.reportAt /\ next.paneSeq = m.paneSeq /\ next.panesAt = m.panesAt
      /\ next.built = m.built /\ next.ring = m.ring /\ next.screen = m.screen
      /\ next.confirm = m.confirm
  BY <1>2 DEF ModelOK, Parts
<1> HIDE DEF next
<1>6. ModelOK(next) BY <1>2, <1>3, <1>5 DEF ModelOK
<1>7. /\ ModelOK(m') /\ SameLanes(next, m') /\ m'.dash = maybeResetPreviewPane(dash)
      /\ \A t \in Captures(next) : t.kind = "preview"
  BY <1>4, <1>5, <1>6, PreviewedOK DEF Leads
<1> DEFINE new == Numbered("status", m.activeSeq + 1)
<1>8. \A t \in tasks' : t \in tasks \/ t.kind = "preview" \/ t = new BY <1>4, <1>5, <1>7
<1>9. new.kind = "status" /\ ~InLane(new, "panes", "paneData") /\ \A b : Harmless(new, b)
  BY DEF Numbered, InLane, Harmless
<1> HIDE DEF new
<1>10. /\ Lane(tasks, server.version, "status", "report", m.activeSeq, m.reportAt)
       /\ Lane(tasks, server.version, "panes", "paneData", m.paneSeq, m.panesAt)
  BY DEF Inv
<1>11. Lane(tasks', server.version, "status", "report", m.activeSeq + 1, m.reportAt)
  <2>1. \A t \in tasks' : InLane(t, "status", "report") => t \in tasks \/ t = new
    BY <1>8 DEF InLane
  <2> QED BY <1>10, <2>1, LaneAsked DEF new
<1>12. Lane(tasks', server.version, "panes", "paneData", m.paneSeq, m.panesAt)
  <2>1. \A t \in tasks' : InLane(t, "panes", "paneData") => t \in tasks
    BY <1>8, <1>9 DEF InLane
  <2>2. server.version \in Nat /\ server.version <= server.version BY DEF Inv
  <2> QED BY <1>10, <2>1, <2>2, LaneKept
<1>13. \A t \in tasks' : Harmless(t, m'.built)
  <2>1. m.built \subseteq m'.built BY <1>5, <1>7 DEF SameLanes
  <2>2. ASSUME NEW t \in tasks PROVE Harmless(t, m'.built) BY <2>1, HarmlessStays DEF Inv
  <2>3. \A t : t.kind = "preview" => Harmless(t, m'.built) BY DEF Harmless
  <2> QED BY <1>8, <1>9, <2>2, <2>3
<1>14. Inv'
  <2>1. m'.activeSeq = m.activeSeq + 1 /\ m'.reportAt = m.reportAt
        /\ m'.paneSeq = m.paneSeq /\ m'.panesAt = m.panesAt
    BY <1>5, <1>7 DEF SameLanes
  <2> QED BY <1>4, <1>7, <1>11, <1>12, <1>13, <2>1 DEF Inv
<1>15. StaysOn(m.dash, m'.dash)
  <2>1. OnlyShows(dash, m'.dash) BY <1>3, <1>7, ResetOK
  <2>2. Shown(m'.dash) = Shown(dash) /\ HasRow(m'.dash) = HasRow(dash)
        /\ currentTargetKey(m'.dash) = currentTargetKey(dash)
    BY <1>3, <2>1, ShowsKeep
  <2> QED BY <1>3, <2>2 DEF StaysOn
<1> QED BY <1>14, <1>15

(* A report of the latest request is as new as any that was shown.         *)
LEMMA ReportOK ==
    ASSUME Inv, NEW task \in tasks, activeStatusLoaded(task)
    PROVE  Inv' /\ StaysOn(m.dash, m'.dash) /\ m'.reportAt >= m.reportAt
<1>1. /\ server' = server /\ used' = used /\ tasks' = tasks \ {task} /\ task.kind = "report"
      /\ m' = IF task.seq = m.activeSeq
              THEN [m EXCEPT !.dash = SetActiveStatus(m.dash, task.report),
                             !.reportAt = task.at]
              ELSE m
  BY DEF activeStatusLoaded, Becomes, Current
<1>2. ModelOK(m) /\ Synced(m.dash) /\ task.report \in AnyReport
      /\ \A t \in tasks : Harmless(t, m.built)
  BY <1>1 DEF Inv, ModelOK, DashOK, Harmless
<1>3. /\ Lane(tasks, server.version, "status", "report", m.activeSeq, m.reportAt)
      /\ Lane(tasks, server.version, "panes", "paneData", m.paneSeq, m.panesAt)
      /\ server.version \in Nat /\ server.version <= server.version
  BY DEF Inv
<1>4. m.reportAt \in Nat BY <1>3 DEF Lane
<1>5. CASE task.seq # m.activeSeq
  <2>1. m' = m BY <1>1, <1>5
  <2>2. Leads(m, m') BY <1>2, <2>1, Stays
  <2>3. used' \in [keys : Nat, acts : Nat] /\ server.version <= server'.version
        /\ server' \in [listing : Seq(AnySession), report : AnyReport, version : Nat]
    BY <1>1 DEF Inv
  <2>4. Inv' BY <1>1, <2>2, <2>3, Quietly
  <2>5. StaysOn(m.dash, m.dash)
    BY <1>2, EffectiveOK, CurrentRowOK DEF StaysOn, currentTargetKey
  <2> QED BY <1>4, <2>1, <2>4, <2>5
<1>6. CASE task.seq = m.activeSeq
  <2> DEFINE dash == SetActiveStatus(m.dash, task.report)
  <2>1. DashOK(dash) /\ StaysOn(m.dash, dash) BY <1>2, SetActiveStatusOK
  <2>2. m' = [m EXCEPT !.dash = dash, !.reportAt = task.at] BY <1>1, <1>6
  <2> HIDE DEF dash
  <2>3. /\ Parts(m') /\ m'.dash = dash /\ m'.activeSeq = m.activeSeq
        /\ m'.reportAt = task.at /\ m'.paneSeq = m.paneSeq /\ m'.panesAt = m.panesAt
        /\ m'.built = m.built /\ m'.ring = m.ring /\ m'.screen = m.screen
        /\ m'.confirm = m.confirm
    BY <1>2, <2>2 DEF ModelOK, Parts
  <2>4. ModelOK(m') BY <1>2, <2>1, <2>3 DEF ModelOK
  <2>5. /\ Lane(tasks', server.version, "status", "report", m.activeSeq, task.at)
        /\ m.reportAt <= task.at
    BY <1>1, <1>3, <1>6, LaneTaken
  <2>6. Lane(tasks', server.version, "panes", "paneData", m.paneSeq, m.panesAt)
    <3>1. \A t \in tasks' : InLane(t, "panes", "paneData") => t \in tasks BY <1>1
    <3> QED BY <1>3, <3>1, LaneKept
  <2>7. Inv' BY <1>1, <1>2, <2>3, <2>4, <2>5, <2>6 DEF Inv
  <2>8. task.at \in Nat BY <2>5 DEF Lane
  <2> QED BY <1>4, <2>1, <2>3, <2>5, <2>7, <2>8
<1> QED BY <1>5, <1>6

LEMMA PaneDataOK ==
    ASSUME Inv, NEW task \in tasks, paneDataLoaded(task)
    PROVE  Inv' /\ m'.dash = m.dash /\ m'.panesAt >= m.panesAt
<1>1. /\ server' = server /\ used' = used /\ tasks' = tasks \ {task} /\ task.kind = "paneData"
      /\ m' = IF task.seq = m.paneSeq
              THEN [m EXCEPT !.panesAt = task.at, !.panes = task.panes] ELSE m
  BY DEF paneDataLoaded, Becomes, Current
<1>2. ModelOK(m) /\ \A t \in tasks : Harmless(t, m.built) BY DEF Inv
<1>3. /\ Lane(tasks, server.version, "status", "report", m.activeSeq, m.reportAt)
      /\ Lane(tasks, server.version, "panes", "paneData", m.paneSeq, m.panesAt)
      /\ server.version \in Nat /\ server.version <= server.version
  BY DEF Inv
<1>4. m.panesAt \in Nat BY <1>3 DEF Lane
<1>5. CASE task.seq # m.paneSeq
  <2>1. m' = m BY <1>1, <1>5
  <2>2. Leads(m, m') BY <1>2, <2>1, Stays
  <2>3. used' \in [keys : Nat, acts : Nat] /\ server.version <= server'.version
        /\ server' \in [listing : Seq(AnySession), report : AnyReport, version : Nat]
    BY <1>1 DEF Inv
  <2>4. Inv' BY <1>1, <2>2, <2>3, Quietly
  <2> QED BY <1>4, <2>1, <2>4
<1>6. CASE task.seq = m.paneSeq
  <2>1. m' = [m EXCEPT !.panesAt = task.at, !.panes = task.panes] BY <1>1, <1>6
  <2>2. /\ Parts(m') /\ m'.dash = m.dash /\ m'.activeSeq = m.activeSeq
        /\ m'.reportAt = m.reportAt /\ m'.paneSeq = m.paneSeq /\ m'.panesAt = task.at
        /\ m'.built = m.built /\ m'.ring = m.ring /\ m'.screen = m.screen
        /\ m'.confirm = m.confirm
    BY <1>2, <2>1 DEF ModelOK, Parts
  <2>3. ModelOK(m') BY <1>2, <2>2 DEF ModelOK
  <2>4. /\ Lane(tasks', server.version, "panes", "paneData", m.paneSeq, task.at)
        /\ m.panesAt <= task.at
    BY <1>1, <1>3, <1>6, LaneTaken
  <2>5. Lane(tasks', server.version, "status", "report", m.activeSeq, m.reportAt)
    <3>1. \A t \in tasks' : InLane(t, "status", "report") => t \in tasks BY <1>1
    <3> QED BY <1>3, <3>1, LaneKept
  <2>6. Inv' BY <1>1, <1>2, <2>2, <2>3, <2>4, <2>5 DEF Inv
  <2>7. task.at \in Nat BY <2>4 DEF Lane
  <2> QED BY <1>4, <2>2, <2>4, <2>6, <2>7
<1> QED BY <1>5, <1>6

LEMMA RefreshOK ==
    ASSUME Inv, RefreshTick
    PROVE  Inv' /\ m'.dash = m.dash /\ m'.panesAt = m.panesAt /\ m'.reportAt = m.reportAt
<1> DEFINE new == Numbered("panes", m.paneSeq + 1)
<1>1. /\ m' = [m EXCEPT !.paneSeq = m.paneSeq + 1] /\ server' = server /\ used' = used
      /\ tasks' = (tasks \ {NoTask}) \cup {new}
  BY DEF RefreshTick, Becomes
<1>2. ModelOK(m) /\ \A t \in tasks : Harmless(t, m.built) BY DEF Inv
<1>3. /\ Lane(tasks, server.version, "status", "report", m.activeSeq, m.reportAt)
      /\ Lane(tasks, server.version, "panes", "paneData", m.paneSeq, m.panesAt)
      /\ server.version \in Nat /\ server.version <= server.version
  BY DEF Inv
<1>4. new.kind = "panes" /\ ~InLane(new, "status", "report") /\ Harmless(new, m.built)
  BY DEF Numbered, InLane, Harmless
<1> HIDE DEF new
<1>5. /\ Parts(m') /\ m'.dash = m.dash /\ m'.activeSeq = m.activeSeq
      /\ m'.reportAt = m.reportAt /\ m'.paneSeq = m.paneSeq + 1 /\ m'.panesAt = m.panesAt
      /\ m'.built = m.built /\ m'.ring = m.ring /\ m'.screen = m.screen
      /\ m'.confirm = m.confirm
  BY <1>1, <1>2 DEF ModelOK, Parts
<1>6. ModelOK(m') BY <1>2, <1>5 DEF ModelOK
<1>7. Lane(tasks', server.version, "panes", "paneData", m.paneSeq + 1, m.panesAt)
  <2>1. \A t \in tasks' : InLane(t, "panes", "paneData") => t \in tasks \/ t = new
    BY <1>1
  <2> QED BY <1>3, <2>1, LaneAsked DEF new
<1>8. Lane(tasks', server.version, "status", "report", m.activeSeq, m.reportAt)
  <2>1. \A t \in tasks' : InLane(t, "status", "report") => t \in tasks BY <1>1, <1>4
  <2> QED BY <1>3, <2>1, LaneKept
<1>9. \A t \in tasks' : Harmless(t, m'.built) BY <1>1, <1>2, <1>4, <1>5
<1> QED BY <1>1, <1>5, <1>6, <1>7, <1>8, <1>9 DEF Inv

LEMMA OtherMessagesOK ==
    ASSUME ScreensAssumption, Inv, NEW task \in tasks,
           \/ loadFailed(task) \/ previewLoaded(task) \/ gotoProc(task)
           \/ settingsSaved(task) \/ switchScreen(task)
    PROVE  Inv'
<1>1. ModelOK(m) /\ DashOK(m.dash) BY DEF Inv, ModelOK
<1>2. ASSUME loadFailed(task) PROVE Inv'
  <2>1. Leads(m, [m EXCEPT !.screen = "error"])
    BY <1>1, PlainOK DEF AllScreens, Always
  <2> QED BY <1>2, <2>1, BecomeOK DEF loadFailed
<1>3. ASSUME previewLoaded(task) PROVE Inv'
  <2>1. DashOK(SetPreview(m.dash, task.of)) BY <1>1, SetPreviewOK
  <2>2. Leads(m, [m EXCEPT !.dash = SetPreview(m.dash, task.of)]) BY <1>1, <2>1, PlainOK
  <2> QED BY <1>3, <2>2, BecomeOK DEF previewLoaded
<1>4. ASSUME gotoProc(task) PROVE Inv'
  <2> DEFINE next == [Jump(m, task.of) EXCEPT !.screen = "dashboard"]
  <2>1. Leads(m, Jump(m, task.of)) BY <1>1, JumpOK
  <2>2. Leads(Jump(m, task.of), next)
    BY <2>1, PlainOK DEF Leads, AllScreens, Always
  <2>3. Leads(m, next) BY <2>1, <2>2, LeadsOn
  <2>4. Becomes(Previewed(next), Captures(next), task) BY <1>4 DEF gotoProc
  <2> HIDE DEF next
  <2>5. Leads(next, Previewed(next)) /\ \A t \in Captures(next) : t.kind = "preview"
    BY <2>3, PreviewedOK DEF Leads
  <2>6. Leads(m, Previewed(next)) BY <2>3, <2>5, LeadsOn
  <2>7. \A t \in Captures(next) : Quiet(t) /\ Harmless(t, Previewed(next).built)
    BY <2>5, KindTasks
  <2> QED BY <2>4, <2>6, <2>7, BecomeOK
<1>5. ASSUME settingsSaved(task) PROVE Inv'
  <2>1. Leads(m, [m EXCEPT !.settings.dirty = FALSE]) BY <1>1, PlainOK
  <2>2. \A t \in {Load} : \A b : Quiet(t) /\ Harmless(t, b) BY PlainTasks
  <2> QED BY <1>5, <2>1, <2>2, BecomeOK DEF settingsSaved
<1>6. ASSUME switchScreen(task) PROVE Inv'
  <2>1. task.how \in AllScreens /\ task.how \in Always \cup m.built
    BY <1>6 DEF Inv, Harmless, switchScreen
  <2>2. Leads(m, [m EXCEPT !.screen = task.how]) BY <1>1, <2>1, PlainOK
  <2> QED BY <1>6, <2>2, BecomeOK DEF switchScreen
<1> QED BY <1>2, <1>3, <1>4, <1>5, <1>6

(* Keys, those for the whole program first.                                *)
LEMMA GlobalKeyOK ==
    ASSUME Inv, NEW key, GlobalKey(key)
    PROVE  Inv'
<1>1. ModelOK(m) BY DEF Inv
<1>2. CASE Stop("quit") BY <1>2, StopOK
<1>3. CASE Pressed([m EXCEPT !.help = ~@], {})
  <2>1. Leads(m, [m EXCEPT !.help = ~m.help]) BY <1>1, PlainOK
  <2> QED BY <1>3, <2>1, PressedOK
<1>4. CASE Pressed([m EXCEPT !.screen = IF @ = "history" THEN "dashboard" ELSE "history"], {})
  <2>1. Leads(m, [m EXCEPT !.screen = IF m.screen = "history" THEN "dashboard" ELSE "history"])
    BY <1>1, PlainOK DEF AllScreens, Always
  <2> QED BY <1>4, <2>1, PressedOK
<1>5. CASE Pressed(IF m.help THEN [m EXCEPT !.help = FALSE]
                   ELSE [m EXCEPT !.screen = "dashboard"], {})
  <2>1. Leads(m, [m EXCEPT !.help = FALSE]) BY <1>1, PlainOK
  <2>2. Leads(m, [m EXCEPT !.screen = "dashboard"])
    BY <1>1, PlainOK DEF AllScreens, Always
  <2>3. CASE m.help
    <3>1. Pressed([m EXCEPT !.help = FALSE], {}) BY <1>5, <2>3
    <3> QED BY <2>1, <3>1, PressedOK
  <2>4. CASE ~m.help
    <3>1. Pressed([m EXCEPT !.screen = "dashboard"], {}) BY <1>5, <2>4
    <3> QED BY <2>2, <3>1, PressedOK
  <2> QED BY <2>3, <2>4
<1> QED BY <1>2, <1>3, <1>4, <1>5 DEF GlobalKey

(* A model that leads to its preview.                                      *)
LEMMA PreviewedStep ==
    ASSUME Inv, NEW next, Leads(m, next), Pressed(Previewed(next), Captures(next))
    PROVE  Inv'
<1>1. Leads(next, Previewed(next)) /\ \A t \in Captures(next) : t.kind = "preview"
  BY PreviewedOK DEF Leads
<1>2. Leads(m, Previewed(next)) BY <1>1, LeadsOn
<1>3. \A t \in Captures(next) : Quiet(t) /\ Harmless(t, Previewed(next).built)
  BY <1>1, KindTasks
<1> QED BY <1>2, <1>3, PressedOK

LEMMA MarkLetterOK ==
    ASSUME ScreensAssumption, Inv, NEW letter, MarkLetter(letter)
    PROVE  Inv'
<1> DEFINE next == [m EXCEPT !.pending = "none"]
           mark == m.marks[letter]
           target == SelectedTarget(m.dash)
           there == Jump(next, mark.target)
           set == [next EXCEPT !.marks[letter] = [target |-> target, valid |-> TRUE]]
<1>1. ModelOK(m) BY DEF Inv
<1>2. Leads(m, next) BY <1>1, PlainOK
<1>3. Leads(next, set)
  <2> HIDE DEF next
  <2> QED BY <1>2, PlainOK DEF Leads
<1>4. Leads(next, there)
  <2> HIDE DEF next
  <2> QED BY <1>2, JumpOK DEF Leads
<1>5. Leads(m, set) /\ Leads(m, there)
  <2> HIDE DEF next, set, there
  <2> QED BY <1>2, <1>3, <1>4, LeadsOn
<1>6. \/ Pressed(set, {}) \/ Pressed(next, {})
      \/ Pressed(Previewed(there), Captures(there))
  BY Zenon DEF MarkLetter
<1> HIDE DEF next, set, there
<1>7. CASE Pressed(set, {}) BY <1>5, <1>7, PressedOK
<1>8. CASE Pressed(next, {}) BY <1>2, <1>8, PressedOK
<1>9. CASE Pressed(Previewed(there), Captures(there)) BY <1>5, <1>9, PreviewedStep
<1> QED BY <1>6, <1>7, <1>8, <1>9

LEMMA DashboardKeyOK ==
    ASSUME ScreensAssumption, Inv, NEW key, DashboardKey(key)
    PROVE  Inv'
<1> DEFINE next == [m EXCEPT !.pending = "none"]
           shown == [next EXCEPT !.screen = "diff"]
           then == [next EXCEPT !.dash = Update(next.dash, key)]
           set == [next EXCEPT !.screen = "settings", !.settings = Settings,
                               !.built = @ \cup {"settings"}]
<1>1. ModelOK(m) BY DEF Inv
<1>2. Leads(m, next) BY <1>1, PlainOK
<1>3. next.ring = m.ring /\ next.dash = m.dash BY <1>1 DEF ModelOK, Parts
<1>4. /\ Leads(next, Confirm(next)) /\ Leads(next, Attached(next)) /\ Leads(next, Opened(next))
      /\ Leads(next, Diffed(shown)) /\ Leads(next, set)
  <2> HIDE DEF next
  <2> QED BY <1>2, BuildsOK DEF Leads
<1>5. Leads(next, then)
  <2>1. DashOK(Update(next.dash, key)) BY <1>1, <1>3, UpdateOK DEF ModelOK
  <2> HIDE DEF next
  <2> QED BY <1>2, <2>1, PlainOK DEF Leads
<1>6. m.ring # << >> => Leads(next, Swapped(next))
  <2> HIDE DEF next
  <2> QED BY <1>2, <1>3, SwappedOK DEF Leads
<1>7. /\ Leads(m, Confirm(next)) /\ Leads(m, Attached(next)) /\ Leads(m, Opened(next))
      /\ Leads(m, Diffed(shown)) /\ Leads(m, set) /\ Leads(m, then)
      /\ m.ring # << >> => Leads(m, Swapped(next))
  <2> HIDE DEF next, shown, then, set
  <2> QED BY <1>2, <1>4, <1>5, <1>6, LeadsOn
<1> HIDE DEF next, shown, then, set
<1>8. ASSUME key = "r", Pressed(next, {Load}) PROVE Inv'
  <2>1. \A t \in {Load} : Quiet(t) /\ Harmless(t, next.built) BY PlainTasks
  <2> QED BY <1>2, <1>8, <2>1, PressedOK
<1>9. ASSUME NEW after \in Thens, Pressed(next, {Action(after)}) PROVE Inv'
  <2>1. \A t \in {Action(after)} : Quiet(t) /\ Harmless(t, next.built) BY PlainTasks
  <2> QED BY <1>2, <1>9, <2>1, PressedOK
<1>10. ASSUME NEW x \in {Opened(next), Diffed(shown), Confirm(next), set, next},
              Pressed(x, {})
       PROVE  Inv'
  <2>1. Leads(m, x) BY <1>2, <1>7
  <2> QED BY <1>10, <2>1, PressedOK
<1>11. ASSUME NEW T, Pressed(Attached(next), {Ask("attach", t) : t \in T}) PROVE Inv'
  <2>1. \A t \in {Ask("attach", u) : u \in T} : Quiet(t) /\ Harmless(t, Attached(next).built)
    BY PlainTasks
  <2> QED BY <1>7, <1>11, <2>1, PressedOK
<1>12. ASSUME m.ring # << >>, Pressed(Previewed(Swapped(next)), Captures(Swapped(next)))
       PROVE  Inv'
  BY <1>7, <1>12, PreviewedStep
<1>13. ASSUME Presses, m' = [next EXCEPT !.pending = key], UNCHANGED tasks
       PROVE  Inv'
  <2>1. Leads(next, m') BY <1>2, <1>13, PlainOK DEF Leads
  <2>2. Leads(m, m') BY <1>2, <2>1, LeadsOn
  <2>3. server' = server /\ used' = [used EXCEPT !.keys = @ + 1] BY <1>13 DEF Presses
  <2>4. used' \in [keys : Nat, acts : Nat] BY <2>3 DEF Inv
  <2>5. /\ server' \in [listing : Seq(AnySession), report : AnyReport, version : Nat]
        /\ server.version <= server'.version
    BY <2>3 DEF Inv
  <2> QED BY <1>13, <2>2, <2>4, <2>5, Quietly
<1>14. ASSUME Pressed(Previewed(then), Captures(then)) PROVE Inv'
  BY <1>7, <1>14, PreviewedStep
<1>15. {} \in Thens /\ {Load} \in Thens BY DEF Thens
<1> USE DEF next, shown, then, set
<1>16. \/ key = "r" /\ Pressed(next, {Load})
       \/ Pressed(next, {Action({})}) \/ Pressed(next, {Action({Load})})
       \/ \E x \in {Opened(next), Diffed(shown), Confirm(next), set, next} : Pressed(x, {})
       \/ \E T : Pressed(Attached(next), {Ask("attach", t) : t \in T})
       \/ m.ring # << >> /\ Pressed(Previewed(Swapped(next)), Captures(Swapped(next)))
       \/ Presses /\ m' = [next EXCEPT !.pending = key] /\ UNCHANGED tasks
       \/ Pressed(Previewed(then), Captures(then))
  BY Zenon DEF DashboardKey
<1> HIDE DEF next, shown, then, set
<1> QED BY <1>8, <1>9, <1>10, <1>11, <1>12, <1>13, <1>14, <1>15, <1>16

LEMMA PaletteEnterOK ==
    ASSUME Inv, PaletteEnter
    PROVE  Inv'
<1>1. ModelOK(m) /\ Leads(m, m) BY Stays DEF Inv
<1>2. PICK a \in m.palette.actions :
        \/ a.do \in {"mark", "goto", "recover"} /\ Pressed([m EXCEPT !.palette.param = a.do], {})
        \/ Stop("quit")
        \/ Pressed(Diffed(m), {Switch("diff")})
        \/ a.do \in {"settings", "history"} /\ Pressed(m, {Switch(a.do)})
        \/ Pressed(m, {Load}) \/ Pressed(m, {Action({})}) \/ Pressed(m, {Action({Load})})
        \/ Pressed(m, {Ask("attach", << a.arg >>)})
        \/ Pressed(m, {Action({Load, Switch("dashboard")})})
  BY Zenon DEF PaletteEnter
<1>3. Leads(m, [m EXCEPT !.palette.param = a.do]) BY <1>1, PlainOK
<1>4. Leads(m, Diffed(m)) /\ "diff" \in Diffed(m).built
  BY <1>1 DEF Diffed, Leads, SameLanes, ModelOK, Parts
<1>5. ASSUME NEW t, Pressed(m, {t}), Quiet(t), Harmless(t, m.built) PROVE Inv'
  <2>1. \A u \in {t} : Quiet(u) /\ Harmless(u, m.built) BY <1>5
  <2> QED BY <1>1, <1>5, <2>1, PressedOK
<1>6. CASE Pressed([m EXCEPT !.palette.param = a.do], {}) BY <1>3, <1>6, PressedOK
<1>7. CASE Stop("quit") BY <1>7, StopOK
<1>8. CASE Pressed(Diffed(m), {Switch("diff")})
  <2>1. \A u \in {Switch("diff")} : Quiet(u) /\ Harmless(u, Diffed(m).built)
    BY <1>4, PlainTasks
  <2> QED BY <1>4, <1>8, <2>1, PressedOK
<1>9. CASE a.do \in {"settings", "history"} /\ Pressed(m, {Switch(a.do)})
  <2>1. Quiet(Switch(a.do)) /\ Harmless(Switch(a.do), m.built) BY <1>9, PlainTasks
  <2> QED BY <1>5, <1>9, <2>1
<1>10. CASE Pressed(m, {Load}) BY <1>5, <1>10, PlainTasks
<1>11. \A then \in Thens : Pressed(m, {Action(then)}) => Inv'
  <2>1. \A then \in Thens : Quiet(Action(then)) /\ Harmless(Action(then), m.built)
    BY PlainTasks
  <2> QED BY <1>5, <2>1
<1>12. CASE Pressed(m, {Ask("attach", << a.arg >>)})
  <2>1. Quiet(Ask("attach", << a.arg >>)) /\ Harmless(Ask("attach", << a.arg >>), m.built)
    BY PlainTasks
  <2> QED BY <1>5, <1>12, <2>1
<1>13. {} \in Thens /\ {Load} \in Thens /\ {Load, Switch("dashboard")} \in Thens BY DEF Thens
<1> QED BY <1>2, <1>6, <1>7, <1>8, <1>9, <1>10, <1>11, <1>12, <1>13

LEMMA ParamEnterOK ==
    ASSUME Inv, ParamEnter
    PROVE  Inv'
<1>1. ModelOK(m) /\ Leads(m, m) BY Stays DEF Inv
<1>2. ASSUME NEW letter,
             Pressed([m EXCEPT !.marks[letter] =
                        [target |-> SelectedTarget(m.dash), valid |-> TRUE]],
                     {Switch("dashboard")})
      PROVE  Inv'
  <2> DEFINE next == [m EXCEPT !.marks[letter] =
                        [target |-> SelectedTarget(m.dash), valid |-> TRUE]]
  <2>1. Leads(m, next) BY <1>1, PlainOK
  <2> HIDE DEF next
  <2>2. \A t \in {Switch("dashboard")} : Quiet(t) /\ Harmless(t, next.built) BY PlainTasks
  <2>3. Pressed(next, {Switch("dashboard")}) BY <1>2 DEF next
  <2> QED BY <2>1, <2>2, <2>3, PressedOK
<1>4. CASE Pressed(m, {}) BY <1>1, <1>4, PressedOK
<1>5. CASE Pressed(m, {Tell("find", "")})
  <2> DEFINE find == Tell("find", "")
  <2>1. Quiet(find) /\ Harmless(find, m.built) BY PlainTasks
  <2>2. Pressed(m, {find}) BY <1>5
  <2> HIDE DEF find
  <2> QED BY <1>1, <2>1, <2>2, PressedOK
<1>6. CASE Pressed(m, IF m.dash.listing = << >> THEN {}
                      ELSE {Action({Load, Switch("dashboard")})})
  <2>1. {Load, Switch("dashboard")} \in Thens BY DEF Thens
  <2> DEFINE recover == Action({Load, Switch("dashboard")})
  <2>2. Quiet(recover) /\ Harmless(recover, m.built) BY <2>1, PlainTasks
  <2>3. Pressed(m, {}) \/ Pressed(m, {recover}) BY <1>6, Zenon
  <2> HIDE DEF recover
  <2>4. CASE Pressed(m, {recover}) BY <1>1, <2>2, <2>4, PressedOK
  <2> QED BY <1>4, <2>3, <2>4
<1> QED BY <1>2, <1>4, <1>5, <1>6 DEF ParamEnter

LEMMA ConfirmKeyOK ==
    ASSUME Inv, NEW key, ConfirmKey(key)
    PROVE  Inv'
<1>1. Leads(m, m) BY Stays DEF Inv
<1> DEFINE kill == [kind |-> "kill", level |-> m.confirm.level,
                    of |-> m.confirm.target, press |-> used.keys]
           back == Switch("dashboard")
<1>2. Pressed(m, {kill}) \/ Pressed(m, {back}) BY Zenon DEF ConfirmKey
<1>3. Quiet(kill) /\ Harmless(kill, m.built)
  <2>1. kill.kind = "kill" OBVIOUS
  <2> HIDE DEF kill
  <2> QED BY <2>1, KindTasks
<1>4. Quiet(back) /\ Harmless(back, m.built) BY PlainTasks
<1> HIDE DEF kill, back
<1> QED BY <1>1, <1>2, <1>3, <1>4, PressedOK

LEMMA SettingsKeyOK ==
    ASSUME Inv, NEW key, SettingsKey(key)
    PROVE  Inv'
<1>1. ModelOK(m) BY DEF Inv
<1>2. \E s : \/ Pressed([m EXCEPT !.settings = s], {})
             \/ Pressed([m EXCEPT !.settings = s], {Switch("dashboard")})
             \/ Pressed([m EXCEPT !.settings = s], {Tell("save", "")})
  BY Zenon DEF SettingsKey
<1>3. PICK s : \/ Pressed([m EXCEPT !.settings = s], {})
               \/ Pressed([m EXCEPT !.settings = s], {Switch("dashboard")})
               \/ Pressed([m EXCEPT !.settings = s], {Tell("save", "")})
  BY <1>2
<1> DEFINE next == [m EXCEPT !.settings = s]
<1>4. Leads(m, next) BY <1>1, PlainOK
<1>5. \/ Pressed(next, {}) \/ Pressed(next, {Switch("dashboard")})
      \/ Pressed(next, {Tell("save", "")})
  BY <1>3
<1> HIDE DEF next
<1>6. \A t \in {Switch("dashboard")} : Quiet(t) /\ Harmless(t, next.built) BY PlainTasks
<1> DEFINE save == Tell("save", "")
<1>7. Quiet(save) /\ Harmless(save, next.built) BY PlainTasks
<1>8. CASE Pressed(next, {}) BY <1>4, <1>8, PressedOK
<1>9. CASE Pressed(next, {Switch("dashboard")}) BY <1>4, <1>6, <1>9, PressedOK
<1>10. CASE Pressed(next, {save})
  <2> HIDE DEF save
  <2> QED BY <1>4, <1>7, <1>10, PressedOK
<1> QED BY <1>5, <1>8, <1>9, <1>10

LEMMA KeyOK ==
    ASSUME ScreensAssumption, Inv, NEW key, Key(key)
    PROVE  Inv'
<1>1. ASSUME ScreenKey(key) PROVE Inv'
  <2>1. \/ Stop("panic") \/ MarkLetter(key) \/ DashboardKey(key) \/ PaletteEnter
        \/ ParamEnter \/ ConfirmKey(key) \/ SettingsKey(key)
    BY <1>1 DEF ScreenKey
  <2> QED BY <2>1, StopOK, MarkLetterOK, DashboardKeyOK, PaletteEnterOK, ParamEnterOK,
             ConfirmKeyOK, SettingsKeyOK
<1> QED BY <1>1, GlobalKeyOK DEF Key

LEMMA TimerOK ==
    ASSUME Inv, NEW op, pendingOpExpired(op)
    PROVE  Inv'
<1>1. ModelOK(m) BY DEF Inv
<1>2. Leads(m, m) /\ Leads(m, [m EXCEPT !.pending = "none"]) BY <1>1, Stays, PlainOK
<1>3. Leads(m, m') BY <1>2 DEF pendingOpExpired
<1>4. tasks' = tasks /\ server' = server /\ used' = used BY DEF pendingOpExpired
<1>5. /\ server' \in [listing : Seq(AnySession), report : AnyReport, version : Nat]
      /\ server.version <= server'.version /\ used' \in [keys : Nat, acts : Nat]
  BY <1>4 DEF Inv
<1> QED BY <1>3, <1>4, <1>5, Quietly

LEMMA TickOK ==
    ASSUME Inv, Tick
    PROVE  Inv'
<1>1. Leads(m, m) BY Stays DEF Inv
<1>2. \A t \in {Load} : Quiet(t) /\ Harmless(t, m.built) BY PlainTasks
<1> QED BY <1>1, <1>2, BecomeOK DEF Tick

LEMMA InvStep ==
    ASSUME ScreensAssumption, Inv, [ScreensNext]_screens
    PROVE  Inv'
<1>1. CASE UNCHANGED screens
  BY <1>1 DEF screens, Inv
<1>2. ASSUME NEW task \in tasks,
             Kill(task) \/ InvalidateMark(task) \/ Serve(task) \/ Deliver(task)
      PROVE  Inv'
  <2>1. CASE Deliver(task)
    BY <2>1, DataOK, ReportOK, PaneDataOK, OtherMessagesOK DEF Deliver
  <2> QED BY <1>2, <2>1, KillOK, InvalidateOK, ServeOK
<1>3. CASE ScreensNext
  BY <1>2, <1>3, KeyOK, TimerOK, TickOK, RefreshOK, OthersOK DEF ScreensNext
<1> QED BY <1>1, <1>3

LEMMA InvInit ==
    ASSUME ScreensAssumption, ScreensInit
    PROVE  Inv
<1> DEFINE d == newDashboard
<1>1. Synced(d)
  <2>1. << >> \in Seq(AnySession) /\ << >> \in Seq(Idents) /\ << >> \in Seq(GoodRow)
        /\ << >> \in Seq(Nat)
    OBVIOUS
  <2>2. Fields(d) BY <2>1 DEF newDashboard, Fields, AnyReport
  <2>3. Filtering(d) /\ d.rows = << >> /\ d.filtered.at = << >> /\ d.typed = 0 /\ ~d.loaded
    BY DEF newDashboard, Filtering
  <2>4. RowsOf(d) = << >> BY <2>3 DEF RowsOf
  <2> HIDE DEF d
  <2> QED BY <2>2, <2>3, <2>4 DEF Synced
<1>2. OnRow(d)
  <2>1. d.rows = << >> /\ ~d.filtered.on BY DEF newDashboard
  <2>2. effectiveRows(d) = << >> BY <2>1 DEF effectiveRows
  <2> QED BY <2>2 DEF OnRow
<1> HIDE DEF d
<1>3. setup \in Setups /\ m = New(setup.marks, setup.ring) BY DEF ScreensInit
<1>4. setup.ring \in Seq(Targets) /\ Len(setup.ring) <= MaxRing
      /\ setup.listing \in Seq(AnySession) /\ setup.report \in AnyReport
  <2>1. Seq(Idents \cup Nat) \subseteq Targets BY DEF Targets
  <2>2. setup.ring \in Seq(Seq(Idents \cup Nat)) /\ Len(setup.ring) <= MaxRing
        /\ setup.listing \in Seq(AnySession) /\ setup.report \in AnyReport
    BY <1>3 DEF ScreensAssumption
  <2> QED BY <2>1, <2>2
<1>5. ModelOK(m)
  BY <1>1, <1>2, <1>3, <1>4 DEF New, ModelOK, Parts, DashOK, AllScreens, Always, d
<1>6. m.activeSeq = 0 /\ m.reportAt = 0 /\ m.paneSeq = 0 /\ m.panesAt = 0 BY <1>3 DEF New
<1>7. server = [listing |-> setup.listing, report |-> setup.report, version |-> 1]
      /\ tasks = {Load} /\ used = [keys |-> 0, acts |-> 0]
  BY DEF ScreensInit
<1>8. \A t \in tasks : ~InLane(t, "status", "report") /\ ~InLane(t, "panes", "paneData")
                       /\ t.kind = "load"
  BY <1>7 DEF InLane, Load
<1>9. Lane(tasks, server.version, "status", "report", m.activeSeq, m.reportAt)
      /\ Lane(tasks, server.version, "panes", "paneData", m.paneSeq, m.panesAt)
  BY <1>6, <1>7, <1>8 DEF Lane
<1>10. \A t \in tasks : Harmless(t, m.built) BY <1>8 DEF Harmless
<1>11. server \in [listing : Seq(AnySession), report : AnyReport, version : Nat]
       /\ used \in [keys : Nat, acts : Nat]
  BY <1>4, <1>7
<1> QED BY <1>5, <1>9, <1>10, <1>11 DEF Inv

-----------------------------------------------------------------------------
(***************************************************************************)
(* What follows of every state                                             *)
(***************************************************************************)
LEMMA InvTypes ==
    ASSUME Inv
    PROVE  ScreensTypeOK
<1>1. ModelOK(m) /\ Synced(m.dash) /\ OnRow(m.dash) BY DEF Inv, ModelOK, DashOK
<1>2. ToSet(effectiveRows(m.dash)) \subseteq DOMAIN m.dash.rows
  BY <1>1, EffectiveOK DEF ToSet
<1>3. m.screen = "confirm" => m.confirm.target # Nothing
  BY <1>1 DEF ModelOK, Always
<1>4. m.screen \in AllScreens /\ Len(m.ring) <= MaxRing BY <1>1 DEF ModelOK, Parts
<1>5. m.reportAt <= server.version /\ m.panesAt <= server.version BY DEF Inv, Lane
<1> QED BY <1>1, <1>2, <1>3, <1>4, <1>5 DEF ScreensTypeOK, AllScreens, OnRow

(* The program ends by a key that quits or one that finds no model.        *)
LEMMA KeyEnds ==
    ASSUME NEW key, Key(key)
    PROVE  Presses /\ (ended' = ended \/ Stop("quit") \/ (m.screen \notin Built /\ Stop("panic")))
<1>1. \A next, commands : Pressed(next, commands) => Presses /\ ended' = ended
  BY DEF Pressed
<1>2. \A how : Stop(how) => Presses BY DEF Stop
<1>3. GlobalKey(key) => Stop("quit") \/ (Presses /\ ended' = ended)
  BY <1>1, Zenon DEF GlobalKey
<1>4. MarkLetter(key) => Presses /\ ended' = ended BY <1>1, Zenon DEF MarkLetter
<1>5. DashboardKey(key) => Presses /\ ended' = ended BY <1>1, Zenon DEF DashboardKey
<1>6. PaletteEnter => Stop("quit") \/ (Presses /\ ended' = ended)
  BY <1>1, Zenon DEF PaletteEnter
<1>7. ParamEnter => Presses /\ ended' = ended BY <1>1, Zenon DEF ParamEnter
<1>8. ConfirmKey(key) => Presses /\ ended' = ended BY <1>1, Zenon DEF ConfirmKey
<1>9. SettingsKey(key) => Presses /\ ended' = ended BY <1>1, Zenon DEF SettingsKey
<1>10. ScreenKey(key) => \/ m.screen \notin Built /\ Stop("panic")
                         \/ MarkLetter(key) \/ DashboardKey(key) \/ PaletteEnter
                         \/ ParamEnter \/ ConfirmKey(key) \/ SettingsKey(key)
  BY Zenon DEF ScreenKey
<1> QED BY <1>2, <1>3, <1>4, <1>5, <1>6, <1>7, <1>8, <1>9, <1>10 DEF Key

LEMMA CrashStep ==
    ASSUME Inv, CrashesOnlyUnopened, [ScreensNext]_screens
    PROVE  CrashesOnlyUnopened'
<1>1. CASE UNCHANGED screens BY <1>1 DEF screens, CrashesOnlyUnopened
<1>2. CASE ScreensNext
  <2>1. ended = "no" BY <1>2 DEF ScreensNext
  <2>2. ASSUME NEW key, Key(key) PROVE CrashesOnlyUnopened'
    <3>1. CASE ended' = ended BY <2>1, <3>1 DEF CrashesOnlyUnopened
    <3>2. CASE Stop("quit") BY <3>2 DEF Stop, CrashesOnlyUnopened
    <3>3. CASE m.screen \notin Built /\ Stop("panic")
      <4>1. m.screen = "settings" BY <3>3 DEF Inv, ModelOK, Always, Built
      <4> QED BY <3>3, <4>1 DEF Stop, CrashesOnlyUnopened
    <3> QED BY <2>2, <3>1, <3>2, <3>3, KeyEnds
  <2>3. ASSUME NEW task,
               Kill(task) \/ InvalidateMark(task) \/ Serve(task) \/ Deliver(task)
        PROVE  ended' = ended
    BY <2>3 DEF Kill, InvalidateMark, Serve, Deliver, dataLoaded, loadFailed,
       activeStatusLoaded, paneDataLoaded, previewLoaded, gotoProc, settingsSaved,
       switchScreen, Becomes
  <2>4. Tick \/ RefreshTick \/ (\E op \in {"m", "'"} : pendingOpExpired(op)) => ended' = ended
    BY DEF Tick, RefreshTick, pendingOpExpired, Becomes
  <2>5. \/ \E s \in Newcomers : Open(s)
        \/ \E i, j \in 1 .. 3 : Close(i, j)
        \/ \E report \in Reports : Relink(report)
        => ended' = ended
    BY DEF Open, Close, Relink, Change
  <2>6. ended' = ended => CrashesOnlyUnopened' BY <2>1 DEF CrashesOnlyUnopened
  <2> QED BY <1>2, <2>2, <2>3, <2>4, <2>5, <2>6 DEF ScreensNext
<1> QED BY <1>1, <1>2

LEMMA InvHolds ==
    ASSUME ScreensAssumption
    PROVE  ScreensSpec => []Inv
<1>1. ScreensInit => Inv BY InvInit
<1>2. Inv /\ [ScreensNext]_screens => Inv' BY InvStep
<1> QED BY <1>1, <1>2, PTL DEF ScreensSpec

(* The parts of the model fit together: a row is under the cursor as soon  *)
(* as any is shown, whatever the names and filters (ui/dashboard.go), the  *)
(* ring is never longer than lastLocationRingSize (state/marks.go), and the*)
(* dialog of a kill has a target (ui/app_update.go).                       *)
THEOREM ScreensTypeCorrect ==
    ASSUME ScreensAssumption
    PROVE  ScreensSpec => []ScreensTypeOK
<1>1. Inv => ScreensTypeOK BY InvTypes
<1> QED BY <1>1, InvHolds, PTL

(* '' twice leads back, from any session or window, with any ring          *)
(* (app_update.go:414).                                                    *)
THEOREM TwiceLeadsBack ==
    ASSUME ScreensAssumption
    PROVE  ScreensSpec => []JumpsReturn
<1>1. Inv => JumpsReturn BY TwiceBack DEF Inv
<1> QED BY <1>1, InvHolds, PTL

(* No screen but that of the settings is shown before its model is built,  *)
(* whichever keys are pressed and whenever commands switch screens         *)
(* (handleKey, ui/app_config.go).                                          *)
THEOREM OnlySettingsCrash ==
    ASSUME ScreensAssumption
    PROVE  ScreensSpec => []CrashesOnlyUnopened
<1>1. ScreensInit => CrashesOnlyUnopened BY DEF ScreensInit, CrashesOnlyUnopened
<1>2. Inv /\ CrashesOnlyUnopened /\ [ScreensNext]_screens => CrashesOnlyUnopened' BY CrashStep
<1> QED BY <1>1, <1>2, InvHolds, PTL DEF ScreensSpec

-----------------------------------------------------------------------------
(***************************************************************************)
(* What no step does                                                       *)
(***************************************************************************)
(* A preview is kept for the row it was shown for, or there is none.       *)
Displays(d, e) ==
    \/ e = d \/ e.preview = Nothing
    \/ /\ e.preview = d.preview /\ e.pane = d.pane
       /\ currentTargetKey(e) = d.lastRow

(* No reading is replaced.                                                 *)
Shows(x, y) ==
    /\ y.reportAt = x.reportAt /\ y.panesAt = x.panesAt
    /\ Displays(x.dash, y.dash)

LEMMA ResetDisplays ==
    ASSUME NEW d, NEW e, DashOK(e), Carried(d, e)
    PROVE  Displays(d, maybeResetPreviewPane(e))
<1>1. CASE currentTargetKey(e) = e.lastRow
  BY <1>1 DEF maybeResetPreviewPane, Displays, Carried
<1>2. CASE currentTargetKey(e) # e.lastRow
  <2>1. maybeResetPreviewPane(e).preview = Nothing
    BY <1>2 DEF maybeResetPreviewPane, DashOK, Synced, Fields
  <2> QED BY <2>1 DEF Displays
<1> QED BY <1>1, <1>2

LEMMA PreviewedShows ==
    ASSUME NEW x, NEW y, Leads(x, y), Carried(x.dash, y.dash)
    PROVE  Shows(x, Previewed(y))
<1>1. ModelOK(y) /\ y.reportAt = x.reportAt /\ y.panesAt = x.panesAt
  BY DEF Leads, SameLanes
<1> DEFINE z == Previewed(y)
<1>2. z.reportAt = y.reportAt /\ z.panesAt = y.panesAt
      /\ z.dash = maybeResetPreviewPane(y.dash)
  BY <1>1, PreviewedOK DEF Leads, SameLanes
<1> HIDE DEF z
<1>3. Displays(x.dash, maybeResetPreviewPane(y.dash))
  BY <1>1, ResetDisplays DEF ModelOK
<1> QED BY <1>1, <1>2, <1>3 DEF Shows, z

LEMMA SameShows ==
    ASSUME NEW x, NEW y, y.reportAt = x.reportAt, y.panesAt = x.panesAt, y.dash = x.dash
    PROVE  Shows(x, y)
BY DEF Shows, Displays

(* Changes of other parts of the model.                                    *)
LEMMA PlainShows ==
    ASSUME NEW x, ModelOK(x), NEW v, NEW k
    PROVE  /\ Shows(x, x)
           /\ Shows(x, [x EXCEPT !.help = v]) /\ Shows(x, [x EXCEPT !.pending = v])
           /\ Shows(x, [x EXCEPT !.marks = v]) /\ Shows(x, [x EXCEPT !.marks[k] = v])
           /\ Shows(x, [x EXCEPT !.settings = v]) /\ Shows(x, [x EXCEPT !.settings.dirty = v])
           /\ Shows(x, [x EXCEPT !.palette.param = v]) /\ Shows(x, [x EXCEPT !.screen = v])
           /\ Shows(x, Confirm(x)) /\ Shows(x, Attached(x)) /\ Shows(x, Opened(x))
           /\ Shows(x, Diffed(x)) /\ Shows(x, Diffed([x EXCEPT !.screen = v]))
           /\ Shows(x, [x EXCEPT !.screen = "settings", !.settings = v,
                                 !.built = @ \cup {"settings"}])
<1> USE DEF Shows, Displays, ModelOK
<1>1. /\ Shows(x, x)
      /\ Shows(x, [x EXCEPT !.help = v]) /\ Shows(x, [x EXCEPT !.pending = v])
      /\ Shows(x, [x EXCEPT !.marks = v]) /\ Shows(x, [x EXCEPT !.marks[k] = v])
  BY DEF Parts
<1>2. /\ Shows(x, [x EXCEPT !.settings = v]) /\ Shows(x, [x EXCEPT !.settings.dirty = v])
      /\ Shows(x, [x EXCEPT !.palette.param = v]) /\ Shows(x, [x EXCEPT !.screen = v])
  BY DEF Parts
<1>3. Shows(x, Confirm(x)) /\ Shows(x, Attached(x)) /\ Shows(x, Opened(x))
  BY DEF Parts, Confirm, Attached, Opened
<1>4. Shows(x, Diffed(x)) /\ Shows(x, Diffed([x EXCEPT !.screen = v]))
  BY DEF Parts, Diffed
<1>5. Shows(x, [x EXCEPT !.screen = "settings", !.settings = v,
                         !.built = @ \cup {"settings"}])
  BY DEF Parts
<1> QED BY <1>1, <1>2, <1>3, <1>4, <1>5

LEMMA ShowsOn ==
    ASSUME NEW x, NEW y, NEW z, Shows(y, z),
           y.reportAt = x.reportAt, y.panesAt = x.panesAt, y.dash = x.dash
    PROVE  Shows(x, z)
BY DEF Shows

LEMMA MarkLetterShows ==
    ASSUME ScreensAssumption, Inv, NEW letter, MarkLetter(letter)
    PROVE  Shows(m, m')
<1> DEFINE next == [m EXCEPT !.pending = "none"]
           mark == m.marks[letter]
           target == SelectedTarget(m.dash)
           there == Jump(next, mark.target)
           set == [next EXCEPT !.marks[letter] = [target |-> target, valid |-> TRUE]]
<1>1. ModelOK(m) BY DEF Inv
<1>2. Leads(m, next) /\ next.dash = m.dash /\ next.reportAt = m.reportAt
      /\ next.panesAt = m.panesAt
  BY <1>1, PlainOK DEF ModelOK, Parts
<1>3. m' = set \/ m' = next \/ m' = Previewed(there)
  BY Zenon DEF MarkLetter, Pressed
<1>4. Shows(m, next) /\ Shows(m, set)
  <2>1. Shows(m, next) BY <1>2, SameShows
  <2>2. Shows(next, set)
    <3> HIDE DEF next
    <3> QED BY <1>2, PlainShows DEF Leads
  <2> HIDE DEF next, set
  <2> QED BY <1>2, <2>1, <2>2, ShowsOn
<1>5. Shows(m, Previewed(there))
  <2>1. Leads(next, there) /\ there.dash = restoreCursorByID(next.dash, mark.target)
    <3> HIDE DEF next
    <3> QED BY <1>2, JumpOK DEF Leads
  <2> HIDE DEF next, there
  <2>2. Leads(m, there) BY <1>2, <2>1, LeadsOn
  <2>3. Carried(m.dash, there.dash)
    BY <1>1, <1>2, <2>1, RestoreOK, MovesCarry DEF ModelOK, DashOK
  <2> QED BY <2>2, <2>3, PreviewedShows
<1> HIDE DEF next, there, set
<1> QED BY <1>3, <1>4, <1>5

LEMMA DashboardKeyShows ==
    ASSUME ScreensAssumption, Inv, NEW key, DashboardKey(key)
    PROVE  Shows(m, m')
<1> DEFINE next == [m EXCEPT !.pending = "none"]
           shown == [next EXCEPT !.screen = "diff"]
           then == [next EXCEPT !.dash = Update(next.dash, key)]
           set == [next EXCEPT !.screen = "settings", !.settings = Settings,
                               !.built = @ \cup {"settings"}]
           wait == [next EXCEPT !.pending = key]
<1>1. ModelOK(m) BY DEF Inv
<1>2. Leads(m, next) /\ next.dash = m.dash /\ next.ring = m.ring
      /\ next.reportAt = m.reportAt /\ next.panesAt = m.panesAt
  BY <1>1, PlainOK DEF ModelOK, Parts
<1>3. \/ m' \in {next, Opened(next), Diffed(shown), Confirm(next), set, Attached(next), wait}
      \/ m.ring # << >> /\ m' = Previewed(Swapped(next))
      \/ m' = Previewed(then)
  BY Zenon DEF DashboardKey, Pressed
<1>4. \A x \in {next, Opened(next), Diffed(shown), Confirm(next), set, Attached(next), wait} :
         Shows(m, x)
  <2>1. /\ Shows(next, next) /\ Shows(next, Opened(next)) /\ Shows(next, Diffed(shown))
        /\ Shows(next, Confirm(next)) /\ Shows(next, set) /\ Shows(next, Attached(next))
        /\ Shows(next, wait)
    <3> HIDE DEF next
    <3> QED BY <1>2, PlainShows DEF Leads
  <2> HIDE DEF next, shown, set, wait
  <2> QED BY <1>2, <2>1, ShowsOn
<1>5. m.ring # << >> => Shows(m, Previewed(Swapped(next)))
  <2>1. m.ring # << >> => Leads(next, Swapped(next)) /\ Carried(next.dash, Swapped(next).dash)
    <3> HIDE DEF next
    <3> QED BY <1>2, SwappedOK DEF Leads
  <2> HIDE DEF next
  <2> QED BY <1>2, <2>1, LeadsOn, PreviewedShows
<1>6. Shows(m, Previewed(then))
  <2>1. DashOK(Update(next.dash, key)) /\ Carried(m.dash, Update(next.dash, key))
    BY <1>1, <1>2, UpdateOK DEF ModelOK
  <2>2. Leads(next, then) /\ then.dash = Update(next.dash, key)
    <3> HIDE DEF next
    <3>1. Parts(next) BY <1>2 DEF Leads, ModelOK
    <3>2. then.dash = Update(next.dash, key) BY <3>1 DEF Parts
    <3>3. Leads(next, then) BY <1>2, <2>1, PlainOK DEF Leads
    <3> QED BY <3>2, <3>3
  <2> HIDE DEF next, then
  <2> QED BY <1>2, <2>1, <2>2, LeadsOn, PreviewedShows
<1> HIDE DEF next, shown, set, wait, then
<1> QED BY <1>3, <1>4, <1>5, <1>6

LEMMA KeyShows ==
    ASSUME ScreensAssumption, Inv, NEW key, Key(key)
    PROVE  Shows(m, m')
<1>1. ModelOK(m) BY DEF Inv
<1>2. Shows(m, m) BY <1>1, PlainShows
<1>3. \A how : Stop(how) => Shows(m, m') BY <1>2 DEF Stop
<1>4. GlobalKey(key) => Shows(m, m')
  <2>1. \A v : Shows(m, [m EXCEPT !.help = v]) /\ Shows(m, [m EXCEPT !.screen = v])
    BY <1>1, PlainShows
  <2>2. GlobalKey(key) => \/ Stop("quit")
                          \/ \E v : m' = [m EXCEPT !.help = v] \/ m' = [m EXCEPT !.screen = v]
    BY Zenon DEF GlobalKey, Pressed
  <2> QED BY <1>3, <2>1, <2>2
<1>5. PaletteEnter => Shows(m, m')
  <2>1. \A v : Shows(m, [m EXCEPT !.palette.param = v]) BY <1>1, PlainShows
  <2>2. Shows(m, Diffed(m)) BY <1>1, PlainShows
  <2>3. PaletteEnter => \/ Stop("quit") \/ m' = m \/ m' = Diffed(m)
                        \/ \E v : m' = [m EXCEPT !.palette.param = v]
    BY Zenon DEF PaletteEnter, Pressed
  <2> QED BY <1>2, <1>3, <2>1, <2>2, <2>3
<1>6. ParamEnter => Shows(m, m')
  <2>1. \A k, v : Shows(m, [m EXCEPT !.marks[k] = v]) BY <1>1, PlainShows
  <2>2. ParamEnter => m' = m \/ \E k, v : m' = [m EXCEPT !.marks[k] = v]
    BY Zenon DEF ParamEnter, Pressed
  <2> QED BY <1>2, <2>1, <2>2
<1>7. ConfirmKey(key) => Shows(m, m') BY <1>2 DEF ConfirmKey, Pressed
<1>8. SettingsKey(key) => Shows(m, m')
  <2>1. \A v : Shows(m, [m EXCEPT !.settings = v]) BY <1>1, PlainShows
  <2>2. SettingsKey(key) => \E v : m' = [m EXCEPT !.settings = v]
    BY Zenon DEF SettingsKey, Pressed
  <2> QED BY <2>1, <2>2
<1>9. \/ GlobalKey(key) \/ Stop("panic") \/ MarkLetter(key) \/ DashboardKey(key)
      \/ PaletteEnter \/ ParamEnter \/ ConfirmKey(key) \/ SettingsKey(key)
  BY DEF Key, ScreenKey
<1> QED BY <1>3, <1>4, <1>5, <1>6, <1>7, <1>8, <1>9, MarkLetterShows, DashboardKeyShows

NewestStep ==
    /\ m'.reportAt >= m.reportAt /\ m'.panesAt >= m.panesAt
    /\ m'.dash.preview # m.dash.preview => PreviewOfRow(m'.dash)
    /\ PreviewOfRow(m.dash) /\ ~NothingFound(m.dash) =>
         \/ PreviewOfRow(m'.dash)
         \/ /\ ~SameRow(m.dash, m'.dash)
            /\ currentTargetKey(m'.dash) \in {m.dash.lastRow, currentTargetKey(m.dash)}

SelectionStep ==
    /\ used'.keys = used.keys
    /\ \E task \in tasks \ tasks' : task.kind # "goto"
    /\ currentTargetKey(m.dash) \in Shown(m'.dash)
    => currentTargetKey(m'.dash) = currentTargetKey(m.dash)

(* What is of a row stays so while the row does.                           *)
LEMMA SameRowStays ==
    ASSUME NEW d, NEW e, e.preview = d.preview, e.pane = d.pane,
           SameRow(d, e), PreviewOfRow(d)
    PROVE  PreviewOfRow(e)
<1>1. currentPreviewTarget(e) = currentPreviewTarget(d) BY DEF currentPreviewTarget, SameRow
<1> QED BY <1>1 DEF PreviewOfRow

LEMMA ShowsNewest ==
    ASSUME Inv, Shows(m, m')
    PROVE  NewestStep
<1>1. m.reportAt \in Nat /\ m.panesAt \in Nat BY DEF Inv, Lane
<1>2. m'.reportAt >= m.reportAt /\ m'.panesAt >= m.panesAt BY <1>1 DEF Shows
<1>3. CASE m'.dash = m.dash BY <1>2, <1>3 DEF NewestStep
<1>4. CASE m'.dash.preview = Nothing
  <2>1. PreviewOfRow(m'.dash) BY <1>4 DEF PreviewOfRow
  <2> QED BY <1>2, <2>1 DEF NewestStep
<1>5. CASE /\ m'.dash.preview = m.dash.preview /\ m'.dash.pane = m.dash.pane
           /\ currentTargetKey(m'.dash) = m.dash.lastRow
  BY <1>2, <1>5, SameRowStays DEF NewestStep
<1> QED BY <1>3, <1>4, <1>5 DEF Shows, Displays

LEMMA SameSelection ==
    ASSUME m'.dash = m.dash
    PROVE  SelectionStep
BY DEF SelectionStep

LEMMA StaysSelection ==
    ASSUME StaysOn(m.dash, m'.dash)
    PROVE  SelectionStep
BY DEF SelectionStep, StaysOn

(* A report that takes the selected row from the tree takes an alias, of   *)
(* which there is no preview.                                              *)
LEMMA ReportNewest ==
    ASSUME Inv, NEW task \in tasks, activeStatusLoaded(task)
    PROVE  NewestStep
<1>1. StaysOn(m.dash, m'.dash) /\ m'.reportAt >= m.reportAt BY ReportOK
<1>2. m' = IF task.seq = m.activeSeq
           THEN [m EXCEPT !.dash = SetActiveStatus(m.dash, task.report),
                          !.reportAt = task.at]
           ELSE m
  BY DEF activeStatusLoaded, Becomes, Current
<1>3. ModelOK(m) /\ Synced(m.dash) /\ task.report \in AnyReport /\ m.panesAt \in Nat
  BY DEF Inv, ModelOK, DashOK, Harmless, Lane, activeStatusLoaded
<1>4. m'.panesAt >= m.panesAt
  <2>1. m'.panesAt = m.panesAt BY <1>2, <1>3 DEF ModelOK, Parts
  <2> QED BY <1>3, <2>1
<1>5. CASE task.seq # m.activeSeq
  <2>1. m' = m BY <1>2, <1>5
  <2> QED BY <1>1, <1>4, <2>1 DEF NewestStep
<1>6. CASE task.seq = m.activeSeq
  <2> DEFINE d == m.dash
             e == SetActiveStatus(d, task.report)
  <2>1. m'.dash = e BY <1>2, <1>3, <1>6 DEF ModelOK, Parts
  <2>2. e.preview = d.preview /\ e.pane = d.pane BY <1>3, SetActiveStatusOK DEF Unseen
  <2> HIDE DEF d, e
  <2> SUFFICES ASSUME PreviewOfRow(d), ~NothingFound(d)
               PROVE  PreviewOfRow(e) \/ currentTargetKey(e) = currentTargetKey(d)
    BY <1>1, <1>4, <2>1, <2>2, SameRowStays DEF NewestStep, d
  <2>3. CASE ~HasRow(d) \/ currentRow(d).level \in {"header", "alias"}
    <3>1. currentPreviewTarget(d) = Nothing BY <2>3 DEF currentPreviewTarget
    <3>2. d.preview = Nothing BY <3>1 DEF PreviewOfRow
    <3> QED BY <2>2, <3>2 DEF PreviewOfRow
  <2>4. CASE HasRow(d) /\ currentRow(d).level \notin {"header", "alias"}
    <3>1. currentTargetKey(d) \in Shown(e) BY <1>3, <2>4, StatusShows DEF d, e
    <3> QED BY <1>1, <2>1, <3>1 DEF StaysOn, d
  <2> QED BY <2>3, <2>4
<1> QED BY <1>5, <1>6

LEMMA MessageSteps ==
    ASSUME ScreensAssumption, Inv, NEW task \in tasks, Deliver(task)
    PROVE  NewestStep /\ SelectionStep
<1>1. ModelOK(m) /\ DashOK(m.dash) BY DEF Inv, ModelOK
<1>2. ASSUME dataLoaded(task) PROVE NewestStep /\ SelectionStep
  <2> DEFINE dash == SetData(m.dash, task.listing)
             next == [m EXCEPT !.dash = dash, !.activeSeq = m.activeSeq + 1]
  <2>1. SelectionStep BY <1>2, DataOK, StaysSelection
  <2>2. m' = Previewed(next) BY <1>2 DEF dataLoaded, Becomes
  <2>3. DashOK(dash) /\ Carried(m.dash, dash)
    <3>1. task.listing \in Seq(AnySession) BY <1>2 DEF Inv, Harmless, dataLoaded
    <3> QED BY <1>1, <3>1, SetDataOK DEF DashOK
  <2> HIDE DEF dash
  <2>4. /\ Parts(next) /\ next.dash = dash /\ next.ring = m.ring /\ next.screen = m.screen
        /\ next.built = m.built /\ next.confirm = m.confirm
        /\ next.reportAt = m.reportAt /\ next.panesAt = m.panesAt
    BY <1>1 DEF ModelOK, Parts
  <2> HIDE DEF next
  <2>5. ModelOK(next) BY <1>1, <2>3, <2>4 DEF ModelOK
  <2>6. /\ m'.dash = maybeResetPreviewPane(dash)
        /\ m'.reportAt = m.reportAt /\ m'.panesAt = m.panesAt
    BY <2>2, <2>4, <2>5, PreviewedOK DEF Leads, SameLanes
  <2>7. Displays(m.dash, maybeResetPreviewPane(dash)) BY <2>3, ResetDisplays
  <2>10. NewestStep BY <2>6, <2>7, ShowsNewest DEF Shows
  <2> QED BY <2>1, <2>10
<1>3. ASSUME activeStatusLoaded(task) PROVE NewestStep /\ SelectionStep
  BY <1>3, ReportOK, ReportNewest, StaysSelection
<1>4. ASSUME paneDataLoaded(task) PROVE NewestStep /\ SelectionStep
  <2>1. m'.dash = m.dash /\ m'.panesAt >= m.panesAt BY <1>4, PaneDataOK
  <2>2. m'.reportAt = m.reportAt /\ m.reportAt \in Nat
    BY <1>1, <1>4 DEF paneDataLoaded, Becomes, ModelOK, Parts, Inv, Lane
  <2>3. m'.reportAt >= m.reportAt BY <2>2
  <2>4. NewestStep BY <2>1, <2>3 DEF NewestStep
  <2> QED BY <2>1, <2>4, SameSelection
<1>5. ASSUME previewLoaded(task) PROVE NewestStep /\ SelectionStep
  <2>1. OnlyShows(m.dash, SetPreview(m.dash, task.of)) BY <1>1, SetPreviewOK
  <2>2. m' = [m EXCEPT !.dash = SetPreview(m.dash, task.of)]
    BY <1>5 DEF previewLoaded, Becomes
  <2>3. m'.dash = SetPreview(m.dash, task.of) /\ m'.reportAt = m.reportAt
        /\ m'.panesAt = m.panesAt
    BY <1>1, <2>2 DEF ModelOK, Parts
  <2>4. /\ currentTargetKey(m'.dash) = currentTargetKey(m.dash)
        /\ HasRow(m'.dash) = HasRow(m.dash) /\ currentRow(m'.dash) = currentRow(m.dash)
    BY <1>1, <2>1, <2>3, ShowsKeep
  <2>7. m'.dash = m.dash \/ PreviewOfRow(m'.dash)
    <3> SUFFICES ASSUME task.of = currentPreviewTarget(m.dash)
                 PROVE  PreviewOfRow(m'.dash)
      BY <2>3 DEF SetPreview
    <3>1. m'.dash.preview = task.of /\ m'.dash.pane = m.dash.pane
      BY <1>1, <2>3 DEF SetPreview, DashOK, Synced, Fields
    <3>2. currentPreviewTarget(m'.dash) = currentPreviewTarget(m.dash)
      BY <2>4, <3>1 DEF currentPreviewTarget
    <3> QED BY <3>1, <3>2 DEF PreviewOfRow
  <2>5. m.reportAt \in Nat /\ m.panesAt \in Nat BY DEF Inv, Lane
  <2>6. m'.reportAt >= m.reportAt /\ m'.panesAt >= m.panesAt BY <2>3, <2>5
  <2> QED BY <2>4, <2>6, <2>7 DEF NewestStep, SelectionStep
<1>6. ASSUME gotoProc(task) PROVE NewestStep /\ SelectionStep
  <2> DEFINE next == [Jump(m, task.of) EXCEPT !.screen = "dashboard"]
  <2>1. Leads(m, Jump(m, task.of)) BY <1>1, JumpOK
  <2>2. Leads(Jump(m, task.of), next) BY <2>1, PlainOK DEF Leads, AllScreens, Always
  <2>3. Leads(m, next) BY <2>1, <2>2, LeadsOn
  <2>7. Carried(m.dash, next.dash)
    <3>1. next.dash = restoreCursorByID(m.dash, task.of)
      BY <1>1, <2>1, JumpOK DEF Leads, ModelOK, Parts
    <3> HIDE DEF next
    <3> QED BY <1>1, <3>1, RestoreOK, MovesCarry DEF DashOK
  <2>4. m' = Previewed(next) /\ task.kind = "goto"
        /\ \A t \in tasks \ tasks' : t = task
    BY <1>6 DEF gotoProc, Becomes
  <2> HIDE DEF next
  <2>5. NewestStep BY <2>3, <2>4, <2>7, PreviewedShows, ShowsNewest
  <2>6. SelectionStep BY <2>4 DEF SelectionStep
  <2> QED BY <2>5, <2>6
<1>7. ASSUME loadFailed(task) \/ settingsSaved(task) \/ switchScreen(task)
      PROVE  NewestStep /\ SelectionStep
  <2>1. \/ \E v : m' = [m EXCEPT !.screen = v]
        \/ m' = [m EXCEPT !.settings.dirty = FALSE]
    BY <1>7, Zenon DEF loadFailed, settingsSaved, switchScreen, Becomes
  <2>2. \A v : /\ [m EXCEPT !.screen = v].dash = m.dash
               /\ [m EXCEPT !.settings.dirty = v].dash = m.dash
    BY <1>1 DEF ModelOK, Parts
  <2>3. \A v : Shows(m, [m EXCEPT !.screen = v]) /\ Shows(m, [m EXCEPT !.settings.dirty = v])
    BY <1>1, PlainShows
  <2>4. m'.dash = m.dash /\ Shows(m, m') BY <2>1, <2>2, <2>3
  <2> QED BY <2>4, SameSelection, ShowsNewest
<1> QED BY <1>2, <1>3, <1>4, <1>5, <1>6, <1>7 DEF Deliver

LEMMA EveryStep ==
    ASSUME ScreensAssumption, Inv, ScreensNext
    PROVE  NewestStep /\ SelectionStep
<1>1. ModelOK(m) BY DEF Inv
<1>2. ASSUME m' = m PROVE NewestStep /\ SelectionStep
  <2>1. Shows(m, m') BY <1>1, <1>2, PlainShows
  <2> QED BY <1>2, <2>1, SameSelection, ShowsNewest
<1>3. ASSUME NEW key, Key(key) PROVE NewestStep /\ SelectionStep
  <2>1. used'.keys = used.keys + 1 /\ used.keys \in Nat
    BY <1>3, KeyEnds DEF Presses, Inv
  <2>2. SelectionStep BY <2>1 DEF SelectionStep
  <2> QED BY <1>3, <2>2, KeyShows, ShowsNewest
<1>4. ASSUME NEW task \in tasks,
             Kill(task) \/ InvalidateMark(task) \/ Serve(task) \/ Deliver(task)
      PROVE  NewestStep /\ SelectionStep
  <2>1. CASE Kill(task) \/ Serve(task) BY <1>2, <2>1 DEF Kill, Serve
  <2>2. CASE InvalidateMark(task)
    <3>1. \E v : m' = [m EXCEPT !.marks = v] BY <2>2, Zenon DEF InvalidateMark
    <3>2. \A v : Shows(m, [m EXCEPT !.marks = v]) BY <1>1, PlainShows
    <3>3. \A v : [m EXCEPT !.marks = v].dash = m.dash BY <1>1 DEF ModelOK, Parts
    <3> QED BY <3>1, <3>2, <3>3, SameSelection, ShowsNewest
  <2> QED BY <1>4, <2>1, <2>2, MessageSteps
<1>5. ASSUME Tick PROVE NewestStep /\ SelectionStep BY <1>2, <1>5 DEF Tick, Becomes
<1>6. ASSUME RefreshTick PROVE NewestStep /\ SelectionStep
  BY <1>6, RefreshOK, SameShows, SameSelection, ShowsNewest
<1>7. ASSUME NEW op, pendingOpExpired(op) PROVE NewestStep /\ SelectionStep
  <2>1. m' = m \/ m' = [m EXCEPT !.pending = "none"] BY <1>7 DEF pendingOpExpired
  <2>2. Shows(m, [m EXCEPT !.pending = "none"]) BY <1>1, PlainShows
  <2>3. [m EXCEPT !.pending = "none"].dash = m.dash BY <1>1 DEF ModelOK, Parts
  <2> QED BY <1>2, <2>1, <2>2, <2>3, SameSelection, ShowsNewest
<1>8. ASSUME \/ \E s \in Newcomers : Open(s)
             \/ \E i, j \in 1 .. 3 : Close(i, j)
             \/ \E report \in Reports : Relink(report)
      PROVE  NewestStep /\ SelectionStep
  <2>1. m' = m BY <1>8 DEF Open, Close, Relink, Change
  <2> QED BY <1>2, <2>1
<1> QED BY <1>3, <1>4, <1>5, <1>6, <1>7, <1>8 DEF ScreensNext

(* Listings, statuses and panes never move the selection off a row that is *)
(* still shown, whatever is typed into the filter and whatever others do   *)
(* to tmux (SetData, SetActiveStatus, restoreCursorByID, ui/dashboard.go). *)
THEOREM SelectionIsKept ==
    ASSUME ScreensAssumption
    PROVE  ScreensSpec => SelectionKept
<1>1. Inv /\ [ScreensNext]_screens => [SelectionStep]_screens BY EveryStep
<1>2. ScreensSpec => [][SelectionStep]_screens BY <1>1, InvHolds, PTL DEF ScreensSpec
<1> QED BY <1>2, PTL DEF SelectionKept, SelectionStep

(* Nor is a reading replaced by an older one, or a preview shown for       *)
(* another row, however many requests are under way and in whatever order  *)
(* they are answered (the sequence numbers of ui, SetPreview).             *)
THEOREM SelectionAndReadings ==
    ASSUME ScreensAssumption
    PROVE  ScreensSpec => SelectionAndNewest
<1>1. Inv /\ [ScreensNext]_screens => [NewestStep]_screens BY EveryStep
<1>2. ScreensSpec => [][NewestStep]_screens BY <1>1, InvHolds, PTL DEF ScreensSpec
<1>3. ScreensSpec => NewestShown BY <1>2, PTL DEF NewestShown, NewestStep
<1> QED BY <1>3, SelectionIsKept, PTL DEF SelectionAndNewest

=============================================================================
