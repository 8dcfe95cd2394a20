---------------------------- MODULE CatalogProofs ----------------------------
(***************************************************************************)
(* Proofs about Catalog as a part of MCDaemons: what projections of any    *)
(* runtime and commands in any order make of a stored catalog, for any     *)
(* sessions and tabs, any configuration and any catalogs to start from.    *)
(***************************************************************************)
EXTENDS MCDaemons, Subsequences, SequenceTheorems, FiniteSetTheorems,
        WellFoundedInduction, TLAPS

-----------------------------------------------------------------------------
(***************************************************************************)
(* Recursion along a sequence                                              *)
(***************************************************************************)

(* A set of numbers has a least one.                                       *)
LEMMA LeastNumber ==
    ASSUME NEW T, T \subseteq Nat, T # {}
    PROVE  \E x \in T : \A y \in T : x <= y
<1>1. \E x \in T : \A y \in T : ~ (<<y, x>> \in OpToRel(<,Nat))
  BY WFMin, NatLessThanWellFounded, Zenon
<1>2. \A x, y \in T : ~ (<<y, x>> \in OpToRel(<,Nat)) => x <= y BY DEF OpToRel
<1> QED BY <1>1, <1>2

(* A set of numbers that has 0 and goes on to n has all that are between.  *)
LEMMA CountUp ==
    ASSUME NEW T, NEW n \in Nat, 0 \in T, \A i \in 1 .. n : i - 1 \in T => i \in T
    PROVE  \A i \in 0 .. n : i \in T
<1> DEFINE Out == { i \in 0 .. n : i \notin T }
<1>1. SUFFICES ASSUME Out # {} PROVE FALSE OBVIOUS
<1>2. Out \subseteq Nat BY DEF Out
<1>3. PICK x \in Out : \A y \in Out : x <= y
  <2> HIDE DEF Out
  <2> QED BY <1>1, <1>2, LeastNumber
<1>4. x \in 0 .. n /\ x \notin T OBVIOUS
<1>5. x # 0 /\ x - 1 \in 0 .. n /\ ~ (x <= x - 1) BY <1>4
<1>6. x - 1 \notin Out BY <1>3, <1>5
<1> QED BY <1>4, <1>5, <1>6

(* What goes from each value to the next by a function can be followed to  *)
(* the end.                                                                *)
Ways(n, S) == [1 .. n -> [S -> S]]
Follows(f, n, a, g) == f[0] = a /\ \A i \in 1 .. n : f[i] = g[i][f[i - 1]]

LEMMA Recursion ==
    ASSUME NEW n \in Nat, NEW S, NEW a \in S, NEW g \in Ways(n, S)
    PROVE  \E f \in [0 .. n -> S] : Follows(f, n, a, g)
<1> USE DEF Ways
<1> DEFINE Solves(f, k) ==
               /\ f \in [0 .. k -> S] /\ f[0] = a
               /\ \A i \in 1 .. k : f[i] = g[i][f[i - 1]]
           Solved == { k \in 0 .. n : \E f : Solves(f, k) }
<1>1. 0 \in Solved
  <2>1. Solves([i \in 0 .. 0 |-> a], 0) OBVIOUS
  <2> HIDE DEF Solves
  <2> QED BY <2>1
<1>2. ASSUME NEW k \in 1 .. n, k - 1 \in Solved PROVE k \in Solved
  <2>1. PICK f : Solves(f, k - 1) BY <1>2
  <2> DEFINE e == [i \in 0 .. k |-> IF i = k THEN g[k][f[k - 1]] ELSE f[i]]
  <2>2. k \in Nat /\ k # 0 /\ k - 1 \in 0 .. k - 1 OBVIOUS
  <2>3. f \in [0 .. k - 1 -> S] /\ f[k - 1] \in S BY <2>1, <2>2
  <2>4. g[k][f[k - 1]] \in S BY <2>3
  <2>5. e \in [0 .. k -> S] BY <2>2, <2>3, <2>4
  <2>6. e[0] = a BY <2>1, <2>2
  <2>7. ASSUME NEW i \in 1 .. k PROVE e[i] = g[i][e[i - 1]]
    <3>1. i \in 0 .. k /\ i - 1 \in 0 .. k /\ i - 1 # k /\ (i # k => i \in 1 .. k - 1)
      BY <2>2
    <3>2. e[i - 1] = f[i - 1] BY <3>1
    <3> QED BY <2>1, <3>1, <3>2
  <2>8. Solves(e, k) BY <2>5, <2>6, <2>7
  <2> HIDE DEF Solves
  <2> QED BY <2>8
<1>3. n \in Solved
  <2> HIDE DEF Solved
  <2>1. \A i \in 0 .. n : i \in Solved BY <1>1, <1>2, CountUp
  <2> QED BY <2>1
<1> QED BY <1>3 DEF Follows

(* What is chosen of a sequence is in it and in the set, and it is all of  *)
(* it that is in the set.                                                  *)
Picks(seq, picked, S) ==
    /\ \A j \in DOMAIN picked : picked[j] \in S
    /\ \A i \in DOMAIN seq : seq[i] \in S => \E j \in DOMAIN picked : picked[j] = seq[i]

LEMMA ChosenOK ==
    ASSUME NEW T, NEW seq \in Seq(T), NEW S
    PROVE  Chosen(seq, S) \in Seq(T) /\ Picks(seq, Chosen(seq, S), S)
<1> DEFINE n == Len(seq)
           next(f, i) == IF i = 0 THEN << >>
                         ELSE IF seq[i] \in S THEN Append(f[i - 1], seq[i]) ELSE f[i - 1]
           upTo == CHOOSE f : f = [i \in 0 .. n |-> next(f, i)]
<1>1. n \in Nat /\ DOMAIN seq = 1 .. n /\ \A i \in 1 .. n : seq[i] \in T OBVIOUS
<1>2. Chosen(seq, S) = upTo[n] BY DEF Chosen
<1> DEFINE g == [i \in 1 .. n |->
                    [s \in Seq(T) |-> IF seq[i] \in S THEN Append(s, seq[i]) ELSE s]]
<1>3. g \in Ways(n, Seq(T))
  <2>1. ASSUME NEW i \in 1 .. n, NEW s \in Seq(T)
        PROVE  (IF seq[i] \in S THEN Append(s, seq[i]) ELSE s) \in Seq(T)
    BY <1>1
  <2> QED BY <2>1 DEF Ways
<1>4. PICK f \in [0 .. n -> Seq(T)] : Follows(f, n, << >>, g)
  <2>1. << >> \in Seq(T) OBVIOUS
  <2> HIDE DEF g, n
  <2> QED BY <1>1, <1>3, <2>1, Recursion
<1>5. ASSUME NEW i \in 0 .. n PROVE f[i] = next(f, i)
  <2>1. CASE i = 0 BY <1>4, <2>1 DEF Follows
  <2>2. CASE i # 0
    <3>1. i \in 1 .. n /\ i - 1 \in 0 .. n BY <1>1, <2>2
    <3>2. f[i] = g[i][f[i - 1]] BY <1>4, <3>1 DEF Follows
    <3>3. f[i - 1] \in Seq(T) BY <3>1
    <3> QED BY <2>2, <3>1, <3>2, <3>3
  <2> QED BY <2>1, <2>2
<1>6. f = [i \in 0 .. n |-> next(f, i)] BY <1>5
<1>7. upTo = [i \in 0 .. n |-> next(upTo, i)] BY <1>6, Zenon
<1> HIDE DEF upTo, g
<1> DEFINE Good(s, k) ==
               /\ s \in Seq(T)
               /\ \A j \in 1 .. Len(s) : s[j] \in S
               /\ \A i \in 1 .. k : seq[i] \in S => \E j \in 1 .. Len(s) : s[j] = seq[i]
           Reached == { i \in 0 .. n : Good(upTo[i], i) }
<1>8. 0 \in Reached
  <2>1. 0 \in 0 .. n /\ upTo[0] = << >> BY <1>1, <1>7
  <2>2. 1 .. 0 = {} /\ << >> \in Seq(T) /\ 1 .. Len(<< >>) = {} OBVIOUS
  <2>3. Good(<< >>, 0) BY <2>2
  <2> HIDE DEF Good
  <2> QED BY <2>1, <2>3
<1>9. ASSUME NEW i \in 1 .. n, i - 1 \in Reached PROVE i \in Reached
  <2> DEFINE s == upTo[i - 1]
  <2>1. i \in 0 .. n /\ i \in Nat /\ i # 0 /\ seq[i] \in T BY <1>1
  <2>2. upTo[i] = IF seq[i] \in S THEN Append(s, seq[i]) ELSE s BY <1>7, <2>1
  <2>3. Good(s, i - 1) BY <1>9
  <2> HIDE DEF s
  <2>4. CASE seq[i] \in S
    <3> DEFINE t == Append(s, seq[i])
    <3>1. t \in Seq(T) /\ Len(t) = Len(s) + 1 /\ Len(s) \in Nat BY <2>1, <2>3
    <3>2. t[Len(t)] = seq[i] /\ \A j \in 1 .. Len(s) : t[j] = s[j] BY <2>1, <2>3
    <3> HIDE DEF t
    <3>3. ASSUME NEW j \in 1 .. Len(t) PROVE t[j] \in S
      <4>1. CASE j = Len(t) BY <2>4, <3>2, <4>1
      <4>2. CASE j # Len(t)
        <5>1. j \in 1 .. Len(s) BY <3>1, <4>2
        <5> QED BY <2>3, <3>2, <5>1
      <4> QED BY <4>1, <4>2
    <3>4. ASSUME NEW k \in 1 .. i, seq[k] \in S
          PROVE  \E j \in 1 .. Len(t) : t[j] = seq[k]
      <4>1. CASE k = i BY <3>1, <3>2, <4>1
      <4>2. CASE k # i
        <5>1. k \in 1 .. i - 1 BY <2>1, <4>2
        <5>2. PICK j \in 1 .. Len(s) : s[j] = seq[k] BY <2>3, <3>4, <5>1
        <5> QED BY <3>1, <3>2, <5>2
      <4> QED BY <4>1, <4>2
    <3>5. Good(t, i) BY <3>1, <3>3, <3>4
    <3> QED BY <2>1, <2>2, <2>4, <3>5 DEF t
  <2>5. CASE seq[i] \notin S
    <3>1. Good(s, i)
      <4>1. \A k \in 1 .. i : seq[k] \in S => k \in 1 .. i - 1 BY <2>1, <2>5
      <4> QED BY <2>3, <4>1
    <3> QED BY <2>1, <2>2, <2>5, <3>1
  <2> QED BY <2>4, <2>5
<1>10. Good(upTo[n], n)
  <2> HIDE DEF Good
  <2>1. \A i \in 0 .. n : i \in Reached
    <3> HIDE DEF Reached
    <3> QED BY <1>1, <1>8, <1>9, CountUp
  <2> QED BY <1>1, <2>1
<1>11. Good(Chosen(seq, S), n)
  <2> HIDE DEF Good
  <2> QED BY <1>2, <1>10
<1> HIDE DEF n
<1> DEFINE picked == Chosen(seq, S)
<1>12. DOMAIN picked = 1 .. Len(picked) BY <1>11
<1> HIDE DEF picked
<1> QED BY <1>1, <1>11, <1>12 DEF picked, Picks

(* The backends choose by the same operator.                               *)
LEMMA DaemonChosen ==
    ASSUME NEW T, NEW seq \in Seq(T), NEW S
    PROVE  Daemon!Chosen(seq, S) \in Seq(T) /\ Picks(seq, Daemon!Chosen(seq, S), S)
<1>1. Daemon!Chosen(seq, S) = Chosen(seq, S) BY DEF Chosen, Daemon!Chosen
<1> QED BY <1>1, ChosenOK

-----------------------------------------------------------------------------
(***************************************************************************)
(* The list of history                                                     *)
(***************************************************************************)

LEMMA DaemonFinite ==
    ASSUME NEW S
    PROVE  Daemon!Cardinality(S) = Cardinality(S) /\ Daemon!IsFiniteSet(S) = IsFiniteSet(S)
<1>1. Daemon!Cardinality(S) = Cardinality(S) BY Zenon DEF Cardinality, Daemon!Cardinality
<1>2. Daemon!IsFiniteSet(S) = IsFiniteSet(S) BY Zenon DEF IsFiniteSet, Daemon!IsFiniteSet
<1> QED BY <1>1, <1>2

(* A set of numbers up to n has a greatest one.                            *)
LEMMA GreatestNumber ==
    ASSUME NEW n \in Nat, NEW S, S \subseteq 0 .. n, S # {}
    PROVE  \E x \in S : \A y \in S : x >= y
<1> DEFINE T == {n - x : x \in S}
<1>1. T \subseteq Nat /\ T # {} OBVIOUS
<1>2. PICK t \in T : \A u \in T : t <= u
  <2> HIDE DEF T
  <2> QED BY <1>1, LeastNumber
<1>3. PICK x \in S : t = n - x OBVIOUS
<1>4. ASSUME NEW y \in S PROVE x >= y
  <2>1. t <= n - y BY <1>2
  <2>2. x \in 0 .. n /\ y \in 0 .. n OBVIOUS
  <2> QED BY <1>3, <2>1, <2>2
<1> QED BY <1>4

LEMMA HistoryPart ==
    ASSUME NEW H, Daemon!HistoryOK(H), NEW K, K \subseteq H
    PROVE  Daemon!HistoryOK(K)
<1>1. IsFiniteSet(H) BY DaemonFinite DEF Daemon!HistoryOK
<1>2. Daemon!IsFiniteSet(K) BY <1>1, FS_Subset, DaemonFinite
<1> QED BY <1>2 DEF Daemon!HistoryOK

LEMMA PlacesOK ==
    ASSUME NEW H, Daemon!HistoryOK(H), NEW h \in H
    PROVE  h.at \in 1 .. MaxPlace
<1>1. h \in [scope : Daemon!Scopes, seq : {h.seq}, at : 1 .. MaxPlace, old : BOOLEAN]
  BY DEF Daemon!HistoryOK
<1> QED BY <1>1

(* The next place is behind all that are taken.                            *)
LEMMA NextPlaceOK ==
    ASSUME NEW c, Daemon!HistoryOK(c.history)
    PROVE  /\ Daemon!NextPlace(c) \in Nat \ {0}
           /\ \A h \in c.history : h.at < Daemon!NextPlace(c)
<1> DEFINE S == {0} \cup {h.at : h \in c.history}
<1>1. MaxPlace \in Nat BY CatalogAssumptions DEF Daemon!CatalogAssumption
<1>2. S \subseteq 0 .. MaxPlace /\ S # {} BY <1>1, PlacesOK
<1>3. \A h \in c.history : h.at \in S OBVIOUS
<1>4. Daemon!NextPlace(c) = 1 + Daemon!Max(S) BY DEF Daemon!NextPlace
<1> HIDE DEF S
<1>5. \E x \in S : \A y \in S : x >= y BY <1>1, <1>2, GreatestNumber
<1>6. Daemon!Max(S) \in S /\ \A y \in S : Daemon!Max(S) >= y BY <1>5 DEF Daemon!Max
<1>7. \A y \in S : y \in Nat BY <1>2
<1>8. Daemon!Max(S) \in Nat BY <1>6, <1>7
<1>9. ASSUME NEW h \in c.history PROVE h.at < Daemon!NextPlace(c)
  <2>1. h.at \in Nat /\ Daemon!Max(S) >= h.at BY <1>3, <1>6, <1>7
  <2> QED BY <1>4, <1>8, <2>1
<1> QED BY <1>4, <1>8, <1>9

(* What the cut takes away makes room for as many newer chunks as there    *)
(* may be: of those taken away, take the newest.                           *)
LEMMA CutMakesRoom ==
    ASSUME NEW H, Daemon!HistoryOK(H), NEW h \in H, h \notin Daemon!Newest(H)
    PROVE  Daemon!Cardinality(Daemon!Newer(Daemon!Newest(H), h)) >= MaxChunks
<1> DEFINE N == Daemon!Newest(H)
           Places == {x.at : x \in H \ N}
<1>1. MaxPlace \in Nat /\ MaxChunks \in Nat
  BY CatalogAssumptions DEF Daemon!CatalogAssumption
<1>2. PICK p \in Places : \A q \in Places : p >= q
  <2>1. Places \subseteq 0 .. MaxPlace BY <1>1, PlacesOK
  <2>2. Places # {} OBVIOUS
  <2> HIDE DEF Places
  <2> QED BY <1>1, <2>1, <2>2, GreatestNumber
<1>3. PICK x \in H \ N : p = x.at OBVIOUS
<1>4. x.at >= h.at BY <1>2, <1>3
<1>5. \A k \in H : k.at \in Nat BY <1>1, PlacesOK
<1>6. ASSUME NEW k \in Daemon!Newer(H, x) PROVE k \in Daemon!Newer(N, h)
  <2>1. k \in H /\ k.at > x.at BY DEF Daemon!Newer
  <2>2. k \in N
    <3>1. CASE k \notin N
      <4>1. x.at >= k.at BY <1>2, <1>3, <2>1, <3>1
      <4> QED BY <1>3, <1>5, <2>1, <4>1
    <3> QED BY <3>1
  <2>3. k.at > h.at BY <1>3, <1>4, <1>5, <2>1
  <2> QED BY <2>2, <2>3 DEF Daemon!Newer
<1>7. IsFiniteSet(H) BY DaemonFinite DEF Daemon!HistoryOK
<1>8. Daemon!Newer(N, h) \subseteq H BY DEF Daemon!Newer, Daemon!Newest
<1> HIDE DEF N
<1>9. IsFiniteSet(Daemon!Newer(N, h)) BY <1>7, <1>8, FS_Subset
<1>10. /\ IsFiniteSet(Daemon!Newer(H, x))
       /\ Cardinality(Daemon!Newer(H, x)) <= Cardinality(Daemon!Newer(N, h))
  BY <1>6, <1>9, FS_Subset
<1>11. Cardinality(Daemon!Newer(H, x)) \in Nat /\ Cardinality(Daemon!Newer(N, h)) \in Nat
  BY <1>9, <1>10, FS_CardinalityType
<1>12. ~ (Daemon!Cardinality(Daemon!Newer(H, x)) < MaxChunks)
  BY <1>3 DEF N, Daemon!Newest
<1>13. /\ Daemon!Cardinality(Daemon!Newer(H, x)) = Cardinality(Daemon!Newer(H, x))
       /\ Daemon!Cardinality(Daemon!Newer(N, h)) = Cardinality(Daemon!Newer(N, h))
  BY DaemonFinite
<1>14. Cardinality(Daemon!Newer(N, h)) >= MaxChunks BY <1>1, <1>10, <1>11, <1>12, <1>13
<1> QED BY <1>13, <1>14 DEF N

-----------------------------------------------------------------------------
(***************************************************************************)
(* The runtime                                                             *)
(***************************************************************************)

LEMMA PaneFacts ==
    /\ \A p \in Daemon!AllPanes :
          Daemon!Home(p) \in Daemon!Sessions /\ p[2] \in 1 .. MaxPanes[Daemon!Home(p)]
          /\ p = << Daemon!Home(p), p[2] >>
    /\ \A s \in Daemon!Sessions : \A n \in 1 .. MaxPanes[s] : << s, n >> \in Daemon!AllPanes
<1>1. \A s \in Daemon!Sessions : MaxPanes[s] \in Nat /\ DOMAIN Daemon!InOrder(s) = 1 .. MaxPanes[s]
  BY CatalogAssumptions DEF Daemon!CatalogAssumption, Daemon!InOrder
<1>2. ASSUME NEW p \in Daemon!AllPanes
      PROVE  /\ Daemon!Home(p) \in Daemon!Sessions /\ p[2] \in 1 .. MaxPanes[Daemon!Home(p)]
             /\ p = << Daemon!Home(p), p[2] >>
  <2>1. PICK s \in Daemon!Sessions : p \in Daemon!ToSet(Daemon!InOrder(s))
    BY DEF Daemon!AllPanes
  <2>2. PICK n \in 1 .. MaxPanes[s] : p = << s, n >>
    BY <2>1, <1>1 DEF Daemon!ToSet, Daemon!InOrder
  <2> QED BY <2>2 DEF Daemon!Home
<1>3. ASSUME NEW s \in Daemon!Sessions, NEW n \in 1 .. MaxPanes[s]
      PROVE  << s, n >> \in Daemon!AllPanes
  <2>1. Daemon!InOrder(s)[n] = << s, n >> BY DEF Daemon!InOrder
  <2>2. << s, n >> \in Daemon!ToSet(Daemon!InOrder(s)) BY <1>1, <2>1 DEF Daemon!ToSet
  <2> QED BY <2>2 DEF Daemon!AllPanes
<1> QED BY <1>2, <1>3

LEMMA InOrderOK ==
    ASSUME NEW s \in Daemon!Sessions
    PROVE  /\ Daemon!InOrder(s) \in Seq(Daemon!AllPanes)
           /\ \A p \in Daemon!AllPanes : Daemon!Home(p) = s =>
                  \E i \in DOMAIN Daemon!InOrder(s) : Daemon!InOrder(s)[i] = p
<1>1. MaxPanes[s] \in Nat BY CatalogAssumptions DEF Daemon!CatalogAssumption
<1>2. \A n \in 1 .. MaxPanes[s] : << s, n >> \in Daemon!AllPanes BY PaneFacts
<1>3. Daemon!InOrder(s) \in Seq(Daemon!AllPanes) BY <1>1, <1>2 DEF Daemon!InOrder
<1>4. ASSUME NEW p \in Daemon!AllPanes, Daemon!Home(p) = s
      PROVE  \E i \in DOMAIN Daemon!InOrder(s) : Daemon!InOrder(s)[i] = p
  <2>1. p[2] \in 1 .. MaxPanes[s] /\ p = << s, p[2] >> BY <1>4, PaneFacts
  <2> QED BY <2>1 DEF Daemon!InOrder
<1> QED BY <1>3, <1>4

(* A pane of the runtime is one of a session, in a tab.                    *)
LEMMA RuntimePanes ==
    ASSUME NEW g, Daemon!RuntimeOK(g), NEW p \in DOMAIN g.panes
    PROVE  /\ p \in Daemon!AllPanes /\ Daemon!Home(p) \in Daemon!Sessions
           /\ g.panes[p] \in [tab : Daemon!Tabs, state : {"live", "exited"}, agent : BOOLEAN]
           /\ g.panes[p].tab \in Daemon!Tabs /\ g.panes[p].state \in {"live", "exited"}
           /\ p \in Daemon!PanesOf(g, Daemon!Home(p)) /\ Daemon!Exists(g, Daemon!Home(p))
<1>1. p \in Daemon!AllPanes BY DEF Daemon!RuntimeOK
<1>2. g.panes[p] \in [tab : Daemon!Tabs, state : {"live", "exited"}, agent : BOOLEAN]
  BY DEF Daemon!RuntimeOK
<1>3. g.panes[p].tab \in Daemon!Tabs BY <1>2
<1>4. g.panes[p].state \in {"live", "exited"} BY <1>2
<1>5. p \in Daemon!PanesOf(g, Daemon!Home(p)) BY DEF Daemon!PanesOf
<1> QED BY <1>1, <1>2, <1>3, <1>4, <1>5, PaneFacts DEF Daemon!Exists

LEMMA PanesInOK ==
    ASSUME NEW g, Daemon!RuntimeOK(g), NEW s \in Daemon!Sessions, NEW tab
    PROVE  /\ Daemon!PanesIn(g, s, tab) \in Seq(Daemon!PanesOf(g, s))
           /\ \A p \in Daemon!PanesOf(g, s) : g.panes[p].tab = tab =>
                  \E j \in DOMAIN Daemon!PanesIn(g, s, tab) : Daemon!PanesIn(g, s, tab)[j] = p
<1> DEFINE here == {p \in Daemon!PanesOf(g, s) : g.panes[p].tab = tab}
           picked == Daemon!PanesIn(g, s, tab)
<1>1. picked = Daemon!Chosen(Daemon!InOrder(s), here) BY DEF Daemon!PanesIn
<1>2. Daemon!InOrder(s) \in Seq(Daemon!AllPanes) BY InOrderOK
<1>3. picked \in Seq(Daemon!AllPanes) /\ Picks(Daemon!InOrder(s), picked, here)
  <2> HIDE DEF here, picked
  <2> QED BY <1>1, <1>2, DaemonChosen
<1>4. \A j \in DOMAIN picked : picked[j] \in Daemon!PanesOf(g, s) BY <1>3 DEF Picks
<1>5. picked \in Seq(Daemon!PanesOf(g, s))
  <2> HIDE DEF picked, here
  <2>1. Len(picked) \in Nat /\ DOMAIN picked = 1 .. Len(picked) BY <1>3
  <2>2. picked = [j \in 1 .. Len(picked) |-> picked[j]] BY <1>3, <2>1
  <2> QED BY <1>4, <2>1, <2>2
<1>6. ASSUME NEW p \in Daemon!PanesOf(g, s), g.panes[p].tab = tab
      PROVE  \E j \in DOMAIN picked : picked[j] = p
  <2>1. p \in DOMAIN g.panes /\ Daemon!Home(p) = s BY DEF Daemon!PanesOf
  <2>2. p \in Daemon!AllPanes BY <2>1, RuntimePanes
  <2>3. PICK i \in DOMAIN Daemon!InOrder(s) : Daemon!InOrder(s)[i] = p BY <2>1, <2>2, InOrderOK
  <2>4. p \in here BY <1>6
  <2> HIDE DEF picked, here
  <2> QED BY <1>3, <2>3, <2>4 DEF Picks
<1> QED BY <1>5, <1>6

LEMMA SurfaceOK ==
    ASSUME NEW g, Daemon!RuntimeOK(g), NEW p \in DOMAIN g.panes
    PROVE  Daemon!SurfaceOf(g, p) \in Daemon!SurfaceIds
<1> DEFINE Named == {Daemon!ToString(q[2]) : q \in Daemon!AllPanes}
<1>1. p \in Daemon!AllPanes /\ g.panes[p].tab \in Daemon!Tabs BY RuntimePanes
<1>2. Daemon!ToString(p[2]) \in Named BY <1>1
<1>3. Daemon!SurfaceIds = Daemon!Tabs \X ({Daemon!Primary} \cup Named) BY DEF Daemon!SurfaceIds
<1> HIDE DEF Named
<1> QED BY <1>1, <1>2, <1>3 DEF Daemon!SurfaceOf

(* What is observed of a session has a surface for each of its panes.      *)
LEMMA ObservedOK ==
    ASSUME NEW g, Daemon!RuntimeOK(g), NEW s \in Daemon!Sessions
    PROVE  /\ Daemon!Observed(g, s) \in Daemon!States
           /\ \A p \in Daemon!PanesOf(g, s) :
                  Daemon!HasSurface(Daemon!Observed(g, s), Daemon!SurfaceOf(g, p))
<1> DEFINE tabs == Daemon!Chosen(TabOrder, Daemon!TabsOf(g, s))
           ps(i) == Daemon!PanesIn(g, s, tabs[i])
           surfaces(i) == [j \in DOMAIN ps(i) |-> Daemon!SurfaceOf(g, ps(i)[j])]
           obs == Daemon!Observed(g, s)
<1>1. obs = [i \in DOMAIN tabs |-> Daemon!Window(tabs[i], surfaces(i))] BY DEF Daemon!Observed
<1>2. TabOrder \in Seq(Daemon!Tabs) BY CatalogAssumptions DEF Daemon!CatalogAssumption
<1>3. tabs \in Seq(Daemon!Tabs) /\ Picks(TabOrder, tabs, Daemon!TabsOf(g, s))
  BY <1>2, DaemonChosen
<1> HIDE DEF tabs
<1>4. ASSUME NEW i \in DOMAIN tabs
      PROVE  /\ ps(i) \in Seq(Daemon!PanesOf(g, s))
             /\ surfaces(i) \in Seq(Daemon!SurfaceIds)
             /\ DOMAIN surfaces(i) = DOMAIN ps(i)
  <2>1. ps(i) \in Seq(Daemon!PanesOf(g, s)) BY PanesInOK
  <2>2. \A j \in DOMAIN ps(i) : ps(i)[j] \in Daemon!PanesOf(g, s)
    <3> HIDE DEF ps
    <3> QED BY <2>1
  <2>3. \A j \in DOMAIN ps(i) : Daemon!SurfaceOf(g, ps(i)[j]) \in Daemon!SurfaceIds
    <3> HIDE DEF ps
    <3> QED BY <2>2, SurfaceOK DEF Daemon!PanesOf
  <2> HIDE DEF ps
  <2>4. Len(ps(i)) \in Nat /\ DOMAIN ps(i) = 1 .. Len(ps(i)) BY <2>1
  <2>5. surfaces(i) \in Seq(Daemon!SurfaceIds) BY <2>3, <2>4
  <2> QED BY <2>1, <2>5
<1>5. obs \in Daemon!States
  <2>1. DOMAIN tabs = 1 .. Len(tabs) /\ Len(tabs) \in Nat /\ \A i \in DOMAIN tabs : tabs[i] \in Daemon!Tabs
    BY <1>3
  <2> HIDE DEF surfaces
  <2>2. \A i \in DOMAIN tabs : Daemon!Window(tabs[i], surfaces(i)) \in
            [name : Daemon!Tabs, surfaces : Seq(Daemon!SurfaceIds)]
    BY <1>4, <2>1 DEF Daemon!Window
  <2> QED BY <1>1, <2>1, <2>2 DEF Daemon!States
<1>6. ASSUME NEW p \in Daemon!PanesOf(g, s)
      PROVE  Daemon!HasSurface(obs, Daemon!SurfaceOf(g, p))
  <2> DEFINE tab == g.panes[p].tab
  <2>1. p \in DOMAIN g.panes /\ Daemon!Home(p) = s BY DEF Daemon!PanesOf
  <2>2. tab \in Daemon!Tabs BY <2>1, RuntimePanes
  <2>3. PICK k \in DOMAIN TabOrder : TabOrder[k] = tab
    BY <2>2 DEF Daemon!Tabs, Daemon!ToSet
  <2>4. tab \in Daemon!TabsOf(g, s) BY DEF Daemon!TabsOf
  <2>5. PICK i \in DOMAIN tabs : tabs[i] = tab BY <1>3, <2>3, <2>4 DEF Picks
  <2>6. PICK j \in DOMAIN ps(i) : ps(i)[j] = p BY <2>5, PanesInOK
  <2>7. surfaces(i)[j] = Daemon!SurfaceOf(g, p) BY <2>6
  <2>8. obs[i].surfaces = surfaces(i) /\ i \in DOMAIN obs
    <3> HIDE DEF surfaces
    <3> QED BY <1>1 DEF Daemon!Window
  <2>9. j \in DOMAIN surfaces(i) BY <2>6
  <2> HIDE DEF surfaces, obs, ps
  <2> QED BY <2>7, <2>8, <2>9 DEF Daemon!HasSurface, Daemon!ToSet
<1> QED BY <1>5, <1>6

-----------------------------------------------------------------------------
(***************************************************************************)
(* What a projection consists of                                           *)
(***************************************************************************)

Present(g) == {s \in Daemon!Sessions : Daemon!Exists(g, s)}
Spaces(prev, g) ==
    LET running == Daemon!ProjectWorkspaces(prev, g)
    IN  Daemon!Over(running, [s \in Daemon!BroughtBack(prev, g, running) |->
                                 prev.workspaces[s]])
Lost(prev, g) ==
    {t \in Daemon!LostTerminals(prev, g) : Daemon!Home(t) \in DOMAIN Spaces(prev, g)}
Done(prev, g) == Daemon!LostAgents(prev, g, Spaces(prev, g))
AllTerminals(prev, g) ==
    Daemon!Over(Daemon!ProjectTerminals(g),
                [t \in Lost(prev, g) |-> Daemon!RetainedTerminal(prev, t)])
AllAgents(prev, g) ==
    Daemon!Over(Daemon!ProjectAgents(prev, g),
                [a \in Done(prev, g) |-> Daemon!RetainedAgent(prev, a)])

(* What history is about, when terminals and agents are those of two sets. *)
About(scope, terminals, agents) ==
    scope.of \in IF scope.kind = "agent" THEN agents ELSE terminals

Remembered(prev, g) ==
    {h \in prev.history :
        About(h.scope, DOMAIN AllTerminals(prev, g), DOMAIN AllAgents(prev, g))}
Stored(prev, g) == {s \in prev.snapshots : s.workspace \in DOMAIN Spaces(prev, g)}
Planned(prev, g) ==
    {p \in prev.plans : /\ p.snapshot \in Daemon!Ids(Stored(prev, g))
                        /\ p.workspace \in DOMAIN Spaces(prev, g)}
Nils(prev, g) ==
    (DOMAIN Daemon!ProjectWorkspaces(prev, g) \ Present(g))
        \cup IF Remembered(prev, g) = {} THEN {"history"} ELSE {}

Projection(prev, g) ==
    [up |-> TRUE,
     workspaces |-> Daemon!Listed(Spaces(prev, g), DOMAIN AllTerminals(prev, g),
                                  DOMAIN AllAgents(prev, g)),
     terminals |-> AllTerminals(prev, g), agents |-> AllAgents(prev, g),
     views |-> Daemon!ProjectActive(prev, g, Spaces(prev, g)),
     history |-> Remembered(prev, g), snapshots |-> Stored(prev, g),
     plans |-> Planned(prev, g), keep |-> prev.keep, nil |-> Nils(prev, g)]

LEMMA ProjectionParts ==
    ASSUME NEW prev, NEW g
    PROVE  Daemon!ProjectRuntime(prev, g) = Projection(prev, g)
<1> DEFINE W == Daemon!Listed(Spaces(prev, g), DOMAIN AllTerminals(prev, g),
                              DOMAIN AllAgents(prev, g))
           V == Daemon!ProjectActive(prev, g, Spaces(prev, g))
           N == DOMAIN Daemon!ProjectWorkspaces(prev, g) \ Present(g)
           T == AllTerminals(prev, g)
           A == AllAgents(prev, g)
           bare == [up |-> TRUE, workspaces |-> W, terminals |-> T, agents |-> A,
                    views |-> V, history |-> {}, snapshots |-> {}, plans |-> {},
                    keep |-> prev.keep, nil |-> N]
<1>1. Daemon!ProjectRuntime(prev, g) = Daemon!RetainDurable(prev, bare)
  BY Zenon DEF Daemon!ProjectRuntime, Daemon!Completed, Spaces, Lost, Done, AllTerminals,
         AllAgents, Present
<1>2. DOMAIN W = DOMAIN Spaces(prev, g) BY DEF Daemon!Listed
<1> HIDE DEF W, V, N, T, A
<1>3. /\ bare.workspaces = W /\ bare.terminals = T /\ bare.agents = A /\ bare.nil = N
  OBVIOUS
<1> HIDE DEF bare
<1>4. {h \in prev.history : Daemon!ValidScope(bare, h.scope)} = Remembered(prev, g)
  BY <1>3 DEF Daemon!ValidScope, Remembered, About, T, A
<1>5. {s \in prev.snapshots : s.workspace \in DOMAIN bare.workspaces} = Stored(prev, g)
  BY <1>2, <1>3 DEF Stored
<1>6. {p \in prev.plans : /\ p.snapshot \in Daemon!Ids(Stored(prev, g))
                          /\ p.workspace \in DOMAIN bare.workspaces} = Planned(prev, g)
  BY <1>2, <1>3 DEF Planned
<1>7. Daemon!RetainDurable(prev, bare) =
        [bare EXCEPT !.history = Remembered(prev, g), !.snapshots = Stored(prev, g),
                     !.plans = Planned(prev, g),
                     !.nil = IF Remembered(prev, g) = {} THEN @ \cup {"history"} ELSE @]
  BY <1>4, <1>5, <1>6, Zenon DEF Daemon!RetainDurable
<1>8. (IF Remembered(prev, g) = {} THEN N \cup {"history"} ELSE N) = Nils(prev, g)
  BY DEF N, Nils
<1>9. Daemon!ProjectRuntime(prev, g) =
        [bare EXCEPT !.history = Remembered(prev, g), !.snapshots = Stored(prev, g),
                     !.plans = Planned(prev, g), !.nil = Nils(prev, g)]
  BY <1>1, <1>3, <1>7, <1>8
<1> QED BY <1>9 DEF Projection, bare, W, V, T, A

(* The workspaces that a projection makes itself                           *)
Vanishing(prev, g) ==
    (Daemon!Preserved(prev) \cap DOMAIN prev.workspaces)
        \ (Present(g) \cup DOMAIN Configured)
WasFrozen(prev, s) ==
    s \in DOMAIN prev.workspaces /\ prev.workspaces[s].status = "frozen"
Seeing(g, s) == IF s \in Present(g) THEN Daemon!Observed(g, s) ELSE << >>
Wanting(prev, g, s) ==
    IF s \in DOMAIN Configured
    THEN IF s \in Present(g)
         THEN Daemon!AlignDesired(Daemon!ConfiguredState(s), Daemon!Observed(g, s))
         ELSE Daemon!ConfiguredState(s)
    ELSE IF s \in Present(g) THEN Daemon!Observed(g, s) ELSE prev.workspaces[s].desired

(* What such a workspace is like, but for its lists                        *)
Shape(prev, g, s, w) ==
    /\ w.observed = Seeing(g, s)
    /\ IF WasFrozen(prev, s)
       THEN /\ w.status = "frozen" /\ w.desired = prev.workspaces[s].desired
            /\ w.drift = (s \in Vanishing(prev, g) /\ w.desired # << >>)
       ELSE /\ w.desired = Wanting(prev, g, s)
            /\ w.status = IF w.desired = w.observed THEN "ok" ELSE "drift"
            /\ w.drift = (w.desired # w.observed)

IsWorkspace(w) ==
    w = [desired |-> w.desired, observed |-> w.observed, status |-> w.status,
         drift |-> w.drift, terminals |-> w.terminals, agents |-> w.agents]

LEMMA RunningDomain ==
    ASSUME NEW prev, NEW g
    PROVE  DOMAIN Daemon!ProjectWorkspaces(prev, g) =
              Present(g) \cup DOMAIN Configured \cup Vanishing(prev, g)
<1>1. Present(g) \cup (DOMAIN Configured \ Present(g))
        \cup ((Daemon!Preserved(prev) \cap DOMAIN prev.workspaces)
                 \ (Present(g) \cup (DOMAIN Configured \ Present(g))))
      = Present(g) \cup DOMAIN Configured \cup Vanishing(prev, g)
  BY DEF Vanishing
<1> QED BY <1>1 DEF Daemon!ProjectWorkspaces, Present

FrozenOrNot(prev, s, want, obs, w) ==
    /\ IsWorkspace(w) /\ w.observed = obs /\ w.terminals = {} /\ w.agents = {}
    /\ IF WasFrozen(prev, s)
       THEN /\ w.status = "frozen" /\ w.desired = prev.workspaces[s].desired
            /\ w.drift = FALSE
       ELSE /\ w.desired = want
            /\ w.status = IF w.desired = w.observed THEN "ok" ELSE "drift"
            /\ w.drift = (w.desired # w.observed)

LEMMA FreezeKept ==
    ASSUME NEW prev, NEW s, NEW want, NEW obs
    PROVE  FrozenOrNot(prev, s, want, obs,
                       Daemon!KeepFrozen(prev, s, Daemon!Classified(want, obs)))
<1> DEFINE c == Daemon!Classified(want, obs)
           st == IF want = obs THEN "ok" ELSE "drift"
           w == Daemon!KeepFrozen(prev, s, c)
<1>1. c = [desired |-> want, observed |-> obs, status |-> st,
           drift |-> (st # "frozen" /\ want # obs), terminals |-> {}, agents |-> {}]
  BY DEF Daemon!Classified, Daemon!Workspace
<1>2. st # "frozen" OBVIOUS
<1>3. CASE WasFrozen(prev, s)
  <2>1. w = [c EXCEPT !.status = "frozen", !.drift = FALSE,
                      !.desired = prev.workspaces[s].desired]
    BY <1>3 DEF Daemon!KeepFrozen, WasFrozen
  <2> HIDE DEF st, c, w
  <2>2. w = [desired |-> prev.workspaces[s].desired, observed |-> obs, status |-> "frozen",
             drift |-> FALSE, terminals |-> {}, agents |-> {}]
    BY <1>1, <2>1
  <2>3. FrozenOrNot(prev, s, want, obs, w) BY <1>3, <2>2 DEF IsWorkspace, FrozenOrNot
  <2> QED BY <2>3 DEF w, c
<1>4. CASE ~WasFrozen(prev, s)
  <2>1. w = c BY <1>4 DEF Daemon!KeepFrozen, WasFrozen
  <2> HIDE DEF c, w
  <2>2. w.desired = want /\ w.observed = obs /\ w.status = st /\ w.terminals = {} /\ w.agents = {}
    BY <1>1, <2>1
  <2>3. w.drift = (want # obs) BY <1>1, <1>2, <2>1
  <2>4. IsWorkspace(w) BY <1>1, <2>1 DEF IsWorkspace
  <2>5. FrozenOrNot(prev, s, want, obs, w) BY <1>4, <2>2, <2>3, <2>4 DEF FrozenOrNot
  <2> QED BY <2>5 DEF w, c
<1> QED BY <1>3, <1>4

LEMMA RunningShape ==
    ASSUME NEW prev, NEW g, NEW s \in Present(g) \cup DOMAIN Configured \cup Vanishing(prev, g)
    PROVE  LET w == Daemon!ProjectWorkspaces(prev, g)[s]
           IN  IsWorkspace(w) /\ Shape(prev, g, s, w)
<1> DEFINE present == {u \in Daemon!Sessions : Daemon!Exists(g, u)}
           declared == DOMAIN Configured \ present
           obs == Daemon!Observed(g, s)
           want == IF s \in DOMAIN Configured
                   THEN Daemon!AlignDesired(Daemon!ConfiguredState(s), obs) ELSE obs
           w == Daemon!ProjectWorkspaces(prev, g)[s]
           k == Daemon!KeepFrozen(prev, s, Daemon!Classified(want, obs))
           d == Daemon!KeepFrozen(prev, s, Daemon!Classified(Daemon!ConfiguredState(s), << >>))
<1>1. w = IF s \in present THEN [k EXCEPT !.terminals = Daemon!PanesOf(g, s)]
          ELSE IF s \in declared THEN d
          ELSE Daemon!Vanished(prev, s)
  <2>1. s \in present \cup declared \cup ((Daemon!Preserved(prev) \cap DOMAIN prev.workspaces)
                                             \ (present \cup declared))
    BY DEF Present, Vanishing
  <2> QED BY <2>1 DEF Daemon!ProjectWorkspaces
<1>2. present = Present(g) BY DEF Present
<1>3. CASE s \in Present(g)
  <2>1. s \notin Vanishing(prev, g) BY <1>3 DEF Vanishing
  <2>2. want = Wanting(prev, g, s) /\ obs = Seeing(g, s) BY <1>3 DEF Wanting, Seeing
  <2> HIDE DEF want, obs
  <2>3. FrozenOrNot(prev, s, want, obs, k) BY FreezeKept
  <2> HIDE DEF k
  <2>4. w = [k EXCEPT !.terminals = Daemon!PanesOf(g, s)] BY <1>1, <1>2, <1>3
  <2> HIDE DEF w
  <2>5. w = [desired |-> k.desired, observed |-> k.observed, status |-> k.status,
             drift |-> k.drift, terminals |-> Daemon!PanesOf(g, s), agents |-> k.agents]
    BY <2>3, <2>4 DEF IsWorkspace, FrozenOrNot
  <2>6. IsWorkspace(w) BY <2>5 DEF IsWorkspace
  <2>7. /\ w.desired = k.desired /\ w.observed = k.observed /\ w.status = k.status
        /\ w.drift = k.drift
    BY <2>5
  <2>8. CASE WasFrozen(prev, s)
    <3>1. k.drift = FALSE BY <2>3, <2>8 DEF FrozenOrNot
    <3>2. w.drift = (s \in Vanishing(prev, g) /\ w.desired # << >>) BY <2>1, <2>7, <3>1
    <3> QED BY <2>2, <2>3, <2>6, <2>7, <2>8, <3>2 DEF Shape, w, FrozenOrNot
  <2>9. CASE ~WasFrozen(prev, s) BY <2>2, <2>3, <2>6, <2>7, <2>9 DEF Shape, w, FrozenOrNot
  <2> QED BY <2>8, <2>9
<1>4. CASE s \notin Present(g) /\ s \in DOMAIN Configured
  <2>1. s \notin Vanishing(prev, g) BY <1>4 DEF Vanishing
  <2>2. w = d BY <1>1, <1>2, <1>4
  <2>3. Daemon!ConfiguredState(s) = Wanting(prev, g, s) /\ << >> = Seeing(g, s)
    BY <1>4 DEF Wanting, Seeing
  <2>4. FrozenOrNot(prev, s, Daemon!ConfiguredState(s), << >>, d) BY FreezeKept
  <2> HIDE DEF d, w
  <2>5. CASE WasFrozen(prev, s)
    <3>1. w.drift = (s \in Vanishing(prev, g) /\ w.desired # << >>) BY <2>1, <2>2, <2>4, <2>5 DEF FrozenOrNot
    <3> QED BY <2>2, <2>3, <2>4, <2>5, <3>1 DEF Shape, w, FrozenOrNot
  <2>6. CASE ~WasFrozen(prev, s) BY <2>2, <2>3, <2>4, <2>6 DEF Shape, w, FrozenOrNot
  <2> QED BY <2>5, <2>6
<1>5. CASE s \notin Present(g) /\ s \notin DOMAIN Configured
  <2> DEFINE old == prev.workspaces[s].desired
             c == Daemon!Classified(old, << >>)
             st == IF old = << >> THEN "ok" ELSE "drift"
  <2>1. s \in Vanishing(prev, g) /\ s \in DOMAIN prev.workspaces BY <1>5 DEF Vanishing
  <2>2. w = IF prev.workspaces[s].status = "frozen" THEN [c EXCEPT !.status = "frozen"] ELSE c
    BY <1>1, <1>2, <1>5 DEF Daemon!Vanished
  <2>3. << >> = Seeing(g, s) /\ old = Wanting(prev, g, s) BY <1>5 DEF Seeing, Wanting
  <2>4. c = [desired |-> old, observed |-> << >>, status |-> st,
             drift |-> (st # "frozen" /\ old # << >>), terminals |-> {}, agents |-> {}]
    BY DEF Daemon!Classified, Daemon!Workspace
  <2>5. st # "frozen" OBVIOUS
  <2> HIDE DEF w, c, st
  <2>6. CASE WasFrozen(prev, s)
    <3>1. w = [desired |-> old, observed |-> << >>, status |-> "frozen",
               drift |-> (st # "frozen" /\ old # << >>), terminals |-> {}, agents |-> {}]
      BY <2>2, <2>4, <2>6 DEF WasFrozen
    <3>2. IsWorkspace(w) BY <3>1 DEF IsWorkspace
    <3>3. w.drift = (s \in Vanishing(prev, g) /\ w.desired # << >>) BY <2>1, <2>5, <3>1
    <3>4. w.desired = old /\ w.observed = << >> /\ w.status = "frozen" BY <3>1
    <3> QED BY <2>3, <2>6, <3>2, <3>3, <3>4 DEF Shape, w
  <2>7. CASE ~WasFrozen(prev, s)
    <3>1. w = c BY <2>1, <2>2, <2>7 DEF WasFrozen
    <3>2. IsWorkspace(w) BY <2>4, <3>1 DEF IsWorkspace
    <3>3. w.drift = (w.desired # w.observed) BY <2>4, <2>5, <3>1
    <3>4. w.desired = old /\ w.observed = << >> /\ w.status = st BY <2>4, <3>1
    <3> QED BY <2>3, <2>7, <3>2, <3>3, <3>4 DEF Shape, w, st
  <2> QED BY <2>6, <2>7
<1> QED BY <1>3, <1>4, <1>5

-----------------------------------------------------------------------------
(***************************************************************************)
(* A projection is a catalog                                               *)
(***************************************************************************)

Windows == [name : Daemon!Tabs, surfaces : Seq(Daemon!SurfaceIds)]

LEMMA ConfiguredStates ==
    ASSUME NEW s \in DOMAIN Configured
    PROVE  Daemon!ConfiguredState(s) \in Daemon!States
<1> DEFINE tabs == Configured[s]
           surface(i) == << tabs[i], Daemon!Primary >>
           window(i) == Daemon!Window(tabs[i], << surface(i) >>)
<1>1. tabs \in Seq(Daemon!Tabs) BY CatalogAssumptions DEF Daemon!CatalogAssumption
<1>2. Daemon!ConfiguredState(s) = [i \in DOMAIN tabs |-> window(i)]
  BY DEF Daemon!ConfiguredState
<1> HIDE DEF tabs
<1>3. ASSUME NEW i \in DOMAIN tabs PROVE window(i) \in Windows
  <2>1. tabs[i] \in Daemon!Tabs BY <1>1
  <2>2. surface(i) \in Daemon!SurfaceIds BY <2>1 DEF Daemon!SurfaceIds
  <2> HIDE DEF surface
  <2>3. << surface(i) >> \in Seq(Daemon!SurfaceIds) BY <2>2
  <2> QED BY <2>1, <2>3 DEF Windows, Daemon!Window
<1> HIDE DEF window
<1>4. DOMAIN tabs = 1 .. Len(tabs) /\ Len(tabs) \in Nat BY <1>1
<1>5. [i \in DOMAIN tabs |-> window(i)] \in Seq(Windows) BY <1>3, <1>4
<1> QED BY <1>2, <1>5 DEF Windows, Daemon!States

LEMMA AlignedStates ==
    ASSUME NEW conf \in Daemon!States, NEW obs \in Daemon!States
    PROVE  Daemon!AlignDesired(conf, obs) \in Daemon!States
<1> DEFINE named(i) == {j \in DOMAIN obs : obs[j].name = conf[i].name}
           match(i) == IF named(i) # {} THEN obs[CHOOSE j \in named(i) : TRUE]
                       ELSE IF i \in DOMAIN obs THEN obs[i] ELSE conf[i]
           surfaces(i) == [j \in DOMAIN conf[i].surfaces |->
                              IF j \in DOMAIN match(i).surfaces THEN match(i).surfaces[j]
                              ELSE conf[i].surfaces[j]]
           window(i) == Daemon!Window(match(i).name, surfaces(i))
<1>1. conf \in Seq(Windows) /\ obs \in Seq(Windows) BY DEF Daemon!States, Windows
<1>2. Daemon!AlignDesired(conf, obs) = [i \in DOMAIN conf |-> window(i)]
  BY DEF Daemon!AlignDesired
<1>3. ASSUME NEW i \in DOMAIN conf PROVE window(i) \in Windows
  <2>1. conf[i] \in Windows BY <1>1
  <2>2. match(i) \in Windows
    <3>1. named(i) # {} => (CHOOSE j \in named(i) : TRUE) \in DOMAIN obs OBVIOUS
    <3> HIDE DEF named
    <3> QED BY <1>1, <2>1, <3>1
  <2> HIDE DEF match
  <2>3. /\ match(i).name \in Daemon!Tabs /\ match(i).surfaces \in Seq(Daemon!SurfaceIds)
        /\ conf[i].surfaces \in Seq(Daemon!SurfaceIds)
    BY <2>1, <2>2 DEF Windows
  <2>4. surfaces(i) \in Seq(Daemon!SurfaceIds)
    <3> DEFINE a == match(i).surfaces
               b == conf[i].surfaces
    <3>1. a \in Seq(Daemon!SurfaceIds) /\ b \in Seq(Daemon!SurfaceIds) BY <2>3
    <3> HIDE DEF a, b
    <3>2. [j \in DOMAIN b |-> IF j \in DOMAIN a THEN a[j] ELSE b[j]] \in Seq(Daemon!SurfaceIds)
      <4>1. DOMAIN b = 1 .. Len(b) /\ Len(b) \in Nat BY <3>1
      <4>2. \A j \in DOMAIN b : (IF j \in DOMAIN a THEN a[j] ELSE b[j]) \in Daemon!SurfaceIds
        BY <3>1
      <4> QED BY <4>1, <4>2
    <3> QED BY <3>2 DEF a, b
  <2> HIDE DEF surfaces
  <2> QED BY <2>3, <2>4 DEF Windows, Daemon!Window
<1> HIDE DEF window
<1>4. DOMAIN conf = 1 .. Len(conf) /\ Len(conf) \in Nat BY <1>1
<1>5. [i \in DOMAIN conf |-> window(i)] \in Seq(Windows) BY <1>3, <1>4
<1> QED BY <1>2, <1>5 DEF Windows, Daemon!States

(* A workspace as it is to be, but for its lists                           *)
DriftOK(w) ==
    /\ w.desired # w.observed => w.drift \/ w.status = "frozen"
    /\ w.desired = w.observed => ~w.drift

(* Each terminal has a workspace.                                          *)
Homed(c) == \A t \in DOMAIN c.terminals : Daemon!Home(t) \in DOMAIN c.workspaces

LEMMA WorkspaceFields ==
    ASSUME NEW w \in Daemon!Workspaces
    PROVE  /\ IsWorkspace(w)
           /\ w.desired \in Daemon!States /\ w.observed \in Daemon!States
           /\ w.status \in {"ok", "drift", "frozen"} /\ w.drift \in BOOLEAN
           /\ w.terminals \in SUBSET Daemon!AllPanes /\ w.agents \in SUBSET Daemon!AllPanes
<1>1. IsWorkspace(w) BY DEF Daemon!Workspaces, IsWorkspace
<1>2. w.desired \in Daemon!States /\ w.observed \in Daemon!States BY DEF Daemon!Workspaces
<1>3. w.status \in {"ok", "drift", "frozen"} BY DEF Daemon!Workspaces
<1>4. w.drift \in BOOLEAN BY DEF Daemon!Workspaces
<1>5. w.terminals \in SUBSET Daemon!AllPanes /\ w.agents \in SUBSET Daemon!AllPanes
  BY DEF Daemon!Workspaces
<1> QED BY <1>1, <1>2, <1>3, <1>4, <1>5

LEMMA WantingOK ==
    ASSUME NEW prev, Daemon!CatalogOK(prev), NEW g, Daemon!RuntimeOK(g),
           NEW s \in Present(g) \cup DOMAIN Configured \cup Vanishing(prev, g)
    PROVE  /\ s \in Daemon!Sessions
           /\ Seeing(g, s) \in Daemon!States /\ Wanting(prev, g, s) \in Daemon!States
           /\ s \in DOMAIN prev.workspaces => prev.workspaces[s] \in Daemon!Workspaces
<1>1. DOMAIN prev.workspaces \subseteq Daemon!Sessions
      /\ \A u \in DOMAIN prev.workspaces : prev.workspaces[u] \in Daemon!Workspaces
  BY DEF Daemon!CatalogOK
<1>2. s \in Daemon!Sessions
  BY <1>1, CatalogAssumptions DEF Present, Vanishing, Daemon!CatalogAssumption
<1>3. << >> \in Daemon!States BY DEF Daemon!States
<1>4. Daemon!Observed(g, s) \in Daemon!States BY <1>2, ObservedOK
<1>5. Seeing(g, s) \in Daemon!States BY <1>3, <1>4 DEF Seeing
<1>6. s \in DOMAIN prev.workspaces => prev.workspaces[s].desired \in Daemon!States
  BY <1>1, WorkspaceFields
<1>7. s \in DOMAIN Configured \/ s \in Present(g) \/ s \in DOMAIN prev.workspaces
  BY DEF Vanishing
<1>8. s \in DOMAIN Configured =>
         /\ Daemon!ConfiguredState(s) \in Daemon!States
         /\ Daemon!AlignDesired(Daemon!ConfiguredState(s), Daemon!Observed(g, s)) \in Daemon!States
  BY <1>4, ConfiguredStates, AlignedStates
<1>9. Wanting(prev, g, s) \in Daemon!States BY <1>4, <1>6, <1>7, <1>8 DEF Wanting
<1> QED BY <1>1, <1>2, <1>5, <1>9

(* The parts of a workspace that Listed leaves as they are                 *)
SpaceOK(w) ==
    /\ IsWorkspace(w) /\ w.desired \in Daemon!States /\ w.observed \in Daemon!States
    /\ w.status \in {"ok", "drift", "frozen"} /\ w.drift \in BOOLEAN

LEMMA RunningOK ==
    ASSUME NEW prev, Daemon!CatalogOK(prev), NEW g, Daemon!RuntimeOK(g),
           NEW s \in DOMAIN Daemon!ProjectWorkspaces(prev, g)
    PROVE  /\ s \in Daemon!Sessions
           /\ SpaceOK(Daemon!ProjectWorkspaces(prev, g)[s])
           /\ DriftOK(Daemon!ProjectWorkspaces(prev, g)[s])
           /\ Daemon!ProjectWorkspaces(prev, g)[s].observed = Seeing(g, s)
<1> DEFINE w == Daemon!ProjectWorkspaces(prev, g)[s]
<1>1. s \in Present(g) \cup DOMAIN Configured \cup Vanishing(prev, g) BY RunningDomain
<1>2. IsWorkspace(w) /\ Shape(prev, g, s, w) BY <1>1, RunningShape
<1>3. /\ s \in Daemon!Sessions
      /\ Seeing(g, s) \in Daemon!States /\ Wanting(prev, g, s) \in Daemon!States
      /\ s \in DOMAIN prev.workspaces => prev.workspaces[s] \in Daemon!Workspaces
  BY <1>1, WantingOK
<1> HIDE DEF w
<1>4. CASE WasFrozen(prev, s)
  <2>1. prev.workspaces[s].desired \in Daemon!States BY <1>3, <1>4, WorkspaceFields DEF WasFrozen
  <2>2. /\ w.observed = Seeing(g, s) /\ w.status = "frozen"
        /\ w.desired = prev.workspaces[s].desired
    BY <1>2, <1>4 DEF Shape
  <2>3. w.drift = (s \in Vanishing(prev, g) /\ w.desired # << >>) BY <1>2, <1>4 DEF Shape
  <2>4. w.drift \in BOOLEAN BY <2>3
  <2>5. w.desired = w.observed => ~w.drift
    <3>1. s \in Vanishing(prev, g) => s \notin Present(g) BY DEF Vanishing
    <3>2. s \in Vanishing(prev, g) => w.observed = << >> BY <2>2, <3>1 DEF Seeing
    <3> QED BY <2>3, <3>2
  <2> QED BY <1>2, <1>3, <2>1, <2>2, <2>4, <2>5 DEF SpaceOK, DriftOK, w
<1>5. CASE ~WasFrozen(prev, s)
  <2>1. /\ w.observed = Seeing(g, s) /\ w.desired = Wanting(prev, g, s)
        /\ w.status = IF w.desired = w.observed THEN "ok" ELSE "drift"
    BY <1>2, <1>5 DEF Shape
  <2>2. w.drift = (w.desired # w.observed) BY <1>2, <1>5 DEF Shape
  <2>3. w.drift \in BOOLEAN BY <2>2
  <2>4. DriftOK(w) BY <2>2 DEF DriftOK
  <2>5. w.status \in {"ok", "drift", "frozen"} BY <2>1
  <2> QED BY <1>2, <1>3, <2>1, <2>3, <2>4, <2>5 DEF SpaceOK, w
<1> QED BY <1>4, <1>5

Back(prev, g) == Daemon!BroughtBack(prev, g, Daemon!ProjectWorkspaces(prev, g))

LEMMA BackKnown ==
    ASSUME NEW prev, Homed(prev), NEW g
    PROVE  /\ Back(prev, g) \subseteq DOMAIN prev.workspaces
           /\ Back(prev, g) \cap DOMAIN Daemon!ProjectWorkspaces(prev, g) = {}
           /\ DOMAIN Spaces(prev, g) = DOMAIN Daemon!ProjectWorkspaces(prev, g) \cup Back(prev, g)
           /\ \A t \in Daemon!LostTerminals(prev, g) : Daemon!Home(t) \in DOMAIN Spaces(prev, g)
<1>1. Daemon!LostTerminals(prev, g) \subseteq DOMAIN prev.terminals
  BY DEF Daemon!LostTerminals
<1>2. Back(prev, g) = {Daemon!Home(t) : t \in Daemon!LostTerminals(prev, g)}
                         \ DOMAIN Daemon!ProjectWorkspaces(prev, g)
  BY DEF Back, Daemon!BroughtBack
<1>3. DOMAIN Spaces(prev, g) = DOMAIN Daemon!ProjectWorkspaces(prev, g) \cup Back(prev, g)
  BY DEF Spaces, Back, Daemon!Over
<1> QED BY <1>1, <1>2, <1>3 DEF Homed

LEMMA SpacesOK ==
    ASSUME NEW prev, Daemon!CatalogOK(prev), Homed(prev), NEW g, Daemon!RuntimeOK(g),
           NEW s \in DOMAIN Spaces(prev, g)
    PROVE  /\ s \in Daemon!Sessions /\ SpaceOK(Spaces(prev, g)[s])
           /\ s \in Back(prev, g) => Spaces(prev, g)[s] = prev.workspaces[s]
           /\ s \notin Back(prev, g) =>
                 /\ s \in DOMAIN Daemon!ProjectWorkspaces(prev, g)
                 /\ Spaces(prev, g)[s] = Daemon!ProjectWorkspaces(prev, g)[s]
                 /\ DriftOK(Spaces(prev, g)[s])
<1>1. Spaces(prev, g)[s] = IF s \in DOMAIN Daemon!ProjectWorkspaces(prev, g)
                           THEN Daemon!ProjectWorkspaces(prev, g)[s] ELSE prev.workspaces[s]
  <2>1. s \in DOMAIN Daemon!ProjectWorkspaces(prev, g) \/ s \in Back(prev, g) BY BackKnown
  <2> QED BY <2>1 DEF Spaces, Daemon!Over, Back
<1>2. CASE s \in Back(prev, g)
  <2>1. s \notin DOMAIN Daemon!ProjectWorkspaces(prev, g) /\ s \in DOMAIN prev.workspaces
    BY <1>2, BackKnown
  <2>2. s \in Daemon!Sessions /\ prev.workspaces[s] \in Daemon!Workspaces
    BY <2>1 DEF Daemon!CatalogOK
  <2> QED BY <1>1, <1>2, <2>1, <2>2, WorkspaceFields DEF SpaceOK
<1>3. CASE s \notin Back(prev, g)
  <2>1. s \in DOMAIN Daemon!ProjectWorkspaces(prev, g) BY <1>3, BackKnown
  <2> QED BY <1>1, <1>3, <2>1, RunningOK
<1> QED BY <1>2, <1>3

LEMMA ListedOK ==
    ASSUME NEW f, NEW T, NEW A, NEW s \in DOMAIN f, IsWorkspace(f[s])
    PROVE  /\ Daemon!Listed(f, T, A)[s] =
                 [desired |-> f[s].desired, observed |-> f[s].observed,
                  status |-> f[s].status, drift |-> f[s].drift,
                  terminals |-> {t \in T : Daemon!Home(t) = s},
                  agents |-> {a \in A : Daemon!Home(a) = s}]
<1> DEFINE X == {t \in T : Daemon!Home(t) = s}
           Y == {a \in A : Daemon!Home(a) = s}
           w == f[s]
           l == Daemon!Listed(f, T, A)[s]
<1>1. l = [w EXCEPT !.terminals = X, !.agents = Y] BY DEF Daemon!Listed
<1> HIDE DEF X, Y, w, l
<1>2. w = [desired |-> w.desired, observed |-> w.observed, status |-> w.status,
           drift |-> w.drift, terminals |-> w.terminals, agents |-> w.agents]
  BY DEF IsWorkspace, w
<1>3. l = [desired |-> w.desired, observed |-> w.observed, status |-> w.status,
           drift |-> w.drift, terminals |-> X, agents |-> Y]
  BY <1>1, <1>2
<1> QED BY <1>3 DEF X, Y, w, l

(* The terminal of a pane, and one without a pane                          *)
ShowsPane(x, g, t) ==
    x = [state |-> g.panes[t].state, surface |-> Daemon!SurfaceOf(g, t)]
ShowsNone(x) == x = [state |-> "exited", surface |-> << >>]

LEMMA TerminalsOK ==
    ASSUME NEW prev, Daemon!CatalogOK(prev), Homed(prev), NEW g, Daemon!RuntimeOK(g)
    PROVE  /\ DOMAIN AllTerminals(prev, g) = DOMAIN g.panes \cup Lost(prev, g)
           /\ Lost(prev, g) = Daemon!LostTerminals(prev, g)
           /\ DOMAIN AllTerminals(prev, g) \subseteq Daemon!AllPanes
           /\ AllTerminals(prev, g) \in [DOMAIN AllTerminals(prev, g) -> Daemon!Terminals]
           /\ \A t \in DOMAIN g.panes :
                 ShowsPane(AllTerminals(prev, g)[t], g, t)
           /\ \A t \in Lost(prev, g) : ShowsNone(AllTerminals(prev, g)[t])
           /\ Lost(prev, g) \cap DOMAIN g.panes = {}
<1> DEFINE T == AllTerminals(prev, g)
           L == Lost(prev, g)
<1>1. L = Daemon!LostTerminals(prev, g) BY BackKnown DEF Lost
<1>2. L \subseteq DOMAIN prev.terminals /\ L \cap DOMAIN g.panes = {}
  BY <1>1 DEF Daemon!LostTerminals
<1>3. DOMAIN T = DOMAIN g.panes \cup L
  BY DEF AllTerminals, Daemon!Over, Daemon!ProjectTerminals
<1>4. ASSUME NEW t \in DOMAIN g.panes
      PROVE  /\ ShowsPane(T[t], g, t)
             /\ T[t] \in Daemon!Terminals /\ t \in Daemon!AllPanes
  <2>1. T[t] = [state |-> g.panes[t].state, surface |-> Daemon!SurfaceOf(g, t)]
    BY DEF AllTerminals, Daemon!Over, Daemon!ProjectTerminals
  <2>2. g.panes[t].state \in {"live", "exited"} /\ t \in Daemon!AllPanes BY RuntimePanes
  <2>3. Daemon!SurfaceOf(g, t) \in Daemon!SurfaceIds BY SurfaceOK
  <2> QED BY <2>1, <2>2, <2>3 DEF Daemon!Terminals, ShowsPane
<1>5. ASSUME NEW t \in L
      PROVE  /\ ShowsNone(T[t])
             /\ T[t] \in Daemon!Terminals /\ t \in Daemon!AllPanes
  <2>1. t \notin DOMAIN g.panes /\ t \in DOMAIN prev.terminals BY <1>2
  <2>2. T[t] = Daemon!RetainedTerminal(prev, t)
    BY <2>1 DEF AllTerminals, Daemon!Over, Daemon!ProjectTerminals
  <2>3. prev.terminals[t] \in Daemon!Terminals /\ t \in Daemon!AllPanes
    BY <2>1 DEF Daemon!CatalogOK
  <2>4. T[t] = [prev.terminals[t] EXCEPT !.state = "exited", !.surface = << >>]
    BY <2>2 DEF Daemon!RetainedTerminal
  <2> HIDE DEF T
  <2>5. T[t] = [state |-> "exited", surface |-> << >>] BY <2>3, <2>4 DEF Daemon!Terminals
  <2> QED BY <2>3, <2>5 DEF Daemon!Terminals, ShowsNone
<1>6. T = [t \in DOMAIN T |-> T[t]] BY DEF AllTerminals, Daemon!Over
<1> HIDE DEF T, L
<1>7. T \in [DOMAIN T -> Daemon!Terminals] /\ DOMAIN T \subseteq Daemon!AllPanes
  BY <1>3, <1>4, <1>5, <1>6
<1> QED BY <1>1, <1>2, <1>3, <1>4, <1>5, <1>7 DEF T, L

(* An agent runs in its own terminal, or in none.                          *)
RunsIn(b, a) == b.terminal = a /\ b.state # "done" /\ b \in Daemon!Agents
HasEnded(b) == b.terminal = NoPane /\ b.state = "done" /\ b \in Daemon!Agents

RunsAs(prev, a) ==
    IF a \in DOMAIN prev.agents /\ prev.agents[a].terminal = a THEN prev.agents[a]
    ELSE [state |-> "running", terminal |-> a, claimed |-> FALSE]
EndsAs(prev, a) ==
    [state |-> "done", terminal |-> NoPane, claimed |-> prev.agents[a].claimed]

LEMMA RunningAgentOK ==
    ASSUME NEW prev, Daemon!CatalogOK(prev), NEW g, Daemon!RuntimeOK(g),
           NEW a \in Daemon!RunningAgents(g)
    PROVE  /\ AllAgents(prev, g)[a] = RunsAs(prev, a) /\ RunsIn(AllAgents(prev, g)[a], a)
           /\ a \in Daemon!AllPanes /\ a \in DOMAIN g.panes
<1> DEFINE b == AllAgents(prev, g)[a]
<1>1. b = RunsAs(prev, a)
  BY DEF AllAgents, Daemon!Over, Daemon!ProjectAgents, RunsAs
<1>2. a \in DOMAIN g.panes BY DEF Daemon!RunningAgents
<1>3. a \in Daemon!AllPanes /\ a # NoPane
  BY <1>2, RuntimePanes, CatalogAssumptions DEF Daemon!CatalogAssumption
<1>4. a \in DOMAIN prev.agents =>
         /\ prev.agents[a] \in Daemon!Agents
         /\ (prev.agents[a].state = "done") = (prev.agents[a].terminal = NoPane)
  BY DEF Daemon!CatalogOK
<1> HIDE DEF b
<1>5. CASE a \in DOMAIN prev.agents /\ prev.agents[a].terminal = a
  BY <1>1, <1>2, <1>3, <1>4, <1>5 DEF b, RunsIn, RunsAs
<1>6. CASE ~(a \in DOMAIN prev.agents /\ prev.agents[a].terminal = a)
  <2>1. b = [state |-> "running", terminal |-> a, claimed |-> FALSE] BY <1>1, <1>6 DEF RunsAs
  <2>2. b.terminal = a /\ b.state # "done" BY <2>1
  <2>3. b \in Daemon!Agents BY <1>3, <2>1 DEF Daemon!Agents
  <2> QED BY <1>1, <1>2, <1>3, <2>2, <2>3 DEF b, RunsIn
<1> QED BY <1>5, <1>6

LEMMA DoneAgentOK ==
    ASSUME NEW prev, Daemon!CatalogOK(prev), NEW g, NEW a \in Done(prev, g)
    PROVE  /\ AllAgents(prev, g)[a] = EndsAs(prev, a) /\ HasEnded(AllAgents(prev, g)[a])
           /\ a \in Daemon!AllPanes /\ a \in DOMAIN prev.agents
           /\ a \notin Daemon!RunningAgents(g)
<1> DEFINE b == AllAgents(prev, g)[a]
<1>1. a \notin Daemon!RunningAgents(g) /\ a \in DOMAIN prev.agents
  BY DEF Done, Daemon!LostAgents
<1>2. b = Daemon!RetainedAgent(prev, a)
  BY <1>1 DEF AllAgents, Daemon!Over, Daemon!ProjectAgents
<1>3. prev.agents[a] \in Daemon!Agents /\ a \in Daemon!AllPanes
  BY <1>1 DEF Daemon!CatalogOK
<1>4. b = [prev.agents[a] EXCEPT !.state = "done", !.terminal = NoPane]
  BY <1>2 DEF Daemon!RetainedAgent
<1> HIDE DEF b
<1>5. b = [state |-> "done", terminal |-> NoPane, claimed |-> prev.agents[a].claimed]
  BY <1>3, <1>4 DEF Daemon!Agents
<1>6. prev.agents[a].claimed \in BOOLEAN BY <1>3 DEF Daemon!Agents
<1>7. b \in Daemon!Agents BY <1>5, <1>6 DEF Daemon!Agents
<1>8. b.terminal = NoPane /\ b.state = "done" BY <1>5
<1> QED BY <1>1, <1>3, <1>5, <1>7, <1>8 DEF b, HasEnded, EndsAs

LEMMA AgentsOK ==
    ASSUME NEW prev, Daemon!CatalogOK(prev), NEW g, Daemon!RuntimeOK(g)
    PROVE  /\ DOMAIN AllAgents(prev, g) = Daemon!RunningAgents(g) \cup Done(prev, g)
           /\ DOMAIN AllAgents(prev, g) \subseteq Daemon!AllPanes
           /\ AllAgents(prev, g) \in [DOMAIN AllAgents(prev, g) -> Daemon!Agents]
           /\ Daemon!RunningAgents(g) \subseteq DOMAIN g.panes
<1> DEFINE A == AllAgents(prev, g)
           D == Done(prev, g)
           R == Daemon!RunningAgents(g)
<1>1. DOMAIN A = R \cup D BY DEF AllAgents, Daemon!Over, Daemon!ProjectAgents
<1>2. A = [a \in DOMAIN A |-> A[a]] BY DEF AllAgents, Daemon!Over
<1>3. \A a \in R : RunsIn(A[a], a) /\ a \in Daemon!AllPanes /\ a \in DOMAIN g.panes
  BY RunningAgentOK
<1>4. \A a \in D : HasEnded(A[a]) /\ a \in Daemon!AllPanes BY DoneAgentOK
<1> HIDE DEF A, D, R
<1>5. A \in [DOMAIN A -> Daemon!Agents] /\ DOMAIN A \subseteq Daemon!AllPanes
  BY <1>1, <1>2, <1>3, <1>4 DEF RunsIn, HasEnded
<1> QED BY <1>1, <1>3, <1>5 DEF A, D, R

Workspaces(prev, g) ==
    Daemon!Listed(Spaces(prev, g), DOMAIN AllTerminals(prev, g), DOMAIN AllAgents(prev, g))

LEMMA WorkspacesOK ==
    ASSUME NEW prev, Daemon!CatalogOK(prev), Homed(prev), NEW g, Daemon!RuntimeOK(g)
    PROVE  /\ DOMAIN Workspaces(prev, g) = DOMAIN Spaces(prev, g)
           /\ Workspaces(prev, g) \in [DOMAIN Spaces(prev, g) -> Daemon!Workspaces]
           /\ \A s \in DOMAIN Spaces(prev, g) :
                 LET w == Workspaces(prev, g)[s]
                     v == Spaces(prev, g)[s]
                 IN  /\ w.desired = v.desired /\ w.observed = v.observed
                     /\ w.status = v.status
                     /\ w.terminals = {t \in DOMAIN AllTerminals(prev, g) : Daemon!Home(t) = s}
                     /\ w.agents = {a \in DOMAIN AllAgents(prev, g) : Daemon!Home(a) = s}
           /\ \A s \in DOMAIN Spaces(prev, g) :
                 Workspaces(prev, g)[s].drift = Spaces(prev, g)[s].drift
<1> DEFINE W == Workspaces(prev, g)
           V == Spaces(prev, g)
           T(s) == {t \in DOMAIN AllTerminals(prev, g) : Daemon!Home(t) = s}
           A(s) == {a \in DOMAIN AllAgents(prev, g) : Daemon!Home(a) = s}
<1>1. DOMAIN W = DOMAIN V /\ W = [s \in DOMAIN V |-> W[s]] BY DEF Workspaces, Daemon!Listed
<1>2. \A s : T(s) \in SUBSET Daemon!AllPanes /\ A(s) \in SUBSET Daemon!AllPanes
  BY TerminalsOK, AgentsOK
<1>3. ASSUME NEW s \in DOMAIN V
      PROVE  /\ W[s] \in Daemon!Workspaces
             /\ W[s].desired = V[s].desired /\ W[s].observed = V[s].observed
             /\ W[s].status = V[s].status
             /\ W[s].terminals = T(s) /\ W[s].agents = A(s)
             /\ W[s].drift = V[s].drift
  <2> DEFINE w == W[s]
             v == V[s]
  <2>1. SpaceOK(v) BY SpacesOK
  <2>2. IsWorkspace(v) BY <2>1 DEF SpaceOK
  <2>3. w = [desired |-> v.desired, observed |-> v.observed, status |-> v.status,
             drift |-> v.drift, terminals |-> T(s), agents |-> A(s)]
    <3> HIDE DEF V
    <3> QED BY <2>2, ListedOK DEF Workspaces, V
  <2> HIDE DEF v, w, T, A
  <2>4. /\ w.desired = v.desired /\ w.observed = v.observed /\ w.status = v.status
        /\ w.terminals = T(s) /\ w.agents = A(s)
    BY <2>3
  <2>5. w.drift = v.drift BY <2>3
  <2>6. w \in Daemon!Workspaces BY <1>2, <2>1, <2>3 DEF SpaceOK, Daemon!Workspaces
  <2> QED BY <2>4, <2>5, <2>6 DEF v, w
<1> HIDE DEF W, V
<1>4. W \in [DOMAIN V -> Daemon!Workspaces] BY <1>1, <1>3
<1> QED BY <1>1, <1>3, <1>4 DEF W, V

LEMMA PresentSpaces ==
    ASSUME NEW prev, Homed(prev), NEW g, Daemon!RuntimeOK(g)
    PROVE  /\ Present(g) \subseteq DOMAIN Spaces(prev, g)
           /\ \A t \in DOMAIN g.panes : Daemon!Home(t) \in Present(g)
<1>1. DOMAIN Spaces(prev, g) = DOMAIN Daemon!ProjectWorkspaces(prev, g) \cup Back(prev, g)
  BY BackKnown
<1>2. DOMAIN Daemon!ProjectWorkspaces(prev, g) =
         Present(g) \cup DOMAIN Configured \cup Vanishing(prev, g)
  BY RunningDomain
<1>3. \A t \in DOMAIN g.panes : Daemon!Home(t) \in Present(g)
  BY RuntimePanes DEF Present
<1> QED BY <1>1, <1>2, <1>3

LEMMA ViewsOK ==
    ASSUME NEW prev, Daemon!CatalogOK(prev), Homed(prev), NEW g, Daemon!RuntimeOK(g)
    PROVE  LET V == Daemon!ProjectActive(prev, g, Spaces(prev, g))
           IN  /\ DOMAIN V \subseteq DOMAIN Spaces(prev, g)
               /\ V \in [DOMAIN V -> Daemon!Views]
               /\ \A v \in DOMAIN V :
                     V[v] = IF v \in DOMAIN prev.views THEN prev.views[v]
                            ELSE [kind |-> "shared", pinned |-> FALSE]
               /\ DOMAIN V = g.clients \cup
                     {v \in DOMAIN prev.views : /\ prev.views[v].pinned
                                                /\ v \in DOMAIN Spaces(prev, g)}
<1> DEFINE V == Daemon!ProjectActive(prev, g, Spaces(prev, g))
           new == [kind |-> "shared", pinned |-> FALSE]
<1>1. /\ DOMAIN V = g.clients \cup
                     {v \in DOMAIN prev.views : /\ prev.views[v].pinned
                                                /\ v \in DOMAIN Spaces(prev, g)}
      /\ V = [v \in DOMAIN V |-> IF v \in DOMAIN prev.views THEN prev.views[v] ELSE new]
  BY DEF Daemon!ProjectActive
<1>2. g.clients \subseteq DOMAIN Spaces(prev, g)
  <2>1. g.clients \subseteq Present(g)
    <3>1. \A p \in DOMAIN g.panes : Daemon!Home(p) \in Present(g) BY PresentSpaces
    <3> QED BY <3>1 DEF Daemon!RuntimeOK
  <2> QED BY <2>1, PresentSpaces
<1>3. \A v \in DOMAIN prev.views : prev.views[v] \in Daemon!Views BY DEF Daemon!CatalogOK
<1>4. new \in Daemon!Views BY DEF Daemon!Views
<1> HIDE DEF V, new
<1>5. V \in [DOMAIN V -> Daemon!Views] BY <1>1, <1>3, <1>4
<1> QED BY <1>1, <1>2, <1>5 DEF V, new

(* What a projection gives is a catalog in which each terminal has its     *)
(* workspace.                                                              *)
LEMMA ProjectionTyped ==
    ASSUME NEW prev, Daemon!CatalogOK(prev), Homed(prev), NEW g, Daemon!RuntimeOK(g)
    PROVE  Daemon!CatalogOK(Projection(prev, g)) /\ Homed(Projection(prev, g))
<1> DEFINE P == Projection(prev, g)
           W == Workspaces(prev, g)
           V == Daemon!ProjectActive(prev, g, Spaces(prev, g))
<1>1. P = [up |-> TRUE, workspaces |-> W,
           terminals |-> AllTerminals(prev, g), agents |-> AllAgents(prev, g),
           views |-> V, history |-> Remembered(prev, g), snapshots |-> Stored(prev, g),
           plans |-> Planned(prev, g), keep |-> prev.keep, nil |-> Nils(prev, g)]
  BY DEF Projection, Workspaces
<1>2. prev.keep \in BOOLEAN BY DEF Daemon!CatalogOK
<1>3. Nils(prev, g) \subseteq DOMAIN W \cup {"history"}
  <2>1. DOMAIN Daemon!ProjectWorkspaces(prev, g) \subseteq DOMAIN W BY WorkspacesOK, BackKnown
  <2> QED BY <2>1 DEF Nils
<1> HIDE DEF P, W, V
<1>4. /\ P.workspaces = W /\ P.terminals = AllTerminals(prev, g)
      /\ P.agents = AllAgents(prev, g) /\ P.views = V
      /\ P.history = Remembered(prev, g) /\ P.snapshots = Stored(prev, g)
      /\ P.plans = Planned(prev, g)
  BY <1>1
<1>5. P \in [up : BOOLEAN, workspaces : {P.workspaces}, terminals : {P.terminals},
             agents : {P.agents}, views : {P.views}, history : {P.history},
             snapshots : {P.snapshots}, plans : {P.plans}, keep : BOOLEAN,
             nil : SUBSET (DOMAIN P.workspaces \cup {"history"})]
  BY <1>1, <1>2, <1>3, <1>4
<1>6. DOMAIN W = DOMAIN Spaces(prev, g) /\ DOMAIN W \subseteq Daemon!Sessions
      /\ W \in [DOMAIN W -> Daemon!Workspaces]
  BY WorkspacesOK, SpacesOK DEF W
<1>7. /\ DOMAIN P.terminals \subseteq Daemon!AllPanes
      /\ P.terminals \in [DOMAIN P.terminals -> Daemon!Terminals]
  <2>1. /\ DOMAIN AllTerminals(prev, g) \subseteq Daemon!AllPanes
        /\ AllTerminals(prev, g) \in [DOMAIN AllTerminals(prev, g) -> Daemon!Terminals]
    BY TerminalsOK
  <2> QED BY <1>4, <2>1
<1>8. /\ DOMAIN P.agents \subseteq Daemon!AllPanes
      /\ P.agents \in [DOMAIN P.agents -> Daemon!Agents]
  <2>1. /\ DOMAIN AllAgents(prev, g) \subseteq Daemon!AllPanes
        /\ AllAgents(prev, g) \in [DOMAIN AllAgents(prev, g) -> Daemon!Agents]
    BY AgentsOK
  <2> QED BY <1>4, <2>1
<1>9. \A a \in DOMAIN P.agents : (P.agents[a].state = "done") = (P.agents[a].terminal = NoPane)
  <2> DEFINE A == AllAgents(prev, g)
             R == Daemon!RunningAgents(g)
             D == Done(prev, g)
  <2>1. DOMAIN A = R \cup D /\ DOMAIN A \subseteq Daemon!AllPanes BY AgentsOK
  <2>2. \A a \in R : RunsIn(A[a], a) BY RunningAgentOK
  <2>3. \A a \in D : HasEnded(A[a]) BY DoneAgentOK
  <2>4. NoPane \notin Daemon!AllPanes BY CatalogAssumptions DEF Daemon!CatalogAssumption
  <2> HIDE DEF A, R, D
  <2>5. \A a \in DOMAIN A : (A[a].state = "done") = (A[a].terminal = NoPane)
    BY <2>1, <2>2, <2>3, <2>4 DEF RunsIn, HasEnded
  <2> QED BY <1>4, <2>5 DEF A
<1>10. DOMAIN P.views \subseteq Daemon!Sessions /\ P.views \in [DOMAIN P.views -> Daemon!Views]
  <2>1. DOMAIN V \subseteq DOMAIN W /\ V \in [DOMAIN V -> Daemon!Views]
    BY <1>6, ViewsOK DEF V
  <2> QED BY <1>4, <1>6, <2>1
<1>11. Daemon!HistoryOK(P.history)
  <2>1. Daemon!HistoryOK(prev.history) BY DEF Daemon!CatalogOK
  <2>2. P.history \subseteq prev.history BY <1>4 DEF Remembered
  <2> QED BY <2>1, <2>2, HistoryPart
<1>12. \A s \in P.snapshots : s \in [id : {s.id}, workspace : Daemon!Sessions,
                                     state : Daemon!States]
  BY <1>4 DEF Stored, Daemon!CatalogOK
<1>13. \A p \in P.plans : p \in [id : {p.id}, snapshot : {p.snapshot},
                                 workspace : Daemon!Sessions, status : {"pending", "applied"}]
  BY <1>4 DEF Planned, Daemon!CatalogOK
<1>14. Daemon!CatalogOK(P)
  BY <1>4, <1>5, <1>6, <1>7, <1>8, <1>9, <1>10, <1>11, <1>12, <1>13 DEF Daemon!CatalogOK
<1>15. Homed(P)
  <2>1. \A t \in DOMAIN g.panes : Daemon!Home(t) \in DOMAIN Spaces(prev, g)
    BY PresentSpaces
  <2>2. \A t \in Lost(prev, g) : Daemon!Home(t) \in DOMAIN Spaces(prev, g)
    BY DEF Lost
  <2>3. DOMAIN AllTerminals(prev, g) = DOMAIN g.panes \cup Lost(prev, g) BY TerminalsOK
  <2> QED BY <1>4, <1>6, <2>1, <2>2, <2>3 DEF Homed
<1> QED BY <1>14, <1>15 DEF P

LEMMA ValidHomes ==
    ASSUME NEW c, Daemon!ValidateCatalog(c)
    PROVE  Homed(c)
BY DEF Daemon!ValidateCatalog, Daemon!ValidTerminal, Homed

(* It is a valid one if the catalog before it is, whatever the runtime.    *)
LEMMA ProjectedWorkspaceValid ==
    ASSUME NEW prev, Daemon!CatalogOK(prev), Daemon!ValidateCatalog(prev),
           NEW g, Daemon!RuntimeOK(g), NEW s \in DOMAIN Spaces(prev, g)
    PROVE  Daemon!ValidWorkspace(Projection(prev, g), s)
<1> DEFINE P == Projection(prev, g)
           w == Workspaces(prev, g)[s]
           v == Spaces(prev, g)[s]
<1>1. Homed(prev) BY ValidHomes
<1>2. P.workspaces = Workspaces(prev, g) /\ P.terminals = AllTerminals(prev, g)
      /\ P.agents = AllAgents(prev, g)
  BY DEF Projection, Workspaces
<1>3. /\ w.desired = v.desired /\ w.observed = v.observed /\ w.status = v.status
      /\ w.terminals = {t \in DOMAIN AllTerminals(prev, g) : Daemon!Home(t) = s}
      /\ w.agents = {a \in DOMAIN AllAgents(prev, g) : Daemon!Home(a) = s}
  BY <1>1, WorkspacesOK
<1>4. w.drift = v.drift BY <1>1, WorkspacesOK
<1>5. DriftOK(v)
  <2>1. CASE s \in Back(prev, g)
    <3>1. v = prev.workspaces[s] BY <1>1, <2>1, SpacesOK
    <3>2. s \in DOMAIN prev.workspaces BY <1>1, <2>1, BackKnown
    <3>3. Daemon!ValidWorkspace(prev, s) BY <3>2 DEF Daemon!ValidateCatalog
    <3> QED BY <3>1, <3>3 DEF Daemon!ValidWorkspace, DriftOK
  <2>2. CASE s \notin Back(prev, g) BY <1>1, <2>2, SpacesOK
  <2> QED BY <2>1, <2>2
<1> HIDE DEF P, v
<1>6. P.workspaces[s] = w BY <1>2
<1> HIDE DEF w
<1> QED BY <1>2, <1>3, <1>4, <1>5, <1>6 DEF Daemon!ValidWorkspace, DriftOK, P

LEMMA ProjectedTerminalValid ==
    ASSUME NEW prev, Daemon!CatalogOK(prev), Daemon!ValidateCatalog(prev),
           NEW g, Daemon!RuntimeOK(g), NEW t \in DOMAIN AllTerminals(prev, g)
    PROVE  Daemon!ValidTerminal(Projection(prev, g), t)
<1> DEFINE P == Projection(prev, g)
           s == Daemon!Home(t)
           w == Workspaces(prev, g)[s]
           T == AllTerminals(prev, g)
<1>1. Homed(prev) BY ValidHomes
<1>2. P.workspaces = Workspaces(prev, g) /\ P.terminals = T
  BY DEF Projection, Workspaces
<1>3. DOMAIN T = DOMAIN g.panes \cup Lost(prev, g) BY <1>1, TerminalsOK
<1>4. s \in DOMAIN Spaces(prev, g)
  <2>1. CASE t \in DOMAIN g.panes BY <1>1, <2>1, PresentSpaces
  <2>2. CASE t \in Lost(prev, g) BY <2>2 DEF Lost
  <2> QED BY <1>3, <2>1, <2>2
<1>5. DOMAIN Workspaces(prev, g) = DOMAIN Spaces(prev, g) BY <1>1, WorkspacesOK
<1>6. w.terminals = {u \in DOMAIN T : Daemon!Home(u) = s}
  <2> HIDE DEF s
  <2> QED BY <1>1, <1>4, WorkspacesOK
<1>7. t \in w.terminals BY <1>6
<1>8. T[t].surface # << >> => Daemon!HasSurface(w.observed, T[t].surface)
  <2>1. CASE t \in DOMAIN g.panes
    <3>1. ShowsPane(T[t], g, t) BY <1>1, <2>1, TerminalsOK
    <3>2. T[t].surface = Daemon!SurfaceOf(g, t)
      <4> HIDE DEF T
      <4> QED BY <3>1 DEF ShowsPane
    <3>3. s \in Present(g) BY <1>1, <2>1, PresentSpaces
    <3>4. s \in DOMAIN Daemon!ProjectWorkspaces(prev, g) BY <3>3, RunningDomain
    <3>5. s \notin Back(prev, g) BY <1>1, <3>4, BackKnown
    <3>6. Spaces(prev, g)[s] = Daemon!ProjectWorkspaces(prev, g)[s]
      <4> HIDE DEF s
      <4> QED BY <1>1, <1>4, <3>5, SpacesOK
    <3>7. Spaces(prev, g)[s].observed = Seeing(g, s)
      <4> HIDE DEF s
      <4> QED BY <3>4, <3>6, RunningOK
    <3>8. w.observed = Daemon!Observed(g, s)
      <4>1. w.observed = Spaces(prev, g)[s].observed
        <5> HIDE DEF s
        <5> QED BY <1>1, <1>4, WorkspacesOK
      <4> QED BY <3>3, <3>7, <4>1 DEF Seeing
    <3>9. s \in Daemon!Sessions /\ t \in Daemon!PanesOf(g, s) BY <2>1, RuntimePanes
    <3>10. Daemon!HasSurface(Daemon!Observed(g, s), Daemon!SurfaceOf(g, t))
      <4> HIDE DEF s
      <4> QED BY <3>9, ObservedOK
    <3> QED BY <3>2, <3>8, <3>10
  <2>2. CASE t \in Lost(prev, g)
    <3>1. ShowsNone(T[t]) BY <1>1, <2>2, TerminalsOK
    <3> HIDE DEF T
    <3> QED BY <3>1 DEF ShowsNone
  <2> QED BY <1>3, <2>1, <2>2
<1> HIDE DEF P, T
<1>9. P.workspaces[s] = w BY <1>2
<1> HIDE DEF w
<1> QED BY <1>2, <1>4, <1>5, <1>7, <1>8, <1>9 DEF Daemon!ValidTerminal, P, T

LEMMA ProjectedAgentValid ==
    ASSUME NEW prev, Daemon!CatalogOK(prev), Daemon!ValidateCatalog(prev),
           NEW g, Daemon!RuntimeOK(g), NEW a \in DOMAIN AllAgents(prev, g)
    PROVE  Daemon!ValidAgent(Projection(prev, g), a)
<1> DEFINE P == Projection(prev, g)
           s == Daemon!Home(a)
           w == Workspaces(prev, g)[s]
           A == AllAgents(prev, g)
           T == AllTerminals(prev, g)
<1>1. Homed(prev) BY ValidHomes
<1>2. P.workspaces = Workspaces(prev, g) /\ P.terminals = T /\ P.agents = A
  BY DEF Projection, Workspaces
<1>3. DOMAIN A = Daemon!RunningAgents(g) \cup Done(prev, g) BY AgentsOK
<1>4. s \in DOMAIN Spaces(prev, g)
  <2>1. CASE a \in Daemon!RunningAgents(g)
    <3>1. a \in DOMAIN g.panes BY <2>1, RunningAgentOK
    <3> QED BY <1>1, <3>1, PresentSpaces
  <2>2. CASE a \in Done(prev, g) BY <2>2 DEF Done, Daemon!LostAgents
  <2> QED BY <1>3, <2>1, <2>2
<1>5. DOMAIN Workspaces(prev, g) = DOMAIN Spaces(prev, g) BY <1>1, WorkspacesOK
<1>6. w.agents = {u \in DOMAIN A : Daemon!Home(u) = s}
  <2> HIDE DEF s
  <2> QED BY <1>1, <1>4, WorkspacesOK
<1>7. a \in w.agents BY <1>6
<1>8. A[a].terminal # NoPane => A[a].terminal \in DOMAIN T /\ T[A[a].terminal].state = "live"
  <2>1. CASE a \in Daemon!RunningAgents(g)
    <3>1. a \in DOMAIN g.panes /\ RunsIn(A[a], a) BY <2>1, RunningAgentOK
    <3>2. A[a].terminal = a BY <3>1 DEF RunsIn
    <3>3. ShowsPane(T[a], g, a) BY <1>1, <3>1, TerminalsOK
    <3>4. T[a].state = g.panes[a].state
      <4> HIDE DEF T
      <4> QED BY <3>3 DEF ShowsPane
    <3>5. g.panes[a].state = "live" BY <2>1 DEF Daemon!RunningAgents
    <3>6. a \in DOMAIN T
      <4>1. DOMAIN T = DOMAIN g.panes \cup Lost(prev, g) BY <1>1, TerminalsOK
      <4> QED BY <3>1, <4>1
    <3> HIDE DEF T, A
    <3> QED BY <3>2, <3>4, <3>5, <3>6
  <2>2. CASE a \in Done(prev, g)
    <3>1. HasEnded(A[a]) BY <2>2, DoneAgentOK
    <3> QED BY <3>1 DEF HasEnded
  <2> QED BY <1>3, <2>1, <2>2
<1> HIDE DEF P, T, A
<1>9. P.workspaces[s] = w BY <1>2
<1> HIDE DEF w
<1> QED BY <1>2, <1>4, <1>5, <1>7, <1>8, <1>9 DEF Daemon!ValidAgent, P, A

LEMMA ProjectionValid ==
    ASSUME NEW prev, Daemon!CatalogOK(prev), Daemon!ValidateCatalog(prev),
           NEW g, Daemon!RuntimeOK(g)
    PROVE  Daemon!ValidateCatalog(Projection(prev, g))
<1> DEFINE P == Projection(prev, g)
           V == Daemon!ProjectActive(prev, g, Spaces(prev, g))
<1>1. Homed(prev) BY ValidHomes
<1>2. /\ P.workspaces = Workspaces(prev, g) /\ P.terminals = AllTerminals(prev, g)
      /\ P.agents = AllAgents(prev, g) /\ P.views = V
      /\ P.history = Remembered(prev, g) /\ P.snapshots = Stored(prev, g)
      /\ P.plans = Planned(prev, g)
  BY DEF Projection, Workspaces
<1>3. DOMAIN P.workspaces = DOMAIN Spaces(prev, g)
  <2>1. DOMAIN Workspaces(prev, g) = DOMAIN Spaces(prev, g) BY <1>1, WorkspacesOK
  <2> QED BY <1>2, <2>1
<1>4. /\ Daemon!UniqueIds(prev.snapshots) /\ Daemon!UniqueIds(prev.plans)
      /\ \A h, k \in prev.history : h.scope = k.scope /\ h.seq = k.seq => h = k
      /\ \A v \in DOMAIN prev.views : prev.views[v].pinned => prev.views[v].kind = "pinned"
      /\ \A p \in prev.plans : Daemon!ValidPlan(prev, p)
  BY DEF Daemon!ValidateCatalog
<1> HIDE DEF P
<1>5. Daemon!UniqueIds(P.snapshots) /\ Daemon!UniqueIds(P.plans)
  BY <1>2, <1>4 DEF Daemon!UniqueIds, Stored, Planned
<1>6. \A h, k \in P.history : h.scope = k.scope /\ h.seq = k.seq => h = k
  BY <1>2, <1>4 DEF Remembered
<1>7. \A s \in DOMAIN P.workspaces : Daemon!ValidWorkspace(P, s)
  BY <1>3, ProjectedWorkspaceValid DEF P
<1>8. \A t \in DOMAIN P.terminals : Daemon!ValidTerminal(P, t)
  BY <1>2, ProjectedTerminalValid DEF P
<1>9. \A a \in DOMAIN P.agents : Daemon!ValidAgent(P, a)
  BY <1>2, ProjectedAgentValid DEF P
<1>10. \A s \in P.snapshots : s.workspace \in DOMAIN P.workspaces
  BY <1>2, <1>3 DEF Stored
<1>11. \A v \in DOMAIN P.views : /\ v \in DOMAIN P.workspaces
                                 /\ P.views[v].pinned => P.views[v].kind = "pinned"
  <2>1. /\ DOMAIN V \subseteq DOMAIN Spaces(prev, g)
        /\ \A v \in DOMAIN V : V[v] = IF v \in DOMAIN prev.views THEN prev.views[v]
                                      ELSE [kind |-> "shared", pinned |-> FALSE]
    BY <1>1, ViewsOK
  <2> HIDE DEF V
  <2>2. ASSUME NEW v \in DOMAIN V, V[v].pinned PROVE V[v].kind = "pinned"
    <3>1. CASE v \in DOMAIN prev.views BY <1>4, <2>1, <2>2, <3>1
    <3>2. CASE v \notin DOMAIN prev.views
      <4>1. V[v] = [kind |-> "shared", pinned |-> FALSE] BY <2>1, <3>2
      <4>2. V[v].pinned = FALSE BY <4>1
      <4> QED BY <2>2, <4>2
    <3> QED BY <3>1, <3>2
  <2> QED BY <1>2, <1>3, <2>1, <2>2
<1>12. \A h \in P.history : Daemon!ValidScope(P, h.scope)
  BY <1>2 DEF Remembered, About, Daemon!ValidScope
<1>13. \A p \in P.plans : Daemon!ValidPlan(P, p)
  <2>1. ASSUME NEW p \in Planned(prev, g) PROVE Daemon!ValidPlan(P, p)
    <3>1. p \in prev.plans /\ p.workspace \in DOMAIN Spaces(prev, g) BY DEF Planned
    <3>2. PICK s \in prev.snapshots : s.id = p.snapshot /\ s.workspace = p.workspace
      BY <1>4, <3>1 DEF Daemon!ValidPlan
    <3>3. s \in Stored(prev, g) BY <3>1, <3>2 DEF Stored
    <3> QED BY <1>2, <3>2, <3>3 DEF Daemon!ValidPlan
  <2> QED BY <1>2, <2>1
<1>14. Daemon!ValidateCatalog(P)
  BY <1>5, <1>6, <1>7, <1>8, <1>9, <1>10, <1>11, <1>12, <1>13 DEF Daemon!ValidateCatalog
<1> QED BY <1>14 DEF P

-----------------------------------------------------------------------------
(***************************************************************************)
(* What the user and the commands make of the runtime                      *)
(***************************************************************************)

PaneStates == [tab : Daemon!Tabs, state : {"live", "exited"}, agent : BOOLEAN]

(* A session has only so many panes.                                       *)
LEMMA BornOK ==
    ASSUME NEW g, Daemon!RuntimeOK(g), NEW s \in Daemon!Sessions
    PROVE  Daemon!Born(g, s) \in Nat
<1> DEFINE born == {p \in g.born : Daemon!Home(p) = s}
           numbers == 1 .. MaxPanes[s]
           panes == {<< s, n >> : n \in numbers}
           f == [n \in numbers |-> << s, n >>]
<1>1. MaxPanes[s] \in Nat BY CatalogAssumptions DEF Daemon!CatalogAssumption
<1>2. IsFiniteSet(numbers) BY <1>1, FS_Interval
<1>3. f \in Surjection(numbers, panes) BY Zenon DEF Surjection
<1>4. IsFiniteSet(panes)
  <2> HIDE DEF f, panes, numbers
  <2> QED BY <1>2, <1>3, FS_Surjection
<1>5. born \subseteq panes
  <2>1. ASSUME NEW p \in born PROVE p \in panes
    <3>1. p \in Daemon!AllPanes /\ Daemon!Home(p) = s BY DEF Daemon!RuntimeOK
    <3>2. p = << s, p[2] >> /\ p[2] \in numbers BY <3>1, PaneFacts
    <3> QED BY <3>2
  <2> QED BY <2>1
<1>6. IsFiniteSet(born) BY <1>4, <1>5, FS_Subset
<1>7. Cardinality(born) \in Nat BY <1>6, FS_CardinalityType
<1> QED BY <1>7, DaemonFinite DEF Daemon!Born

LEMMA WithOK ==
    ASSUME NEW g, Daemon!RuntimeOK(g), NEW panes,
           DOMAIN panes \subseteq Daemon!AllPanes, panes \in [DOMAIN panes -> PaneStates]
    PROVE  Daemon!RuntimeOK(Daemon!With(g, panes))
<1> DEFINE left == {Daemon!Home(p) : p \in DOMAIN panes}
           born == {p \in g.born \cup DOMAIN panes : Daemon!Home(p) \in left}
           h == Daemon!With(g, panes)
<1>1. h = [panes |-> panes, clients |-> g.clients \cap left, born |-> born]
  BY DEF Daemon!With
<1>2. DOMAIN panes \subseteq born OBVIOUS
<1>3. born \subseteq Daemon!AllPanes BY DEF Daemon!RuntimeOK
<1>4. g.clients \cap left \subseteq left OBVIOUS
<1> HIDE DEF left, born, h
<1>5. h = [panes |-> h.panes, clients |-> h.clients, born |-> h.born] BY <1>1
<1>6. h.panes = panes /\ h.clients \subseteq left /\ h.born = born BY <1>1, <1>4
<1>7. Daemon!RuntimeOK(h)
  BY <1>2, <1>3, <1>5, <1>6 DEF Daemon!RuntimeOK, PaneStates, left
<1> QED BY <1>7 DEF h

LEMMA OpenedOK ==
    ASSUME NEW g, Daemon!RuntimeOK(g), NEW s \in Daemon!Sessions,
           NEW tabs \in Seq(Daemon!Tabs), Len(tabs) <= Daemon!Unused(g, s)
    PROVE  Daemon!RuntimeOK(Daemon!Opened(g, s, tabs))
<1> DEFINE b == Daemon!Born(g, s)
           new == {<< s, b + i >> : i \in DOMAIN tabs}
           pane(p) == IF p \in new THEN Daemon!Shell(tabs[p[2] - b]) ELSE g.panes[p]
           panes == [p \in DOMAIN g.panes \cup new |-> pane(p)]
<1>1. b \in Nat /\ MaxPanes[s] \in Nat
  BY BornOK, CatalogAssumptions DEF Daemon!CatalogAssumption
<1>2. b + Len(tabs) <= MaxPanes[s] BY <1>1 DEF Daemon!Unused
<1>3. Daemon!Opened(g, s, tabs) = Daemon!With(g, panes) BY DEF Daemon!Opened
<1> HIDE DEF b
<1>4. ASSUME NEW p \in new PROVE p \in Daemon!AllPanes /\ pane(p) \in PaneStates
  <2>1. PICK i \in 1 .. Len(tabs) : p = << s, b + i >> OBVIOUS
  <2>2. b + i \in 1 .. MaxPanes[s] BY <1>1, <1>2
  <2>3. p \in Daemon!AllPanes BY <2>1, <2>2, PaneFacts
  <2>4. p[2] - b = i BY <1>1, <2>1
  <2>5. pane(p) = Daemon!Shell(tabs[i]) BY <2>4
  <2>6. tabs[i] \in Daemon!Tabs OBVIOUS
  <2> HIDE DEF pane
  <2>7. pane(p) \in PaneStates BY <2>5, <2>6 DEF PaneStates, Daemon!Shell
  <2> QED BY <2>3, <2>7
<1>5. ASSUME NEW p \in DOMAIN g.panes, p \notin new
      PROVE  p \in Daemon!AllPanes /\ pane(p) \in PaneStates
  <2>1. p \in Daemon!AllPanes /\ g.panes[p] \in PaneStates
    BY RuntimePanes DEF PaneStates
  <2> QED BY <1>5, <2>1
<1> HIDE DEF pane, new
<1>6. panes \in [DOMAIN panes -> PaneStates] /\ DOMAIN panes \subseteq Daemon!AllPanes
  BY <1>4, <1>5
<1> HIDE DEF panes
<1> QED BY <1>3, <1>6, WithOK

LEMMA ClosedOK ==
    ASSUME NEW g, Daemon!RuntimeOK(g), NEW gone
    PROVE  Daemon!RuntimeOK(Daemon!Closed(g, gone))
<1> DEFINE panes == [p \in DOMAIN g.panes \ gone |-> g.panes[p]]
<1>1. \A p \in DOMAIN g.panes : p \in Daemon!AllPanes /\ g.panes[p] \in PaneStates
  BY RuntimePanes DEF PaneStates
<1>2. panes \in [DOMAIN panes -> PaneStates] /\ DOMAIN panes \subseteq Daemon!AllPanes
  BY <1>1
<1>3. Daemon!Closed(g, gone) = Daemon!With(g, panes) BY DEF Daemon!Closed
<1> HIDE DEF panes
<1> QED BY <1>2, <1>3, WithOK

LEMMA NoRuntimeOK == Daemon!RuntimeOK(Daemon!NoRuntime)
<1> DEFINE g == Daemon!NoRuntime
<1>1. g = [panes |-> << >>, clients |-> {}, born |-> {}] BY DEF Daemon!NoRuntime
<1> HIDE DEF g
<1>2. g.panes = << >> /\ g.clients = {} /\ g.born = {} BY <1>1
<1>3. DOMAIN g.panes = {} /\ g.panes \in [{} -> PaneStates]
  <2>1. << >> \in [{} -> PaneStates] OBVIOUS
  <2> QED BY <1>2, <2>1
<1>4. g = [panes |-> g.panes, clients |-> g.clients, born |-> g.born] BY <1>1
<1> QED BY <1>2, <1>3, <1>4 DEF Daemon!RuntimeOK, PaneStates, g

LEMMA ClientsOK ==
    ASSUME NEW g, Daemon!RuntimeOK(g), NEW s, Daemon!Exists(g, s)
    PROVE  Daemon!RuntimeOK([g EXCEPT !.clients = IF s \in @ THEN @ \ {s} ELSE @ \cup {s}])
<1> DEFINE h == [g EXCEPT !.clients = IF s \in @ THEN @ \ {s} ELSE @ \cup {s}]
           clients == IF s \in g.clients THEN g.clients \ {s} ELSE g.clients \cup {s}
<1>1. g = [panes |-> g.panes, clients |-> g.clients, born |-> g.born]
  BY DEF Daemon!RuntimeOK
<1>2. h = [panes |-> g.panes, clients |-> clients, born |-> g.born] BY <1>1
<1>3. clients \subseteq {Daemon!Home(p) : p \in DOMAIN g.panes}
  BY DEF Daemon!RuntimeOK, Daemon!Exists, Daemon!PanesOf
<1> HIDE DEF h, clients
<1>4. h.panes = g.panes /\ h.clients = clients /\ h.born = g.born BY <1>2
<1>5. h = [panes |-> h.panes, clients |-> h.clients, born |-> h.born] BY <1>2
<1>6. Daemon!RuntimeOK(h) BY <1>3, <1>4, <1>5 DEF Daemon!RuntimeOK
<1> QED BY <1>6 DEF h

LEMMA ProgramsOK ==
    ASSUME NEW g, Daemon!RuntimeOK(g), NEW p \in DOMAIN g.panes
    PROVE  /\ Daemon!RuntimeOK([g EXCEPT !.panes[p].agent = ~@])
           /\ Daemon!RuntimeOK([g EXCEPT !.panes[p].state = "exited"])
<1>1. ASSUME NEW x \in PaneStates
      PROVE  Daemon!RuntimeOK([g EXCEPT !.panes[p] = x])
  <2> DEFINE h == [g EXCEPT !.panes[p] = x]
             panes == [g.panes EXCEPT ![p] = x]
  <2>1. g = [panes |-> g.panes, clients |-> g.clients, born |-> g.born]
    BY DEF Daemon!RuntimeOK
  <2>2. h = [panes |-> panes, clients |-> g.clients, born |-> g.born] BY <2>1
  <2>3. DOMAIN panes = DOMAIN g.panes /\ panes \in [DOMAIN panes -> PaneStates]
    BY DEF Daemon!RuntimeOK, PaneStates
  <2> HIDE DEF h, panes
  <2>4. h.panes = panes /\ h.clients = g.clients /\ h.born = g.born BY <2>2
  <2>5. h = [panes |-> h.panes, clients |-> h.clients, born |-> h.born] BY <2>2
  <2>6. Daemon!RuntimeOK(h) BY <2>3, <2>4, <2>5 DEF Daemon!RuntimeOK, PaneStates
  <2> QED BY <2>6 DEF h
<1> DEFINE y == g.panes[p]
<1>2. y \in PaneStates BY RuntimePanes DEF PaneStates
<1> HIDE DEF y
<1>3. [y EXCEPT !.agent = ~@] \in PaneStates /\ [y EXCEPT !.state = "exited"] \in PaneStates
  BY <1>2 DEF PaneStates
<1>4. /\ [g EXCEPT !.panes[p].agent = ~@] = [g EXCEPT !.panes[p] = [y EXCEPT !.agent = ~@]]
      /\ [g EXCEPT !.panes[p].state = "exited"]
            = [g EXCEPT !.panes[p] = [y EXCEPT !.state = "exited"]]
  BY DEF y
<1> QED BY <1>1, <1>3, <1>4

-----------------------------------------------------------------------------
(***************************************************************************)
(* What the commands make of the catalog                                   *)
(***************************************************************************)

Made(up, workspaces, terminals, agents, views, history, snapshots, plans, keep, nil) ==
    [up |-> up, workspaces |-> workspaces, terminals |-> terminals, agents |-> agents,
     views |-> views, history |-> history, snapshots |-> snapshots, plans |-> plans,
     keep |-> keep, nil |-> nil]

IsCatalog(c) ==
    c = Made(c.up, c.workspaces, c.terminals, c.agents, c.views, c.history, c.snapshots,
             c.plans, c.keep, c.nil)

WorkspacesTyped(f) ==
    DOMAIN f \subseteq Daemon!Sessions /\ f \in [DOMAIN f -> Daemon!Workspaces]
TerminalsTyped(f) ==
    DOMAIN f \subseteq Daemon!AllPanes /\ f \in [DOMAIN f -> Daemon!Terminals]
AgentsTyped(f) ==
    /\ DOMAIN f \subseteq Daemon!AllPanes /\ f \in [DOMAIN f -> Daemon!Agents]
    /\ \A a \in DOMAIN f : (f[a].state = "done") = (f[a].terminal = NoPane)
ViewsTyped(f) ==
    DOMAIN f \subseteq Daemon!Sessions /\ f \in [DOMAIN f -> Daemon!Views]
HistoryTyped(H) == Daemon!HistoryOK(H)
SnapshotsTyped(S) ==
    \A s \in S : s \in [id : {s.id}, workspace : Daemon!Sessions, state : Daemon!States]
PlansTyped(P) ==
    \A p \in P : p \in [id : {p.id}, snapshot : {p.snapshot}, workspace : Daemon!Sessions,
                        status : {"pending", "applied"}]

Typed(up, workspaces, terminals, agents, views, history, snapshots, plans, keep, nil) ==
    /\ up \in BOOLEAN /\ WorkspacesTyped(workspaces) /\ TerminalsTyped(terminals)
    /\ AgentsTyped(agents) /\ ViewsTyped(views) /\ HistoryTyped(history)
    /\ SnapshotsTyped(snapshots) /\ PlansTyped(plans) /\ keep \in BOOLEAN
    /\ nil \subseteq DOMAIN workspaces \cup {"history"}

LEMMA CatalogParts ==
    ASSUME NEW c, Daemon!CatalogOK(c)
    PROVE  /\ IsCatalog(c)
           /\ Typed(c.up, c.workspaces, c.terminals, c.agents, c.views, c.history,
                    c.snapshots, c.plans, c.keep, c.nil)
<1>1. c \in [up : BOOLEAN, workspaces : {c.workspaces}, terminals : {c.terminals},
             agents : {c.agents}, views : {c.views}, history : {c.history},
             snapshots : {c.snapshots}, plans : {c.plans}, keep : BOOLEAN,
             nil : SUBSET (DOMAIN c.workspaces \cup {"history"})]
  BY DEF Daemon!CatalogOK
<1>2. IsCatalog(c) BY <1>1 DEF IsCatalog, Made
<1>3. c.up \in BOOLEAN BY <1>1
<1>4. c.keep \in BOOLEAN BY <1>1
<1>5. c.nil \subseteq DOMAIN c.workspaces \cup {"history"} BY <1>1
<1>6. /\ WorkspacesTyped(c.workspaces) /\ TerminalsTyped(c.terminals)
      /\ ViewsTyped(c.views) /\ HistoryTyped(c.history)
      /\ SnapshotsTyped(c.snapshots) /\ PlansTyped(c.plans)
  BY DEF Daemon!CatalogOK, WorkspacesTyped, TerminalsTyped, ViewsTyped, HistoryTyped,
         SnapshotsTyped, PlansTyped
<1>7. AgentsTyped(c.agents) BY DEF Daemon!CatalogOK, AgentsTyped
<1> QED BY <1>2, <1>3, <1>4, <1>5, <1>6, <1>7 DEF Typed

LEMMA MadeOK ==
    ASSUME NEW up, NEW ws, NEW ts, NEW as, NEW vs, NEW hs, NEW ss, NEW ps, NEW k, NEW n,
           Typed(up, ws, ts, as, vs, hs, ss, ps, k, n)
    PROVE  Daemon!CatalogOK(Made(up, ws, ts, as, vs, hs, ss, ps, k, n))
<1> DEFINE c == Made(up, ws, ts, as, vs, hs, ss, ps, k, n)
<1>1. /\ c.workspaces = ws /\ c.terminals = ts /\ c.agents = as /\ c.views = vs
      /\ c.history = hs /\ c.snapshots = ss /\ c.plans = ps
  BY DEF Made
<1>2. c \in [up : BOOLEAN, workspaces : {ws}, terminals : {ts}, agents : {as}, views : {vs},
             history : {hs}, snapshots : {ss}, plans : {ps}, keep : BOOLEAN,
             nil : SUBSET (DOMAIN ws \cup {"history"})]
  BY DEF Made, Typed
<1> HIDE DEF c
<1>3. /\ WorkspacesTyped(ws) /\ TerminalsTyped(ts) /\ AgentsTyped(as)
      /\ ViewsTyped(vs) /\ HistoryTyped(hs) /\ SnapshotsTyped(ss) /\ PlansTyped(ps)
  BY DEF Typed
<1>4. Daemon!CatalogOK(c)
  BY <1>1, <1>2, <1>3
     DEF Daemon!CatalogOK, WorkspacesTyped, TerminalsTyped, AgentsTyped, ViewsTyped,
         HistoryTyped, SnapshotsTyped, PlansTyped
<1> QED BY <1>4 DEF c

(* What a command that looks at the runtime does to the catalog before it  *)
(* projects                                                                *)
Carries(c, d) ==
    /\ d.workspaces = c.workspaces /\ d.terminals = c.terminals
    /\ d.views = c.views /\ d.snapshots = c.snapshots /\ c.history \subseteq d.history

LEMMA ClonedOK ==
    ASSUME NEW c, Daemon!CatalogOK(c)
    PROVE  /\ Daemon!CatalogOK(Daemon!Cloned(c)) /\ Carries(c, Daemon!Cloned(c))
           /\ Daemon!Cloned(c) = Made(c.up, c.workspaces, c.terminals, c.agents, c.views,
                                      c.history, c.snapshots, c.plans, c.keep,
                                      c.nil \cap {"history"})
<1> DEFINE n == c.nil \cap {"history"}
           d == Daemon!Cloned(c)
<1>1. /\ IsCatalog(c)
      /\ Typed(c.up, c.workspaces, c.terminals, c.agents, c.views, c.history,
               c.snapshots, c.plans, c.keep, c.nil)
  BY CatalogParts
<1>2. d = [c EXCEPT !.nil = n] BY DEF Daemon!Cloned
<1>3. d = Made(c.up, c.workspaces, c.terminals, c.agents, c.views, c.history,
               c.snapshots, c.plans, c.keep, n)
  <2> HIDE DEF n, d
  <2> QED BY <1>1, <1>2 DEF IsCatalog, Made
<1>4. Typed(c.up, c.workspaces, c.terminals, c.agents, c.views, c.history,
            c.snapshots, c.plans, c.keep, n)
  BY <1>1 DEF Typed
<1> HIDE DEF n, d
<1>5. Daemon!CatalogOK(d) BY <1>3, <1>4, MadeOK
<1>6. Carries(c, d) BY <1>3 DEF Carries, Made
<1> QED BY <1>3, <1>5, <1>6 DEF n, d

(* History that is appended is given the next places.                      *)
Appended(c, scopes) ==
    {[scope |-> scopes[i], seq |-> Daemon!NextSeq(c, scopes[i]),
      at |-> Daemon!NextPlace(c) + i - 1, old |-> FALSE] : i \in DOMAIN scopes}

LEMMA AppendedOK ==
    ASSUME NEW c, Daemon!HistoryOK(c.history), NEW scopes \in Seq(Daemon!Scopes),
           Daemon!NextPlace(c) + Len(scopes) <= MaxPlace + 1
    PROVE  Daemon!HistoryOK(c.history \cup Appended(c, scopes))
<1> DEFINE N == Appended(c, scopes)
           next == Daemon!NextPlace(c)
           F(i) == [scope |-> scopes[i], seq |-> Daemon!NextSeq(c, scopes[i]),
                    at |-> next + i - 1, old |-> FALSE]
           n == Len(scopes)
           numbers == 1 .. n
           f == [i \in numbers |-> F(i)]
<1>1. MaxPlace \in Nat BY CatalogAssumptions DEF Daemon!CatalogAssumption
<1>2. n \in Nat /\ DOMAIN scopes = 1 .. n /\ \A i \in 1 .. n : scopes[i] \in Daemon!Scopes
  OBVIOUS
<1>3. next \in Nat \ {0} /\ \A h \in c.history : h.at < next BY NextPlaceOK
<1>4. N = {F(i) : i \in 1 .. n} BY <1>2 DEF Appended
<1>5. IsFiniteSet(c.history) BY DaemonFinite DEF Daemon!HistoryOK
<1>6. IsFiniteSet(N)
  <2>1. IsFiniteSet(numbers) BY <1>2, FS_Interval
  <2>2. f \in Surjection(numbers, N) BY <1>4, Zenon DEF Surjection
  <2> HIDE DEF f, N, numbers
  <2> QED BY <2>1, <2>2, FS_Surjection
<1>7. Daemon!IsFiniteSet(c.history \cup N)
  <2> HIDE DEF N
  <2> QED BY <1>5, <1>6, FS_Union, DaemonFinite
<1> HIDE DEF n, next
<1>8. ASSUME NEW i \in 1 .. n
      PROVE  LET h == F(i)
             IN  /\ h \in [scope : Daemon!Scopes, seq : {h.seq}, at : 1 .. MaxPlace,
                           old : BOOLEAN]
                 /\ h.at >= next
  <2>1. next + i - 1 \in 1 .. MaxPlace /\ next + i - 1 >= next
    BY <1>1, <1>2, <1>3 DEF n, next
  <2>2. scopes[i] \in Daemon!Scopes BY <1>2
  <2> QED BY <2>1, <2>2
<1>9. ASSUME NEW i \in 1 .. n, NEW j \in 1 .. n, F(i).at = F(j).at PROVE F(i) = F(j)
  <2>1. next + i - 1 = next + j - 1 BY <1>9
  <2>2. i = j BY <1>2, <1>3, <2>1
  <2> QED BY <2>2
<1>10. \A h \in N : /\ h \in [scope : Daemon!Scopes, seq : {h.seq}, at : 1 .. MaxPlace,
                                old : BOOLEAN]
                    /\ h.at >= next
  <2> HIDE DEF F
  <2>1. SUFFICES ASSUME NEW i \in 1 .. n
                 PROVE  LET h == F(i)
                        IN  /\ h \in [scope : Daemon!Scopes, seq : {h.seq},
                                      at : 1 .. MaxPlace, old : BOOLEAN]
                            /\ h.at >= next
    BY <1>4
  <2> QED BY <1>8 DEF F
<1>11. \A h, k \in N : h.at = k.at => h = k
  <2> HIDE DEF F
  <2> QED BY <1>4, <1>9
<1> HIDE DEF N, F
<1>12. \A h \in c.history : \A k \in N : h.at # k.at
  <2>1. \A h \in c.history : h.at \in 1 .. MaxPlace /\ h.at < next BY <1>3, PlacesOK
  <2>2. \A k \in N : k.at \in 1 .. MaxPlace /\ k.at >= next BY <1>10
  <2> QED BY <1>1, <1>3, <2>1, <2>2
<1> QED BY <1>7, <1>10, <1>11, <1>12 DEF Daemon!HistoryOK, N

LEMMA RecordedOK ==
    ASSUME NEW c, Daemon!CatalogOK(c), NEW scopes \in Seq(Daemon!Scopes),
           Daemon!NextPlace(c) + Len(scopes) <= MaxPlace + 1
    PROVE  /\ Daemon!CatalogOK(Daemon!Recorded(c, scopes))
           /\ Carries(c, Daemon!Recorded(c, scopes))
<1> DEFINE H == c.history \cup Appended(c, scopes)
           n == IF scopes = << >> THEN c.nil ELSE c.nil \ {"history"}
           d == Daemon!Recorded(c, scopes)
<1>1. /\ IsCatalog(c)
      /\ Typed(c.up, c.workspaces, c.terminals, c.agents, c.views, c.history,
               c.snapshots, c.plans, c.keep, c.nil)
  BY CatalogParts
<1>2. d = [c EXCEPT !.history = H, !.nil = n] BY DEF Daemon!Recorded, Appended
<1>3. d = Made(c.up, c.workspaces, c.terminals, c.agents, c.views, H,
               c.snapshots, c.plans, c.keep, n)
  <2> HIDE DEF n, d, H
  <2> QED BY <1>1, <1>2 DEF IsCatalog, Made
<1>4. HistoryTyped(H) BY <1>1, AppendedOK DEF Typed, HistoryTyped
<1>5. n \subseteq c.nil OBVIOUS
<1>6. c.history \subseteq H OBVIOUS
<1> HIDE DEF H, n, d
<1>7. Typed(c.up, c.workspaces, c.terminals, c.agents, c.views, H,
            c.snapshots, c.plans, c.keep, n)
  BY <1>1, <1>4, <1>5 DEF Typed
<1>8. Daemon!CatalogOK(d) BY <1>3, <1>7, MadeOK
<1>9. Carries(c, d) BY <1>3, <1>6 DEF Carries, Made
<1> QED BY <1>8, <1>9 DEF d

LEMMA AgentsChanged ==
    ASSUME NEW c, Daemon!CatalogOK(c), NEW f, AgentsTyped(f)
    PROVE  Daemon!CatalogOK([c EXCEPT !.agents = f]) /\ Carries(c, [c EXCEPT !.agents = f])
<1> DEFINE d == [c EXCEPT !.agents = f]
<1>1. /\ IsCatalog(c)
      /\ Typed(c.up, c.workspaces, c.terminals, c.agents, c.views, c.history,
               c.snapshots, c.plans, c.keep, c.nil)
  BY CatalogParts
<1>2. d = Made(c.up, c.workspaces, c.terminals, f, c.views, c.history,
               c.snapshots, c.plans, c.keep, c.nil)
  BY <1>1 DEF IsCatalog, Made
<1>3. Typed(c.up, c.workspaces, c.terminals, f, c.views, c.history,
            c.snapshots, c.plans, c.keep, c.nil)
  BY <1>1 DEF Typed
<1> HIDE DEF d
<1>4. Daemon!CatalogOK(d) BY <1>2, <1>3, MadeOK
<1>5. Carries(c, d) BY <1>2 DEF Carries, Made
<1> QED BY <1>4, <1>5 DEF d

(* What one says of an agent that has a terminal, it keeps.                *)
LEMMA AgentChanged ==
    ASSUME NEW f, AgentsTyped(f), NEW a \in DOMAIN f
    PROVE  /\ \A x \in {"running", "waiting"} :
                 f[a].terminal # NoPane => AgentsTyped([f EXCEPT ![a].state = x])
           /\ AgentsTyped([f EXCEPT ![a].claimed = TRUE])
<1> DEFINE b == f[a]
<1>1. b \in Daemon!Agents /\ (b.state = "done") = (b.terminal = NoPane) BY DEF AgentsTyped
<1>2. ASSUME NEW y \in Daemon!Agents, (y.state = "done") = (y.terminal = NoPane)
      PROVE  AgentsTyped([f EXCEPT ![a] = y])
  <2> DEFINE e == [f EXCEPT ![a] = y]
  <2>1. DOMAIN e = DOMAIN f /\ e \in [DOMAIN f -> Daemon!Agents] BY <1>2 DEF AgentsTyped
  <2>2. e[a] = y /\ \A x \in DOMAIN f : x # a => e[x] = f[x] OBVIOUS
  <2> HIDE DEF e
  <2>3. \A x \in DOMAIN f : (e[x].state = "done") = (e[x].terminal = NoPane)
    BY <1>2, <2>2 DEF AgentsTyped
  <2>4. AgentsTyped(e) BY <2>1, <2>3 DEF AgentsTyped
  <2> QED BY <2>4 DEF e
<1>3. /\ \A x : [f EXCEPT ![a].state = x] = [f EXCEPT ![a] = [b EXCEPT !.state = x]]
      /\ [f EXCEPT ![a].claimed = TRUE] = [f EXCEPT ![a] = [b EXCEPT !.claimed = TRUE]]
  OBVIOUS
<1> HIDE DEF b
<1>4. ASSUME NEW x \in {"running", "waiting"}, b.terminal # NoPane
      PROVE  /\ [b EXCEPT !.state = x] \in Daemon!Agents
             /\ [b EXCEPT !.state = x].state # "done"
             /\ [b EXCEPT !.state = x].terminal # NoPane
  BY <1>1, <1>4 DEF Daemon!Agents
<1>5. /\ [b EXCEPT !.claimed = TRUE] \in Daemon!Agents
      /\ [b EXCEPT !.claimed = TRUE].state = b.state
      /\ [b EXCEPT !.claimed = TRUE].terminal = b.terminal
  BY <1>1 DEF Daemon!Agents
<1>6. \A x \in {"running", "waiting"} :
         b.terminal # NoPane => AgentsTyped([f EXCEPT ![a].state = x])
  <2> SUFFICES ASSUME NEW x \in {"running", "waiting"}, b.terminal # NoPane
               PROVE  AgentsTyped([f EXCEPT ![a] = [b EXCEPT !.state = x]])
    BY <1>3
  <2> DEFINE y == [b EXCEPT !.state = x]
  <2>1. y \in Daemon!Agents /\ y.state # "done" /\ y.terminal # NoPane BY <1>4
  <2> HIDE DEF y
  <2>2. AgentsTyped([f EXCEPT ![a] = y]) BY <1>2, <2>1
  <2> QED BY <2>2 DEF y
<1>7. AgentsTyped([f EXCEPT ![a].claimed = TRUE])
  <2> DEFINE y == [b EXCEPT !.claimed = TRUE]
  <2>1. y \in Daemon!Agents /\ (y.state = "done") = (y.terminal = NoPane) BY <1>1, <1>5
  <2> HIDE DEF y
  <2>2. AgentsTyped([f EXCEPT ![a] = y]) BY <1>2, <2>1
  <2> QED BY <1>3, <2>2 DEF y
<1> QED BY <1>6, <1>7 DEF b

(* What is to outlive a step, but for what the step is to take away        *)
Keeps(c, d, deleted, adopted, unpinned) ==
    /\ c.snapshots \ deleted \subseteq d.snapshots
    /\ \A h \in c.history :
          h.scope.kind = "terminal" /\ ~h.old =>
              \/ \E k \in d.history : k.scope = h.scope /\ k.seq = h.seq
              \/ Daemon!Cardinality(Daemon!Newer(d.history, h)) >= MaxChunks
    /\ \A s \in (DOMAIN c.workspaces \cap DOMAIN d.workspaces) \ adopted :
          c.workspaces[s].status = "frozen" =>
              /\ d.workspaces[s].status = "frozen"
              /\ d.workspaces[s].desired = c.workspaces[s].desired
    /\ \A v \in DOMAIN c.views \ unpinned :
          c.views[v].pinned /\ v \in DOMAIN d.workspaces =>
              v \in DOMAIN d.views /\ d.views[v].pinned

LEMMA SameKept ==
    ASSUME NEW c, NEW d, d.workspaces = c.workspaces, d.views = c.views,
           c.snapshots \subseteq d.snapshots, c.history \subseteq d.history
    PROVE  Keeps(c, d, {}, {}, {})
BY DEF Keeps

LEMMA AdoptedOK ==
    ASSUME NEW c, Daemon!CatalogOK(c), NEW s \in DOMAIN c.workspaces,
           NEW status \in {"ok", "frozen"}
    PROVE  /\ Daemon!CatalogOK(Daemon!Adopted(c, s, status))
           /\ Keeps(c, Daemon!Adopted(c, s, status), {}, {s}, {})
           /\ DOMAIN Daemon!Adopted(c, s, status).workspaces = DOMAIN c.workspaces
           /\ Daemon!Adopted(c, s, status).snapshots = c.snapshots
           /\ Daemon!Adopted(c, s, status).plans = c.plans
<1> DEFINE n == c.nil \cap {"history"}
           e == Daemon!Cloned(c)
           w == c.workspaces[s]
           x == [w EXCEPT !.desired = w.observed, !.drift = FALSE, !.status = status]
           f == [c.workspaces EXCEPT ![s] = x]
           d == Daemon!Adopted(c, s, status)
<1>1. Typed(c.up, c.workspaces, c.terminals, c.agents, c.views, c.history,
            c.snapshots, c.plans, c.keep, c.nil)
  BY CatalogParts
<1>2. e = Made(c.up, c.workspaces, c.terminals, c.agents, c.views, c.history,
               c.snapshots, c.plans, c.keep, n)
  BY ClonedOK
<1>3. d = [e EXCEPT !.workspaces[s] =
              [@ EXCEPT !.desired = c.workspaces[s].observed, !.drift = FALSE,
                        !.status = status]]
  BY DEF Daemon!Adopted
<1>4. d = Made(c.up, f, c.terminals, c.agents, c.views, c.history,
               c.snapshots, c.plans, c.keep, n)
  <2> HIDE DEF e, n, d
  <2> QED BY <1>2, <1>3 DEF Made
<1>5. x \in Daemon!Workspaces
  <2>1. w \in Daemon!Workspaces BY <1>1 DEF Typed, WorkspacesTyped
  <2> HIDE DEF w
  <2> QED BY <2>1 DEF Daemon!Workspaces
<1>6. WorkspacesTyped(c.workspaces) BY <1>1 DEF Typed
<1> HIDE DEF x
<1>7. DOMAIN f = DOMAIN c.workspaces /\ WorkspacesTyped(f)
  BY <1>5, <1>6 DEF WorkspacesTyped
<1>8. Typed(c.up, f, c.terminals, c.agents, c.views, c.history,
            c.snapshots, c.plans, c.keep, n)
  BY <1>1, <1>7 DEF Typed
<1>9. \A u \in DOMAIN c.workspaces : u # s => f[u] = c.workspaces[u] OBVIOUS
<1> HIDE DEF n, d, f, e, w
<1>10. Daemon!CatalogOK(d) BY <1>4, <1>8, MadeOK
<1>11. /\ d.workspaces = f /\ d.views = c.views /\ d.snapshots = c.snapshots
       /\ d.history = c.history /\ d.plans = c.plans
  BY <1>4 DEF Made
<1>12. Keeps(c, d, {}, {s}, {}) BY <1>7, <1>9, <1>11 DEF Keeps
<1> QED BY <1>7, <1>10, <1>11, <1>12 DEF d

LEMMA ViewChanged ==
    ASSUME NEW c, Daemon!CatalogOK(c), NEW v \in DOMAIN c.views, NEW x \in Daemon!Views
    PROVE  LET d == [Daemon!Cloned(c) EXCEPT !.views[v] = x]
           IN  /\ Daemon!CatalogOK(d) /\ Keeps(c, d, {}, {}, {v})
               /\ x.pinned => Keeps(c, d, {}, {}, {})
<1> DEFINE n == c.nil \cap {"history"}
           e == Daemon!Cloned(c)
           f == [c.views EXCEPT ![v] = x]
           d == [e EXCEPT !.views[v] = x]
<1>1. Typed(c.up, c.workspaces, c.terminals, c.agents, c.views, c.history,
            c.snapshots, c.plans, c.keep, c.nil)
  BY CatalogParts
<1>2. e = Made(c.up, c.workspaces, c.terminals, c.agents, c.views, c.history,
               c.snapshots, c.plans, c.keep, n)
  BY ClonedOK
<1>3. d = Made(c.up, c.workspaces, c.terminals, c.agents, f, c.history,
               c.snapshots, c.plans, c.keep, n)
  <2> HIDE DEF e, n
  <2> QED BY <1>2 DEF Made
<1>4. ViewsTyped(c.views) BY <1>1 DEF Typed
<1>5. DOMAIN f = DOMAIN c.views /\ ViewsTyped(f) BY <1>4 DEF ViewsTyped
<1>6. Typed(c.up, c.workspaces, c.terminals, c.agents, f, c.history,
            c.snapshots, c.plans, c.keep, n)
  BY <1>1, <1>5 DEF Typed
<1>7. f[v] = x /\ \A u \in DOMAIN c.views : u # v => f[u] = c.views[u] OBVIOUS
<1> HIDE DEF n, d, f, e
<1>8. Daemon!CatalogOK(d) BY <1>3, <1>6, MadeOK
<1>9. /\ d.workspaces = c.workspaces /\ d.views = f /\ d.snapshots = c.snapshots
      /\ d.history = c.history
  BY <1>3 DEF Made
<1>10. Keeps(c, d, {}, {}, {v}) BY <1>5, <1>7, <1>9 DEF Keeps
<1>11. ASSUME x.pinned PROVE Keeps(c, d, {}, {}, {}) BY <1>5, <1>7, <1>9, <1>11 DEF Keeps
<1> QED BY <1>8, <1>10, <1>11 DEF d, e

LEMMA KeepChanged ==
    ASSUME NEW c, Daemon!CatalogOK(c), NEW keep \in BOOLEAN
    PROVE  LET d == [Daemon!Cloned(c) EXCEPT !.keep = keep]
           IN  Daemon!CatalogOK(d) /\ Keeps(c, d, {}, {}, {})
<1> DEFINE n == c.nil \cap {"history"}
           e == Daemon!Cloned(c)
           d == [e EXCEPT !.keep = keep]
<1>1. Typed(c.up, c.workspaces, c.terminals, c.agents, c.views, c.history,
            c.snapshots, c.plans, c.keep, c.nil)
  BY CatalogParts
<1>2. e = Made(c.up, c.workspaces, c.terminals, c.agents, c.views, c.history,
               c.snapshots, c.plans, c.keep, n)
  BY ClonedOK
<1>3. d = Made(c.up, c.workspaces, c.terminals, c.agents, c.views, c.history,
               c.snapshots, c.plans, keep, n)
  <2> HIDE DEF e, n
  <2> QED BY <1>2 DEF Made
<1>4. Typed(c.up, c.workspaces, c.terminals, c.agents, c.views, c.history,
            c.snapshots, c.plans, keep, n)
  BY <1>1 DEF Typed
<1> HIDE DEF n, d, e
<1>5. Daemon!CatalogOK(d) BY <1>3, <1>4, MadeOK
<1>6. /\ d.workspaces = c.workspaces /\ d.views = c.views /\ d.snapshots = c.snapshots
      /\ d.history = c.history
  BY <1>3 DEF Made
<1>7. Keeps(c, d, {}, {}, {}) BY <1>6, SameKept
<1> QED BY <1>5, <1>7 DEF d, e

LEMMA KeptAlike ==
    ASSUME NEW c, NEW d, NEW e, NEW A, NEW B, NEW C, Keeps(c, d, A, B, C),
           e.workspaces = d.workspaces, e.views = d.views,
           d.snapshots \subseteq e.snapshots, e.history = d.history
    PROVE  Keeps(c, e, A, B, C)
BY DEF Keeps

(* Only the plans change.                                                  *)
LEMMA PlansChanged ==
    ASSUME NEW c, Daemon!CatalogOK(c), NEW P, PlansTyped(P)
    PROVE  LET d == [c EXCEPT !.plans = P]
           IN  Daemon!CatalogOK(d) /\ Carries(c, d) /\ d.history = c.history
<1> DEFINE d == [c EXCEPT !.plans = P]
<1>1. /\ IsCatalog(c)
      /\ Typed(c.up, c.workspaces, c.terminals, c.agents, c.views, c.history,
               c.snapshots, c.plans, c.keep, c.nil)
  BY CatalogParts
<1>2. d = Made(c.up, c.workspaces, c.terminals, c.agents, c.views, c.history,
               c.snapshots, P, c.keep, c.nil)
  BY <1>1 DEF IsCatalog, Made
<1>3. Typed(c.up, c.workspaces, c.terminals, c.agents, c.views, c.history,
            c.snapshots, P, c.keep, c.nil)
  BY <1>1 DEF Typed
<1> HIDE DEF d
<1>4. Daemon!CatalogOK(d) BY <1>2, <1>3, MadeOK
<1>5. Carries(c, d) /\ d.history = c.history BY <1>2 DEF Carries, Made
<1> QED BY <1>4, <1>5 DEF d

LEMMA AppliedOK ==
    ASSUME NEW c, Daemon!CatalogOK(c), NEW plan, PlansTyped({plan})
    PROVE  /\ Daemon!CatalogOK(Daemon!Applied(c, plan)) /\ Carries(c, Daemon!Applied(c, plan))
           /\ Daemon!Applied(c, plan).history = c.history
<1> DEFINE q == [plan EXCEPT !.status = "applied"]
           P == (c.plans \ {plan}) \cup {q}
<1>1. plan \in [id : {plan.id}, snapshot : {plan.snapshot}, workspace : Daemon!Sessions,
                status : {"pending", "applied"}]
  BY DEF PlansTyped
<1>2. q \in [id : {q.id}, snapshot : {q.snapshot}, workspace : Daemon!Sessions,
             status : {"pending", "applied"}]
  BY <1>1
<1>3. PlansTyped(c.plans) BY CatalogParts DEF Typed
<1> HIDE DEF q
<1>4. PlansTyped(P) BY <1>2, <1>3 DEF PlansTyped
<1>5. Daemon!Applied(c, plan) = [c EXCEPT !.plans = P] BY DEF Daemon!Applied, q
<1> HIDE DEF P
<1> QED BY <1>4, <1>5, PlansChanged

LEMMA PulledOK ==
    ASSUME NEW c, Daemon!CatalogOK(c), NEW plan, PlansTyped({plan}),
           plan.workspace \in DOMAIN c.workspaces
    PROVE  /\ Daemon!CatalogOK(Daemon!Pulled(c, plan))
           /\ Keeps(c, Daemon!Pulled(c, plan), {}, {plan.workspace}, {})
<1> DEFINE d == Daemon!Adopted(c, plan.workspace, "ok")
           e == Daemon!Applied(d, plan)
<1>1. Daemon!CatalogOK(d) /\ Keeps(c, d, {}, {plan.workspace}, {}) BY AdoptedOK
<1> HIDE DEF d
<1>2. Daemon!CatalogOK(e) /\ Carries(d, e) /\ e.history = d.history BY <1>1, AppliedOK
<1> HIDE DEF e
<1>3. Keeps(c, e, {}, {plan.workspace}, {}) BY <1>1, <1>2, KeptAlike DEF Carries
<1>4. e = Daemon!Pulled(c, plan) BY DEF e, d, Daemon!Pulled
<1> QED BY <1>2, <1>3, <1>4

LEMMA PlannedOK ==
    ASSUME NEW c, Daemon!CatalogOK(c), NEW s \in c.snapshots
    PROVE  LET d == [Daemon!Cloned(c) EXCEPT !.plans = @ \cup
                        {[id |-> Daemon!nextID(c.plans), snapshot |-> s.id,
                          workspace |-> s.workspace, status |-> "pending"]}]
           IN  Daemon!CatalogOK(d) /\ Keeps(c, d, {}, {}, {})
<1> DEFINE e == Daemon!Cloned(c)
           q == [id |-> Daemon!nextID(c.plans), snapshot |-> s.id,
                 workspace |-> s.workspace, status |-> "pending"]
           P == e.plans \cup {q}
           d == [e EXCEPT !.plans = P]
<1>1. Daemon!CatalogOK(e) /\ Carries(c, e) BY ClonedOK
<1>2. s.workspace \in Daemon!Sessions BY DEF Daemon!CatalogOK
<1>3. q \in [id : {q.id}, snapshot : {q.snapshot}, workspace : Daemon!Sessions,
             status : {"pending", "applied"}]
  BY <1>2
<1> HIDE DEF e, q
<1>4. PlansTyped(e.plans) BY <1>1, CatalogParts DEF Typed
<1>5. PlansTyped(P) BY <1>3, <1>4 DEF PlansTyped
<1> HIDE DEF P
<1>6. Daemon!CatalogOK(d) /\ Carries(e, d) BY <1>1, <1>5, PlansChanged
<1>7. d = [e EXCEPT !.plans = @ \cup {q}] BY DEF P
<1> HIDE DEF d
<1>8. Keeps(c, d, {}, {}, {}) BY <1>1, <1>6, SameKept DEF Carries
<1> QED BY <1>6, <1>7, <1>8 DEF e, q

LEMMA SetToSeqOK ==
    ASSUME NEW S, IsFiniteSet(S)
    PROVE  Daemon!SetToSeq(S) \in [1 .. Cardinality(S) -> S]
<1>1. ExistsBijection(1 .. Cardinality(S), S) BY FS_CardinalityType
<1>2. PICK f : f \in Bijection(1 .. Cardinality(S), S) BY <1>1 DEF ExistsBijection
<1>3. f \in [1 .. Cardinality(S) -> S] /\ Daemon!IsInjective(f)
  BY <1>2 DEF Bijection, Injection, IsInjective, Daemon!IsInjective
<1>4. Daemon!SetToSeq(S) = CHOOSE h \in [1 .. Cardinality(S) -> S] : Daemon!IsInjective(h)
  <2>1. Daemon!Cardinality(S) = Cardinality(S) BY DaemonFinite
  <2> QED BY <2>1 DEF Daemon!SetToSeq
<1> QED BY <1>3, <1>4

LEMMA WithSnapshotsOK ==
    ASSUME NEW c, Daemon!CatalogOK(c), NEW targets,
           \A i \in DOMAIN targets : targets[i] \in DOMAIN c.workspaces
    PROVE  LET d == Daemon!WithSnapshots(c, targets)
           IN  /\ Daemon!CatalogOK(d) /\ d.workspaces = c.workspaces /\ d.views = c.views
               /\ c.snapshots \subseteq d.snapshots /\ d.history = c.history
<1> DEFINE first == Daemon!nextID(c.snapshots)
           made(i) == [id |-> first + i - 1, workspace |-> targets[i],
                       state |-> c.workspaces[targets[i]].observed]
           S == c.snapshots \cup {made(i) : i \in DOMAIN targets}
           d == Daemon!WithSnapshots(c, targets)
<1>1. /\ IsCatalog(c)
      /\ Typed(c.up, c.workspaces, c.terminals, c.agents, c.views, c.history,
               c.snapshots, c.plans, c.keep, c.nil)
  BY CatalogParts
<1>2. d = [c EXCEPT !.snapshots = S] BY DEF Daemon!WithSnapshots
<1>3. SnapshotsTyped(S)
  <2>1. ASSUME NEW i \in DOMAIN targets
        PROVE  made(i) \in [id : {made(i).id}, workspace : Daemon!Sessions,
                            state : Daemon!States]
    <3>1. /\ targets[i] \in Daemon!Sessions
          /\ c.workspaces[targets[i]] \in Daemon!Workspaces
      BY <1>1 DEF Typed, WorkspacesTyped
    <3>2. c.workspaces[targets[i]].observed \in Daemon!States BY <3>1, WorkspaceFields
    <3> HIDE DEF first
    <3> QED BY <3>1, <3>2
  <2>2. SnapshotsTyped(c.snapshots) BY <1>1 DEF Typed
  <2> HIDE DEF made
  <2> QED BY <2>1, <2>2 DEF SnapshotsTyped
<1>4. c.snapshots \subseteq S OBVIOUS
<1> HIDE DEF S, d
<1>5. d = Made(c.up, c.workspaces, c.terminals, c.agents, c.views, c.history,
               S, c.plans, c.keep, c.nil)
  BY <1>1, <1>2 DEF IsCatalog, Made
<1>6. Typed(c.up, c.workspaces, c.terminals, c.agents, c.views, c.history,
            S, c.plans, c.keep, c.nil)
  BY <1>1, <1>3 DEF Typed
<1>7. Daemon!CatalogOK(d) BY <1>5, <1>6, MadeOK
<1>8. /\ d.workspaces = c.workspaces /\ d.views = c.views
      /\ d.snapshots = S /\ d.history = c.history
  BY <1>5 DEF Made
<1> QED BY <1>4, <1>7, <1>8 DEF d

LEMMA WithoutSnapshotOK ==
    ASSUME NEW c, Daemon!CatalogOK(c), NEW s \in c.snapshots
    PROVE  /\ Daemon!CatalogOK(Daemon!WithoutSnapshot(c, s))
           /\ Keeps(c, Daemon!WithoutSnapshot(c, s), {s}, {}, {})
<1> DEFINE n == c.nil \cap {"history"}
           e == Daemon!Cloned(c)
           S == c.snapshots \ {s}
           P == {p \in c.plans : p.snapshot # s.id}
           d == Daemon!WithoutSnapshot(c, s)
<1>1. Typed(c.up, c.workspaces, c.terminals, c.agents, c.views, c.history,
            c.snapshots, c.plans, c.keep, c.nil)
  BY CatalogParts
<1>2. e = Made(c.up, c.workspaces, c.terminals, c.agents, c.views, c.history,
               c.snapshots, c.plans, c.keep, n)
  BY ClonedOK
<1>3. d = [e EXCEPT !.snapshots = @ \ {s}, !.plans = {p \in @ : p.snapshot # s.id}]
  BY DEF Daemon!WithoutSnapshot
<1>4. e.plans = c.plans /\ e.snapshots = c.snapshots
  <2> HIDE DEF e
  <2> QED BY <1>2 DEF Made
<1>5. d = [e EXCEPT !.snapshots = S, !.plans = P] BY <1>3, <1>4
<1> HIDE DEF e, n, S, P, d
<1>6. d = Made(c.up, c.workspaces, c.terminals, c.agents, c.views, c.history,
               S, P, c.keep, n)
  BY <1>2, <1>5 DEF Made
<1>7. SnapshotsTyped(S) BY <1>1 DEF S, Typed, SnapshotsTyped
<1>8. PlansTyped(P) BY <1>1 DEF P, Typed, PlansTyped
<1>9. Typed(c.up, c.workspaces, c.terminals, c.agents, c.views, c.history,
            S, P, c.keep, n)
  BY <1>1, <1>7, <1>8 DEF Typed, n
<1>10. Daemon!CatalogOK(d) BY <1>6, <1>9, MadeOK
<1>11. /\ d.workspaces = c.workspaces /\ d.views = c.views
       /\ d.snapshots = S /\ d.history = c.history
  BY <1>6 DEF Made
<1>12. Keeps(c, d, {s}, {}, {}) BY <1>11 DEF Keeps, S
<1> QED BY <1>10, <1>12 DEF d

-----------------------------------------------------------------------------
(***************************************************************************)
(* Polls, and the passing of the retention                                 *)
(***************************************************************************)

HistoryIs(c, H) ==
    Made(c.up, c.workspaces, c.terminals, c.agents, c.views, H, c.snapshots, c.plans,
         c.keep, c.nil)

LEMMA HistoryChanged ==
    ASSUME NEW c, Daemon!CatalogOK(c), NEW H, HistoryTyped(H)
    PROVE  /\ [c EXCEPT !.history = H] = HistoryIs(c, H)
           /\ Daemon!CatalogOK([c EXCEPT !.history = H])
<1> DEFINE d == [c EXCEPT !.history = H]
<1>1. /\ IsCatalog(c)
      /\ Typed(c.up, c.workspaces, c.terminals, c.agents, c.views, c.history,
               c.snapshots, c.plans, c.keep, c.nil)
  BY CatalogParts
<1>2. d = HistoryIs(c, H) BY <1>1 DEF IsCatalog, Made, HistoryIs
<1>3. Typed(c.up, c.workspaces, c.terminals, c.agents, c.views, H,
            c.snapshots, c.plans, c.keep, c.nil)
  BY <1>1 DEF Typed
<1> HIDE DEF d
<1>4. Daemon!CatalogOK(d) BY <1>2, <1>3, MadeOK DEF HistoryIs
<1> QED BY <1>2, <1>4 DEF d

LEMMA CapturedOK ==
    ASSUME NEW c, Daemon!CatalogOK(c), NEW changed \in Seq(Daemon!AllPanes),
           Daemon!NextPlace(c) + Len(changed) <= MaxPlace + 1
    PROVE  LET d == Daemon!Captured(c, changed)
           IN  /\ Daemon!CatalogOK(d) /\ d.workspaces = c.workspaces /\ d.views = c.views
               /\ c.snapshots \subseteq d.snapshots
               /\ \A h \in c.history :
                     ~h.old => \/ h \in d.history
                               \/ Daemon!Cardinality(Daemon!Newer(d.history, h)) >= MaxChunks
<1> DEFINE scopes == [i \in DOMAIN changed |-> Daemon!Scope("terminal", changed[i])]
           e == Daemon!Recorded(c, scopes)
           H == IF e.keep THEN e.history ELSE {h \in e.history : ~h.old}
           K == Daemon!Newest(H)
           d == Daemon!Captured(c, changed)
<1>1. scopes \in Seq(Daemon!Scopes) /\ Len(scopes) = Len(changed)
  <2>1. DOMAIN changed = 1 .. Len(changed) /\ Len(changed) \in Nat OBVIOUS
  <2>2. \A i \in 1 .. Len(changed) : scopes[i] \in Daemon!Scopes
    BY <2>1 DEF Daemon!Scope, Daemon!Scopes
  <2> QED BY <2>1, <2>2
<1> HIDE DEF scopes
<1>2. Daemon!CatalogOK(e) /\ Carries(c, e) BY <1>1, RecordedOK
<1>3. d = [e EXCEPT !.history = K]
  BY DEF Daemon!Captured, Daemon!Pruned, scopes
<1>4. \A h \in e.history : ~h.old => h \in H OBVIOUS
<1>5. H \subseteq e.history OBVIOUS
<1>6. Daemon!HistoryOK(e.history) BY <1>2, CatalogParts DEF Typed, HistoryTyped
<1> HIDE DEF e, d, H
<1>7. Daemon!HistoryOK(H) BY <1>5, <1>6, HistoryPart
<1>8. K \subseteq H BY DEF Daemon!Newest
<1>9. HistoryTyped(K) BY <1>7, <1>8, HistoryPart DEF HistoryTyped
<1>10. \A h \in H : h \in K \/ Daemon!Cardinality(Daemon!Newer(K, h)) >= MaxChunks
  BY <1>7, CutMakesRoom
<1> HIDE DEF K
<1>11. d = HistoryIs(e, K) /\ Daemon!CatalogOK(d) BY <1>2, <1>3, <1>9, HistoryChanged
<1>12. /\ d.workspaces = e.workspaces /\ d.views = e.views /\ d.snapshots = e.snapshots
       /\ d.history = K
  BY <1>11 DEF HistoryIs, Made
<1>13. \A h \in c.history : ~h.old => h \in H BY <1>2, <1>4 DEF Carries
<1> QED BY <1>2, <1>10, <1>11, <1>12, <1>13 DEF Carries, d

LEMMA AgedOK ==
    ASSUME NEW c, Daemon!CatalogOK(c), Daemon!ValidateCatalog(c)
    PROVE  LET d == [c EXCEPT !.history = {[h EXCEPT !.old = TRUE] : h \in @}]
           IN  /\ Daemon!CatalogOK(d) /\ Daemon!ValidateCatalog(d)
               /\ Keeps(c, d, {}, {}, {})
<1> DEFINE H == {[h EXCEPT !.old = TRUE] : h \in c.history}
           d == [c EXCEPT !.history = H]
<1>1. HistoryTyped(c.history) BY CatalogParts DEF Typed
<1>2. ASSUME NEW h \in c.history
      PROVE  LET k == [h EXCEPT !.old = TRUE]
             IN  /\ k = [scope |-> h.scope, seq |-> h.seq, at |-> h.at, old |-> TRUE]
                 /\ k \in [scope : Daemon!Scopes, seq : {k.seq}, at : 1 .. MaxPlace, old : BOOLEAN]
                 /\ k.scope = h.scope /\ k.seq = h.seq
  <2>1. h \in [scope : Daemon!Scopes, seq : {h.seq}, at : 1 .. MaxPlace, old : BOOLEAN]
    BY <1>1 DEF HistoryTyped, Daemon!HistoryOK
  <2>2. h.scope \in Daemon!Scopes /\ h.at \in 1 .. MaxPlace BY <2>1
  <2> DEFINE k == [h EXCEPT !.old = TRUE]
  <2>a. PICK z \in BOOLEAN : h = [scope |-> h.scope, seq |-> h.seq, at |-> h.at, old |-> z]
    <3>1. h.old \in BOOLEAN BY <2>1
    <3>2. h = [scope |-> h.scope, seq |-> h.seq, at |-> h.at, old |-> h.old] BY <2>1
    <3> QED BY <3>1, <3>2
  <2>b. k = [h EXCEPT !.old = TRUE] OBVIOUS
  <2> HIDE DEF k
  <2>3. k = [scope |-> h.scope, seq |-> h.seq, at |-> h.at, old |-> TRUE] BY <2>a, <2>b
  <2>4. k.scope = h.scope /\ k.seq = h.seq BY <2>3
  <2>5. k \in [scope : Daemon!Scopes, seq : {k.seq}, at : 1 .. MaxPlace, old : BOOLEAN] BY <2>2, <2>3
  <2> QED BY <2>3, <2>4, <2>5 DEF k
<1>3. HistoryTyped(H)
  <2> DEFINE f == [h \in c.history |-> [h EXCEPT !.old = TRUE]]
  <2>1. IsFiniteSet(c.history) BY <1>1, DaemonFinite DEF HistoryTyped, Daemon!HistoryOK
  <2>2. f \in Surjection(c.history, H) BY Zenon DEF Surjection
  <2>3. Daemon!IsFiniteSet(H)
    <3> HIDE DEF f, H
    <3> QED BY <2>1, <2>2, FS_Surjection, DaemonFinite
  <2>4. ASSUME NEW h \in c.history, NEW k \in c.history,
               [h EXCEPT !.old = TRUE].at = [k EXCEPT !.old = TRUE].at
        PROVE  [h EXCEPT !.old = TRUE] = [k EXCEPT !.old = TRUE]
    <3>1. /\ [h EXCEPT !.old = TRUE] = [scope |-> h.scope, seq |-> h.seq, at |-> h.at, old |-> TRUE]
          /\ [k EXCEPT !.old = TRUE] = [scope |-> k.scope, seq |-> k.seq, at |-> k.at, old |-> TRUE]
      BY <1>2
    <3>2. h.at = k.at BY <2>4, <3>1
    <3>3. h = k BY <1>1, <3>2 DEF HistoryTyped, Daemon!HistoryOK
    <3> QED BY <3>3
  <2>5. \A h, k \in H : h.at = k.at => h = k BY <2>4
  <2>6. \A k \in H : k \in [scope : Daemon!Scopes, seq : {k.seq}, at : 1 .. MaxPlace,
                            old : BOOLEAN]
    BY <1>2
  <2> HIDE DEF H
  <2> QED BY <2>3, <2>5, <2>6 DEF HistoryTyped, Daemon!HistoryOK
<1>4. \A h \in c.history : \E k \in H : k.scope = h.scope /\ k.seq = h.seq BY <1>2
<1>5. \A k \in H : \E h \in c.history :
          k = [scope |-> h.scope, seq |-> h.seq, at |-> h.at, old |-> TRUE]
          /\ k.scope = h.scope /\ k.seq = h.seq
  <2> SUFFICES ASSUME NEW h \in c.history
               PROVE  LET k == [h EXCEPT !.old = TRUE]
                      IN  /\ k = [scope |-> h.scope, seq |-> h.seq, at |-> h.at, old |-> TRUE]
                          /\ k.scope = h.scope /\ k.seq = h.seq
    OBVIOUS
  <2> QED BY <1>2
<1> HIDE DEF H
<1>6. d = HistoryIs(c, H) /\ Daemon!CatalogOK(d) BY <1>3, HistoryChanged
<1>7. d = [c EXCEPT !.history = {[h EXCEPT !.old = TRUE] : h \in @}] BY DEF H
<1> HIDE DEF d
<1>8. /\ d.workspaces = c.workspaces /\ d.terminals = c.terminals /\ d.agents = c.agents
      /\ d.views = c.views /\ d.snapshots = c.snapshots /\ d.plans = c.plans
      /\ d.history = H
  BY <1>6 DEF HistoryIs, Made
<1>9. Keeps(c, d, {}, {}, {}) BY <1>4, <1>8 DEF Keeps
<1>10. ASSUME NEW h \in H, NEW k \in H, h.scope = k.scope, h.seq = k.seq PROVE h = k
  <2>1. PICK x \in c.history :
           /\ h = [scope |-> x.scope, seq |-> x.seq, at |-> x.at, old |-> TRUE]
           /\ h.scope = x.scope /\ h.seq = x.seq
    BY <1>5
  <2>2. PICK y \in c.history :
           /\ k = [scope |-> y.scope, seq |-> y.seq, at |-> y.at, old |-> TRUE]
           /\ k.scope = y.scope /\ k.seq = y.seq
    BY <1>5
  <2>3. x = y BY <1>10, <2>1, <2>2 DEF Daemon!ValidateCatalog
  <2> QED BY <2>1, <2>2, <2>3
<1>11. \A h \in H : Daemon!ValidScope(d, h.scope)
  BY <1>5, <1>8 DEF Daemon!ValidateCatalog, Daemon!ValidScope
<1>12. Daemon!ValidateCatalog(d)
  <2>1. /\ Daemon!UniqueIds(d.snapshots) /\ Daemon!UniqueIds(d.plans)
        /\ \A s \in d.snapshots : s.workspace \in DOMAIN d.workspaces
        /\ \A v \in DOMAIN d.views : /\ v \in DOMAIN d.workspaces
                                     /\ d.views[v].pinned => d.views[v].kind = "pinned"
    BY <1>8 DEF Daemon!ValidateCatalog
  <2>2. \A s \in DOMAIN d.workspaces : Daemon!ValidWorkspace(d, s)
    BY <1>8 DEF Daemon!ValidateCatalog, Daemon!ValidWorkspace
  <2>3. \A t \in DOMAIN d.terminals : Daemon!ValidTerminal(d, t)
    BY <1>8 DEF Daemon!ValidateCatalog, Daemon!ValidTerminal
  <2>4. \A a \in DOMAIN d.agents : Daemon!ValidAgent(d, a)
    BY <1>8 DEF Daemon!ValidateCatalog, Daemon!ValidAgent
  <2>5. \A p \in d.plans : Daemon!ValidPlan(d, p)
    BY <1>8 DEF Daemon!ValidateCatalog, Daemon!ValidPlan
  <2> QED BY <1>8, <1>10, <1>11, <2>1, <2>2, <2>3, <2>4, <2>5 DEF Daemon!ValidateCatalog
<1> QED BY <1>6, <1>7, <1>9, <1>12

(* A catalog that is found while Zellij does not answer is what projects of*)
(* no runtime.                                                             *)
UpIs(c, up) ==
    Made(up, c.workspaces, c.terminals, c.agents, c.views, c.history, c.snapshots,
         c.plans, c.keep, c.nil)

LEMMA CandidateIs ==
    ASSUME NEW prev, NEW g, NEW up
    PROVE  Daemon!Candidate(prev, g, up) = UpIs(Projection(prev, g), up)
<1> DEFINE P == Projection(prev, g)
<1>1. Daemon!Candidate(prev, g, up) = [P EXCEPT !.up = up]
  BY ProjectionParts DEF Daemon!Candidate
<1>2. P = Made(P.up, P.workspaces, P.terminals, P.agents, P.views, P.history, P.snapshots,
               P.plans, P.keep, P.nil)
  BY DEF Projection, Made
<1> HIDE DEF P
<1>3. [P EXCEPT !.up = up] = UpIs(P, up) BY <1>2 DEF Made, UpIs
<1> QED BY <1>1, <1>3 DEF P

LEMMA UpAlone ==
    ASSUME NEW c, Daemon!CatalogOK(c), NEW up \in BOOLEAN
    PROVE  /\ Daemon!CatalogOK(UpIs(c, up))
           /\ Daemon!ValidateCatalog(c) => Daemon!ValidateCatalog(UpIs(c, up))
           /\ Carries(c, UpIs(c, up))
           /\ UpIs(c, up).history = c.history /\ UpIs(c, up).agents = c.agents
<1> DEFINE d == UpIs(c, up)
<1>1. Typed(c.up, c.workspaces, c.terminals, c.agents, c.views, c.history,
            c.snapshots, c.plans, c.keep, c.nil)
  BY CatalogParts
<1>2. Typed(up, c.workspaces, c.terminals, c.agents, c.views, c.history,
            c.snapshots, c.plans, c.keep, c.nil)
  BY <1>1 DEF Typed
<1>3. Daemon!CatalogOK(d) BY <1>2, MadeOK DEF UpIs
<1>4. /\ d.workspaces = c.workspaces /\ d.terminals = c.terminals /\ d.agents = c.agents
      /\ d.views = c.views /\ d.snapshots = c.snapshots /\ d.plans = c.plans
      /\ d.history = c.history
  BY DEF UpIs, Made
<1> HIDE DEF d
<1>5. ASSUME Daemon!ValidateCatalog(c) PROVE Daemon!ValidateCatalog(d)
  <2>1. /\ Daemon!UniqueIds(d.snapshots) /\ Daemon!UniqueIds(d.plans)
        /\ \A h, k \in d.history : h.scope = k.scope /\ h.seq = k.seq => h = k
        /\ \A s \in d.snapshots : s.workspace \in DOMAIN d.workspaces
        /\ \A v \in DOMAIN d.views : /\ v \in DOMAIN d.workspaces
                                     /\ d.views[v].pinned => d.views[v].kind = "pinned"
    BY <1>4, <1>5 DEF Daemon!ValidateCatalog
  <2>2. \A s \in DOMAIN d.workspaces : Daemon!ValidWorkspace(d, s)
    BY <1>4, <1>5 DEF Daemon!ValidateCatalog, Daemon!ValidWorkspace
  <2>3. \A t \in DOMAIN d.terminals : Daemon!ValidTerminal(d, t)
    BY <1>4, <1>5 DEF Daemon!ValidateCatalog, Daemon!ValidTerminal
  <2>4. \A a \in DOMAIN d.agents : Daemon!ValidAgent(d, a)
    BY <1>4, <1>5 DEF Daemon!ValidateCatalog, Daemon!ValidAgent
  <2>5. \A p \in d.plans : Daemon!ValidPlan(d, p)
    BY <1>4, <1>5 DEF Daemon!ValidateCatalog, Daemon!ValidPlan
  <2>6. \A h \in d.history : Daemon!ValidScope(d, h.scope)
    BY <1>4, <1>5 DEF Daemon!ValidateCatalog, Daemon!ValidScope
  <2> QED BY <2>1, <2>2, <2>3, <2>4, <2>5, <2>6 DEF Daemon!ValidateCatalog
<1>6. Carries(c, d) BY <1>4 DEF Carries
<1> QED BY <1>3, <1>4, <1>5, <1>6 DEF d

-----------------------------------------------------------------------------
(***************************************************************************)
(* What a projection keeps                                                 *)
(***************************************************************************)

LEMMA CarriedHomes ==
    ASSUME NEW c, NEW d, Daemon!ValidateCatalog(c), Carries(c, d)
    PROVE  Homed(d)
<1>1. Homed(c) BY ValidHomes
<1> QED BY <1>1 DEF Homed, Carries

HistoryStays(c, d) == \A h \in c.history : h.scope.kind = "terminal" => h \in d.history

LEMMA ProjectionKeeps ==
    ASSUME NEW c, Daemon!ValidateCatalog(c), NEW d, Daemon!CatalogOK(d), Carries(c, d),
           NEW g, Daemon!RuntimeOK(g)
    PROVE  Keeps(c, Projection(d, g), {}, {}, {}) /\ HistoryStays(c, Projection(d, g))
<1> DEFINE P == Projection(d, g)
           V == Daemon!ProjectActive(d, g, Spaces(d, g))
           W == Workspaces(d, g)
<1>1. Homed(d) BY CarriedHomes
<1>2. P.workspaces = W /\ P.views = V /\ P.history = Remembered(d, g)
      /\ P.snapshots = Stored(d, g)
  BY DEF Projection, Workspaces
<1>3. DOMAIN W = DOMAIN Spaces(d, g) BY <1>1, WorkspacesOK
<1>4. DOMAIN Spaces(d, g) = Present(g) \cup DOMAIN Configured \cup Vanishing(d, g) \cup Back(d, g)
  <2>1. DOMAIN Spaces(d, g) = DOMAIN Daemon!ProjectWorkspaces(d, g) \cup Back(d, g)
    BY <1>1, BackKnown
  <2>2. DOMAIN Daemon!ProjectWorkspaces(d, g) =
           Present(g) \cup DOMAIN Configured \cup Vanishing(d, g)
    BY RunningDomain
  <2> QED BY <2>1, <2>2
<1>5. c.snapshots \subseteq P.snapshots
  <2>1. ASSUME NEW s \in c.snapshots PROVE s \in Stored(d, g)
    <3>1. s \in d.snapshots /\ s.workspace \in DOMAIN d.workspaces
      BY DEF Daemon!ValidateCatalog, Carries
    <3>2. s.workspace \in Daemon!Preserved(d) BY <3>1 DEF Daemon!Preserved
    <3>3. s.workspace \in DOMAIN Spaces(d, g) BY <1>4, <3>1, <3>2 DEF Vanishing
    <3> QED BY <3>1, <3>3 DEF Stored
  <2> QED BY <1>2, <2>1
<1>6. ASSUME NEW h \in c.history, h.scope.kind = "terminal" PROVE h \in P.history
  <2>1. h \in d.history BY DEF Carries
  <2>2. h.scope.of \in DOMAIN d.terminals
    <3>1. Daemon!ValidScope(c, h.scope) BY DEF Daemon!ValidateCatalog
    <3> QED BY <1>6, <3>1 DEF Daemon!ValidScope, Carries
  <2>3. h.scope.of \in Daemon!Needed(d, "terminal") BY <1>6, <2>1 DEF Daemon!Needed
  <2>4. h.scope.of \in DOMAIN g.panes \/ h.scope.of \in Daemon!LostTerminals(d, g)
    BY <2>2, <2>3 DEF Daemon!LostTerminals
  <2>5. DOMAIN AllTerminals(d, g) = DOMAIN g.panes \cup Lost(d, g) BY <1>1, TerminalsOK
  <2>6. Lost(d, g) = Daemon!LostTerminals(d, g) BY <1>1, TerminalsOK
  <2>7. About(h.scope, DOMAIN AllTerminals(d, g), DOMAIN AllAgents(d, g))
    BY <1>6, <2>4, <2>5, <2>6 DEF About
  <2> QED BY <1>2, <2>1, <2>7 DEF Remembered
<1>7. ASSUME NEW s \in DOMAIN c.workspaces \cap DOMAIN P.workspaces,
             c.workspaces[s].status = "frozen"
      PROVE  /\ P.workspaces[s].status = "frozen"
             /\ P.workspaces[s].desired = c.workspaces[s].desired
  <2> DEFINE v == Spaces(d, g)[s]
  <2>1. s \in DOMAIN Spaces(d, g) /\ s \in DOMAIN d.workspaces
        /\ d.workspaces[s] = c.workspaces[s]
    BY <1>2, <1>3 DEF Carries
  <2>2. WasFrozen(d, s) BY <1>7, <2>1 DEF WasFrozen
  <2>3. v.status = "frozen" /\ v.desired = c.workspaces[s].desired
    <3>1. CASE s \in Back(d, g)
      <4>1. v = d.workspaces[s] BY <1>1, <2>1, <3>1, SpacesOK
      <4> QED BY <1>7, <2>1, <4>1
    <3>2. CASE s \notin Back(d, g)
      <4>1. s \in Present(g) \cup DOMAIN Configured \cup Vanishing(d, g) BY <1>4, <2>1, <3>2
      <4>2. v = Daemon!ProjectWorkspaces(d, g)[s] BY <1>1, <2>1, <3>2, SpacesOK
      <4>3. Shape(d, g, s, Daemon!ProjectWorkspaces(d, g)[s]) BY <4>1, RunningShape
      <4> QED BY <2>1, <2>2, <4>2, <4>3 DEF Shape
    <3> QED BY <3>1, <3>2
  <2>4. W[s].status = v.status /\ W[s].desired = v.desired BY <1>1, <2>1, WorkspacesOK
  <2> QED BY <1>2, <2>3, <2>4
<1>8. ASSUME NEW v \in DOMAIN c.views, c.views[v].pinned, v \in DOMAIN P.workspaces
      PROVE  v \in DOMAIN P.views /\ P.views[v].pinned
  <2>1. v \in DOMAIN d.views /\ d.views[v] = c.views[v] BY DEF Carries
  <2>2. v \in DOMAIN Spaces(d, g) BY <1>2, <1>3, <1>8
  <2>3. DOMAIN V = g.clients \cup
           {u \in DOMAIN d.views : d.views[u].pinned /\ u \in DOMAIN Spaces(d, g)}
    BY <1>1, ViewsOK
  <2>4. v \in DOMAIN V BY <1>8, <2>1, <2>2, <2>3
  <2>5. V[v] = d.views[v] BY <2>1, <2>4 DEF Daemon!ProjectActive
  <2> QED BY <1>2, <1>8, <2>1, <2>4, <2>5
<1> HIDE DEF P
<1>9. Keeps(c, P, {}, {}, {}) BY <1>5, <1>6, <1>7, <1>8 DEF Keeps
<1> QED BY <1>6, <1>9 DEF P, HistoryStays

(* A poll, whether Zellij answers or not                                   *)
LEMMA CandidateOK ==
    ASSUME NEW c, Daemon!CatalogOK(c), Daemon!ValidateCatalog(c),
           NEW g, Daemon!RuntimeOK(g), NEW up \in BOOLEAN
    PROVE  LET d == Daemon!Candidate(c, g, up)
           IN  /\ Daemon!CatalogOK(d) /\ Daemon!ValidateCatalog(d)
               /\ Keeps(c, d, {}, {}, {}) /\ HistoryStays(c, d)
<1> DEFINE P == Projection(c, g)
           d == UpIs(P, up)
<1>1. Homed(c) BY ValidHomes
<1>2. Daemon!CatalogOK(P) BY <1>1, ProjectionTyped
<1>3. Daemon!ValidateCatalog(P) BY ProjectionValid
<1>4. Keeps(c, P, {}, {}, {}) /\ HistoryStays(c, P)
  <2>1. Carries(c, c) BY DEF Carries
  <2> QED BY <2>1, ProjectionKeeps
<1>5. Daemon!Candidate(c, g, up) = d BY CandidateIs
<1> HIDE DEF P
<1>6. /\ Daemon!CatalogOK(d) /\ Daemon!ValidateCatalog(d) /\ Carries(P, d)
      /\ d.history = P.history
  BY <1>2, <1>3, UpAlone
<1> HIDE DEF d
<1>7. Keeps(c, d, {}, {}, {}) BY <1>4, <1>6, KeptAlike DEF Carries
<1>8. HistoryStays(c, d) BY <1>4, <1>6 DEF HistoryStays, Carries
<1> QED BY <1>5, <1>6, <1>7, <1>8

(* A command that looks at the runtime                                     *)
LEMMA ObservedKeeps ==
    ASSUME NEW c, Daemon!ValidateCatalog(c), NEW d, Daemon!CatalogOK(d), Carries(c, d),
           NEW g, Daemon!RuntimeOK(g)
    PROVE  LET e == Daemon!ProjectRuntime(d, g)
           IN  Daemon!CatalogOK(e) /\ Keeps(c, e, {}, {}, {})
<1>1. Homed(d) BY CarriedHomes
<1>2. Daemon!CatalogOK(Projection(d, g)) BY <1>1, ProjectionTyped
<1>3. Keeps(c, Projection(d, g), {}, {}, {}) BY ProjectionKeeps
<1> QED BY <1>2, <1>3, ProjectionParts

-----------------------------------------------------------------------------
(***************************************************************************)
(* Every step                                                              *)
(***************************************************************************)

CatalogInv ==
    /\ Daemon!RuntimeOK(rt) /\ Daemon!CatalogOK(stored) /\ Daemon!ValidateCatalog(stored)
    /\ acts \in 0 .. MaxCommands

(* What is to outlive a step does, but for what the command takes away.    *)
StepKeeps ==
    \/ Keeps(stored, stored', {}, {}, {})
    \/ \E s \in stored.snapshots :
          stored' = Daemon!WithoutSnapshot(stored, s) /\ Keeps(stored, stored', {s}, {}, {})
    \/ \E s \in DOMAIN stored.workspaces :
          stored' = Daemon!Adopted(stored, s, "frozen") /\ Keeps(stored, stored', {}, {s}, {})
    \/ \E plan \in stored.plans :
          /\ stored' = Daemon!Pulled(stored, plan)
          /\ Keeps(stored, stored', {}, {plan.workspace}, {})
    \/ \E v \in DOMAIN stored.views :
          stored' = Daemon!Unpinned(stored, v) /\ Keeps(stored, stored', {}, {}, {v})

LEMMA ActOK ==
    ASSUME CatalogInv, Daemon!Act
    PROVE  acts' \in 0 .. MaxCommands
<1>1. MaxCommands \in Nat BY CatalogAssumptions DEF Daemon!CatalogAssumption
<1> QED BY <1>1 DEF Daemon!Act, CatalogInv

(* The runtime changes, the catalog does not.                              *)
LEMMA RuntimeStep ==
    ASSUME CatalogInv, Daemon!Act, Daemon!RuntimeOK(rt'), stored' = stored
    PROVE  CatalogInv' /\ StepKeeps
<1>1. Keeps(stored, stored', {}, {}, {}) BY SameKept
<1>2. acts' \in 0 .. MaxCommands BY ActOK
<1> QED BY <1>1, <1>2 DEF CatalogInv, StepKeeps

LEMMA StoreStep ==
    ASSUME CatalogInv, NEW d, Daemon!CatalogOK(d), Daemon!Store(d)
    PROVE  CatalogInv' /\ stored' = d
<1>1. /\ Daemon!Act /\ Daemon!ValidateCatalog(d) /\ stored' = d /\ rt' = rt
  BY DEF Daemon!Store
<1>2. acts' \in 0 .. MaxCommands BY <1>1, ActOK
<1> QED BY <1>1, <1>2 DEF CatalogInv

LEMMA StoreObservedStep ==
    ASSUME CatalogInv, NEW d, Daemon!CatalogOK(d), Carries(stored, d),
           NEW g, Daemon!RuntimeOK(g), Daemon!StoreObserved(d, g)
    PROVE  CatalogInv' /\ StepKeeps
<1> DEFINE e == Daemon!ProjectRuntime(d, g)
<1>1. /\ Daemon!Act /\ rt' = g
      /\ stored' = IF Daemon!ValidateCatalog(e) THEN e ELSE stored
  BY DEF Daemon!StoreObserved
<1>2. acts' \in 0 .. MaxCommands BY <1>1, ActOK
<1>3. Daemon!CatalogOK(e) /\ Keeps(stored, e, {}, {}, {})
  BY ObservedKeeps DEF CatalogInv
<1> HIDE DEF e
<1>4. Keeps(stored, stored, {}, {}, {}) BY SameKept
<1>5. Keeps(stored, stored', {}, {}, {}) BY <1>1, <1>3, <1>4
<1>6. Daemon!CatalogOK(stored') /\ Daemon!ValidateCatalog(stored')
  BY <1>1, <1>3 DEF CatalogInv
<1> QED BY <1>1, <1>2, <1>5, <1>6 DEF CatalogInv, StepKeeps

LEMMA SeenOK ==
    ASSUME CatalogInv, NEW up \in BOOLEAN
    PROVE  Daemon!RuntimeOK(Daemon!Seen(up))
BY NoRuntimeOK DEF CatalogInv, Daemon!Seen

LEMMA ReconcileStep ==
    ASSUME CatalogInv, NEW up \in BOOLEAN, NEW changed \in Seq(Daemon!AllPanes),
           Daemon!Reconcile(up, changed)
    PROVE  CatalogInv' /\ StepKeeps
<1> DEFINE found == Daemon!Candidate(stored, Daemon!Seen(up), up)
           next == IF up THEN Daemon!Captured(found, changed) ELSE found
<1>1. /\ Daemon!NextPlace(found) + Len(changed) <= MaxPlace + 1
      /\ Daemon!ValidateCatalog(next) /\ stored' = next /\ rt' = rt /\ acts' = acts
  BY DEF Daemon!Reconcile
<1>2. /\ Daemon!CatalogOK(found) /\ Keeps(stored, found, {}, {}, {})
      /\ HistoryStays(stored, found)
  <2>1. Daemon!RuntimeOK(Daemon!Seen(up)) BY SeenOK
  <2>2. Daemon!CatalogOK(stored) /\ Daemon!ValidateCatalog(stored) BY DEF CatalogInv
  <2> QED BY <2>1, <2>2, CandidateOK
<1> HIDE DEF found
<1>3. Daemon!CatalogOK(next) /\ Keeps(stored, next, {}, {}, {})
  <2>1. CASE up
    <3> DEFINE d == Daemon!Captured(found, changed)
    <3>2. /\ Daemon!CatalogOK(d) /\ d.workspaces = found.workspaces /\ d.views = found.views
          /\ found.snapshots \subseteq d.snapshots
          /\ \A h \in found.history :
                ~h.old => \/ h \in d.history
                          \/ Daemon!Cardinality(Daemon!Newer(d.history, h)) >= MaxChunks
      BY <1>1, <1>2, CapturedOK
    <3>3. d = next BY <2>1
    <3> HIDE DEF d, next
    <3>4. ASSUME NEW h \in stored.history, h.scope.kind = "terminal", ~h.old
          PROVE  \/ \E k \in d.history : k.scope = h.scope /\ k.seq = h.seq
                 \/ Daemon!Cardinality(Daemon!Newer(d.history, h)) >= MaxChunks
      BY <1>2, <3>2, <3>4 DEF HistoryStays
    <3>5. Keeps(stored, d, {}, {}, {}) BY <1>2, <3>2, <3>4 DEF Keeps
    <3> QED BY <3>2, <3>3, <3>5
  <2>2. CASE ~up BY <1>2, <2>2
  <2> QED BY <2>1, <2>2
<1> HIDE DEF next
<1> QED BY <1>1, <1>3 DEF CatalogInv, StepKeeps

LEMMA CarriesOn ==
    ASSUME NEW c, NEW d, NEW e, Carries(c, d), Carries(d, e)
    PROVE  Carries(c, e)
BY DEF Carries

LEMMA CarriedKept ==
    ASSUME NEW c, NEW d, Carries(c, d)
    PROVE  Keeps(c, d, {}, {}, {})
BY SameKept DEF Carries

LEMMA UserOpensStep ==
    ASSUME CatalogInv, NEW s \in Daemon!Sessions, NEW tab \in Daemon!Tabs,
           Daemon!UserOpens(s, tab)
    PROVE  CatalogInv' /\ StepKeeps
<1>1. /\ Daemon!Act /\ Daemon!Unused(rt, s) > 0
      /\ rt' = Daemon!Opened(rt, s, << tab >>) /\ stored' = stored
  BY DEF Daemon!UserOpens
<1>2. Daemon!RuntimeOK(Daemon!Opened(rt, s, << tab >>))
  <2>1. << tab >> \in Seq(Daemon!Tabs) /\ Len(<< tab >>) = 1 OBVIOUS
  <2>2. Daemon!Unused(rt, s) \in Int
    BY BornOK, CatalogAssumptions DEF CatalogInv, Daemon!Unused, Daemon!CatalogAssumption
  <2>3. Len(<< tab >>) <= Daemon!Unused(rt, s) BY <1>1, <2>1, <2>2
  <2>4. Daemon!RuntimeOK(rt) BY DEF CatalogInv
  <2> QED BY <2>1, <2>3, <2>4, OpenedOK
<1> QED BY <1>1, <1>2, RuntimeStep

LEMMA UserClosesStep ==
    ASSUME CatalogInv, NEW gone, Daemon!UserCloses(gone)
    PROVE  CatalogInv' /\ StepKeeps
<1>1. Daemon!Act /\ rt' = Daemon!Closed(rt, gone) /\ stored' = stored
  BY DEF Daemon!UserCloses
<1>2. Daemon!RuntimeOK(Daemon!Closed(rt, gone)) BY ClosedOK DEF CatalogInv
<1> QED BY <1>1, <1>2, RuntimeStep

LEMMA ProgramChangesStep ==
    ASSUME CatalogInv, NEW p, Daemon!ProgramChanges(p)
    PROVE  CatalogInv' /\ StepKeeps
<1>1. /\ Daemon!Act /\ p \in DOMAIN rt.panes /\ stored' = stored
      /\ \/ rt' = [rt EXCEPT !.panes[p].agent = ~@]
         \/ rt' = [rt EXCEPT !.panes[p].state = "exited"]
  BY DEF Daemon!ProgramChanges
<1> DEFINE g == [rt EXCEPT !.panes[p].agent = ~@]
           h == [rt EXCEPT !.panes[p].state = "exited"]
<1>2. Daemon!RuntimeOK(rt) BY DEF CatalogInv
<1>3. Daemon!RuntimeOK(g) /\ Daemon!RuntimeOK(h) BY <1>1, <1>2, ProgramsOK
<1>4. rt' = g \/ rt' = h BY <1>1
<1> HIDE DEF g, h
<1>5. Daemon!RuntimeOK(rt') BY <1>3, <1>4
<1> QED BY <1>1, <1>5, RuntimeStep

LEMMA ClientChangesStep ==
    ASSUME CatalogInv, NEW s, Daemon!ClientChanges(s)
    PROVE  CatalogInv' /\ StepKeeps
<1>1. /\ Daemon!Act /\ Daemon!Exists(rt, s) /\ stored' = stored
      /\ rt' = [rt EXCEPT !.clients = IF s \in @ THEN @ \ {s} ELSE @ \cup {s}]
  BY DEF Daemon!ClientChanges
<1>2. Daemon!RuntimeOK(rt') BY <1>1, ClientsOK DEF CatalogInv
<1> QED BY <1>1, <1>2, RuntimeStep

LEMMA AgesStep ==
    ASSUME CatalogInv, Daemon!Ages
    PROVE  CatalogInv' /\ StepKeeps
<1> DEFINE d == [stored EXCEPT !.history = {[h EXCEPT !.old = TRUE] : h \in @}]
<1>1. Daemon!Act /\ stored' = d /\ rt' = rt BY DEF Daemon!Ages
<1>2. /\ Daemon!CatalogOK(d) /\ Daemon!ValidateCatalog(d) /\ Keeps(stored, d, {}, {}, {})
  BY AgedOK DEF CatalogInv
<1> HIDE DEF d
<1>3. acts' \in 0 .. MaxCommands BY <1>1, ActOK
<1> QED BY <1>1, <1>2, <1>3 DEF CatalogInv, StepKeeps

LEMMA SplitStep ==
    ASSUME CatalogInv, NEW t, Daemon!Split(t)
    PROVE  CatalogInv' /\ StepKeeps
<1> DEFINE s == Daemon!Home(t)
           tab == rt.panes[t].tab
           g == Daemon!Opened(rt, s, << tab >>)
           d == Daemon!Cloned(stored)
<1>1. /\ t \in DOMAIN rt.panes /\ Daemon!Unused(rt, s) > 0
      /\ \/ Daemon!StoreObserved(d, g)
         \/ Daemon!Act /\ rt' = g /\ stored' = stored
  BY DEF Daemon!Split, Daemon!Reachable
<1>2. s \in Daemon!Sessions /\ tab \in Daemon!Tabs BY <1>1, RuntimePanes DEF CatalogInv
<1> HIDE DEF s, tab
<1>3. Daemon!RuntimeOK(g)
  <2>1. << tab >> \in Seq(Daemon!Tabs) /\ Len(<< tab >>) = 1 BY <1>2
  <2>2. Daemon!Unused(rt, s) \in Int
    BY <1>2, BornOK, CatalogAssumptions
       DEF CatalogInv, Daemon!Unused, Daemon!CatalogAssumption
  <2>3. Len(<< tab >>) <= Daemon!Unused(rt, s) BY <1>1, <2>1, <2>2
  <2>4. Daemon!RuntimeOK(rt) BY DEF CatalogInv
  <2> QED BY <1>2, <2>1, <2>3, <2>4, OpenedOK
<1>4. Daemon!CatalogOK(d) /\ Carries(stored, d) BY ClonedOK DEF CatalogInv
<1> HIDE DEF g, d
<1>5. CASE Daemon!StoreObserved(d, g) BY <1>3, <1>4, <1>5, StoreObservedStep
<1>6. CASE Daemon!Act /\ rt' = g /\ stored' = stored BY <1>3, <1>6, RuntimeStep
<1> QED BY <1>1, <1>5, <1>6

LEMMA KillStep ==
    ASSUME CatalogInv, NEW t, Daemon!Kill(t)
    PROVE  CatalogInv' /\ StepKeeps
<1> DEFINE d == Daemon!Cloned(stored)
           g == Daemon!Closed(rt, {t})
<1>1. Daemon!StoreObserved(d, g) BY DEF Daemon!Kill
<1>2. Daemon!CatalogOK(d) /\ Carries(stored, d) BY ClonedOK DEF CatalogInv
<1>3. Daemon!RuntimeOK(g) BY ClosedOK DEF CatalogInv
<1> HIDE DEF d, g
<1> QED BY <1>1, <1>2, <1>3, StoreObservedStep

LEMMA LiveKnown ==
    ASSUME CatalogInv, NEW t \in Daemon!Live(stored)
    PROVE  t \in DOMAIN stored.terminals /\ t \in Daemon!AllPanes /\ t # NoPane
<1>1. t \in DOMAIN stored.terminals /\ t \in Daemon!AllPanes
  BY DEF Daemon!Live, CatalogInv, Daemon!CatalogOK
<1> QED BY <1>1, CatalogAssumptions DEF Daemon!CatalogAssumption

LEMMA OneFits ==
    ASSUME CatalogInv, NEW c, c.history = stored.history, Daemon!NextPlace(stored) <= MaxPlace,
           NEW n, n = 1
    PROVE  Daemon!NextPlace(c) + n <= MaxPlace + 1
<1>1. MaxPlace \in Nat BY CatalogAssumptions DEF Daemon!CatalogAssumption
<1>2. Daemon!HistoryOK(stored.history) BY DEF CatalogInv, Daemon!CatalogOK
<1>3. Daemon!NextPlace(stored) \in Nat BY <1>2, NextPlaceOK
<1>4. Daemon!NextPlace(c) = Daemon!NextPlace(stored) BY DEF Daemon!NextPlace
<1> QED BY <1>1, <1>3, <1>4

LEMMA SendStep ==
    ASSUME CatalogInv, NEW t, Daemon!Send(t)
    PROVE  CatalogInv' /\ StepKeeps
<1> DEFINE e == Daemon!Cloned(stored)
           scopes == << Daemon!Scope("terminal", t) >>
           d == Daemon!Recorded(e, scopes)
<1>1. /\ Daemon!StoreObserved(d, rt) /\ t \in Daemon!Live(stored)
      /\ Daemon!NextPlace(stored) <= MaxPlace
  BY DEF Daemon!Send, Daemon!Reachable
<1>2. scopes \in Seq(Daemon!Scopes) /\ Len(scopes) = 1
  BY <1>1, LiveKnown DEF Daemon!Scope, Daemon!Scopes
<1>3. /\ Daemon!CatalogOK(e) /\ Carries(stored, e)
      /\ e.history = stored.history
  BY ClonedOK DEF CatalogInv, Made
<1> HIDE DEF e, scopes
<1>a. Daemon!NextPlace(e) + Len(scopes) <= MaxPlace + 1 BY <1>1, <1>2, <1>3, OneFits
<1>4. Daemon!CatalogOK(d) /\ Carries(e, d) BY <1>2, <1>3, <1>a, RecordedOK
<1>5. Carries(stored, d) BY <1>3, <1>4, CarriesOn
<1> HIDE DEF d
<1>6. Daemon!RuntimeOK(rt) BY DEF CatalogInv
<1> QED BY <1>1, <1>4, <1>5, <1>6, StoreObservedStep

LEMMA AgentPromptStep ==
    ASSUME CatalogInv, NEW a, Daemon!AgentPrompt(a)
    PROVE  CatalogInv' /\ StepKeeps
<1> DEFINE e == Daemon!Cloned(stored)
           f == [stored.agents EXCEPT ![a].state = "running"]
           h == [e EXCEPT !.agents = f]
           scopes == << Daemon!Scope("agent", a) >>
           d == Daemon!Recorded(h, scopes)
<1>1. e.agents = stored.agents
  <2>1. Daemon!CatalogOK(stored) BY DEF CatalogInv
  <2> HIDE DEF e
  <2> QED BY <2>1, ClonedOK DEF Made, e
<1>2. /\ a \in DOMAIN stored.agents /\ stored.agents[a].terminal \in Daemon!Live(stored)
      /\ Daemon!NextPlace(stored) <= MaxPlace
      /\ Daemon!StoreObserved(Daemon!Recorded([e EXCEPT !.agents[a].state = "running"], scopes),
                              rt)
  BY DEF Daemon!AgentPrompt, Daemon!Reachable
<1>3. [e EXCEPT !.agents[a].state = "running"] = h
  <2> HIDE DEF e
  <2> QED BY <1>1
<1>4. AgentsTyped(stored.agents) BY CatalogParts DEF CatalogInv, Typed
<1>5. stored.agents[a].terminal # NoPane BY <1>2, LiveKnown
<1>6. AgentsTyped(f) BY <1>2, <1>4, <1>5, AgentChanged
<1>7. scopes \in Seq(Daemon!Scopes) /\ Len(scopes) = 1
  BY <1>2, <1>4 DEF AgentsTyped, Daemon!Scope, Daemon!Scopes
<1>8. /\ Daemon!CatalogOK(e) /\ Carries(stored, e)
      /\ e.history = stored.history
  BY ClonedOK DEF CatalogInv, Made
<1> HIDE DEF e, f, scopes
<1>9. Daemon!CatalogOK(h) /\ Carries(e, h) BY <1>6, <1>8, AgentsChanged
<1>a. h.history = stored.history
  <2>1. IsCatalog(e) BY <1>8, CatalogParts
  <2> QED BY <1>8, <2>1 DEF IsCatalog, Made
<1> HIDE DEF h
<1>b. Daemon!NextPlace(h) + Len(scopes) <= MaxPlace + 1 BY <1>2, <1>7, <1>a, OneFits
<1>10. Daemon!CatalogOK(d) /\ Carries(h, d) BY <1>7, <1>9, <1>b, RecordedOK
<1>11. Carries(stored, d) BY <1>8, <1>9, <1>10, CarriesOn
<1>12. Daemon!StoreObserved(d, rt) BY <1>2, <1>3
<1> HIDE DEF d
<1>13. Daemon!RuntimeOK(rt) BY DEF CatalogInv
<1> QED BY <1>10, <1>11, <1>12, <1>13, StoreObservedStep

LEMMA AgentWaitStep ==
    ASSUME CatalogInv, NEW a, Daemon!AgentWait(a)
    PROVE  CatalogInv' /\ StepKeeps
<1> DEFINE e == Daemon!Cloned(stored)
           f == [stored.agents EXCEPT ![a].state = "waiting"]
           d == [e EXCEPT !.agents = f]
<1>1. e.agents = stored.agents
  <2>1. Daemon!CatalogOK(stored) BY DEF CatalogInv
  <2> HIDE DEF e
  <2> QED BY <2>1, ClonedOK DEF Made, e
<1>2. /\ a \in DOMAIN stored.agents /\ stored.agents[a].state = "running"
      /\ Daemon!Store([e EXCEPT !.agents[a].state = "waiting"])
  BY DEF Daemon!AgentWait
<1>3. [e EXCEPT !.agents[a].state = "waiting"] = d
  <2> HIDE DEF e
  <2> QED BY <1>1
<1>4. AgentsTyped(stored.agents) BY CatalogParts DEF CatalogInv, Typed
<1>5. stored.agents[a].terminal # NoPane BY <1>2, <1>4 DEF AgentsTyped
<1>6. AgentsTyped(f) BY <1>2, <1>4, <1>5, AgentChanged
<1>7. Daemon!CatalogOK(e) /\ Carries(stored, e) BY ClonedOK DEF CatalogInv
<1> HIDE DEF e, f
<1>8. Daemon!CatalogOK(d) /\ Carries(e, d) BY <1>6, <1>7, AgentsChanged
<1>9. Daemon!Store(d) BY <1>2, <1>3
<1> HIDE DEF d
<1>10. CatalogInv' /\ stored' = d BY <1>8, <1>9, StoreStep
<1>11. Carries(stored, d) BY <1>7, <1>8, CarriesOn
<1>12. Keeps(stored, d, {}, {}, {}) BY <1>11, CarriedKept
<1> QED BY <1>10, <1>12 DEF StepKeeps

LEMMA AgentClaimStep ==
    ASSUME CatalogInv, NEW a, Daemon!AgentClaim(a)
    PROVE  CatalogInv' /\ StepKeeps
<1> DEFINE e == Daemon!Cloned(stored)
           f == [stored.agents EXCEPT ![a].claimed = TRUE]
           d == [e EXCEPT !.agents = f]
<1>1. e.agents = stored.agents
  <2>1. Daemon!CatalogOK(stored) BY DEF CatalogInv
  <2> HIDE DEF e
  <2> QED BY <2>1, ClonedOK DEF Made, e
<1>2. /\ a \in DOMAIN stored.agents
      /\ Daemon!Store([e EXCEPT !.agents[a].claimed = TRUE])
  BY DEF Daemon!AgentClaim
<1>3. [e EXCEPT !.agents[a].claimed = TRUE] = d
  <2> HIDE DEF e
  <2> QED BY <1>1
<1>4. AgentsTyped(stored.agents) BY CatalogParts DEF CatalogInv, Typed
<1>5. AgentsTyped(f) BY <1>2, <1>4, AgentChanged
<1>6. Daemon!CatalogOK(e) /\ Carries(stored, e) BY ClonedOK DEF CatalogInv
<1> HIDE DEF e, f
<1>7. Daemon!CatalogOK(d) /\ Carries(e, d) BY <1>5, <1>6, AgentsChanged
<1>8. Daemon!Store(d) BY <1>2, <1>3
<1> HIDE DEF d
<1>9. CatalogInv' /\ stored' = d BY <1>7, <1>8, StoreStep
<1>10. Carries(stored, d) BY <1>6, <1>7, CarriesOn
<1>11. Keeps(stored, d, {}, {}, {}) BY <1>10, CarriedKept
<1> QED BY <1>9, <1>11 DEF StepKeeps

LEMMA FreezeStep ==
    ASSUME CatalogInv, NEW s, Daemon!Freeze(s)
    PROVE  CatalogInv' /\ StepKeeps
<1> DEFINE d == Daemon!Adopted(stored, s, "frozen")
<1>1. s \in DOMAIN stored.workspaces /\ Daemon!Store(d) BY DEF Daemon!Freeze
<1>2. Daemon!CatalogOK(stored) BY DEF CatalogInv
<1>3. Daemon!CatalogOK(d) /\ Keeps(stored, d, {}, {s}, {}) BY <1>1, <1>2, AdoptedOK
<1> HIDE DEF d
<1>4. CatalogInv' /\ stored' = d BY <1>1, <1>3, StoreStep
<1> QED BY <1>1, <1>3, <1>4 DEF StepKeeps, d

LEMMA PinStep ==
    ASSUME CatalogInv, NEW v, Daemon!Pin(v)
    PROVE  CatalogInv' /\ StepKeeps
<1> DEFINE x == [kind |-> "pinned", pinned |-> TRUE]
           d == [Daemon!Cloned(stored) EXCEPT !.views[v] = x]
<1>1. v \in DOMAIN stored.views /\ Daemon!Store(d) BY DEF Daemon!Pin
<1>2. Daemon!CatalogOK(stored) BY DEF CatalogInv
<1>3. x \in Daemon!Views /\ x.pinned BY DEF Daemon!Views
<1> HIDE DEF x
<1>4. Daemon!CatalogOK(d) /\ Keeps(stored, d, {}, {}, {}) BY <1>1, <1>2, <1>3, ViewChanged
<1> HIDE DEF d
<1>5. CatalogInv' /\ stored' = d BY <1>1, <1>4, StoreStep
<1> QED BY <1>4, <1>5 DEF StepKeeps

LEMMA UnpinStep ==
    ASSUME CatalogInv, NEW v, Daemon!Unpin(v)
    PROVE  CatalogInv' /\ StepKeeps
<1> DEFINE x == [kind |-> "recent", pinned |-> FALSE]
           d == [Daemon!Cloned(stored) EXCEPT !.views[v] = x]
<1>1. v \in DOMAIN stored.views /\ Daemon!Store(d) /\ d = Daemon!Unpinned(stored, v)
  BY DEF Daemon!Unpin, Daemon!Unpinned
<1>2. Daemon!CatalogOK(stored) BY DEF CatalogInv
<1>3. x \in Daemon!Views BY DEF Daemon!Views
<1> HIDE DEF x
<1>4. Daemon!CatalogOK(d) /\ Keeps(stored, d, {}, {}, {v}) BY <1>1, <1>2, <1>3, ViewChanged
<1> HIDE DEF d
<1>5. CatalogInv' /\ stored' = d BY <1>1, <1>4, StoreStep
<1> QED BY <1>1, <1>4, <1>5 DEF StepKeeps

LEMMA ConfigSaveStep ==
    ASSUME CatalogInv, NEW keep \in BOOLEAN, Daemon!ConfigSave(keep)
    PROVE  CatalogInv' /\ StepKeeps
<1> DEFINE d == [Daemon!Cloned(stored) EXCEPT !.keep = keep]
<1>1. Daemon!Store(d) BY DEF Daemon!ConfigSave
<1>2. Daemon!CatalogOK(stored) BY DEF CatalogInv
<1>3. Daemon!CatalogOK(d) /\ Keeps(stored, d, {}, {}, {}) BY <1>2, KeepChanged
<1> HIDE DEF d
<1>4. CatalogInv' /\ stored' = d BY <1>1, <1>3, StoreStep
<1> QED BY <1>3, <1>4 DEF StepKeeps

LEMMA SnapshotCreateStep ==
    ASSUME CatalogInv, NEW targets, Daemon!SnapshotCreate(targets)
    PROVE  CatalogInv' /\ StepKeeps
<1> DEFINE e == Daemon!Cloned(stored)
           seq == Daemon!SetToSeq(targets)
           d == Daemon!WithSnapshots(e, seq)
<1>1. targets \subseteq DOMAIN stored.workspaces /\ Daemon!Store(d)
  BY DEF Daemon!SnapshotCreate
<1>2. Daemon!CatalogOK(stored) BY DEF CatalogInv
<1>3. Daemon!CatalogOK(e) /\ Carries(stored, e) BY <1>2, ClonedOK
<1>4. IsFiniteSet(targets)
  <2>1. DOMAIN stored.workspaces \subseteq Daemon!Sessions BY <1>2 DEF Daemon!CatalogOK
  <2>2. IsFiniteSet(Daemon!Sessions)
    BY CatalogAssumptions, DaemonFinite DEF Daemon!CatalogAssumption
  <2> QED BY <1>1, <2>1, <2>2, FS_Subset
<1>5. \A i \in DOMAIN seq : seq[i] \in DOMAIN e.workspaces
  <2>1. seq \in [1 .. Cardinality(targets) -> targets] BY <1>4, SetToSeqOK
  <2> HIDE DEF e, seq
  <2> QED BY <1>1, <1>3, <2>1 DEF Carries
<1> HIDE DEF e, seq
<1>6. /\ Daemon!CatalogOK(d) /\ d.workspaces = e.workspaces /\ d.views = e.views
      /\ e.snapshots \subseteq d.snapshots /\ d.history = e.history
  BY <1>3, <1>5, WithSnapshotsOK
<1> HIDE DEF d
<1>7. Keeps(stored, d, {}, {}, {}) BY <1>3, <1>6, SameKept DEF Carries
<1>8. CatalogInv' /\ stored' = d BY <1>1, <1>6, StoreStep
<1> QED BY <1>7, <1>8 DEF StepKeeps

LEMMA SnapshotDeleteStep ==
    ASSUME CatalogInv, NEW s, Daemon!SnapshotDelete(s)
    PROVE  CatalogInv' /\ StepKeeps
<1> DEFINE d == Daemon!WithoutSnapshot(stored, s)
<1>1. s \in stored.snapshots /\ Daemon!Store(d) BY DEF Daemon!SnapshotDelete
<1>2. Daemon!CatalogOK(stored) BY DEF CatalogInv
<1>3. Daemon!CatalogOK(d) /\ Keeps(stored, d, {s}, {}, {}) BY <1>1, <1>2, WithoutSnapshotOK
<1> HIDE DEF d
<1>4. CatalogInv' /\ stored' = d BY <1>1, <1>3, StoreStep
<1> QED BY <1>1, <1>3, <1>4 DEF StepKeeps, d

LEMMA SnapshotPlanStep ==
    ASSUME CatalogInv, NEW s, Daemon!SnapshotPlan(s)
    PROVE  CatalogInv' /\ StepKeeps
<1> DEFINE d == [Daemon!Cloned(stored) EXCEPT !.plans = @ \cup
                    {[id |-> Daemon!nextID(stored.plans), snapshot |-> s.id,
                      workspace |-> s.workspace, status |-> "pending"]}]
<1>1. s \in stored.snapshots /\ Daemon!Store(d) BY DEF Daemon!SnapshotPlan
<1>2. Daemon!CatalogOK(stored) BY DEF CatalogInv
<1>3. Daemon!CatalogOK(d) /\ Keeps(stored, d, {}, {}, {}) BY <1>1, <1>2, PlannedOK
<1> HIDE DEF d
<1>4. CatalogInv' /\ stored' = d BY <1>1, <1>3, StoreStep
<1> QED BY <1>3, <1>4 DEF StepKeeps

(* The workspace of a plan is in the catalog, and so is its snapshot.      *)
LEMMA PlanKnown ==
    ASSUME CatalogInv, NEW plan \in stored.plans
    PROVE  /\ plan.workspace \in DOMAIN stored.workspaces /\ PlansTyped({plan})
           /\ \E s \in stored.snapshots : s.id = plan.snapshot
<1>1. PlansTyped(stored.plans) BY CatalogParts DEF CatalogInv, Typed
<1>2. PlansTyped({plan}) BY <1>1 DEF PlansTyped
<1>3. PICK s \in stored.snapshots : s.id = plan.snapshot /\ s.workspace = plan.workspace
  BY DEF CatalogInv, Daemon!ValidateCatalog, Daemon!ValidPlan
<1>4. s.workspace \in DOMAIN stored.workspaces BY DEF CatalogInv, Daemon!ValidateCatalog
<1> QED BY <1>2, <1>3, <1>4

LEMMA RestoreFreezeStep ==
    ASSUME CatalogInv, NEW plan, Daemon!RestoreFreeze(plan)
    PROVE  CatalogInv' /\ StepKeeps
<1> DEFINE e == Daemon!Cloned(stored)
           targets == << plan.workspace >>
           f == Daemon!WithSnapshots(e, targets)
           d == Daemon!Applied(f, plan)
<1>1. plan \in stored.plans /\ Daemon!Store(d) BY DEF Daemon!RestoreFreeze, Daemon!Pending
<1>2. plan.workspace \in DOMAIN stored.workspaces /\ PlansTyped({plan}) BY <1>1, PlanKnown
<1>3. Daemon!CatalogOK(e) /\ Carries(stored, e) BY ClonedOK DEF CatalogInv
<1> HIDE DEF e
<1>4. \A i \in DOMAIN targets : targets[i] \in DOMAIN e.workspaces BY <1>2, <1>3 DEF Carries
<1> HIDE DEF targets
<1>5. /\ Daemon!CatalogOK(f) /\ f.workspaces = e.workspaces /\ f.views = e.views
      /\ e.snapshots \subseteq f.snapshots /\ f.history = e.history
  BY <1>3, <1>4, WithSnapshotsOK
<1> HIDE DEF f
<1>6. Daemon!CatalogOK(d) /\ Carries(f, d) BY <1>2, <1>5, AppliedOK
<1> HIDE DEF d
<1>7. Keeps(stored, d, {}, {}, {})
  <2>1. d.workspaces = stored.workspaces /\ d.views = stored.views
    BY <1>3, <1>5, <1>6 DEF Carries
  <2>2. stored.snapshots \subseteq d.snapshots /\ stored.history \subseteq d.history
    BY <1>3, <1>5, <1>6 DEF Carries
  <2> QED BY <2>1, <2>2, SameKept
<1>8. CatalogInv' /\ stored' = d BY <1>1, <1>6, StoreStep
<1> QED BY <1>7, <1>8 DEF StepKeeps

LEMMA RestorePullStep ==
    ASSUME CatalogInv, NEW plan, Daemon!RestorePull(plan)
    PROVE  CatalogInv' /\ StepKeeps
<1> DEFINE d == Daemon!Pulled(stored, plan)
<1>1. plan \in stored.plans /\ Daemon!Store(d) BY DEF Daemon!RestorePull, Daemon!Pending
<1>2. plan.workspace \in DOMAIN stored.workspaces /\ PlansTyped({plan}) BY <1>1, PlanKnown
<1>3. Daemon!CatalogOK(stored) BY DEF CatalogInv
<1>4. Daemon!CatalogOK(d) /\ Keeps(stored, d, {}, {plan.workspace}, {})
  BY <1>2, <1>3, PulledOK
<1> HIDE DEF d
<1>5. CatalogInv' /\ stored' = d BY <1>1, <1>4, StoreStep
<1> QED BY <1>1, <1>4, <1>5 DEF StepKeeps, d

(* What a push makes fits in the panes that are left.                      *)
LEMMA PushedOK ==
    ASSUME CatalogInv, NEW s \in Daemon!Sessions, NEW tabs \in Seq(Daemon!Tabs),
           Daemon!Unused(rt, s) >= 2 * Len(tabs), NEW n \in 0 .. 2 * Len(tabs)
    PROVE  Daemon!RuntimeOK(Daemon!PushedPanes(s, tabs, n))
<1> DEFINE seq == [i \in 1 .. n |-> tabs[(i + 1) \div 2]]
<1>1. Len(tabs) \in Nat OBVIOUS
<1>2. n \in Nat BY <1>1
<1>3. \A i \in 1 .. n : (i + 1) \div 2 \in 1 .. Len(tabs) BY <1>1, <1>2
<1>4. seq \in [1 .. n -> Daemon!Tabs] BY <1>3
<1>5. seq \in Seq(Daemon!Tabs) /\ Len(seq) = n
  <2> HIDE DEF seq
  <2> QED BY <1>2, <1>4
<1>6. Daemon!Unused(rt, s) \in Int
  BY BornOK, CatalogAssumptions DEF CatalogInv, Daemon!Unused, Daemon!CatalogAssumption
<1>7. Len(seq) <= Daemon!Unused(rt, s) BY <1>1, <1>5, <1>6
<1>8. Daemon!RuntimeOK(rt) BY DEF CatalogInv
<1>9. Daemon!PushedPanes(s, tabs, n) = Daemon!Opened(rt, s, seq) BY DEF Daemon!PushedPanes
<1> HIDE DEF seq
<1> QED BY <1>5, <1>7, <1>8, <1>9, OpenedOK

LEMMA RestorePushStep ==
    ASSUME CatalogInv, NEW plan, Daemon!RestorePush(plan)
    PROVE  CatalogInv' /\ StepKeeps
<1> DEFINE s == plan.workspace
           snapshot == CHOOSE x \in stored.snapshots : x.id = plan.snapshot
           tabs == Daemon!MissingTabs(s, snapshot)
           last == 2 * Len(tabs)
           e == Daemon!Cloned(stored)
           d == Daemon!Applied(e, plan)
           g == Daemon!PushedPanes(s, tabs, last)
<1>1. /\ plan \in stored.plans /\ Daemon!Unused(rt, s) >= last
      /\ \/ Daemon!StoreObserved(d, g)
         \/ /\ \E n \in 1 .. last - 1 : rt' = Daemon!PushedPanes(s, tabs, n)
            /\ Daemon!Act /\ stored' = stored
  BY DEF Daemon!RestorePush, Daemon!Pending
<1>2. s \in Daemon!Sessions /\ PlansTyped({plan})
  BY <1>1, PlanKnown DEF CatalogInv, Daemon!CatalogOK
<1>3. snapshot \in stored.snapshots BY <1>1, PlanKnown
<1>4. snapshot.state \in Daemon!States BY <1>3 DEF CatalogInv, Daemon!CatalogOK
<1> HIDE DEF snapshot
<1>5. tabs \in Seq(Daemon!Tabs)
  <2> DEFINE names == [i \in DOMAIN snapshot.state |-> snapshot.state[i].name]
             missing == Daemon!Tabs \ Daemon!TabsOf(rt, s)
  <2>1. DOMAIN snapshot.state = 1 .. Len(snapshot.state) /\ Len(snapshot.state) \in Nat
        /\ \A i \in DOMAIN snapshot.state : snapshot.state[i].name \in Daemon!Tabs
    <3> DEFINE state == snapshot.state
               W == [name : Daemon!Tabs, surfaces : Seq(Daemon!SurfaceIds)]
    <3>1. state \in Seq(W) BY <1>4 DEF Daemon!States
    <3>2. \A w \in W : w.name \in Daemon!Tabs OBVIOUS
    <3> HIDE DEF state, W
    <3>3. DOMAIN state = 1 .. Len(state) /\ Len(state) \in Nat BY <3>1
    <3>4. \A i \in DOMAIN state : state[i] \in W BY <3>1
    <3>5. \A i \in DOMAIN state : state[i].name \in Daemon!Tabs BY <3>2, <3>4
    <3> QED BY <3>3, <3>5 DEF state
  <2>2. names \in [1 .. Len(snapshot.state) -> Daemon!Tabs] BY <2>1
  <2>3. names \in Seq(Daemon!Tabs)
    <3> HIDE DEF names
    <3> QED BY <2>1, <2>2
  <2>4. tabs = Daemon!Chosen(names, missing) BY DEF Daemon!MissingTabs
  <2> HIDE DEF names, missing, tabs
  <2>5. tabs \in Seq(Daemon!Tabs) BY <2>3, <2>4, DaemonChosen, ChosenOK
  <2> QED BY <2>5
<1>6. last \in Nat BY <1>5
<1> HIDE DEF tabs, s
<1>7. \A n \in 0 .. last : Daemon!RuntimeOK(Daemon!PushedPanes(s, tabs, n))
  BY <1>1, <1>2, <1>5, PushedOK
<1>8. Daemon!RuntimeOK(g) BY <1>6, <1>7
<1>9. Daemon!CatalogOK(e) /\ Carries(stored, e) BY ClonedOK DEF CatalogInv
<1> HIDE DEF e
<1>10. Daemon!CatalogOK(d) /\ Carries(e, d) BY <1>2, <1>9, AppliedOK
<1>11. Carries(stored, d) BY <1>9, <1>10, CarriesOn
<1> HIDE DEF d, g
<1>12. CASE Daemon!StoreObserved(d, g) BY <1>8, <1>10, <1>11, <1>12, StoreObservedStep
<1>13. CASE /\ \E n \in 1 .. last - 1 : rt' = Daemon!PushedPanes(s, tabs, n)
            /\ Daemon!Act /\ stored' = stored
  <2>1. Daemon!RuntimeOK(rt') BY <1>6, <1>7, <1>13
  <2> QED BY <1>13, <2>1, RuntimeStep
<1> QED BY <1>1, <1>12, <1>13

LEMMA CatalogSteps ==
    ASSUME CatalogInv, Daemon!Next
    PROVE  CatalogInv' /\ StepKeeps
<1>1. ASSUME NEW up \in BOOLEAN, Daemon!Reconcile(up, << >>) PROVE CatalogInv' /\ StepKeeps
  <2>1. << >> \in Seq(Daemon!AllPanes) OBVIOUS
  <2> QED BY <1>1, <2>1, ReconcileStep
<1>2. ASSUME NEW p \in DOMAIN rt.panes, Daemon!Reconcile(TRUE, << p >>)
      PROVE  CatalogInv' /\ StepKeeps
  <2>1. p \in Daemon!AllPanes BY RuntimePanes DEF CatalogInv
  <2>2. << p >> \in Seq(Daemon!AllPanes) BY <2>1
  <2> QED BY <1>2, <2>2, ReconcileStep
<1>3. ASSUME NEW s \in Daemon!Sessions,
             \/ \E tab \in Daemon!Tabs : Daemon!UserOpens(s, tab)
             \/ Daemon!UserCloses(Daemon!PanesOf(rt, s))
             \/ Daemon!ClientChanges(s) \/ Daemon!Freeze(s) \/ Daemon!Pin(s)
             \/ Daemon!Unpin(s) \/ Daemon!SnapshotCreate({s})
      PROVE  CatalogInv' /\ StepKeeps
  <2>1. ASSUME NEW tab \in Daemon!Tabs, Daemon!UserOpens(s, tab)
        PROVE  CatalogInv' /\ StepKeeps
    BY <2>1, UserOpensStep
  <2>2. ASSUME Daemon!UserCloses(Daemon!PanesOf(rt, s)) PROVE CatalogInv' /\ StepKeeps
    BY <2>2, UserClosesStep
  <2>3. ASSUME Daemon!ClientChanges(s) PROVE CatalogInv' /\ StepKeeps BY <2>3, ClientChangesStep
  <2>4. ASSUME Daemon!Freeze(s) PROVE CatalogInv' /\ StepKeeps BY <2>4, FreezeStep
  <2>5. ASSUME Daemon!Pin(s) PROVE CatalogInv' /\ StepKeeps BY <2>5, PinStep
  <2>6. ASSUME Daemon!Unpin(s) PROVE CatalogInv' /\ StepKeeps BY <2>6, UnpinStep
  <2>7. ASSUME Daemon!SnapshotCreate({s}) PROVE CatalogInv' /\ StepKeeps
    BY <2>7, SnapshotCreateStep
  <2> QED BY <1>3, <2>1, <2>2, <2>3, <2>4, <2>5, <2>6, <2>7
<1>4. ASSUME NEW p,
             \/ Daemon!UserCloses({p}) \/ Daemon!ProgramChanges(p)
             \/ Daemon!Split(p) \/ Daemon!Kill(p) \/ Daemon!Send(p)
             \/ Daemon!AgentPrompt(p) \/ Daemon!AgentWait(p) \/ Daemon!AgentClaim(p)
      PROVE  CatalogInv' /\ StepKeeps
  <2>1. ASSUME Daemon!UserCloses({p}) PROVE CatalogInv' /\ StepKeeps BY <2>1, UserClosesStep
  <2>2. ASSUME Daemon!ProgramChanges(p) PROVE CatalogInv' /\ StepKeeps
    BY <2>2, ProgramChangesStep
  <2>3. ASSUME Daemon!Split(p) PROVE CatalogInv' /\ StepKeeps BY <2>3, SplitStep
  <2>4. ASSUME Daemon!Kill(p) PROVE CatalogInv' /\ StepKeeps BY <2>4, KillStep
  <2>5. ASSUME Daemon!Send(p) PROVE CatalogInv' /\ StepKeeps BY <2>5, SendStep
  <2>6. ASSUME Daemon!AgentPrompt(p) PROVE CatalogInv' /\ StepKeeps BY <2>6, AgentPromptStep
  <2>7. ASSUME Daemon!AgentWait(p) PROVE CatalogInv' /\ StepKeeps BY <2>7, AgentWaitStep
  <2>8. ASSUME Daemon!AgentClaim(p) PROVE CatalogInv' /\ StepKeeps BY <2>8, AgentClaimStep
  <2> QED BY <1>4, <2>1, <2>2, <2>3, <2>4, <2>5, <2>6, <2>7, <2>8
<1>5. ASSUME Daemon!Ages PROVE CatalogInv' /\ StepKeeps BY <1>5, AgesStep
<1>6. ASSUME NEW keep \in BOOLEAN, Daemon!ConfigSave(keep) PROVE CatalogInv' /\ StepKeeps
  BY <1>6, ConfigSaveStep
<1>7. ASSUME Daemon!ConfigReload PROVE CatalogInv' /\ StepKeeps
  BY <1>7, ConfigSaveStep DEF Daemon!ConfigReload
<1>8. ASSUME Daemon!SnapshotCreate(DOMAIN stored.workspaces) PROVE CatalogInv' /\ StepKeeps
  BY <1>8, SnapshotCreateStep
<1>9. ASSUME NEW s, Daemon!SnapshotDelete(s) \/ Daemon!SnapshotPlan(s)
      PROVE  CatalogInv' /\ StepKeeps
  <2>1. ASSUME Daemon!SnapshotDelete(s) PROVE CatalogInv' /\ StepKeeps
    BY <2>1, SnapshotDeleteStep
  <2>2. ASSUME Daemon!SnapshotPlan(s) PROVE CatalogInv' /\ StepKeeps BY <2>2, SnapshotPlanStep
  <2> QED BY <1>9, <2>1, <2>2
<1>10. ASSUME NEW plan, \/ Daemon!RestoreFreeze(plan) \/ Daemon!RestorePull(plan)
                        \/ Daemon!RestorePush(plan)
       PROVE  CatalogInv' /\ StepKeeps
  <2>1. ASSUME Daemon!RestoreFreeze(plan) PROVE CatalogInv' /\ StepKeeps
    BY <2>1, RestoreFreezeStep
  <2>2. ASSUME Daemon!RestorePull(plan) PROVE CatalogInv' /\ StepKeeps BY <2>2, RestorePullStep
  <2>3. ASSUME Daemon!RestorePush(plan) PROVE CatalogInv' /\ StepKeeps BY <2>3, RestorePushStep
  <2> QED BY <1>10, <2>1, <2>2, <2>3
<1> HIDE DEF CatalogInv, StepKeeps
<1> QED BY <1>1, <1>2, <1>3, <1>4, <1>5, <1>6, <1>7, <1>8, <1>9, <1>10 DEF Daemon!Next

-----------------------------------------------------------------------------
(***************************************************************************)
(* Where executions start                                                  *)
(***************************************************************************)

LEMMA EmptyOK ==
    Daemon!CatalogOK(Daemon!EmptyCatalog) /\ Daemon!ValidateCatalog(Daemon!EmptyCatalog)
<1> DEFINE e == << >>
           c == Daemon!EmptyCatalog
           n == {"history"}
<1>1. c = Made(TRUE, e, e, e, e, {}, {}, {}, FALSE, n) BY DEF Daemon!EmptyCatalog, Made
<1>2. DOMAIN e = {} /\ \A T : e \in [{} -> T] OBVIOUS
<1> HIDE DEF c, e
<1>3. /\ WorkspacesTyped(e) /\ TerminalsTyped(e) /\ AgentsTyped(e) /\ ViewsTyped(e)
  BY <1>2 DEF WorkspacesTyped, TerminalsTyped, AgentsTyped, ViewsTyped
<1>4. HistoryTyped({}) /\ SnapshotsTyped({}) /\ PlansTyped({})
  <2>1. Daemon!IsFiniteSet({}) BY FS_EmptySet, DaemonFinite
  <2> QED BY <2>1 DEF HistoryTyped, Daemon!HistoryOK, SnapshotsTyped, PlansTyped
<1>5. Typed(TRUE, e, e, e, e, {}, {}, {}, FALSE, n) BY <1>3, <1>4 DEF Typed
<1>6. Daemon!CatalogOK(c) BY <1>1, <1>5, MadeOK
<1>7. /\ c.workspaces = e /\ c.terminals = e /\ c.agents = e /\ c.views = e
      /\ c.history = {} /\ c.snapshots = {} /\ c.plans = {}
  BY <1>1 DEF Made
<1>8. Daemon!ValidateCatalog(c)
  BY <1>2, <1>7 DEF Daemon!ValidateCatalog, Daemon!UniqueIds
<1> QED BY <1>6, <1>8 DEF c

LEMMA FirstOK ==
    ASSUME NEW running \in SUBSET Daemon!Sessions, Daemon!First(running)
    PROVE  Daemon!RuntimeOK(rt) /\ Daemon!CatalogOK(stored) /\ Daemon!ValidateCatalog(stored)
<1> DEFINE shell == Daemon!Shell(TabOrder[1])
           at == running \X {1}
           panes == [p \in at |-> shell]
           empty == Daemon!EmptyCatalog
<1>1. shell \in PaneStates
  <2>1. TabOrder \in Seq(Daemon!Tabs) /\ TabOrder # << >>
    BY CatalogAssumptions DEF Daemon!CatalogAssumption
  <2>2. TabOrder[1] \in Daemon!Tabs BY <2>1
  <2> QED BY <2>2 DEF Daemon!Shell, PaneStates
<1>2. at \subseteq Daemon!AllPanes
  <2>1. ASSUME NEW s \in running PROVE << s, 1 >> \in Daemon!AllPanes
    <3>1. MaxPanes[s] \in Nat \ {0} BY CatalogAssumptions DEF Daemon!CatalogAssumption
    <3> QED BY <3>1, PaneFacts
  <2> QED BY <2>1
<1>3. rt = Daemon!With(Daemon!NoRuntime, panes) /\ stored = Daemon!ProjectRuntime(empty, rt)
  BY DEF Daemon!First
<1> HIDE DEF shell, at
<1>4. DOMAIN panes = at /\ panes \in [at -> PaneStates] BY <1>1
<1> HIDE DEF panes
<1>5. Daemon!RuntimeOK(rt) BY <1>2, <1>3, <1>4, NoRuntimeOK, WithOK
<1>6. Daemon!CatalogOK(empty) /\ Daemon!ValidateCatalog(empty) BY EmptyOK
<1> HIDE DEF empty
<1>7. Homed(empty) BY <1>6, ValidHomes
<1>8. Daemon!CatalogOK(Projection(empty, rt)) BY <1>5, <1>6, <1>7, ProjectionTyped
<1>9. Daemon!ValidateCatalog(Projection(empty, rt)) BY <1>5, <1>6, ProjectionValid
<1>10. stored = Projection(empty, rt) BY <1>3, ProjectionParts
<1> QED BY <1>5, <1>8, <1>9, <1>10

LEMMA CatalogInit ==
    ASSUME DaemonsInit
    PROVE  CatalogInv
<1>1. /\ acts = 0
      /\ \/ \E running \in SUBSET Daemon!Sessions : Daemon!First(running)
         \/ \E s \in Starts : rt = s.rt /\ stored = s.cat
  BY DEF DaemonsInit, Daemon!Init
<1>2. acts \in 0 .. MaxCommands
  BY <1>1, CatalogAssumptions DEF Daemon!CatalogAssumption
<1>3. Daemon!RuntimeOK(rt) /\ Daemon!CatalogOK(stored) /\ Daemon!ValidateCatalog(stored)
  <2>1. CASE \E running \in SUBSET Daemon!Sessions : Daemon!First(running)
    BY <2>1, FirstOK
  <2>2. CASE \E s \in Starts : rt = s.rt /\ stored = s.cat
    BY <2>2, CatalogAssumptions DEF Daemon!StartsAssumption
  <2> QED BY <1>1, <2>1, <2>2
<1> QED BY <1>2, <1>3 DEF CatalogInv

LEMMA CatalogStep ==
    ASSUME CatalogInv, [DaemonsNext]_all
    PROVE  CatalogInv' /\ (StepKeeps \/ UNCHANGED catalogVars)
<1>1. CASE Daemon!Next BY <1>1, CatalogSteps
<1>2. CASE UNCHANGED catalogVars BY <1>2 DEF catalogVars, CatalogInv
<1>3. Daemon!Next \/ UNCHANGED catalogVars BY DEF DaemonsNext, all
<1> QED BY <1>1, <1>2, <1>3

LEMMA CatalogAlways == DaemonsSpec => []CatalogInv
<1>1. DaemonsInit => CatalogInv BY CatalogInit
<1>2. CatalogInv /\ [DaemonsNext]_all => CatalogInv' BY CatalogStep
<1> QED BY <1>1, <1>2, PTL DEF DaemonsSpec

-----------------------------------------------------------------------------
(***************************************************************************)
(* What outlives a step                                                    *)
(***************************************************************************)

SnapshotsOutlive ==
    \A s \in stored.snapshots :
       s \in stored'.snapshots \/ stored' = Daemon!WithoutSnapshot(stored, s)

HistoryOutlives ==
    \A h \in stored.history :
       h.scope.kind = "terminal" /\ ~h.old =>
          \/ \E k \in stored'.history : k.scope = h.scope /\ k.seq = h.seq
          \/ Daemon!Cardinality(Daemon!Newer(stored'.history, h)) >= MaxChunks

FrozenOutlives ==
    \A s \in DOMAIN stored.workspaces \cap DOMAIN stored'.workspaces :
       stored.workspaces[s].status = "frozen" =>
          \/ /\ stored'.workspaces[s].status = "frozen"
             /\ stored'.workspaces[s].desired = stored.workspaces[s].desired
          \/ stored' = Daemon!Adopted(stored, s, "frozen")
          \/ \E plan \in stored.plans :
                plan.workspace = s /\ stored' = Daemon!Pulled(stored, plan)

PinOutlives ==
    \A v \in DOMAIN stored.views :
       stored.views[v].pinned /\ v \in DOMAIN stored'.workspaces =>
          \/ v \in DOMAIN stored'.views /\ stored'.views[v].pinned
          \/ stored' = Daemon!Unpinned(stored, v)

(* Except for what the step takes away                                      *)
Excepts(A, B, C) ==
    /\ Keeps(stored, stored', A, B, C)
    /\ \A s \in A : stored' = Daemon!WithoutSnapshot(stored, s)
    /\ \A s \in B : \/ stored' = Daemon!Adopted(stored, s, "frozen")
                    \/ \E plan \in stored.plans :
                          plan.workspace = s /\ stored' = Daemon!Pulled(stored, plan)
    /\ \A v \in C : stored' = Daemon!Unpinned(stored, v)

LEMMA StepOutlived ==
    ASSUME StepKeeps
    PROVE  SnapshotsOutlive /\ HistoryOutlives /\ FrozenOutlives /\ PinOutlives
<1>1. \E A, B, C : Excepts(A, B, C)
  <2>1. ASSUME Keeps(stored, stored', {}, {}, {}) PROVE Excepts({}, {}, {})
    BY <2>1 DEF Excepts
  <2>2. ASSUME NEW s, stored' = Daemon!WithoutSnapshot(stored, s),
               Keeps(stored, stored', {s}, {}, {})
        PROVE  Excepts({s}, {}, {})
    BY <2>2 DEF Excepts
  <2>3. ASSUME NEW s, stored' = Daemon!Adopted(stored, s, "frozen"),
               Keeps(stored, stored', {}, {s}, {})
        PROVE  Excepts({}, {s}, {})
    BY <2>3 DEF Excepts
  <2>4. ASSUME NEW plan \in stored.plans, stored' = Daemon!Pulled(stored, plan),
               Keeps(stored, stored', {}, {plan.workspace}, {})
        PROVE  Excepts({}, {plan.workspace}, {})
    BY <2>4 DEF Excepts
  <2>5. ASSUME NEW v, stored' = Daemon!Unpinned(stored, v),
               Keeps(stored, stored', {}, {}, {v})
        PROVE  Excepts({}, {}, {v})
    BY <2>5 DEF Excepts
  <2> QED BY <2>1, <2>2, <2>3, <2>4, <2>5 DEF StepKeeps
<1>2. PICK A, B, C : Excepts(A, B, C) BY <1>1
<1>3. SnapshotsOutlive BY <1>2 DEF Excepts, Keeps, SnapshotsOutlive
<1>4. HistoryOutlives BY <1>2 DEF Excepts, Keeps, HistoryOutlives
<1>5. FrozenOutlives BY <1>2 DEF Excepts, Keeps, FrozenOutlives
<1>6. PinOutlives BY <1>2 DEF Excepts, Keeps, PinOutlives
<1> QED BY <1>3, <1>4, <1>5, <1>6

(* No outage of Zellij, no projection and no other command takes away what *)
(* is to outlive it: snapshots and frozen states go by the step that says  *)
(* so only, the history of a terminal by age or because as much newer      *)
(* history is kept as there may be, and pins also with their workspace.    *)
THEOREM OutagesKeepThem == DaemonsSpec => OutagesKeep
<1>1. CatalogInv /\ [DaemonsNext]_all =>
         /\ SnapshotsOutlive \/ UNCHANGED catalogVars
         /\ HistoryOutlives \/ UNCHANGED catalogVars
         /\ FrozenOutlives \/ UNCHANGED catalogVars
         /\ PinOutlives \/ UNCHANGED catalogVars
  BY CatalogStep, StepOutlived
<1>2. DaemonsSpec => Daemon!SnapshotsDurable
  <2>1. CatalogInv /\ [DaemonsNext]_all => [SnapshotsOutlive]_(Daemon!vars)
    BY <1>1 DEF catalogVars, Daemon!vars
  <2> QED BY <2>1, CatalogAlways, PTL DEF DaemonsSpec, Daemon!SnapshotsDurable, SnapshotsOutlive
<1>3. DaemonsSpec => Daemon!TerminalHistoryDurable
  <2>1. CatalogInv /\ [DaemonsNext]_all => [HistoryOutlives]_(Daemon!vars)
    BY <1>1 DEF catalogVars, Daemon!vars
  <2> QED BY <2>1, CatalogAlways, PTL
          DEF DaemonsSpec, Daemon!TerminalHistoryDurable, HistoryOutlives
<1>4. DaemonsSpec => Daemon!FrozenStays
  <2>1. CatalogInv /\ [DaemonsNext]_all => [FrozenOutlives]_(Daemon!vars)
    BY <1>1 DEF catalogVars, Daemon!vars
  <2> QED BY <2>1, CatalogAlways, PTL DEF DaemonsSpec, Daemon!FrozenStays, FrozenOutlives
<1>5. DaemonsSpec => Daemon!PinSurvives
  <2>1. CatalogInv /\ [DaemonsNext]_all => [PinOutlives]_(Daemon!vars)
    BY <1>1 DEF catalogVars, Daemon!vars
  <2> QED BY <2>1, CatalogAlways, PTL DEF DaemonsSpec, Daemon!PinSurvives, PinOutlives
<1> QED BY <1>2, <1>3, <1>4, <1>5 DEF OutagesKeep

-----------------------------------------------------------------------------
(***************************************************************************)
(* What is projected from a projection of the same runtime                 *)
(***************************************************************************)

(* d has what is projected for g after c.                                  *)
Found(c, g, d) ==
    /\ Daemon!CatalogOK(c) /\ Daemon!ValidateCatalog(c) /\ Daemon!RuntimeOK(g)
    /\ Daemon!CatalogOK(d) /\ Daemon!ValidateCatalog(d)
    /\ d.workspaces = Workspaces(c, g) /\ d.terminals = AllTerminals(c, g)
    /\ d.agents = AllAgents(c, g)
    /\ d.views = Daemon!ProjectActive(c, g, Spaces(c, g))
    /\ d.history = Remembered(c, g) /\ d.snapshots = Stored(c, g)
    /\ d.plans = Planned(c, g) /\ d.keep = c.keep /\ d.nil = Nils(c, g)

(* Snapshots, plans and the history of terminals keep what they refer to.  *)
LEMMA KeptReferences ==
    ASSUME NEW c, NEW g, NEW d, Found(c, g, d)
    PROVE  /\ d.snapshots = c.snapshots /\ d.plans = c.plans
           /\ Daemon!Preserved(d) = Daemon!Preserved(c)
           /\ Daemon!Preserved(c) \subseteq DOMAIN c.workspaces \cap DOMAIN d.workspaces
           /\ Daemon!Needed(d, "terminal") = Daemon!Needed(c, "terminal")
           /\ Daemon!Needed(c, "terminal") \subseteq DOMAIN c.terminals \cap DOMAIN d.terminals
<1>1. Homed(c) BY ValidHomes DEF Found
<1>2. ASSUME NEW s \in c.snapshots PROVE s.workspace \in DOMAIN c.workspaces
  BY DEF Found, Daemon!ValidateCatalog
<1>3. ASSUME NEW p \in c.plans
      PROVE  \E s \in c.snapshots : s.id = p.snapshot /\ s.workspace = p.workspace
  BY DEF Found, Daemon!ValidateCatalog, Daemon!ValidPlan
<1>4. Daemon!Preserved(c) \subseteq DOMAIN c.workspaces BY <1>2, <1>3 DEF Daemon!Preserved
<1>5. Daemon!Preserved(c) \subseteq DOMAIN Spaces(c, g)
  <2>1. DOMAIN Spaces(c, g) = DOMAIN Daemon!ProjectWorkspaces(c, g) \cup Back(c, g)
    BY <1>1, BackKnown
  <2>2. DOMAIN Daemon!ProjectWorkspaces(c, g) =
           Present(g) \cup DOMAIN Configured \cup Vanishing(c, g)
    BY RunningDomain
  <2> QED BY <1>4, <2>1, <2>2 DEF Vanishing
<1>6. DOMAIN d.workspaces = DOMAIN Spaces(c, g) BY <1>1, WorkspacesOK DEF Found
<1>7. d.snapshots = c.snapshots BY <1>5 DEF Found, Stored, Daemon!Preserved
<1>8. d.plans = c.plans
  <2>1. ASSUME NEW p \in c.plans PROVE p \in Planned(c, g)
    <3>1. p.workspace \in DOMAIN Spaces(c, g) BY <1>5 DEF Daemon!Preserved
    <3>2. p.snapshot \in Daemon!Ids(Stored(c, g)) BY <1>3, <1>7 DEF Found, Daemon!Ids
    <3> QED BY <3>1, <3>2 DEF Planned
  <2> QED BY <2>1 DEF Found, Planned
<1>9. /\ DOMAIN d.terminals = DOMAIN g.panes \cup Daemon!LostTerminals(c, g)
  BY <1>1, TerminalsOK DEF Found
<1>10. Daemon!Needed(c, "terminal") \subseteq DOMAIN c.terminals
  BY DEF Found, Daemon!Needed, Daemon!ValidateCatalog, Daemon!ValidScope
<1>11. Daemon!Needed(c, "terminal") \subseteq DOMAIN d.terminals
  BY <1>9, <1>10 DEF Daemon!LostTerminals
<1>12. ASSUME NEW h \in c.history, h.scope.kind = "terminal" PROVE h \in d.history
  <2>1. h.scope.of \in DOMAIN AllTerminals(c, g)
    BY <1>11, <1>12 DEF Daemon!Needed, Found
  <2> QED BY <1>12, <2>1 DEF Found, Remembered, About
<1>13. Daemon!Needed(d, "terminal") = Daemon!Needed(c, "terminal")
  BY <1>12 DEF Daemon!Needed, Found, Remembered
<1> QED BY <1>4, <1>5, <1>6, <1>7, <1>8, <1>10, <1>11, <1>13 DEF Daemon!Preserved

LEMMA SameSpaces ==
    ASSUME NEW c, NEW g, NEW d, Found(c, g, d)
    PROVE  /\ Vanishing(d, g) = Vanishing(c, g)
           /\ DOMAIN Daemon!ProjectWorkspaces(d, g) = DOMAIN Daemon!ProjectWorkspaces(c, g)
           /\ Daemon!LostTerminals(d, g) = Daemon!LostTerminals(c, g)
           /\ Back(d, g) = Back(c, g)
           /\ DOMAIN Spaces(d, g) = DOMAIN Spaces(c, g)
           /\ DOMAIN d.workspaces = DOMAIN Spaces(c, g)
<1>1. Homed(c) /\ Homed(d) BY ValidHomes DEF Found
<1>2. Vanishing(d, g) = Vanishing(c, g) BY KeptReferences DEF Vanishing
<1>3. DOMAIN Daemon!ProjectWorkspaces(d, g) = DOMAIN Daemon!ProjectWorkspaces(c, g)
  BY <1>2, RunningDomain
<1>4. Daemon!LostTerminals(d, g) = Daemon!LostTerminals(c, g)
  BY KeptReferences DEF Daemon!LostTerminals
<1>5. Back(d, g) = Back(c, g) BY <1>3, <1>4 DEF Back, Daemon!BroughtBack
<1>6. DOMAIN Spaces(d, g) = DOMAIN Spaces(c, g)
  <2>1. DOMAIN Spaces(d, g) = DOMAIN Daemon!ProjectWorkspaces(d, g) \cup Back(d, g)
    BY <1>1, BackKnown
  <2>2. DOMAIN Spaces(c, g) = DOMAIN Daemon!ProjectWorkspaces(c, g) \cup Back(c, g)
    BY <1>1, BackKnown
  <2> QED BY <1>3, <1>5, <2>1, <2>2
<1>7. DOMAIN d.workspaces = DOMAIN Spaces(c, g) BY <1>1, WorkspacesOK DEF Found
<1> QED BY <1>2, <1>3, <1>4, <1>5, <1>6, <1>7

LEMMA SameTerminals ==
    ASSUME NEW c, NEW g, NEW d, Found(c, g, d)
    PROVE  AllTerminals(d, g) = AllTerminals(c, g)
<1> DEFINE T == AllTerminals(c, g)
           U == AllTerminals(d, g)
<1>1. Homed(c) /\ Homed(d) /\ Daemon!CatalogOK(c) /\ Daemon!CatalogOK(d) /\ Daemon!RuntimeOK(g)
  BY ValidHomes DEF Found
<1>2. /\ DOMAIN T = DOMAIN g.panes \cup Lost(c, g) /\ Lost(c, g) = Daemon!LostTerminals(c, g)
      /\ \A t \in DOMAIN g.panes : ShowsPane(T[t], g, t)
      /\ \A t \in Lost(c, g) : ShowsNone(T[t])
  BY <1>1, TerminalsOK
<1>3. /\ DOMAIN U = DOMAIN g.panes \cup Lost(d, g) /\ Lost(d, g) = Daemon!LostTerminals(d, g)
      /\ \A t \in DOMAIN g.panes : ShowsPane(U[t], g, t)
      /\ \A t \in Lost(d, g) : ShowsNone(U[t])
  BY <1>1, TerminalsOK
<1>4. Lost(d, g) = Lost(c, g) BY <1>2, <1>3, SameSpaces
<1>5. T = [t \in DOMAIN T |-> T[t]] /\ U = [t \in DOMAIN U |-> U[t]]
  BY DEF AllTerminals, Daemon!Over
<1> HIDE DEF T, U
<1>6. DOMAIN U = DOMAIN T BY <1>2, <1>3, <1>4
<1>7. \A t \in DOMAIN T : U[t] = T[t] BY <1>2, <1>3, <1>4 DEF ShowsPane, ShowsNone
<1>8. U = T BY <1>5, <1>6, <1>7
<1> QED BY <1>8 DEF T, U

LEMMA SameAgents ==
    ASSUME NEW c, NEW g, NEW d, Found(c, g, d)
    PROVE  AllAgents(d, g) = AllAgents(c, g)
<1> DEFINE A == AllAgents(c, g)
           B == AllAgents(d, g)
           R == Daemon!RunningAgents(g)
<1>1. Daemon!CatalogOK(c) /\ Daemon!CatalogOK(d) /\ Daemon!RuntimeOK(g) /\ d.agents = A
  BY DEF Found
<1>2. DOMAIN A = R \cup Done(c, g) BY <1>1, AgentsOK
<1>3. DOMAIN B = R \cup Done(d, g) BY <1>1, AgentsOK
<1>4. Done(d, g) = Done(c, g)
  <2>1. Daemon!Needed(d, "agent") = Daemon!Needed(c, "agent") \cap DOMAIN A
    BY DEF Daemon!Needed, Found, Remembered, About
  <2>2. Done(c, g) = {a \in (Daemon!Needed(c, "agent") \cap DOMAIN c.agents) \ R :
                         Daemon!Home(a) \in DOMAIN Spaces(c, g)}
    BY DEF Done, Daemon!LostAgents
  <2>3. Done(d, g) = {a \in (Daemon!Needed(d, "agent") \cap DOMAIN d.agents) \ R :
                         Daemon!Home(a) \in DOMAIN Spaces(d, g)}
    BY DEF Done, Daemon!LostAgents
  <2>4. DOMAIN Spaces(d, g) = DOMAIN Spaces(c, g) BY SameSpaces
  <2> HIDE DEF A, R
  <2> QED BY <1>1, <1>2, <2>1, <2>2, <2>3, <2>4
<1>5. ASSUME NEW a \in R PROVE B[a] = A[a]
  <2>1. RunsIn(A[a], a) BY <1>1, RunningAgentOK
  <2>2. B[a] = RunsAs(d, a) BY <1>1, RunningAgentOK
  <2>3. a \in DOMAIN d.agents /\ d.agents[a] = A[a] BY <1>1, <1>2
  <2> QED BY <2>1, <2>2, <2>3 DEF RunsAs, RunsIn
<1>6. ASSUME NEW a \in Done(c, g) PROVE B[a] = A[a]
  <2>1. A[a] = EndsAs(c, a) BY <1>1, DoneAgentOK
  <2>2. B[a] = EndsAs(d, a) BY <1>1, <1>4, DoneAgentOK
  <2>3. d.agents[a] = A[a] BY <1>1
  <2>4. A[a].claimed = c.agents[a].claimed BY <2>1 DEF EndsAs
  <2> QED BY <2>1, <2>2, <2>3, <2>4 DEF EndsAs
<1>7. A = [a \in DOMAIN A |-> A[a]] /\ B = [a \in DOMAIN B |-> B[a]]
  BY DEF AllAgents, Daemon!Over
<1> HIDE DEF A, B
<1>8. B = A BY <1>2, <1>3, <1>4, <1>5, <1>6, <1>7
<1> QED BY <1>8 DEF A, B

LEMMA SameSpace ==
    ASSUME NEW c, NEW g, NEW d, Found(c, g, d), NEW s \in DOMAIN Spaces(c, g)
    PROVE  LET v == Spaces(d, g)[s]
               w == d.workspaces[s]
           IN  v.desired = w.desired /\ v.observed = w.observed /\ v.status = w.status
               /\ v.drift = w.drift
<1> DEFINE u == Spaces(c, g)[s]
           v == Spaces(d, g)[s]
           w == d.workspaces[s]
<1>1. /\ Homed(c) /\ Homed(d) /\ Daemon!CatalogOK(c) /\ Daemon!CatalogOK(d)
      /\ Daemon!RuntimeOK(g) /\ d.workspaces = Workspaces(c, g)
  BY ValidHomes DEF Found
<1>2. /\ w.desired = u.desired /\ w.observed = u.observed /\ w.status = u.status
      /\ w.drift = u.drift
  BY <1>1, WorkspacesOK
<1>3. s \in DOMAIN Spaces(d, g) /\ s \in DOMAIN d.workspaces /\ Back(d, g) = Back(c, g)
  BY SameSpaces
<1>4. CASE s \in Back(c, g)
  <2>1. v = w BY <1>1, <1>3, <1>4, SpacesOK
  <2> QED BY <2>1
<1>5. CASE s \notin Back(c, g)
  <2>1. u = Daemon!ProjectWorkspaces(c, g)[s] /\ s \in DOMAIN Daemon!ProjectWorkspaces(c, g)
    BY <1>1, <1>5, SpacesOK
  <2>2. v = Daemon!ProjectWorkspaces(d, g)[s] /\ s \in DOMAIN Daemon!ProjectWorkspaces(d, g)
    BY <1>1, <1>3, <1>5, SpacesOK
  <2>3. s \in Present(g) \cup DOMAIN Configured \cup Vanishing(c, g) BY <2>1, RunningDomain
  <2>4. Vanishing(d, g) = Vanishing(c, g) BY SameSpaces
  <2>5. Shape(c, g, s, u) BY <2>1, <2>3, RunningShape
  <2>6. Shape(d, g, s, v) BY <2>2, <2>3, <2>4, RunningShape
  <2> HIDE DEF u, v
  <2>7. WasFrozen(d, s) = (u.status = "frozen") BY <1>2, <1>3 DEF WasFrozen
  <2>8. WasFrozen(c, s) = (u.status = "frozen")
    <3>1. CASE WasFrozen(c, s) BY <2>5, <3>1 DEF Shape
    <3>2. CASE ~WasFrozen(c, s)
      <4>1. u.status = IF u.desired = u.observed THEN "ok" ELSE "drift"
        BY <2>5, <3>2 DEF Shape
      <4>2. u.status # "frozen" BY <4>1
      <4> QED BY <3>2, <4>2 DEF WasFrozen
    <3> QED BY <3>1, <3>2
  <2>9. CASE WasFrozen(c, s)
    <3>1. u.status = "frozen" /\ WasFrozen(d, s) BY <2>7, <2>8, <2>9
    <3>2. v.status = "frozen" /\ v.desired = w.desired /\ v.observed = u.observed
      BY <2>5, <2>6, <3>1 DEF Shape
    <3>3. v.drift = (s \in Vanishing(d, g) /\ v.desired # << >>) BY <2>6, <3>1 DEF Shape
    <3>4. u.drift = (s \in Vanishing(c, g) /\ u.desired # << >>) BY <2>5, <2>9 DEF Shape
    <3>5. v.drift = u.drift BY <1>2, <2>4, <3>2, <3>3, <3>4
    <3> QED BY <1>2, <3>1, <3>2, <3>5 DEF v
  <2>10. CASE ~WasFrozen(c, s)
    <3>1. ~WasFrozen(d, s) BY <2>7, <2>8, <2>10
    <3>2. u.desired = Wanting(c, g, s) /\ v.desired = Wanting(d, g, s)
          /\ u.observed = Seeing(g, s) /\ v.observed = Seeing(g, s)
      BY <2>5, <2>6, <2>10, <3>1 DEF Shape
    <3>3. Wanting(d, g, s) = Wanting(c, g, s) BY <1>2, <3>2 DEF Wanting
    <3>4. u.status = (IF u.desired = u.observed THEN "ok" ELSE "drift")
          /\ v.status = (IF v.desired = v.observed THEN "ok" ELSE "drift")
      BY <2>5, <2>6, <2>10, <3>1 DEF Shape
    <3>5. u.drift = (u.desired # u.observed) BY <2>5, <2>10 DEF Shape
    <3>6. v.drift = (v.desired # v.observed) BY <2>6, <3>1 DEF Shape
    <3>7. v.desired = u.desired /\ v.observed = u.observed /\ v.status = u.status
      BY <3>2, <3>3, <3>4
    <3>8. v.drift = u.drift BY <3>5, <3>6, <3>7
    <3> QED BY <1>2, <3>7, <3>8 DEF v
  <2> QED BY <2>9, <2>10 DEF v
<1> QED BY <1>4, <1>5

LEMMA SameWorkspaces ==
    ASSUME NEW c, NEW g, NEW d, Found(c, g, d)
    PROVE  Workspaces(d, g) = d.workspaces
<1> DEFINE W == Workspaces(d, g)
           X == d.workspaces
           S == DOMAIN Spaces(c, g)
<1>1. /\ Homed(c) /\ Homed(d) /\ Daemon!CatalogOK(c) /\ Daemon!CatalogOK(d)
      /\ Daemon!RuntimeOK(g) /\ X = Workspaces(c, g)
  BY ValidHomes DEF Found
<1>2. DOMAIN Spaces(d, g) = S BY SameSpaces
<1>3. ASSUME NEW s \in S PROVE W[s] = X[s]
  <2> DEFINE w == W[s]
             x == X[s]
  <2>1. w \in Daemon!Workspaces /\ x \in Daemon!Workspaces BY <1>1, <1>2, WorkspacesOK
  <2>2. IsWorkspace(w) /\ IsWorkspace(x) BY <2>1, WorkspaceFields
  <2>3. w.desired = x.desired /\ w.observed = x.observed /\ w.status = x.status
    BY <1>1, <1>2, SameSpace, WorkspacesOK
  <2>4. w.drift = x.drift BY <1>1, <1>2, SameSpace, WorkspacesOK
  <2>5. w.terminals = x.terminals /\ w.agents = x.agents
    <3>1. w.terminals = {t \in DOMAIN AllTerminals(d, g) : Daemon!Home(t) = s}
          /\ w.agents = {a \in DOMAIN AllAgents(d, g) : Daemon!Home(a) = s}
      BY <1>1, <1>2, WorkspacesOK
    <3>2. x.terminals = {t \in DOMAIN AllTerminals(c, g) : Daemon!Home(t) = s}
          /\ x.agents = {a \in DOMAIN AllAgents(c, g) : Daemon!Home(a) = s}
      BY <1>1, <1>2, WorkspacesOK
    <3> QED BY <3>1, <3>2, SameTerminals, SameAgents
  <2> HIDE DEF w, x
  <2>6. w = x BY <2>2, <2>3, <2>4, <2>5 DEF IsWorkspace
  <2> QED BY <2>6 DEF w, x
<1>4. W \in [S -> Daemon!Workspaces] /\ X \in [S -> Daemon!Workspaces]
  BY <1>1, <1>2, WorkspacesOK
<1> HIDE DEF W, X, S
<1>5. W = X BY <1>3, <1>4
<1> QED BY <1>5 DEF W, X

LEMMA SameViews ==
    ASSUME NEW c, NEW g, NEW d, Found(c, g, d)
    PROVE  Daemon!ProjectActive(d, g, Spaces(d, g)) = d.views
<1> DEFINE V == Daemon!ProjectActive(c, g, Spaces(c, g))
           U == Daemon!ProjectActive(d, g, Spaces(d, g))
           S == DOMAIN Spaces(c, g)
<1>1. /\ Homed(c) /\ Homed(d) /\ Daemon!CatalogOK(c) /\ Daemon!CatalogOK(d)
      /\ Daemon!RuntimeOK(g) /\ d.views = V
  BY ValidHomes DEF Found
<1>2. DOMAIN Spaces(d, g) = S BY SameSpaces
<1>3. /\ V \in [DOMAIN V -> Daemon!Views]
      /\ \A v \in DOMAIN V : V[v] = IF v \in DOMAIN c.views THEN c.views[v]
                                    ELSE [kind |-> "shared", pinned |-> FALSE]
      /\ DOMAIN V = g.clients \cup {v \in DOMAIN c.views : c.views[v].pinned /\ v \in S}
  <2>1. Homed(c) /\ Daemon!CatalogOK(c) /\ Daemon!RuntimeOK(g) BY <1>1
  <2> QED BY <2>1, ViewsOK
<1>4. /\ U \in [DOMAIN U -> Daemon!Views]
      /\ \A v \in DOMAIN U : U[v] = IF v \in DOMAIN d.views THEN d.views[v]
                                    ELSE [kind |-> "shared", pinned |-> FALSE]
      /\ DOMAIN U = g.clients \cup {v \in DOMAIN d.views : d.views[v].pinned /\ v \in S}
  <2>1. Homed(d) /\ Daemon!CatalogOK(d) /\ Daemon!RuntimeOK(g) BY <1>1
  <2>2. /\ U \in [DOMAIN U -> Daemon!Views]
        /\ \A v \in DOMAIN U : U[v] = IF v \in DOMAIN d.views THEN d.views[v]
                                      ELSE [kind |-> "shared", pinned |-> FALSE]
        /\ DOMAIN U = g.clients \cup {v \in DOMAIN d.views :
                                         d.views[v].pinned /\ v \in DOMAIN Spaces(d, g)}
    BY <2>1, ViewsOK
  <2> HIDE DEF U
  <2> QED BY <1>2, <2>2
<1> HIDE DEF V, U, S
<1>5. DOMAIN U \subseteq DOMAIN V BY <1>1, <1>3, <1>4
<1>6. DOMAIN V \subseteq DOMAIN U BY <1>1, <1>3, <1>4
<1>7. \A v \in DOMAIN U : U[v] = V[v] BY <1>1, <1>4, <1>5
<1>8. U = V BY <1>3, <1>4, <1>5, <1>6, <1>7
<1> QED BY <1>1, <1>8 DEF U

LEMMA ProjectedAgain ==
    ASSUME NEW c, NEW g, NEW d, Found(c, g, d), NEW up
    PROVE  Daemon!Candidate(d, g, up) = UpIs(d, up)
<1> DEFINE P == Projection(d, g)
<1>1. P.workspaces = Workspaces(d, g) /\ P.terminals = AllTerminals(d, g)
      /\ P.agents = AllAgents(d, g) /\ P.views = Daemon!ProjectActive(d, g, Spaces(d, g))
      /\ P.history = Remembered(d, g) /\ P.snapshots = Stored(d, g)
      /\ P.plans = Planned(d, g) /\ P.keep = d.keep /\ P.nil = Nils(d, g)
  BY DEF Projection, Workspaces
<1> HIDE DEF P
<1>2. P.workspaces = d.workspaces BY <1>1, SameWorkspaces
<1>3. P.terminals = d.terminals BY <1>1, SameTerminals DEF Found
<1>4. P.agents = d.agents BY <1>1, SameAgents DEF Found
<1>5. P.views = d.views BY <1>1, SameViews
<1>6. Remembered(d, g) = Remembered(c, g)
  BY SameTerminals, SameAgents DEF Remembered, Found
<1>7. Stored(d, g) = Stored(c, g) BY SameSpaces DEF Stored, Found
<1>8. Planned(d, g) = Planned(c, g) BY <1>7, SameSpaces DEF Planned, Found
<1>9. Nils(d, g) = Nils(c, g) BY <1>6, SameSpaces DEF Nils
<1>10. P.history = d.history /\ P.snapshots = d.snapshots /\ P.plans = d.plans
       /\ P.nil = d.nil
  BY <1>1, <1>6, <1>7, <1>8, <1>9 DEF Found
<1>11. UpIs(P, up) = UpIs(d, up) BY <1>1, <1>2, <1>3, <1>4, <1>5, <1>10 DEF UpIs
<1> QED BY <1>11, CandidateIs DEF P

LEMMA Settled ==
    ASSUME NEW c, Daemon!CatalogOK(c), Daemon!ValidateCatalog(c),
           NEW g, Daemon!RuntimeOK(g), NEW up \in BOOLEAN
    PROVE  LET d == Daemon!Candidate(c, g, up)
           IN  Daemon!Candidate(d, g, up) = d
<1> DEFINE P == Projection(c, g)
           d == Daemon!Candidate(c, g, up)
<1>1. Daemon!CatalogOK(d) /\ Daemon!ValidateCatalog(d) BY CandidateOK
<1>2. d = UpIs(P, up) BY CandidateIs
<1>3. P.workspaces = Workspaces(c, g) /\ P.terminals = AllTerminals(c, g)
      /\ P.agents = AllAgents(c, g) /\ P.views = Daemon!ProjectActive(c, g, Spaces(c, g))
      /\ P.history = Remembered(c, g) /\ P.snapshots = Stored(c, g)
      /\ P.plans = Planned(c, g) /\ P.keep = c.keep /\ P.nil = Nils(c, g)
  BY DEF Projection, Workspaces
<1> HIDE DEF P, d
<1>4. d.up = up /\ d.workspaces = P.workspaces /\ d.terminals = P.terminals
      /\ d.agents = P.agents /\ d.views = P.views /\ d.history = P.history
      /\ d.snapshots = P.snapshots /\ d.plans = P.plans /\ d.keep = P.keep
      /\ d.nil = P.nil
  BY <1>2 DEF UpIs, Made
<1>5. Found(c, g, d) BY <1>1, <1>3, <1>4 DEF Found
<1>6. Daemon!Candidate(d, g, up) = UpIs(d, up) BY <1>5, ProjectedAgain
<1>7. UpIs(d, up) = d
  <2>1. IsCatalog(d) BY <1>1, CatalogParts
  <2> QED BY <1>4, <2>1 DEF IsCatalog, UpIs
<1> QED BY <1>6, <1>7 DEF d

(* Polls of a runtime that stays as it is come to an end: the first one    *)
(* finds what every later one finds (reconcileLocked, ProjectRuntime).     *)
THEOREM CatalogSettles == DaemonsSpec => []PollsSettle
<1>1. ASSUME CatalogInv PROVE PollsSettle
  <2>1. ASSUME NEW up \in BOOLEAN
        PROVE  LET c == Daemon!Candidate(stored, Daemon!Seen(up), up)
               IN  Daemon!runtimeEqual(Daemon!Candidate(c, Daemon!Seen(up), up), c)
    <3>1. Daemon!RuntimeOK(Daemon!Seen(up)) BY <1>1, SeenOK
    <3>2. Daemon!CatalogOK(stored) /\ Daemon!ValidateCatalog(stored) BY <1>1 DEF CatalogInv
    <3> QED BY <3>1, <3>2, Settled DEF Daemon!runtimeEqual
  <2> QED BY <2>1 DEF PollsSettle, Daemon!PollsSettle
<1> QED BY <1>1, CatalogAlways, PTL

(* A part of NeverStuck                                                    *)
LEMMA CatalogNeverStuck ==
    ASSUME CatalogInv
    PROVE  Daemon!NeverStuck
<1>1. ASSUME NEW up \in BOOLEAN
      PROVE  Daemon!ValidateCatalog(Daemon!Candidate(stored, Daemon!Seen(up), up))
  <2>1. Daemon!RuntimeOK(Daemon!Seen(up)) BY SeenOK
  <2>2. Daemon!CatalogOK(stored) /\ Daemon!ValidateCatalog(stored) BY DEF CatalogInv
  <2> QED BY <2>1, <2>2, CandidateOK
<1> QED BY <1>1 DEF CatalogInv, Daemon!NeverStuck

LEMMA CatalogTypeOK ==
    ASSUME CatalogInv
    PROVE  Daemon!TypeOK
BY DEF CatalogInv, Daemon!TypeOK

=============================================================================
