---------------------------- MODULE CockpitProofs ----------------------------
(***************************************************************************)
(* Proofs about the parts of MCNext: of Cockpit, what the user's keys, the *)
(* messages they set off and new catalogs do to the pages, the stack and   *)
(* the mutation lane, for any ids, any starts and any number of catalogs;  *)
(* of the search lane and of the notices, for any texts, any steps of the  *)
(* help and any bounds.  The theorems are of NextSpec, the specification   *)
(* that the run checks: a part either takes a step of its component or     *)
(* rests.                                                                  *)
(***************************************************************************)
EXTENDS MCNext, TuiRootProofs, Sequences, FiniteSetTheorems, TLAPS

LEMMA ShellStep ==
    ASSUME NextNext \/ UNCHANGED all
    PROVE  Shell!Next \/ UNCHANGED shellVars
BY DEF NextNext, all

-----------------------------------------------------------------------------
(***************************************************************************)
(* Sorted lists                                                            *)
(***************************************************************************)

(* The operators of FiniteSets that Cockpit uses are those of the library. *)
LEMMA SameFiniteSets ==
    \A S : Shell!Cardinality(S) = Cardinality(S) /\ Shell!IsFiniteSet(S) = IsFiniteSet(S)
<1>1. \A S : Shell!Cardinality(S) = Cardinality(S) BY DEF Cardinality, Shell!Cardinality
<1>2. \A S : Shell!IsFiniteSet(S) = IsFiniteSet(S) BY Zenon DEF IsFiniteSet, Shell!IsFiniteSet
<1> QED BY <1>1, <1>2

LEMMA IdsFinite ==
    ASSUME NEW S \in SUBSET Ids
    PROVE  IsFiniteSet(S) /\ Cardinality(S) \in Nat /\ S \subseteq Nat \ {0}
<1>1. IsFiniteSet(Ids) /\ Ids \subseteq Nat \ {0}
  BY ShellAssumptions, SameFiniteSets DEF Shell!PagesAssumption
<1> QED BY <1>1, FS_Subset, FS_CardinalityType

(* How many ids are below one: no two have as many, so that every rank is  *)
(* somebody's.                                                             *)
LEMMA RankIsBijective ==
    ASSUME NEW S \in SUBSET Ids
    PROVE  /\ \A x \in S : Cardinality(Shell!Below(x, S)) \in 0 .. Cardinality(S) - 1
           /\ \A x, y \in S : Cardinality(Shell!Below(x, S)) =
                              Cardinality(Shell!Below(y, S)) => x = y
           /\ \A k \in 0 .. Cardinality(S) - 1 :
                  \E x \in S : Cardinality(Shell!Below(x, S)) = k
<1> DEFINE B(x) == Shell!Below(x, S)
           n == Cardinality(S)
           rank == [x \in S |-> Cardinality(B(x))]
<1>1. IsFiniteSet(S) /\ n \in Nat /\ S \subseteq Nat BY IdsFinite
<1>2. ASSUME NEW x \in S
      PROVE  Cardinality(B(x)) \in 0 .. n - 1 /\ IsFiniteSet(B(x))
  <2>1. B(x) \in SUBSET S /\ B(x) # S BY <1>1 DEF Shell!Below
  <2>2. IsFiniteSet(B(x)) /\ Cardinality(B(x)) <= n /\ Cardinality(B(x)) # n
    BY <1>1, <2>1, FS_Subset
  <2>3. Cardinality(B(x)) \in Nat BY <2>2, FS_CardinalityType
  <2> QED BY <1>1, <2>2, <2>3
<1>3. ASSUME NEW x \in S, NEW y \in S, x < y
      PROVE  Cardinality(B(x)) < Cardinality(B(y))
  <2>1. x \in Nat /\ y \in Nat /\ \A z \in S : z < x => z < y BY <1>1, <1>3
  <2>2. x \in B(y) /\ x \notin B(x) BY <2>1, <1>3 DEF Shell!Below
  <2>3. B(x) \in SUBSET B(y) BY <2>1 DEF Shell!Below
  <2>4. Cardinality(B(x)) <= Cardinality(B(y)) /\ Cardinality(B(x)) # Cardinality(B(y))
    BY <1>2, <2>2, <2>3, FS_Subset
  <2> QED BY <1>2, <2>4
<1>4. ASSUME NEW x \in S, NEW y \in S, Cardinality(B(x)) = Cardinality(B(y))
      PROVE  x = y
  <2>1. ~(x < y) /\ ~(y < x) BY <1>2, <1>3, <1>4
  <2> QED BY <1>1, <2>1
<1>5. rank \in Injection(S, 0 .. n - 1) BY <1>2, <1>4 DEF Injection, IsInjective
<1>6. IsFiniteSet(0 .. n - 1) /\ Cardinality(0 .. n - 1) = n
  <2> HIDE DEF n
  <2>1. n - 1 \in Int /\ 0 \in Int BY <1>1
  <2>2. /\ IsFiniteSet(0 .. n - 1)
        /\ Cardinality(0 .. n - 1) = IF 0 > n - 1 THEN 0 ELSE n - 1 - 0 + 1
    BY <2>1, FS_Interval
  <2> QED BY <1>1, <2>2
<1>7. rank \in Surjection(S, 0 .. n - 1) BY <1>5, <1>6, FS_Injection
<1>8. \A k \in 0 .. n - 1 : \E x \in S : rank[x] = k BY <1>7 DEF Surjection
<1> QED BY <1>2, <1>4, <1>8

(* Sorted lists every id once.                                             *)
LEMMA SortedLists ==
    ASSUME NEW S \in SUBSET Ids
    PROVE  /\ Shell!Sorted(S) \in Seq(S)
           /\ Len(Shell!Sorted(S)) = Cardinality(S)
           /\ DOMAIN Shell!Sorted(S) = 1 .. Cardinality(S)
           /\ \A x : Shell!Contains(Shell!Sorted(S), x) <=> x \in S
<1> DEFINE s == Shell!Sorted(S)
           R(x) == Cardinality(Shell!Below(x, S))
<1>1. Cardinality(S) \in Nat BY IdsFinite
<1>2. \A k \in 1 .. Cardinality(S) : s[k] \in S /\ R(s[k]) = k - 1
  <2> TAKE k \in 1 .. Cardinality(S)
  <2>1. k - 1 \in 0 .. Cardinality(S) - 1 BY <1>1
  <2>2. \E x \in S : R(x) = k - 1 BY <2>1, RankIsBijective
  <2>3. s[k] = CHOOSE x \in S : R(x) = k - 1
    BY SameFiniteSets DEF Shell!Sorted
  <2> HIDE DEF s, R
  <2> QED BY <2>2, <2>3
<1>3. DOMAIN s = 1 .. Cardinality(S) /\ s \in [1 .. Cardinality(S) -> S]
  BY <1>2, SameFiniteSets DEF Shell!Sorted
<1>4. ASSUME NEW x \in S PROVE \E k \in 1 .. Cardinality(S) : s[k] = x
  <2>1. R(x) \in 0 .. Cardinality(S) - 1 BY RankIsBijective
  <2> DEFINE k == R(x) + 1
  <2>2. k \in 1 .. Cardinality(S) /\ k - 1 = R(x) BY <1>1, <2>1
  <2>3. s[k] \in S /\ R(s[k]) = R(x) BY <1>2, <2>2
  <2>4. s[k] = x BY <2>3, RankIsBijective
  <2> QED BY <2>2, <2>4
<1>5. s \in Seq(S) /\ Len(s) = Cardinality(S) BY <1>1, <1>3
<1>6. \A x : Shell!Contains(s, x) <=> x \in S BY <1>2, <1>3, <1>4 DEF Shell!Contains
<1> QED BY <1>3, <1>5, <1>6

LEMMA IndexOfSorted ==
    ASSUME NEW S \in SUBSET Ids, NEW x \in S
    PROVE  LET k == Shell!IndexOf(Shell!Sorted(S), x)
           IN  k \in Nat /\ k < Cardinality(S) /\ Shell!Sorted(S)[k + 1] = x
<1> DEFINE s == Shell!Sorted(S)
           i == CHOOSE j \in DOMAIN s : s[j] = x
<1>1. Cardinality(S) \in Nat BY IdsFinite
<1>2. DOMAIN s = 1 .. Cardinality(S) /\ Shell!Contains(s, x) BY SortedLists
<1>3. i \in 1 .. Cardinality(S) /\ s[i] = x BY <1>2 DEF Shell!Contains
<1>4. Shell!IndexOf(s, x) = i - 1 BY DEF Shell!IndexOf
<1> QED BY <1>1, <1>3, <1>4

(* Fewer rows make a shorter list.                                         *)
LEMMA ShorterList ==
    ASSUME NEW S \in SUBSET Ids, NEW T \in SUBSET S
    PROVE  Len(Shell!Sorted(T)) <= Cardinality(S)
BY SortedLists, IdsFinite, FS_Subset

-----------------------------------------------------------------------------
(***************************************************************************)
(* Pages                                                                   *)
(***************************************************************************)

(* The routes and the kinds, spelt out.                                    *)
LEMMA Routes ==
    /\ Shell!ListRoutes = {"workspace", "active", "terminals", "agents", "snapshots",
                           "reconcile", "backends", "machines", "events"}
    /\ Shell!Kinds = {"workspace", "active", "terminal", "agent", "snapshot", "plan",
                      "backend", "machine", "event"}
    /\ \A r \in Shell!ListRoutes : Shell!KindOf(r) = Shell!Listed[r]
    /\ Shell!KindOf("workspaces") = "workspace"
    /\ \A r \in Shell!ListRoutes \cup {"workspaces"} : Shell!KindOf(r) \in Shell!Kinds
    /\ \A r \in Shell!AllRoutes \ (Shell!ListRoutes \cup {"workspaces"}) :
          Shell!KindOf(r) = "none"
<1>1. Shell!ListRoutes = {"workspace", "active", "terminals", "agents", "snapshots",
                          "reconcile", "backends", "machines", "events"}
  BY DEF Shell!ListRoutes, Shell!Listed
<1>2. Shell!Kinds = {"workspace", "active", "terminal", "agent", "snapshot", "plan",
                     "backend", "machine", "event"}
  BY <1>1 DEF Shell!Kinds, Shell!Listed
<1>3. \A r \in Shell!ListRoutes : Shell!KindOf(r) = Shell!Listed[r] BY DEF Shell!KindOf
<1>4. Shell!KindOf("workspaces") = "workspace" BY <1>1 DEF Shell!KindOf
<1>5. \A r \in Shell!ListRoutes \cup {"workspaces"} : Shell!KindOf(r) \in Shell!Kinds
  BY <1>2, <1>3, <1>4 DEF Shell!Kinds
<1>6. \A r \in Shell!AllRoutes \ (Shell!ListRoutes \cup {"workspaces"}) :
          Shell!KindOf(r) = "none" BY DEF Shell!KindOf
<1> QED BY <1>1, <1>2, <1>3, <1>4, <1>5, <1>6

IsCatalog(c) == c \in [Shell!Kinds -> SUBSET Ids]

LEMMA ItemsTyped ==
    ASSUME NEW c, IsCatalog(c), NEW r \in Shell!AllRoutes
    PROVE  Shell!ItemsOf(c, Shell!KindOf(r)) \in SUBSET Ids
BY Routes DEF IsCatalog, Shell!ItemsOf, Shell!AllRoutes

(* What a page keeps when only its cursor and its selection are set.       *)
LEMMA CursorSet ==
    ASSUME NEW p \in Shell!Page, NEW k \in Nat, NEW q, q = [p EXCEPT !.cursor = k]
    PROVE  q \in Shell!Page /\ q.cursor = k /\ q.sel = p.sel
BY DEF Shell!Page

(* A page that follows a catalog keeps what is there, or what a location   *)
(* named, and marks the row of what it has selected.                       *)
LEMMA SetCatalogKeeps ==
    ASSUME NEW p \in Shell!Page, NEW S \in SUBSET Ids
    PROVE  LET q == Shell!SetCatalog(p, Shell!Sorted(S))
           IN  /\ q \in Shell!Page
               /\ p.sel \in S \/ (p.explicit /\ p.sel # 0) => q.sel = p.sel
               /\ q.sel \in S => q.cursor < Cardinality(S) /\
                                  Shell!Sorted(S)[q.cursor + 1] = q.sel
<1> DEFINE s == Shell!Sorted(S)
           n == Cardinality(S)
           q == Shell!SetCatalog(p, s)
           Good == /\ q \in Shell!Page
                   /\ p.sel \in S \/ (p.explicit /\ p.sel # 0) => q.sel = p.sel
                   /\ q.sel \in S => q.cursor < n /\ s[q.cursor + 1] = q.sel
<1> SUFFICES Good OBVIOUS
<1>1. /\ n \in Nat /\ S \subseteq Nat \ {0} /\ s \in Seq(S) /\ Len(s) = n
      /\ \A x : Shell!Contains(s, x) <=> x \in S
  BY IdsFinite, SortedLists
<1>2. p.sel \in Nat /\ p.cursor \in Nat /\ p.explicit \in BOOLEAN BY DEF Shell!Page
<1>3. s = << >> <=> n = 0 BY <1>1
<1>4. ASSUME NEW k \in Nat, k < n, q = [p EXCEPT !.cursor = k, !.sel = s[k + 1]],
             p.sel \in S \/ (p.explicit /\ p.sel # 0) => p.sel = s[k + 1]
      PROVE  Good
  <2>1. s[k + 1] \in S /\ s[k + 1] \in Nat BY <1>1, <1>4
  <2>2. q \in Shell!Page /\ q.cursor = k /\ q.sel = s[k + 1] BY <1>4, <2>1 DEF Shell!Page
  <2> HIDE DEF q, s, n
  <2> QED BY <1>4, <2>2
<1>5. CASE p.sel = 0 /\ n = 0
  <2>1. q = p BY <1>3, <1>5 DEF Shell!SetCatalog, Shell!None
  <2> HIDE DEF q, s, n
  <2> QED BY <1>1, <1>5, <2>1
<1>6. CASE p.sel = 0 /\ n # 0
  <2>1. q = [p EXCEPT !.cursor = 0, !.sel = s[0 + 1]]
    BY <1>3, <1>6 DEF Shell!SetCatalog, Shell!None
  <2>2. 0 \in Nat /\ 0 < n /\ p.sel \notin S BY <1>1, <1>6
  <2> HIDE DEF q, s, n
  <2> QED BY <1>4, <1>6, <2>1, <2>2
<1>7. CASE p.sel \in S
  <2> DEFINE k == Shell!IndexOf(s, p.sel)
  <2>1. k \in Nat /\ k < n /\ s[k + 1] = p.sel BY <1>7, IndexOfSorted
  <2>2. q = [p EXCEPT !.cursor = k] BY <1>1, <1>7 DEF Shell!SetCatalog, Shell!None
  <2>3. q \in Shell!Page /\ q.cursor = k /\ q.sel = p.sel BY <2>1, <2>2, CursorSet
  <2> HIDE DEF q, s, n, k
  <2> QED BY <2>1, <2>3
<1>8. CASE p.sel # 0 /\ p.sel \notin S
  <2>1. q = IF p.explicit THEN p
            ELSE IF p.cursor < n THEN [p EXCEPT !.cursor = p.cursor, !.sel = s[p.cursor + 1]]
            ELSE IF p.cursor > 0 /\ p.cursor - 1 < n
                 THEN [p EXCEPT !.cursor = p.cursor - 1, !.sel = s[p.cursor - 1 + 1]]
            ELSE [p EXCEPT !.cursor = 0, !.sel = 0]
    BY <1>1, <1>8 DEF Shell!SetCatalog, Shell!None
  <2> HIDE DEF q, s, n
  <2>2. CASE p.explicit BY <1>8, <2>1, <2>2
  <2>3. CASE ~p.explicit /\ p.cursor < n BY <1>2, <1>4, <1>8, <2>1, <2>3
  <2>4. CASE ~p.explicit /\ ~(p.cursor < n) /\ p.cursor > 0 /\ p.cursor - 1 < n
    <3>1. p.cursor - 1 \in Nat BY <1>2, <2>4
    <3> QED BY <1>4, <1>8, <2>1, <2>4, <3>1
  <2>5. CASE ~p.explicit /\ ~(p.cursor < n) /\ ~(p.cursor > 0 /\ p.cursor - 1 < n)
    <3>1. q = [p EXCEPT !.cursor = 0, !.sel = 0] BY <2>1, <2>5
    <3>2. q \in Shell!Page /\ q.sel = 0 BY <3>1 DEF Shell!Page
    <3> QED BY <1>1, <1>8, <2>5, <3>2
  <2> QED BY <2>2, <2>3, <2>4, <2>5
<1> QED BY <1>1, <1>5, <1>6, <1>7, <1>8

(* What a key may make of a page over n rows: the cursor is on a row, or   *)
(* the selection stays and the cursor is no further down.                  *)
Moved(p, q, n) ==
    /\ q \in Shell!Page
    /\ q.cursor < n \/ (q.sel = p.sel /\ q.cursor <= p.cursor)

LEMMA ClampMoves ==
    ASSUME NEW p \in Shell!Page, NEW rows \in Seq(Nat)
    PROVE  Moved(p, Shell!ClampCursor(p, rows), Len(rows))
<1> DEFINE c == IF p.cursor < Len(rows) THEN p.cursor
                ELSE IF rows = << >> THEN 0 ELSE Len(rows) - 1
           id == IF rows = << >> THEN p.sel ELSE rows[c + 1]
<1>1. p.sel \in Nat /\ p.cursor \in Nat BY DEF Shell!Page
<1>2. c \in Nat /\ (rows # << >> => c < Len(rows)) /\ (rows = << >> => c = 0) BY <1>1
<1>3. id \in Nat BY <1>1, <1>2
<1> DEFINE q == Shell!ClampCursor(p, rows)
<1>4. q = [p EXCEPT !.cursor = c, !.sel = id]
  BY DEF Shell!ClampCursor
<1>5. rows = << >> => id = p.sel OBVIOUS
<1> HIDE DEF c, id, q
<1>6. q \in Shell!Page /\ q.cursor = c /\ q.sel = id BY <1>2, <1>3, <1>4 DEF Shell!Page
<1>7. Moved(p, q, Len(rows)) BY <1>1, <1>2, <1>5, <1>6 DEF Moved
<1> QED BY <1>7 DEF q

LEMMA DownMoves ==
    ASSUME NEW p \in Shell!Page, NEW rows \in Seq(Nat)
    PROVE  Moved(p, Shell!MoveDown(p, rows), Len(rows))
<1>1. p.sel \in Nat /\ p.cursor \in Nat BY DEF Shell!Page
<1>2. CASE p.cursor >= Len(rows) - 1 BY <1>1, <1>2 DEF Shell!MoveDown, Moved
<1>3. CASE p.cursor < Len(rows) - 1
  <2>1. p.cursor + 1 \in Nat /\ rows[p.cursor + 2] \in Nat
    <3> DEFINE k == p.cursor
               n == Len(rows)
    <3>1. n \in Nat /\ k \in Nat /\ k < n - 1 BY <1>1, <1>3
    <3> HIDE DEF k, n
    <3>2. k + 1 \in Nat /\ k + 2 \in 1 .. n BY <3>1
    <3>3. rows[k + 2] \in Nat BY <3>2 DEF n
    <3> QED BY <3>2, <3>3 DEF k
  <2> DEFINE q == Shell!MoveDown(p, rows)
  <2>2. q = [p EXCEPT !.cursor = p.cursor + 1, !.sel = rows[p.cursor + 2]]
    BY <1>1, <1>3 DEF Shell!MoveDown
  <2> HIDE DEF q
  <2>3. q \in Shell!Page /\ q.cursor = p.cursor + 1 BY <2>1, <2>2 DEF Shell!Page
  <2>4. Moved(p, q, Len(rows)) BY <1>1, <1>3, <2>3 DEF Moved
  <2> QED BY <2>4 DEF q
<1> QED BY <1>1, <1>2, <1>3

LEMMA UpMoves ==
    ASSUME NEW p \in Shell!Page, NEW rows \in Seq(Nat), ~Shell!UpCrashes(p, rows)
    PROVE  Moved(p, Shell!MoveUp(p, rows), Len(rows))
<1>1. p.sel \in Nat /\ p.cursor \in Nat BY DEF Shell!Page
<1>2. CASE p.cursor = 0 BY <1>1, <1>2 DEF Shell!MoveUp, Moved
<1>3. CASE p.cursor # 0
  <2> DEFINE id == IF rows = << >> THEN p.sel ELSE rows[p.cursor]
  <2>1. p.cursor - 1 \in Nat BY <1>1, <1>3
  <2>2. rows # << >> => p.cursor <= Len(rows) BY <1>1 DEF Shell!UpCrashes
  <2>3. id \in Nat BY <1>1, <1>3, <2>2
  <2> DEFINE q == Shell!MoveUp(p, rows)
  <2>4. q = [p EXCEPT !.cursor = p.cursor - 1, !.sel = id]
    BY <1>3 DEF Shell!MoveUp
  <2>5. rows = << >> => id = p.sel OBVIOUS
  <2> HIDE DEF id, q
  <2>6. q \in Shell!Page /\ q.cursor = p.cursor - 1 /\ q.sel = id
    BY <2>1, <2>3, <2>4 DEF Shell!Page
  <2>7. Moved(p, q, Len(rows)) BY <1>1, <2>2, <2>5, <2>6 DEF Moved
  <2> QED BY <2>7 DEF q
<1> QED BY <1>2, <1>3

-----------------------------------------------------------------------------
(***************************************************************************)
(* The resident pages                                                      *)
(***************************************************************************)

(* The pages whose rows are the ids of their own kind, and the cursor of   *)
(* one of them: no further down than the list goes, as long as the entity  *)
(* that it has selected is there.                                          *)
Lists == (Shell!ListRoutes \ {"workspace", "reconcile"}) \cup {"workspaces"}
OnRow(r, p, c) ==
    r \in Lists /\ Shell!Current(r, p, c) =>
        p.cursor < Cardinality(Shell!ItemsOf(c, Shell!KindOf(r)))

PagesOK(pages, c) ==
    /\ pages \in [Shell!AllRoutes -> Shell!Page]
    /\ \A r \in Shell!AllRoutes : OnRow(r, pages[r], c)

LEMMA BroadcastKeeps ==
    ASSUME NEW pages, NEW c, IsCatalog(c),
           pages \in [Shell!AllRoutes -> Shell!Page]
    PROVE  PagesOK(Shell!Broadcast(pages, c), c)
<1> DEFINE new == Shell!Broadcast(pages, c)
<1>1. ASSUME NEW r \in Shell!AllRoutes
      PROVE  new[r] \in Shell!Page /\ OnRow(r, new[r], c)
  <2> DEFINE S == Shell!ItemsOf(c, Shell!KindOf(r))
             q == Shell!SetCatalog(pages[r], Shell!Sorted(S))
  <2>1. S \in SUBSET Ids BY ItemsTyped
  <2>2. pages[r] \in Shell!Page OBVIOUS
  <2>3. q \in Shell!Page /\ (q.sel \in S => q.cursor < Cardinality(S))
    BY <2>1, <2>2, SetCatalogKeeps
  <2>4. new[r] = q BY DEF Shell!Broadcast, Shell!Follow
  <2> HIDE DEF q, new
  <2> QED BY <2>3, <2>4 DEF OnRow, Shell!Current
<1>2. DOMAIN new = Shell!AllRoutes /\ new \in [Shell!AllRoutes -> Shell!Page]
  BY <1>1 DEF Shell!Broadcast
<1> HIDE DEF new
<1>3. PagesOK(new, c) BY <1>1, <1>2 DEF PagesOK
<1> QED BY <1>3 DEF new

(* What an action may make of one page.                                    *)
LEMMA TurnKeeps ==
    ASSUME NEW pages, NEW c, PagesOK(pages, c), NEW r \in Shell!AllRoutes,
           NEW q \in Shell!Page, OnRow(r, q, c)
    PROVE  PagesOK([pages EXCEPT ![r] = q], c)
BY DEF PagesOK

LEMMA EnterKeeps ==
    ASSUME NEW p \in Shell!Page, NEW loc \in Shell!Locations, NEW c, IsCatalog(c),
           OnRow(loc.route, p, c)
    PROVE  /\ Shell!Enter(p, loc) \in Shell!Page
           /\ OnRow(loc.route, Shell!Enter(p, loc), c)
<1> DEFINE given == loc.primary.id # 0
           r == loc.route
           S == Shell!ItemsOf(c, Shell!KindOf(r))
           q == Shell!Enter(p, loc)
<1>1. r \in Shell!AllRoutes /\ loc.primary.id \in Nat /\ loc.context \in Shell!Contexts
  BY DEF Shell!Locations, Shell!Refs
<1>2. given \in BOOLEAN OBVIOUS
<1>3. /\ q.sel = IF given THEN loc.primary.id ELSE p.sel
      /\ q.cursor = IF given \/ r = "dashboard" THEN 0 ELSE p.cursor
  BY DEF Shell!Enter, Shell!Page, Shell!None
<1>4. q \in Shell!Page
  <2> DEFINE m == IF loc.route = "search" THEN "text" ELSE "normal"
             i == IF given THEN loc.primary.id ELSE p.sel
             k == IF given \/ loc.route = "dashboard" THEN 0 ELSE p.cursor
             g == given
  <2>1. /\ m \in {"normal", "filter", "text"} /\ i \in Nat /\ k \in Nat
        /\ g \in BOOLEAN
    BY <1>1, <1>2 DEF Shell!Page
  <2>2. q = [p EXCEPT !.mode = m, !.filter = Ids, !.context = loc.context,
                      !.sel = i, !.cursor = k, !.explicit = g]
    BY DEF Shell!Enter, Shell!None
  <2> HIDE DEF m, i, k, g, q
  <2> QED BY <1>1, <2>1, <2>2 DEF Shell!Page
<1>5. S \in SUBSET Ids BY <1>1, ItemsTyped
<1>6. ASSUME q.sel \in S, r \in Lists PROVE q.cursor < Cardinality(S)
  <2>1. CASE given
    <3>1. q.cursor = 0 /\ S # {} BY <1>3, <1>6, <2>1
    <3>2. Cardinality(S) \in Nat /\ Cardinality(S) # 0
      BY <1>5, <3>1, IdsFinite, FS_EmptySet
    <3> QED BY <3>1, <3>2
  <2>2. CASE ~given
    <3>1. r # "dashboard" BY <1>6, Routes DEF Lists
    <3>2. q.cursor = p.cursor /\ q.sel = p.sel BY <1>3, <2>2, <3>1
    <3> HIDE DEF q
    <3> QED BY <1>6, <3>2 DEF OnRow, Shell!Current
  <2> QED BY <2>1, <2>2
<1> HIDE DEF q
<1>7. OnRow(r, q, c) BY <1>6 DEF OnRow, Shell!Current
<1> QED BY <1>4, <1>7 DEF q

LEMMA EnterTopKeeps ==
    ASSUME NEW pages, NEW c, IsCatalog(c), PagesOK(pages, c),
           NEW st \in Seq(Shell!Locations), st # << >>
    PROVE  PagesOK(Shell!EnterTop(pages, st), c)
<1> DEFINE loc == st[Len(st)]
           r == loc.route
           q == Shell!Enter(pages[r], loc)
<1>1. loc \in Shell!Locations OBVIOUS
<1>2. r \in Shell!AllRoutes BY <1>1 DEF Shell!Locations
<1>3. pages[r] \in Shell!Page /\ OnRow(r, pages[r], c) BY <1>2 DEF PagesOK
<1>4. q \in Shell!Page /\ OnRow(r, q, c) BY <1>1, <1>3, EnterKeeps
<1>5. Shell!EnterTop(pages, st) = [pages EXCEPT ![r] = q] BY DEF Shell!EnterTop
<1> HIDE DEF q, r
<1>6. PagesOK([pages EXCEPT ![r] = q], c) BY <1>2, <1>4, TurnKeeps
<1> QED BY <1>5, <1>6

-----------------------------------------------------------------------------
(***************************************************************************)
(* The stack                                                               *)
(***************************************************************************)

(* A location that may be pushed: home has nothing but its name.           *)
IsTarget(loc) ==
    loc \in Shell!Locations /\ (loc.route = "dashboard" => loc = Shell!Home)

StackOK(st) == st \in Seq(Shell!Locations) /\ Shell!HomeBelow(st)

LEMMA ResolveKeeps ==
    ASSUME NEW loc, loc \in Shell!Locations, NEW c, IsCatalog(c)
    PROVE  LET new == Shell!ResolveDefaults(loc, c)
           IN  /\ new \in Shell!Locations /\ new.route = loc.route
               /\ loc.route = "dashboard" => new = loc
<1> DEFINE k == Shell!Listed[loc.route]
           new == Shell!ResolveDefaults(loc, c)
<1>1. loc.route \in Shell!AllRoutes BY DEF Shell!Locations
<1>2. CASE loc.route \in Shell!ListRoutes /\ c[k] # {} /\ loc.primary.id = 0
  <2>1. k \in Shell!Kinds BY <1>2 DEF Shell!Kinds
  <2>2. c[k] \in SUBSET Ids BY <2>1 DEF IsCatalog
  <2>3. Cardinality(c[k]) \in Nat /\ Cardinality(c[k]) # 0
    BY <1>2, <2>2, IdsFinite, FS_EmptySet
  <2>4. Shell!First(c[k]) \in c[k] BY <2>2, <2>3, SortedLists DEF Shell!First
  <2>5. Shell!First(c[k]) \in Nat BY <2>2, <2>4, IdsFinite
  <2>6. new = [loc EXCEPT !.primary = [kind |-> k, id |-> Shell!First(c[k])]]
    BY <1>2 DEF Shell!ResolveDefaults, Shell!None, Shell!Ref
  <2>7. loc.route # "dashboard" BY <1>2, Routes
  <2> HIDE DEF k, new
  <2>8. new \in Shell!Locations /\ new.route = loc.route
    BY <2>1, <2>5, <2>6 DEF Shell!Locations, Shell!Refs
  <2> QED BY <2>7, <2>8 DEF new
<1>3. CASE ~(loc.route \in Shell!ListRoutes /\ c[k] # {} /\ loc.primary.id = 0)
  <2>1. new = loc BY <1>3 DEF Shell!ResolveDefaults, Shell!None
  <2> QED BY <2>1
<1> QED BY <1>2, <1>3

LEMMA NavigatedKeeps ==
    ASSUME NEW st, StackOK(st), NEW loc, IsTarget(loc)
    PROVE  StackOK(Shell!Navigated(st, loc))
<1>1. st \in Seq(Shell!Locations) /\ st # << >> /\ st[1] = Shell!Home
  BY DEF StackOK, Shell!HomeBelow
<1>2. Shell!Home \in Shell!Locations BY <1>1
<1>3. CASE loc.route = "dashboard" /\ Len(st) > 1
  BY <1>2, <1>3 DEF Shell!Navigated, StackOK, Shell!HomeBelow
<1>4. CASE ~(loc.route = "dashboard" /\ Len(st) > 1) /\ st[Len(st)] = loc
  BY <1>4 DEF Shell!Navigated
<1>5. CASE ~(loc.route = "dashboard" /\ Len(st) > 1) /\ st[Len(st)] # loc
  <2>1. loc.route # "dashboard" BY <1>1, <1>5 DEF IsTarget
  <2>2. Shell!Navigated(st, loc) = Append(st, loc) BY <1>5 DEF Shell!Navigated
  <2>3. loc \in Shell!Locations BY DEF IsTarget
  <2>4. Append(st, loc) \in Seq(Shell!Locations) BY <1>1, <2>3
  <2>5. Shell!HomeBelow(Append(st, loc))
    <3>1. Append(st, loc)[1] = Shell!Home /\ Append(st, loc) # << >> BY <1>1
    <3>2. ASSUME NEW i \in 2 .. Len(Append(st, loc))
          PROVE  Append(st, loc)[i].route # "dashboard"
      BY <1>1, <2>1, <3>2 DEF StackOK, Shell!HomeBelow
    <3> QED BY <3>1, <3>2 DEF Shell!HomeBelow
  <2> QED BY <2>2, <2>4, <2>5 DEF StackOK
<1> QED BY <1>3, <1>4, <1>5

LEMMA PoppedKeeps ==
    ASSUME NEW st, StackOK(st), Len(st) > 1
    PROVE  StackOK(SubSeq(st, 1, Len(st) - 1))
<1> DEFINE new == SubSeq(st, 1, Len(st) - 1)
<1>1. st \in Seq(Shell!Locations) /\ st # << >> /\ st[1] = Shell!Home
  BY DEF StackOK, Shell!HomeBelow
<1>2. /\ new \in Seq(Shell!Locations) /\ Len(new) = Len(st) - 1
      /\ \A i \in 1 .. Len(st) - 1 : new[i] = st[i]
  BY <1>1
<1>3. \A i \in 2 .. Len(st) : st[i].route # "dashboard" BY DEF StackOK, Shell!HomeBelow
<1> HIDE DEF new
<1>4. new # << >> /\ new[1] = Shell!Home BY <1>1, <1>2
<1>5. \A i \in 2 .. Len(new) : new[i].route # "dashboard" BY <1>1, <1>2, <1>3
<1>6. StackOK(new) BY <1>2, <1>4, <1>5 DEF StackOK, Shell!HomeBelow
<1> QED BY <1>6 DEF new

-----------------------------------------------------------------------------
(***************************************************************************)
(* What pages ask for                                                      *)
(***************************************************************************)

(* Only a confirmation stands for an action that destroys anything, and    *)
(* what is pushed is a location.                                           *)
IsAsk(m) ==
    /\ m.is \in {"push", "pop", "execute", "confirm", "prompt", "selector", "form"}
    /\ m.is \in {"execute", "prompt", "selector", "form"} =>
          m.act \notin Shell!Destructive
    /\ m.is = "push" => IsTarget(m.loc)
AsksOK(A) == \A t \in A : \A m \in t : IsAsk(m)

LEMMA HarmlessAsk ==
    ASSUME NEW act, act \notin Shell!Destructive, NEW ref
    PROVE  IsAsk(Shell!Execute(act, ref)) /\ IsAsk(Shell!Prompt(act, ref))
BY DEF IsAsk, Shell!Execute, Shell!Prompt, Shell!Ask

LEMMA ConfirmAsk ==
    ASSUME NEW act, NEW ref, NEW named
    PROVE  IsAsk(Shell!Confirm(act, ref, named))
BY DEF IsAsk, Shell!Confirm, Shell!Ask

LEMMA OtherAsk == IsAsk(Shell!Pop) /\ IsAsk(Shell!Chooser) /\ IsAsk(Shell!Form)
BY DEF IsAsk, Shell!Pop, Shell!Chooser, Shell!Form, Shell!Ask, Shell!Destructive

LEMMA PushAsk ==
    ASSUME NEW route \in Shell!AllRoutes, route # "dashboard",
           NEW primary \in Shell!Refs, NEW context \in Shell!Contexts
    PROVE  IsAsk(Shell!Push(route, primary, context))
BY DEF IsAsk, IsTarget, Shell!Push, Shell!Ask, Shell!Location, Shell!Locations

LEMMA PushHome == IsAsk(Shell!Push("dashboard", Shell!NoRef, Shell!NoRef))
<1>1. Shell!NoRef \in Shell!Refs /\ Shell!NoRef \in Shell!Contexts
  BY DEF Shell!NoRef, Shell!Ref, Shell!None, Shell!Refs, Shell!Contexts
<1> QED BY <1>1 DEF IsAsk, IsTarget, Shell!Push, Shell!Ask, Shell!Location,
                    Shell!Locations, Shell!Home, Shell!AllRoutes

LEMMA OneAsks ==
    ASSUME NEW A, \A m \in A : IsAsk(m)
    PROVE  AsksOK(Shell!One(A))
BY DEF AsksOK, Shell!One

(* Names of what a catalog may hold, and of nothing.                       *)
LEMMA RefTypes ==
    /\ Shell!NoRef \in Shell!Refs /\ Shell!NoRef \in Shell!Contexts
    /\ \A k \in Shell!Kinds, id \in Ids :
          Shell!Ref(k, id) \in Shell!Refs /\ Shell!Ref(k, id) \in Shell!Contexts
    /\ \A r \in Shell!Contexts : r \in Shell!Refs
<1>1. \A id \in Ids \cup {0} : id \in Nat BY IdsFinite
<1>2. \A k \in Shell!Kinds \cup {"none"}, id \in Ids \cup {0} :
          Shell!Ref(k, id) \in Shell!Refs /\ Shell!Ref(k, id) \in Shell!Contexts
  BY <1>1 DEF Shell!Ref, Shell!None, Shell!Refs, Shell!Contexts
<1>3. \A r \in Shell!Contexts : r \in Shell!Refs
  BY <1>1 DEF Shell!None, Shell!Refs, Shell!Contexts
<1> QED BY <1>2, <1>3 DEF Shell!NoRef, Shell!None

LEMMA PageAsks ==
    ASSUME NEW r \in Shell!Contexts
    PROVE  /\ AsksOK(Shell!WorkspaceKeys(r)) /\ AsksOK(Shell!WorkspaceCommands(r))
           /\ AsksOK(Shell!ActiveKeys(r)) /\ AsksOK(Shell!ActiveCommands(r))
           /\ AsksOK(Shell!TerminalsKeys(r)) /\ AsksOK(Shell!TerminalsCommands(r))
           /\ AsksOK(Shell!AgentsKeys(r)) /\ AsksOK(Shell!AgentsCommands(r))
           /\ AsksOK(Shell!SnapshotsKeys(r)) /\ AsksOK(Shell!SnapshotsCommands(r))
           /\ AsksOK(Shell!ReconcileKeys(r)) /\ AsksOK(Shell!ReconcileCommands(r))
           /\ AsksOK(Shell!BackendsKeys(r)) /\ AsksOK(Shell!BackendsCommands(r))
           /\ AsksOK(Shell!MachinesKeys(r)) /\ AsksOK(Shell!MachinesCommands(r))
<1> USE HarmlessAsk, ConfirmAsk, OtherAsk, PushAsk, RefTypes, OneAsks
        DEF Shell!Destructive
<1>1. "workspace" \in Shell!Kinds /\ {"workspace", "history", "reconcile", "workspaces"}
          \subseteq Shell!AllRoutes \ {"dashboard"}
  BY Routes DEF Shell!AllRoutes
<1>2. AsksOK(Shell!WorkspaceCommands(r)) BY <1>1 DEF Shell!WorkspaceCommands
<1>3. AsksOK(Shell!WorkspaceKeys(r))
  BY <1>1, <1>2 DEF Shell!WorkspaceKeys, AsksOK
<1>4. AsksOK(Shell!ActiveKeys(r)) BY <1>1 DEF Shell!ActiveKeys
<1>5. AsksOK(Shell!ActiveCommands(r)) BY <1>4 DEF Shell!ActiveCommands, AsksOK
<1>6. AsksOK(Shell!TerminalsKeys(r)) BY <1>1 DEF Shell!TerminalsKeys
<1>7. AsksOK(Shell!AgentsKeys(r)) BY <1>1 DEF Shell!AgentsKeys
<1>8. AsksOK(Shell!SnapshotsKeys(r)) BY <1>1 DEF Shell!SnapshotsKeys, AsksOK, Shell!One
<1>9. AsksOK(Shell!ReconcileKeys(r)) BY <1>1 DEF Shell!ReconcileKeys
<1>10. AsksOK(Shell!BackendsKeys(r)) BY <1>1 DEF Shell!BackendsKeys
<1>11. AsksOK(Shell!BackendsCommands(r)) BY <1>10 DEF Shell!BackendsCommands, AsksOK
<1>12. AsksOK(Shell!MachinesKeys(r)) BY <1>1 DEF Shell!MachinesKeys
<1> QED BY <1>2, <1>3, <1>4, <1>5, <1>6, <1>7, <1>8, <1>9, <1>10, <1>11, <1>12
        DEF Shell!TerminalsCommands, Shell!AgentsCommands, Shell!SnapshotsCommands,
            Shell!ReconcileCommands, Shell!MachinesCommands

LEMMA WorkspacesAsks ==
    ASSUME NEW listed \in Shell!Contexts, NEW r \in Shell!Refs
    PROVE  AsksOK(Shell!WorkspacesCommands(listed, r))
<1>1. "workspace" \in Shell!AllRoutes BY Routes DEF Shell!AllRoutes
<1>2. IsAsk(Shell!Push("workspace", r, Shell!NoRef)) BY <1>1, PushAsk, RefTypes
<1> QED BY <1>2, HarmlessAsk, ConfirmAsk, OtherAsk, OneAsks
        DEF Shell!Destructive, Shell!WorkspacesCommands

LEMMA OtherPagesAsks ==
    ASSUME NEW p \in Shell!Page, NEW c, IsCatalog(c)
    PROVE  /\ AsksOK(Shell!NoSnapshotKeys) /\ AsksOK(Shell!SearchOnly)
           /\ AsksOK(Shell!EventsKeys) /\ AsksOK(Shell!EventsCommands)
           /\ AsksOK(Shell!HistoryKeys(p)) /\ AsksOK(Shell!HistoryCommands(p))
           /\ AsksOK(Shell!PerformanceKeys) /\ AsksOK(Shell!ConfigKeys)
           /\ AsksOK(Shell!DashboardKeys(c)) /\ AsksOK(Shell!SearchKeys)
<1> USE HarmlessAsk, OtherAsk, PushAsk, RefTypes, OneAsks DEF Shell!Destructive
<1>1. /\ "search" \in Shell!AllRoutes /\ "history" \in Shell!AllRoutes
      /\ "workspace" \in Shell!AllRoutes
      /\ Shell!ListRoutes \subseteq Shell!AllRoutes /\ "dashboard" \notin Shell!ListRoutes
  BY Routes DEF Shell!AllRoutes
<1>2. p.context \in Shell!Contexts BY DEF Shell!Page
<1>3. \A route \in Shell!ListRoutes, id \in Ids :
          IsAsk(Shell!Push(route, Shell!Ref(Shell!Listed[route], id), Shell!NoRef))
  BY <1>1 DEF Shell!Kinds
<1>4. AsksOK(Shell!NoSnapshotKeys) BY DEF Shell!NoSnapshotKeys
<1>5. AsksOK(Shell!SearchOnly) BY <1>1 DEF Shell!SearchOnly
<1>6. AsksOK(Shell!EventsCommands) BY <1>3 DEF Shell!EventsCommands
<1>7. AsksOK(Shell!EventsKeys) BY <1>5, <1>6 DEF Shell!EventsKeys, AsksOK
<1>8. AsksOK(Shell!HistoryKeys(p)) BY <1>1, <1>2 DEF Shell!HistoryKeys
<1>9. AsksOK(Shell!HistoryCommands(p)) BY <1>1, <1>2 DEF Shell!HistoryCommands
<1>10. AsksOK(Shell!PerformanceKeys) BY DEF Shell!PerformanceKeys
<1>11. AsksOK(Shell!ConfigKeys) BY DEF Shell!ConfigKeys
<1>12. AsksOK(Shell!DashboardKeys(c))
  <2>1. "workspace" \in Shell!Kinds /\ c["workspace"] \in SUBSET Ids
    BY Routes DEF IsCatalog
  <2>2. \A w \in c["workspace"] :
            IsAsk(Shell!Push("workspace", Shell!Ref("workspace", w), Shell!NoRef))
    BY <1>1, <2>1
  <2> QED BY <1>5, <2>2 DEF Shell!DashboardKeys, AsksOK, Shell!One
<1>13. AsksOK(Shell!SearchKeys)
  <2>1. {"workspace", "terminals", "agents", "events"} \subseteq Shell!ListRoutes
        /\ {"terminal", "agent"} \subseteq Shell!Kinds
    BY Routes
  <2>2. \A kind \in {"terminal", "agent"}, id \in Ids :
            IsAsk(Shell!Push("history", Shell!NoRef, Shell!Ref(kind, id)))
    BY <1>1, <2>1
  <2> QED BY <1>3, <2>1, <2>2 DEF Shell!SearchKeys
<1> QED BY <1>4, <1>5, <1>6, <1>7, <1>8, <1>9, <1>10, <1>11, <1>12, <1>13

LEMMA KeysOK ==
    ASSUME NEW r \in Shell!AllRoutes, NEW p \in Shell!Page, NEW c, IsCatalog(c)
    PROVE  AsksOK(Shell!KeysOf(r, p, c))
<1> DEFINE ref == Shell!Ref(Shell!KindOf(r), p.sel)
<1>1. CASE Shell!Current(r, p, c)
  <2>1. r \in Shell!ListRoutes \cup {"workspaces"}
    BY <1>1, Routes DEF Shell!Current, Shell!ItemsOf
  <2>2. p.sel \in Ids BY <1>1, ItemsTyped DEF Shell!Current
  <2>3. ref \in Shell!Contexts /\ ref \in Shell!Refs BY <2>1, <2>2, Routes, RefTypes
  <2>4. AsksOK(Shell!WorkspacesKeys(ref))
    BY <2>3, WorkspacesAsks DEF Shell!WorkspacesKeys
  <2>5. AsksOK({}) BY DEF AsksOK
  <2> HIDE DEF ref
  <2> QED BY <1>1, <2>1, <2>3, <2>4, <2>5, Routes, PageAsks, OtherPagesAsks
          DEF Shell!KeysOf, ref
<1>2. CASE ~Shell!Current(r, p, c)
  <2>1. AsksOK({}) BY DEF AsksOK
  <2> QED BY <1>2, <2>1, OtherPagesAsks DEF Shell!KeysOf
<1> QED BY <1>1, <1>2

(* The commands of a page are listed for nothing, or for what it selects.  *)
LEMMA CommandsOK ==
    ASSUME NEW r, NEW ref, NEW p \in Shell!Page,
           \/ ref = Shell!NoRef
           \/ r \in Shell!ListRoutes \cup {"workspaces"} /\ ref \in Shell!Contexts
    PROVE  AsksOK(Shell!CommandsOf(r, ref, p))
<1>1. AsksOK({}) BY DEF AsksOK
<1> DEFINE c == [k \in Shell!Kinds |-> {}]
<1>2. IsCatalog(c) BY DEF IsCatalog
<1> HIDE DEF c
<1>3. CASE ref = Shell!NoRef
  BY <1>1, <1>2, <1>3, OtherPagesAsks DEF Shell!CommandsOf
<1>4. CASE ref # Shell!NoRef
  <2>1. r \in Shell!ListRoutes \cup {"workspaces"} /\ ref \in Shell!Contexts BY <1>4
  <2>2. Shell!Ref(ref.kind, p.sel) \in Shell!Refs
    BY <2>1 DEF Shell!Contexts, Shell!Ref, Shell!Refs, Shell!Page
  <2>3. AsksOK(Shell!WorkspacesCommands(ref, Shell!Ref(ref.kind, p.sel)))
    BY <2>1, <2>2, WorkspacesAsks
  <2> QED BY <1>2, <1>4, <2>1, <2>3, Routes, PageAsks, OtherPagesAsks
          DEF Shell!CommandsOf
<1> QED BY <1>3, <1>4

-----------------------------------------------------------------------------
(***************************************************************************)
(* The inductive invariant                                                 *)
(***************************************************************************)

OverlayOK(o) ==
    /\ AsksOK(o.opts)
    /\ o.kind \in {"prompt", "form"} => o.act \notin Shell!Destructive
    /\ o.kind = "commands" =>
          /\ o.act \in Shell!AllRoutes
          /\ \/ o.ref = Shell!NoRef
             \/ o.act \in Shell!ListRoutes \cup {"workspaces"}
                /\ o.ref \in Shell!Contexts

(* A root that is ready has a catalog.                                     *)
OpenOK == opened \in BOOLEAN /\ loaded \in BOOLEAN /\ (opened => loaded)

ShellInv ==
    /\ start \in Visits /\ keys \in Nat /\ OpenOK /\ crashed \in BOOLEAN
    /\ IsCatalog(shown) /\ PagesOK(page, shown)
    /\ StackOK(stack)
    /\ \A m \in msgs : IsAsk(m)
    /\ OverlayOK(ov)
    /\ lane.confirmed \in BOOLEAN
    /\ Shell!CrashesOnlyAstray

LEMMA ShellInit == NextInit => ShellInv
<1> SUFFICES ASSUME NextInit PROVE ShellInv OBVIOUS
<1> USE DEF NextInit, Shell!Init
<1>1. /\ start \in Visits /\ keys \in Nat /\ OpenOK
      /\ crashed = FALSE /\ msgs = {} /\ loaded = FALSE BY DEF OpenOK
<1>2. IsCatalog(shown) BY DEF IsCatalog
<1>3. PagesOK(page, shown)
  <2>1. ASSUME NEW r \in Shell!AllRoutes
        PROVE  page[r] \in Shell!Page /\ page[r].sel = 0
    <3>1. page[r] = Shell!New(r) OBVIOUS
    <3>2. Shell!NoRef \in Shell!Contexts BY RefTypes
    <3> QED BY <3>1, <3>2 DEF Shell!New, Shell!Page, Shell!None, Shell!Tabs
  <2>2. ASSUME NEW r \in Shell!AllRoutes PROVE OnRow(r, page[r], shown)
    <3>1. Shell!ItemsOf(shown, Shell!KindOf(r)) \subseteq Nat \ {0}
      BY <1>2, ItemsTyped, IdsFinite
    <3> QED BY <2>1, <3>1 DEF OnRow, Shell!Current
  <2>3. page \in [Shell!AllRoutes -> Shell!Page] BY <2>1
  <2> QED BY <2>2, <2>3 DEF PagesOK
<1>4. StackOK(stack) BY ShellAssumptions DEF Shell!SetupsAssumption, StackOK
<1>5. OverlayOK(ov)
  <2>1. ov.opts = {} /\ ov.kind = "none" BY DEF Shell!NoOverlay, Shell!Overlay
  <2> QED BY <2>1 DEF OverlayOK, AsksOK
<1>6. lane.confirmed \in BOOLEAN BY DEF Shell!NoRequest, Shell!Act
<1>7. Shell!CrashesOnlyAstray BY <1>1 DEF Shell!CrashesOnlyAstray
<1> HIDE DEF NextInit, Shell!Init
<1> QED BY <1>1, <1>2, <1>3, <1>4, <1>5, <1>6, <1>7 DEF ShellInv

-----------------------------------------------------------------------------
(***************************************************************************)
(* Catalogs                                                                *)
(***************************************************************************)

LEMMA CatalogsTyped ==
    ASSUME NEW c \in Shell!Catalogs PROVE IsCatalog(c)
BY DEF Shell!Catalogs, IsCatalog

LEMMA ResolvedStack ==
    ASSUME NEW st, StackOK(st), NEW c, IsCatalog(c)
    PROVE  StackOK([i \in DOMAIN st |-> Shell!ResolveDefaults(st[i], c)])
<1> DEFINE new == [i \in DOMAIN st |-> Shell!ResolveDefaults(st[i], c)]
<1>1. st \in Seq(Shell!Locations) /\ st # << >> /\ st[1] = Shell!Home
  BY DEF StackOK, Shell!HomeBelow
<1>2. \A i \in 2 .. Len(st) : st[i].route # "dashboard" BY DEF StackOK, Shell!HomeBelow
<1>3. ASSUME NEW i \in 1 .. Len(st)
      PROVE  /\ new[i] \in Shell!Locations /\ new[i].route = st[i].route
             /\ st[i].route = "dashboard" => new[i] = st[i]
  <2>1. st[i] \in Shell!Locations /\ new[i] = Shell!ResolveDefaults(st[i], c) BY <1>1
  <2> HIDE DEF new
  <2> QED BY <2>1, ResolveKeeps
<1>4. /\ DOMAIN new = 1 .. Len(st) /\ Len(st) \in Nat /\ Len(st) >= 1
      /\ new = [i \in 1 .. Len(st) |-> new[i]]
  BY <1>1
<1> HIDE DEF new
<1>5. new \in [1 .. Len(st) -> Shell!Locations] BY <1>3, <1>4
<1>6. new \in Seq(Shell!Locations) /\ Len(new) = Len(st) /\ new # << >>
  BY <1>4, <1>5
<1>7. new[1] = Shell!Home
  <2>1. 1 \in 1 .. Len(st) BY <1>4
  <2>2. st[1].route = "dashboard" BY <1>1 DEF Shell!Home, Shell!Location
  <2> QED BY <1>1, <1>3, <2>1, <2>2
<1>8. ASSUME NEW i \in 2 .. Len(new) PROVE new[i].route # "dashboard"
  <2>1. i \in 2 .. Len(st) /\ i \in 1 .. Len(st) BY <1>4, <1>6
  <2> QED BY <1>2, <1>3, <2>1
<1>9. StackOK(new) BY <1>6, <1>7, <1>8 DEF StackOK, Shell!HomeBelow
<1> QED BY <1>9 DEF new

LEMMA LoadKeeps == ASSUME ShellInv, ~crashed, Shell!Load PROVE ShellInv'
<1>1. IsCatalog(shown') BY CatalogsTyped DEF Shell!Load
<1>2. StackOK(stack') BY <1>1, ResolvedStack DEF Shell!Load, ShellInv
<1>3. PagesOK(page', shown')
  <2> DEFINE followed == Shell!Broadcast(page, shown')
  <2>1. PagesOK(followed, shown') BY <1>1, BroadcastKeeps DEF ShellInv, PagesOK
  <2>2. page' = Shell!EnterTop(followed, stack') BY DEF Shell!Load
  <2>3. stack' \in Seq(Shell!Locations) /\ stack' # << >>
    BY <1>2 DEF StackOK, Shell!HomeBelow
  <2> HIDE DEF followed
  <2> QED BY <1>1, <2>1, <2>2, <2>3, EnterTopKeeps
<1>4. UNCHANGED << start, ov, msgs, lane, crashed, keys >> /\ OpenOK'
  BY DEF Shell!Load, OpenOK
<1>5. ~crashed' BY <1>4
<1> QED BY <1>1, <1>2, <1>3, <1>4, <1>5 DEF ShellInv, Shell!CrashesOnlyAstray

LEMMA NewCatalogKeeps == ASSUME ShellInv, ~crashed, Shell!NewCatalog PROVE ShellInv'
<1>1. IsCatalog(shown') BY CatalogsTyped DEF Shell!NewCatalog
<1>2. PagesOK(page', shown')
  BY <1>1, BroadcastKeeps DEF ShellInv, PagesOK, Shell!NewCatalog
<1>3. lane'.confirmed \in BOOLEAN
  <2>1. lane' = lane \/ lane' = Shell!NoRequest BY DEF Shell!NewCatalog
  <2>2. lane.confirmed \in BOOLEAN BY DEF ShellInv
  <2>3. Shell!NoRequest.confirmed \in BOOLEAN BY DEF Shell!NoRequest, Shell!Act
  <2> QED BY <2>1, <2>2, <2>3
<1>4. UNCHANGED << start, stack, ov, msgs, crashed, keys >> /\ OpenOK'
  BY DEF Shell!NewCatalog, ShellInv, OpenOK
<1>5. ~crashed' BY <1>4
<1> QED BY <1>1, <1>2, <1>3, <1>4, <1>5 DEF ShellInv, Shell!CrashesOnlyAstray

-----------------------------------------------------------------------------
(***************************************************************************)
(* Messages                                                                *)
(***************************************************************************)

LEMMA NavigateKeeps ==
    ASSUME ShellInv, NEW loc, IsTarget(loc), Shell!Navigate(loc)
    PROVE  StackOK(stack') /\ PagesOK(page', shown)
<1> DEFINE to == Shell!ResolveDefaults(loc, shown)
           st == Shell!Navigated(stack, to)
<1>1. IsCatalog(shown) /\ PagesOK(page, shown) /\ StackOK(stack) BY DEF ShellInv
<1>2. IsTarget(to)
  <2>1. loc \in Shell!Locations BY DEF IsTarget
  <2>2. to \in Shell!Locations /\ to.route = loc.route /\
        (loc.route = "dashboard" => to = loc)
    BY <1>1, <2>1, ResolveKeeps
  <2> HIDE DEF to
  <2> QED BY <2>2 DEF IsTarget
<1>3. stack' = st /\ page' = IF st = stack THEN page ELSE Shell!EnterTop(page, st)
  BY DEF Shell!Navigate
<1> HIDE DEF to
<1>4. StackOK(st) BY <1>1, <1>2, NavigatedKeeps
<1> HIDE DEF st
<1>5. st \in Seq(Shell!Locations) /\ st # << >> BY <1>4 DEF StackOK, Shell!HomeBelow
<1>6. PagesOK(Shell!EnterTop(page, st), shown) BY <1>1, <1>5, EnterTopKeeps
<1> QED BY <1>1, <1>3, <1>4, <1>6

LEMMA PopKeeps ==
    ASSUME ShellInv, Shell!PopTop
    PROVE  StackOK(stack') /\ PagesOK(page', shown)
<1> DEFINE st == IF Len(stack) > 1 THEN SubSeq(stack, 1, Len(stack) - 1) ELSE stack
<1>1. IsCatalog(shown) /\ PagesOK(page, shown) /\ StackOK(stack) BY DEF ShellInv
<1>2. stack' = st /\ page' = IF st = stack THEN page ELSE Shell!EnterTop(page, st)
  BY DEF Shell!PopTop
<1>3. StackOK(st) BY <1>1, PoppedKeeps
<1> HIDE DEF st
<1>4. st \in Seq(Shell!Locations) /\ st # << >> BY <1>3 DEF StackOK, Shell!HomeBelow
<1>5. PagesOK(Shell!EnterTop(page, st), shown) BY <1>1, <1>4, EnterTopKeeps
<1> QED BY <1>1, <1>2, <1>3, <1>5

LEMMA LaneRequestKeeps ==
    ASSUME ShellInv, NEW act, NEW ref, NEW confirmed \in BOOLEAN,
           Shell!Request(Shell!Act(act, ref, confirmed))
    PROVE  lane'.confirmed \in BOOLEAN
<1>1. lane' = Shell!Act(act, ref, confirmed) \/ lane' = lane BY DEF Shell!Request
<1>2. Shell!Act(act, ref, confirmed).confirmed \in BOOLEAN BY DEF Shell!Act
<1>3. lane.confirmed \in BOOLEAN BY DEF ShellInv
<1> QED BY <1>1, <1>2, <1>3

LEMMA MessageKeeps ==
    ASSUME ShellInv, ~crashed, NEW m, Shell!Deliver(m) PROVE ShellInv'
<1>1. /\ IsAsk(m) /\ msgs' \subseteq msgs
      /\ UNCHANGED << start, opened, loaded, OpenOK, shown, crashed, keys >>
  BY DEF Shell!Deliver, ShellInv, OpenOK
<1>2. /\ start \in Visits /\ keys \in Nat /\ OpenOK /\ IsCatalog(shown)
      /\ PagesOK(page, shown) /\ StackOK(stack) /\ OverlayOK(ov)
      /\ \A u \in msgs : IsAsk(u)
      /\ lane.confirmed \in BOOLEAN
  BY DEF ShellInv
<1> DEFINE Kept == /\ PagesOK(page', shown) /\ StackOK(stack') /\ OverlayOK(ov')
                   /\ lane'.confirmed \in BOOLEAN
<1>3. ASSUME m.is = "push", Shell!Navigate(m.loc), UNCHANGED << ov, lane >> PROVE Kept
  <2>1. IsTarget(m.loc) BY <1>1, <1>3 DEF IsAsk
  <2> QED BY <1>2, <1>3, <2>1, NavigateKeeps
<1>4. ASSUME Shell!PopTop, UNCHANGED << ov, lane >> PROVE Kept
  BY <1>2, <1>4, PopKeeps
<1>5. ASSUME Shell!Request(Shell!Act(m.act, m.ref, FALSE)),
             UNCHANGED << stack, page, ov >>
      PROVE  Kept
  BY <1>2, <1>5, LaneRequestKeeps
<1>6. ASSUME m.is \in {"confirm", "prompt", "selector", "form"},
             ov' = Shell!Overlay(m.is, {}, m.act, m.ref, m.named),
             UNCHANGED << stack, page, lane >>
      PROVE  Kept
  <2>1. ov'.opts = {} /\ ov'.kind = m.is /\ ov'.act = m.act
    BY <1>6 DEF Shell!Overlay
  <2>2. OverlayOK(ov') BY <1>1, <1>6, <2>1 DEF OverlayOK, AsksOK, IsAsk
  <2> QED BY <1>2, <1>6, <2>2
<1>7. Kept BY <1>3, <1>4, <1>5, <1>6 DEF Shell!Deliver
<1>8. ~crashed' BY <1>1
<1> QED BY <1>1, <1>2, <1>7, <1>8 DEF ShellInv, Shell!CrashesOnlyAstray

-----------------------------------------------------------------------------
(***************************************************************************)
(* Keys                                                                    *)
(***************************************************************************)

(* What a key may leave behind.                                            *)
ShownOK ==
    /\ PagesOK(page, shown) /\ StackOK(stack) /\ OverlayOK(ov)
    /\ \A m \in msgs : IsAsk(m)
    /\ lane.confirmed \in BOOLEAN

LEMMA InvShown == ShellInv => ShownOK /\ IsCatalog(shown) /\ start \in Visits
BY DEF ShellInv, ShownOK

LEMMA NoOverlayOK == OverlayOK(Shell!NoOverlay)
<1>1. Shell!NoOverlay.opts = {} /\ Shell!NoOverlay.kind = "none"
  BY DEF Shell!NoOverlay, Shell!Overlay
<1> QED BY <1>1 DEF OverlayOK, AsksOK

LEMMA KeyOverlayKeeps ==
    ASSUME ShellInv, shown' = shown, Shell!KeyOverlay PROVE ShownOK'
<1>1. ShownOK /\ OverlayOK(ov) BY InvShown DEF ShownOK
<1>2. ov' = Shell!NoOverlay
  BY DEF Shell!KeyOverlay, Shell!KeySelector, Shell!KeyCommand, Shell!KeyConfirm,
         Shell!KeyPrompt, Shell!KeyForm, Shell!KeyHelp, Shell!Close
<1>3. OverlayOK(ov') BY <1>2, NoOverlayOK
<1>4. CASE Shell!KeySelector
  <2>1. PICK t \in ov.opts \cup {{}} : msgs' = msgs \cup t BY <1>4 DEF Shell!KeySelector
  <2>2. \A m \in msgs' : IsAsk(m) BY <1>1, <2>1 DEF ShownOK, OverlayOK, AsksOK
  <2>3. UNCHANGED << stack, page, lane >> BY <1>4 DEF Shell!KeySelector
  <2> QED BY <1>1, <1>3, <2>2, <2>3 DEF ShownOK
<1>5. CASE Shell!KeyCommand
  <2> DEFINE A == Shell!CommandsOf(ov.act, ov.ref, page[ov.act])
  <2>1. page[ov.act] \in Shell!Page
    BY <1>1, <1>5 DEF ShownOK, OverlayOK, PagesOK, Shell!KeyCommand
  <2>2. AsksOK(A) BY <1>1, <1>5, <2>1, CommandsOK DEF OverlayOK, Shell!KeyCommand
  <2>3. PICK t \in A \cup {{}} : msgs' = msgs \cup t BY <1>5 DEF Shell!KeyCommand
  <2> HIDE DEF A
  <2>4. \A m \in msgs' : IsAsk(m) BY <1>1, <2>2, <2>3 DEF ShownOK, AsksOK
  <2>5. UNCHANGED << stack, page, lane >> BY <1>5 DEF Shell!KeyCommand
  <2> QED BY <1>1, <1>3, <2>4, <2>5 DEF ShownOK
<1>6. CASE Shell!KeyConfirm
  <2>1. lane'.confirmed \in BOOLEAN
    BY <1>1, <1>6, LaneRequestKeeps DEF Shell!KeyConfirm, ShownOK
  <2>2. UNCHANGED << stack, page, msgs >> BY <1>6 DEF Shell!KeyConfirm
  <2> QED BY <1>1, <1>3, <2>1, <2>2 DEF ShownOK
<1>7. CASE Shell!KeyPrompt
  <2>1. ov.act \notin Shell!Destructive BY <1>1, <1>7 DEF OverlayOK, Shell!KeyPrompt
  <2>2. IsAsk(Shell!Execute(ov.act, ov.ref)) BY <2>1, HarmlessAsk
  <2>3. \A m \in msgs' : IsAsk(m) BY <1>1, <1>7, <2>2 DEF ShownOK, Shell!KeyPrompt
  <2>4. UNCHANGED << stack, page, lane >> BY <1>7 DEF Shell!KeyPrompt
  <2> QED BY <1>1, <1>3, <2>3, <2>4 DEF ShownOK
<1>8. CASE Shell!KeyForm
  <2>1. lane'.confirmed \in BOOLEAN
    BY <1>1, <1>8, LaneRequestKeeps DEF Shell!KeyForm, ShownOK
  <2>2. UNCHANGED << stack, page, msgs >> BY <1>8 DEF Shell!KeyForm
  <2> QED BY <1>1, <1>3, <2>1, <2>2 DEF ShownOK
<1>9. CASE Shell!KeyHelp
  <2>1. UNCHANGED << msgs, lane >> BY <1>9 DEF Shell!KeyHelp
  <2>2. ASSUME NEW r \in Shell!Walkthroughs,
               Shell!Navigate(Shell!Location(r, Shell!NoRef, Shell!NoRef))
        PROVE  StackOK(stack') /\ PagesOK(page', shown)
    <3> DEFINE loc == Shell!Location(r, Shell!NoRef, Shell!NoRef)
    <3>1. r \in Shell!AllRoutes /\ r # "dashboard"
      BY Routes DEF Shell!Walkthroughs, Shell!AllRoutes
    <3>2. loc \in Shell!Locations /\ loc.route # "dashboard"
      BY <3>1, RefTypes DEF Shell!Location, Shell!Locations
    <3> HIDE DEF loc
    <3>3. IsTarget(loc) BY <3>2 DEF IsTarget
    <3> QED BY <2>2, <3>3, NavigateKeeps DEF loc
  <2>3. StackOK(stack') /\ PagesOK(page', shown)
    BY <1>1, <1>9, <2>2 DEF Shell!KeyHelp, ShownOK
  <2> QED BY <1>1, <1>3, <2>1, <2>3 DEF ShownOK
<1> QED BY <1>4, <1>5, <1>6, <1>7, <1>8, <1>9 DEF Shell!KeyOverlay

LEMMA SeqOfNumbers ==
    ASSUME NEW T \in SUBSET Nat, NEW s \in Seq(T) PROVE s \in Seq(Nat)
<1>1. Len(s) \in Nat /\ s \in [1 .. Len(s) -> T] OBVIOUS
<1>2. s \in [1 .. Len(s) -> Nat] BY <1>1
<1> QED BY <1>1, <1>2

(* The rows of a list are no more than its ids.                            *)
LEMMA RowsTyped ==
    ASSUME NEW r \in Shell!AllRoutes, NEW p \in Shell!Page, NEW c, IsCatalog(c)
    PROVE  /\ Shell!Rows(r, p, c) \in Seq(Nat)
           /\ r \in Lists => Len(Shell!Rows(r, p, c)) <=
                                Cardinality(Shell!ItemsOf(c, Shell!KindOf(r)))
<1> DEFINE S == Shell!ItemsOf(c, Shell!KindOf(r))
<1>1. S \in SUBSET Ids /\ Ids \subseteq Nat BY ItemsTyped, IdsFinite
<1>2. CASE r = "workspaces"
  <2> DEFINE T == Shell!WorkspaceRows(p, c) \cap p.filter
  <2>1. S = c["workspace"] BY <1>2, Routes DEF Shell!ItemsOf
  <2>2. T \in SUBSET S /\ T \in SUBSET Ids BY <1>1, <2>1 DEF Shell!WorkspaceRows
  <2>3. Shell!Rows(r, p, c) = Shell!Sorted(T) BY <1>2 DEF Shell!Rows
  <2> HIDE DEF T, S
  <2>4. Shell!Sorted(T) \in Seq(T) /\ T \subseteq Nat BY <1>1, <2>2, SortedLists
  <2>5. Len(Shell!Sorted(T)) <= Cardinality(S) BY <1>1, <2>2, ShorterList
  <2>6. Shell!Rows(r, p, c) \in Seq(Nat) BY <2>3, <2>4, SeqOfNumbers
  <2>7. Len(Shell!Rows(r, p, c)) <= Cardinality(S) BY <2>3, <2>5
  <2> QED BY <2>6, <2>7 DEF S
<1>3. CASE r \in {"workspace", "reconcile"}
  <2>1. r \notin Lists BY <1>3 DEF Lists
  <2>2. Shell!Rows(r, p, c) = IF p.sel \in S THEN Inner[p.sel][p.tab] ELSE << >>
    BY <1>3 DEF Shell!Rows
  <2>3. ASSUME p.sel \in S PROVE Inner[p.sel][p.tab] \in Seq(Nat)
    <3>1. Inner \in [Ids -> [Shell!Tabs -> Seq(Nat \ Ids)]]
      BY ShellAssumptions DEF Shell!PagesAssumption
    <3>2. p.sel \in Ids /\ p.tab \in Shell!Tabs BY <1>1, <2>3 DEF Shell!Page
    <3>3. Inner[p.sel][p.tab] \in Seq(Nat \ Ids) BY <3>1, <3>2
    <3> QED BY <3>3
  <2> QED BY <2>1, <2>2, <2>3
<1>4. CASE r \notin {"workspaces", "workspace", "reconcile"}
  <2>1. Shell!Rows(r, p, c) = Shell!Sorted(S) BY <1>4 DEF Shell!Rows
  <2> HIDE DEF S
  <2>2. Shell!Sorted(S) \in Seq(S) /\ Len(Shell!Sorted(S)) = Cardinality(S)
        /\ Cardinality(S) \in Nat
    BY <1>1, SortedLists, IdsFinite
  <2>3. Shell!Rows(r, p, c) \in Seq(Nat) BY <1>1, <2>1, <2>2, SeqOfNumbers
  <2>4. Len(Shell!Rows(r, p, c)) <= Cardinality(S) BY <2>1, <2>2
  <2> QED BY <2>3, <2>4 DEF S
<1> QED BY <1>2, <1>3, <1>4

LEMMA MovedOnRow ==
    ASSUME NEW r \in Shell!AllRoutes, NEW p \in Shell!Page, NEW q, NEW c, IsCatalog(c),
           OnRow(r, p, c), NEW n \in Nat, Moved(p, q, n),
           r \in Lists => n <= Cardinality(Shell!ItemsOf(c, Shell!KindOf(r)))
    PROVE  q \in Shell!Page /\ OnRow(r, q, c)
<1> DEFINE N == Cardinality(Shell!ItemsOf(c, Shell!KindOf(r)))
<1>1. N \in Nat BY ItemsTyped, IdsFinite
<1>2. q \in Shell!Page /\ q.cursor \in Nat /\ p.cursor \in Nat
  BY DEF Moved, Shell!Page
<1>3. CASE q.cursor < n BY <1>1, <1>2, <1>3 DEF OnRow
<1>4. CASE q.sel = p.sel /\ q.cursor <= p.cursor
  BY <1>1, <1>2, <1>4 DEF OnRow, Shell!Current
<1> QED BY <1>2, <1>3, <1>4 DEF Moved

(* A key that turns the page on top into q.                                *)
LEMMA TurnedKeeps ==
    ASSUME ShellInv, NEW q \in Shell!Page, OnRow(Shell!Route, q, shown), shown' = shown,
           Shell!Turn(q), UNCHANGED << stack, ov, msgs, lane >>
    PROVE  ShownOK'
<1>1. ShownOK BY InvShown
<1>2. PagesOK(page', shown)
  BY <1>1 DEF ShownOK, PagesOK, Shell!Turn
<1> QED BY <1>1, <1>2 DEF ShownOK

LEMMA ActiveTyped ==
    ASSUME ShellInv
    PROVE  /\ IsCatalog(shown) /\ Shell!Route \in Shell!AllRoutes
           /\ Shell!Active \in Shell!Page /\ OnRow(Shell!Route, Shell!Active, shown)
<1>1. stack \in Seq(Shell!Locations) /\ stack # << >>
  BY DEF ShellInv, StackOK, Shell!HomeBelow
<1>2. Shell!Top \in Shell!Locations BY <1>1 DEF Shell!Top
<1>3. Shell!Route \in Shell!AllRoutes BY <1>2 DEF Shell!Route, Shell!Locations
<1> QED BY <1>3 DEF ShellInv, PagesOK, Shell!Active

LEMMA MovedKeeps ==
    ASSUME ShellInv, shown' = shown, NEW q, NEW rows \in Seq(Nat),
           Moved(Shell!Active, q, Len(rows)),
           Shell!Route \in Lists =>
               Len(rows) <= Cardinality(Shell!ItemsOf(shown, Shell!KindOf(Shell!Route))),
           Shell!Turn(q), UNCHANGED << stack, ov, msgs, lane >>
    PROVE  ShownOK'
<1>1. Len(rows) \in Nat OBVIOUS
<1>2. q \in Shell!Page /\ OnRow(Shell!Route, q, shown) BY <1>1, ActiveTyped, MovedOnRow
<1> QED BY <1>2, TurnedKeeps

(* What leaves the selection and the cursor alone.                         *)
LEMMA SameRowKeeps ==
    ASSUME ShellInv, shown' = shown, NEW q \in Shell!Page,
           q.sel = Shell!Active.sel, q.cursor = Shell!Active.cursor,
           Shell!Turn(q), UNCHANGED << stack, ov, msgs, lane >>
    PROVE  ShownOK'
<1>1. OnRow(Shell!Route, q, shown) BY ActiveTyped DEF OnRow, Shell!Current
<1> QED BY <1>1, TurnedKeeps

LEMMA KeyDownKeeps ==
    ASSUME ShellInv, shown' = shown, Shell!KeyDown PROVE ShownOK'
<1> DEFINE rows == Shell!Rows(Shell!Route, Shell!Active, shown)
           q == Shell!MoveDown(Shell!Active, rows)
<1>1. rows \in Seq(Nat) BY ActiveTyped, RowsTyped
<1>2. Shell!Route \in Lists =>
          Len(rows) <= Cardinality(Shell!ItemsOf(shown, Shell!KindOf(Shell!Route)))
  BY ActiveTyped, RowsTyped
<1>3. Shell!Turn(q) /\ UNCHANGED << stack, ov, msgs, lane >> BY DEF Shell!KeyDown
<1> HIDE DEF rows
<1>4. Moved(Shell!Active, q, Len(rows)) BY <1>1, ActiveTyped, DownMoves
<1> HIDE DEF q
<1> QED BY <1>1, <1>2, <1>3, <1>4, MovedKeeps

(* The key up fails, or moves.                                             *)
LEMMA KeyUpKeeps ==
    ASSUME ShellInv, shown' = shown, Shell!KeyUp PROVE ShownOK'
<1> DEFINE rows == Shell!Rows(Shell!Route, Shell!Active, shown)
           q == Shell!MoveUp(Shell!Active, rows)
<1>1. rows \in Seq(Nat) BY ActiveTyped, RowsTyped
<1>2. Shell!Route \in Lists =>
          Len(rows) <= Cardinality(Shell!ItemsOf(shown, Shell!KindOf(Shell!Route)))
  BY ActiveTyped, RowsTyped
<1>3. UNCHANGED << stack, ov, msgs, lane >> BY DEF Shell!KeyUp
<1>4. CASE Shell!UpCrashes(Shell!Active, rows)
  <2>1. UNCHANGED page BY <1>4 DEF Shell!KeyUp
  <2> QED BY <1>3, <2>1, InvShown DEF ShownOK
<1>5. CASE ~Shell!UpCrashes(Shell!Active, rows)
  <2>1. Shell!Turn(q) BY <1>5 DEF Shell!KeyUp
  <2> HIDE DEF rows
  <2>2. Moved(Shell!Active, q, Len(rows)) BY <1>1, <1>5, ActiveTyped, UpMoves
  <2> HIDE DEF q
  <2> QED BY <1>1, <1>2, <1>3, <2>1, <2>2, MovedKeeps
<1> QED BY <1>4, <1>5

LEMMA KeyFilterKeeps ==
    ASSUME ShellInv, shown' = shown, Shell!KeyFilter PROVE ShownOK'
<1> DEFINE p == Shell!Active
<1>1. /\ p \in Shell!Page /\ IsCatalog(shown) /\ Shell!Route = "workspaces"
      /\ UNCHANGED << stack, ov, msgs, lane >> /\ "workspaces" \in Shell!AllRoutes
      /\ start \in Visits
  BY ActiveTyped, InvShown DEF Shell!KeyFilter
<1>2. ASSUME NEW q \in Shell!Page
      PROVE  LET rows == Shell!Rows("workspaces", q, shown)
             IN  /\ rows \in Seq(Nat)
                 /\ Len(rows) <= Cardinality(Shell!ItemsOf(shown, Shell!KindOf("workspaces")))
  BY <1>1, RowsTyped DEF Lists
<1>3. CASE Shell!Turn(Shell!LeaveFilter(p))
  <2> DEFINE q == Shell!LeaveFilter(p)
  <2>1. q \in Shell!Page /\ q.sel = p.sel /\ q.cursor = p.cursor
    BY <1>1 DEF Shell!LeaveFilter, Shell!Page
  <2> HIDE DEF q
  <2> QED BY <1>1, <1>3, <2>1, SameRowKeeps DEF q
<1>4. CASE Shell!Turn(Shell!AcceptFilter(p, shown))
  <2> DEFINE rows == Shell!Rows("workspaces", p, shown)
             q == Shell!ClampCursor(p, rows)
             a == [q EXCEPT !.mode = "normal"]
  <2>1. rows \in Seq(Nat) BY <1>1, <1>2
  <2>2. Len(rows) <= Cardinality(Shell!ItemsOf(shown, Shell!KindOf("workspaces")))
    BY <1>1, <1>2
  <2>3. Shell!Turn(a) BY <1>4 DEF Shell!AcceptFilter
  <2> HIDE DEF rows
  <2>4. Moved(p, q, Len(rows)) BY <1>1, <2>1, ClampMoves
  <2> HIDE DEF q
  <2>5. q \in Shell!Page BY <2>4 DEF Moved
  <2>6. a \in Shell!Page /\ a.sel = q.sel /\ a.cursor = q.cursor BY <2>5 DEF Shell!Page
  <2> HIDE DEF a
  <2>7. Moved(p, a, Len(rows)) BY <2>4, <2>6 DEF Moved
  <2> QED BY <1>1, <2>1, <2>2, <2>3, <2>7, MovedKeeps
<1>5. ASSUME NEW f \in start.filters, Shell!Turn(Shell!Matching(p, shown, f))
      PROVE  ShownOK'
  <2> DEFINE u == [p EXCEPT !.filter = f]
             rows == Shell!Rows("workspaces", u, shown)
             q == Shell!ClampCursor(u, rows)
  <2>1. f \in SUBSET Ids BY <1>1, <1>5, ShellAssumptions DEF Shell!SetupsAssumption
  <2>2. u \in Shell!Page /\ u.sel = p.sel /\ u.cursor = p.cursor
    BY <1>1, <2>1 DEF Shell!Page
  <2>3. Shell!Turn(q) BY <1>5 DEF Shell!Matching
  <2> HIDE DEF u
  <2>4. rows \in Seq(Nat) BY <1>2, <2>2
  <2>5. Len(rows) <= Cardinality(Shell!ItemsOf(shown, Shell!KindOf("workspaces")))
    BY <1>2, <2>2
  <2> HIDE DEF rows
  <2>6. Moved(u, q, Len(rows)) BY <2>2, <2>4, ClampMoves
  <2> HIDE DEF q
  <2>7. Moved(p, q, Len(rows)) BY <2>2, <2>6 DEF Moved
  <2> QED BY <1>1, <2>3, <2>4, <2>5, <2>7, MovedKeeps
<1> QED BY <1>3, <1>4, <1>5 DEF Shell!KeyFilter

LEMMA KeySlashKeeps ==
    ASSUME ShellInv, shown' = shown, Shell!KeySlash PROVE ShownOK'
<1> DEFINE q == Shell!OpenFilter(Shell!Active)
<1>1. q \in Shell!Page /\ q.sel = Shell!Active.sel /\ q.cursor = Shell!Active.cursor
  BY ActiveTyped DEF Shell!OpenFilter, Shell!Page
<1>2. Shell!Turn(q) /\ UNCHANGED << stack, ov, msgs, lane >> BY DEF Shell!KeySlash
<1> HIDE DEF q
<1> QED BY <1>1, <1>2, SameRowKeeps

LEMMA KeyTabKeeps ==
    ASSUME ShellInv, shown' = shown, Shell!KeyTab PROVE ShownOK'
<1> DEFINE q == Shell!NextTab(Shell!Active)
           t == IF Shell!Active.tab = 3 THEN 1 ELSE Shell!Active.tab + 1
<1>1. t \in Shell!Tabs BY ActiveTyped DEF Shell!Page, Shell!Tabs
<1>2. q = [Shell!Active EXCEPT !.tab = t] BY DEF Shell!NextTab
<1> HIDE DEF t
<1>3. q \in Shell!Page /\ q.sel = Shell!Active.sel /\ q.cursor = Shell!Active.cursor
  BY <1>1, <1>2, ActiveTyped DEF Shell!Page
<1>4. Shell!Turn(q) /\ UNCHANGED << stack, ov, msgs, lane >> BY DEF Shell!KeyTab
<1> HIDE DEF q
<1> QED BY <1>3, <1>4, SameRowKeeps

LEMMA KeyAsksKeeps ==
    ASSUME ShellInv, shown' = shown, Shell!KeyAsks PROVE ShownOK'
<1> DEFINE A == Shell!KeysOf(Shell!Route, Shell!Active, shown)
<1>1. AsksOK(A) BY ActiveTyped, KeysOK
<1>2. PICK t \in A : msgs' = msgs \cup t BY DEF Shell!KeyAsks
<1>3. UNCHANGED << stack, page, ov, lane >> BY DEF Shell!KeyAsks
<1> HIDE DEF A
<1> QED BY <1>1, <1>2, <1>3, InvShown DEF ShownOK, AsksOK

(* What the palette, the list of commands, the selector of targets and the *)
(* help hold.                                                              *)
LEMMA GlobalOverlays ==
    ASSUME ShellInv
    PROVE  /\ OverlayOK(Shell!Overlay("palette", Shell!Destinations, "none",
                                      Shell!NoRef, Shell!NoRef))
           /\ OverlayOK(Shell!Listing)
           /\ \A T \in SUBSET Shell!Targets :
                 OverlayOK(Shell!Overlay("switch", T, "none", Shell!NoRef, Shell!NoRef))
           /\ OverlayOK(Shell!Overlay("help", {}, "none", Shell!NoRef, Shell!NoRef))
<1>1. AsksOK(Shell!Destinations)
  <2>1. start.routes \subseteq Shell!AllRoutes
    BY InvShown, ShellAssumptions DEF Shell!SetupsAssumption
  <2>2. \A r \in start.routes : IsAsk(Shell!Push(r, Shell!NoRef, Shell!NoRef))
    BY <2>1, PushAsk, PushHome, RefTypes
  <2> QED BY <2>2, OneAsks DEF Shell!Destinations
<1>2. AsksOK(Shell!Targets)
  <2>1. ASSUME NEW r \in {"workspace", "active", "terminals", "agents"}, NEW id \in Ids
        PROVE  /\ IsAsk(Shell!Push(r, Shell!Ref(Shell!Listed[r], id), Shell!NoRef))
               /\ IsAsk(Shell!Execute("focus", Shell!Ref(Shell!Listed[r], id)))
    <3>1. r \in Shell!AllRoutes /\ r # "dashboard" /\ r \in Shell!ListRoutes
      BY Routes DEF Shell!AllRoutes
    <3>2. Shell!Listed[r] \in Shell!Kinds BY <3>1 DEF Shell!Kinds
    <3>3. "focus" \notin Shell!Destructive BY DEF Shell!Destructive
    <3> QED BY <3>1, <3>2, <3>3, PushAsk, RefTypes, HarmlessAsk
  <2> QED BY <2>1 DEF Shell!Targets, AsksOK
<1>3. AsksOK({}) BY DEF AsksOK
<1>4. \A T \in SUBSET Shell!Targets : AsksOK(T) BY <1>2 DEF AsksOK
<1>5. OverlayOK(Shell!Listing)
  <2> DEFINE ref == IF Shell!Current(Shell!Route, Shell!Active, shown)
                    THEN Shell!Ref(Shell!KindOf(Shell!Route), Shell!Active.sel)
                    ELSE Shell!NoRef
  <2>1. /\ Shell!Listing.opts = {} /\ Shell!Listing.kind = "commands"
        /\ Shell!Listing.act = Shell!Route /\ Shell!Listing.ref = ref
    BY DEF Shell!Listing, Shell!Overlay
  <2>2. ASSUME Shell!Current(Shell!Route, Shell!Active, shown)
        PROVE  ref \in Shell!Contexts /\
               Shell!Route \in Shell!ListRoutes \cup {"workspaces"}
    <3>1. Shell!Route \in Shell!ListRoutes \cup {"workspaces"}
      BY <2>2, ActiveTyped, Routes DEF Shell!Current, Shell!ItemsOf
    <3>2. Shell!Active.sel \in Ids BY <2>2, ActiveTyped, ItemsTyped DEF Shell!Current
    <3> QED BY <2>2, <3>1, <3>2, Routes, RefTypes
  <2> HIDE DEF ref
  <2>3. ref = Shell!NoRef \/ (ref \in Shell!Contexts /\
               Shell!Route \in Shell!ListRoutes \cup {"workspaces"})
    BY <2>2 DEF ref
  <2> QED BY <1>3, <2>1, <2>3, ActiveTyped DEF OverlayOK
<1> QED BY <1>1, <1>3, <1>4, <1>5 DEF OverlayOK, Shell!Overlay

LEMMA KeyGlobalKeeps ==
    ASSUME ShellInv, shown' = shown, Shell!KeyGlobal PROVE ShownOK'
<1>1. UNCHANGED << stack, page, msgs, lane >> BY DEF Shell!KeyGlobal
<1> DEFINE T == { t \in Shell!Targets : Shell!Present(t) }
<1>2. \/ ov' = Shell!Overlay("palette", Shell!Destinations, "none",
                             Shell!NoRef, Shell!NoRef)
      \/ ov' = Shell!Listing
      \/ ov' = Shell!Overlay("switch", T, "none", Shell!NoRef, Shell!NoRef)
      \/ ov' = Shell!Overlay("help", {}, "none", Shell!NoRef, Shell!NoRef)
  BY DEF Shell!KeyGlobal
<1>3. T \in SUBSET Shell!Targets OBVIOUS
<1> HIDE DEF T
<1>4. OverlayOK(ov') BY <1>2, <1>3, GlobalOverlays
<1> QED BY <1>1, <1>4, InvShown DEF ShownOK

(* The program ends only where CrashesOnlyAstray says.                     *)
LEMMA UpCrashesAstray ==
    ASSUME ShellInv, Shell!Route \in Shell!Moving,
           Shell!UpCrashes(Shell!Active, Shell!Rows(Shell!Route, Shell!Active, shown))
    PROVE  \/ Shell!Active.filter # Ids \/ Shell!Active.context.kind = "machine"
           \/ Shell!Route \in {"workspace", "reconcile"}
           \/ ~Shell!Current(Shell!Route, Shell!Active, shown)
<1> DEFINE p == Shell!Active
           r == Shell!Route
           S == Shell!ItemsOf(shown, Shell!KindOf(r))
<1> SUFFICES ASSUME p.filter = Ids, p.context.kind # "machine",
                    r \notin {"workspace", "reconcile"}, Shell!Current(r, p, shown)
             PROVE  FALSE
  OBVIOUS
<1>1. /\ p \in Shell!Page /\ r \in Shell!AllRoutes /\ IsCatalog(shown)
      /\ OnRow(r, p, shown)
  BY ActiveTyped
<1>2. r \in Lists BY DEF Shell!Moving, Lists
<1>3. S \in SUBSET Ids BY <1>1, ItemsTyped
<1>4. Shell!Rows(r, p, shown) = Shell!Sorted(S)
  <2>1. CASE r = "workspaces"
    <3>1. S = shown["workspace"] BY <2>1, Routes DEF Shell!ItemsOf
    <3>2. Shell!WorkspaceRows(p, shown) \cap p.filter = S
      BY <1>3, <3>1 DEF Shell!WorkspaceRows
    <3> QED BY <2>1, <3>2 DEF Shell!Rows
  <2>2. CASE r # "workspaces" BY <2>2 DEF Shell!Rows
  <2> QED BY <2>1, <2>2
<1>5. p.cursor < Cardinality(S) BY <1>1, <1>2 DEF OnRow
<1>6. Shell!UpCrashes(p, Shell!Rows(r, p, shown)) OBVIOUS
<1>7. p.cursor \in Nat BY <1>1 DEF Shell!Page
<1> HIDE DEF S, p, r
<1> QED BY <1>3, <1>4, <1>5, <1>6, <1>7, SortedLists, IdsFinite DEF Shell!UpCrashes

LEMMA KeyPressKeeps ==
    ASSUME ShellInv, ~crashed, Shell!KeyPress PROVE ShellInv'
<1>1. /\ shown' = shown /\ loaded' = loaded /\ start' = start /\ keys' = keys + 1
      /\ UNCHANGED OpenOK
  BY DEF Shell!KeyPress, Shell!Key, Shell!Quiet, OpenOK
<1>2. ShownOK'
  <2>1. CASE Shell!KeyTooEarly \/ Shell!KeyEsc
    <3>1. CASE Shell!KeyTooEarly
      BY <1>1, <3>1, InvShown DEF Shell!KeyTooEarly, ShownOK
    <3>2. CASE Shell!KeyEsc
      BY <1>1, <3>2, InvShown, PopKeeps DEF Shell!KeyEsc, ShownOK
    <3> QED BY <2>1, <3>1, <3>2
  <2> QED BY <1>1, <2>1, KeyOverlayKeeps, KeyFilterKeeps, KeySlashKeeps, KeyDownKeeps,
             KeyUpKeeps, KeyTabKeeps, KeyAsksKeeps, KeyGlobalKeeps
          DEF Shell!KeyPress
<1>3. crashed' \in BOOLEAN /\ Shell!CrashesOnlyAstray'
  <2>1. CASE Shell!KeyTooEarly
    BY <1>1, <2>1 DEF Shell!KeyTooEarly, Shell!CrashesOnlyAstray
  <2>2. CASE Shell!KeyUp /\ Shell!UpCrashes(Shell!Active,
                                 Shell!Rows(Shell!Route, Shell!Active, shown))
    <3>1. crashed' = TRUE /\ UNCHANGED << page, stack >> /\ Shell!Route \in Shell!Moving
      BY <2>2 DEF Shell!KeyUp
    <3>2. Shell!Route' = Shell!Route /\ Shell!Active' = Shell!Active
      BY <3>1 DEF Shell!Route, Shell!Active, Shell!Top
    <3>3. \/ Shell!Active.filter # Ids \/ Shell!Active.context.kind = "machine"
          \/ Shell!Route \in {"workspace", "reconcile"}
          \/ ~Shell!Current(Shell!Route, Shell!Active, shown)
      BY <2>2, <3>1, UpCrashesAstray
    <3> QED BY <1>1, <3>1, <3>2, <3>3 DEF Shell!CrashesOnlyAstray
  <2>3. CASE UNCHANGED crashed BY <2>3 DEF ShellInv, Shell!CrashesOnlyAstray
  <2> QED BY <2>1, <2>2, <2>3 DEF Shell!KeyPress, Shell!KeyOverlay, Shell!KeyFilter,
             Shell!KeySlash, Shell!KeyDown, Shell!KeyUp, Shell!KeyTab, Shell!KeyAsks,
             Shell!KeyGlobal, Shell!KeyEsc
<1>4. start \in Visits /\ keys' \in Nat /\ OpenOK /\ IsCatalog(shown)
  BY <1>1 DEF ShellInv
<1> QED BY <1>1, <1>2, <1>3, <1>4 DEF ShellInv, ShownOK

-----------------------------------------------------------------------------
(***************************************************************************)
(* The theorems                                                            *)
(***************************************************************************)

LEMMA ShellKeeps ==
    ASSUME ShellInv, NextNext \/ UNCHANGED all PROVE ShellInv'
<1>1. CASE UNCHANGED shellVars
  BY <1>1 DEF shellVars, ShellInv, OpenOK, Shell!CrashesOnlyAstray, Shell!Active, Shell!Route,
              Shell!Top
<1>2. CASE Shell!Next
  BY <1>2, LoadKeeps, NewCatalogKeeps, MessageKeeps, KeyPressKeeps DEF Shell!Next
<1> QED BY <1>1, <1>2, ShellStep

(* Every step of MCNext keeps the pages on their rows, the stack on home,  *)
(* and what is on its way harmless.                                        *)
THEOREM ShellInvariant == NextSpec => []ShellInv
BY ShellInit, ShellKeeps, PTL DEF NextSpec

(* Whatever the user presses and whenever catalogs arrive, the cursor keys *)
(* of a page end the program only before the first catalog, and where the  *)
(* rows are not the list in which a catalog has set the cursor.            *)
THEOREM CrashesAreAstray == NextSpec => []CrashesOnlyAstray
<1>1. ShellInv => CrashesOnlyAstray BY DEF ShellInv, CrashesOnlyAstray
<1> QED BY <1>1, ShellInvariant, PTL

(* The types of the root and of the pages; the dashboard is at the bottom  *)
(* of the stack and nowhere else, wherever navigation and deep links led.  *)
THEOREM ClientTypesCorrect == NextSpec => []ClientTypeOK
<1>1. ShellInv => Shell!TypeOK /\ Shell!HomeIsBottom
  <2> SUFFICES ASSUME ShellInv PROVE Shell!TypeOK /\ Shell!HomeIsBottom OBVIOUS
  <2>1. /\ stack \in Seq(Shell!Locations) /\ stack # << >> /\ stack[1] = Shell!Home
        /\ \A i \in 2 .. Len(stack) : stack[i].route # "dashboard"
    BY DEF ShellInv, StackOK, Shell!HomeBelow
  <2>2. ASSUME NEW i \in DOMAIN stack PROVE stack[i].route \in Shell!AllRoutes
    <3>1. stack[i] \in Shell!Locations BY <2>1
    <3> QED BY <3>1 DEF Shell!Locations
  <2>3. Shell!TypeOK BY <2>2 DEF ShellInv, OpenOK, PagesOK, IsCatalog, Shell!TypeOK
  <2>4. stack[1].route = "dashboard" BY <2>1 DEF Shell!Home, Shell!Location
  <2>5. ASSUME NEW i \in DOMAIN stack
        PROVE  (stack[i].route = "dashboard") <=> (i = 1)
    <3>1. i = 1 \/ i \in 2 .. Len(stack) BY <2>1
    <3> QED BY <2>1, <2>4, <3>1
  <2> QED BY <2>1, <2>3, <2>5 DEF Shell!HomeIsBottom
<1>2. NextInit => Init BY DEF NextInit
<1>3. NextNext \/ UNCHANGED all => Next \/ UNCHANGED vars BY DEF NextNext, all
<1>4. NextSpec => Spec BY <1>2, <1>3, PTL DEF NextSpec, Spec
<1>5. ShellInv /\ TypeOK => ClientTypeOK BY <1>1 DEF ClientTypeOK
<1> QED BY <1>4, <1>5, RootTypeCorrect, ShellInvariant, PTL

(* What destroys anything enters the lane only by an answer to a           *)
(* confirmation that was open for that very action and resource.           *)
THEOREM NothingUnconfirmed == NextSpec => DestroysConfirmed
<1> DEFINE Enters == lane' # lane /\ lane'.act \in Shell!Destructive
           Confirmed == /\ ov.kind = "confirm" /\ keys' # keys
                        /\ ov.act = lane'.act /\ ov.ref = lane'.ref
<1>1. ShellInv /\ (NextNext \/ UNCHANGED all) =>
          (Enters => Confirmed) \/ UNCHANGED Shell!vars
  <2> SUFFICES ASSUME ShellInv, NextNext \/ UNCHANGED all, Enters PROVE Confirmed
    OBVIOUS
  <2>1. Shell!Next BY ShellStep DEF shellVars
  <2>2. ASSUME NEW act, NEW ref, NEW confirmed,
               Shell!Request(Shell!Act(act, ref, confirmed))
        PROVE  lane'.act = act /\ lane'.ref = ref
    BY <2>2 DEF Shell!Request, Shell!Act
  <2>3. CASE Shell!Load BY <2>3 DEF Shell!Load
  <2>4. CASE Shell!NewCatalog
    <3>1. lane' = Shell!NoRequest BY <2>4 DEF Shell!NewCatalog
    <3>2. lane'.act = "none" BY <3>1 DEF Shell!NoRequest, Shell!Act
    <3> QED BY <3>2 DEF Shell!Destructive
  <2>5. ASSUME NEW m \in msgs, Shell!Deliver(m) PROVE FALSE
    <3>1. m.is = "execute" /\ Shell!Request(Shell!Act(m.act, m.ref, FALSE))
      BY <2>5 DEF Shell!Deliver
    <3>2. m.act \notin Shell!Destructive BY <3>1 DEF ShellInv, IsAsk
    <3> QED BY <2>2, <3>1, <3>2
  <2>6. CASE Shell!KeyPress
    <3>1. keys' # keys BY <2>6 DEF Shell!KeyPress, Shell!Key, ShellInv
    <3>2. Shell!KeyConfirm \/ Shell!KeyForm
      BY <2>6 DEF Shell!KeyPress, Shell!KeyOverlay, Shell!KeySelector, Shell!KeyCommand,
                  Shell!KeyPrompt, Shell!KeyHelp, Shell!KeyFilter, Shell!KeySlash,
                  Shell!KeyDown, Shell!KeyUp, Shell!KeyTab, Shell!KeyTooEarly,
                  Shell!KeyAsks, Shell!KeyGlobal, Shell!KeyEsc
    <3>3. CASE Shell!KeyConfirm
      <4>1. ov.kind = "confirm" /\ Shell!Request(Shell!Act(ov.act, ov.ref, TRUE))
        BY <3>3 DEF Shell!KeyConfirm
      <4> QED BY <2>2, <3>1, <4>1
    <3>4. CASE Shell!KeyForm
      <4>1. ov.kind = "form" /\ Shell!Request(Shell!Act(ov.act, Shell!NoRef, FALSE))
        BY <3>4 DEF Shell!KeyForm
      <4>2. ov.act \notin Shell!Destructive BY <4>1 DEF ShellInv, OverlayOK
      <4> QED BY <2>2, <4>1, <4>2
    <3> QED BY <3>2, <3>3, <3>4
  <2> QED BY <2>1, <2>3, <2>4, <2>5, <2>6 DEF Shell!Next
<1> QED
  BY ShellInvariant, <1>1, PTL
  DEF NextSpec, DestroysConfirmed, Shell!DestroysConfirmed

(* A new catalog moves no page away from an entity that is still there,    *)
(* nor from one that a location named, and every list marks the row of the *)
(* entity that its keys act on.                                            *)
THEOREM SelectionIsFollowed == NextSpec => SelectionFollows
<1> DEFINE Sticks == \A r \in Shell!Selecting :
               \/ page[r].sel \in {Shell!None, page'[r].sel}
               \/ page[r].sel \notin shown'[Shell!KindOf(r)] /\ ~page[r].explicit
           Realigns == \A r \in Shell!ListRoutes \ {"workspace", "reconcile"} :
               page'[r].sel \in shown'[Shell!Listed[r]] =>
                   Shell!Sorted(shown'[Shell!Listed[r]])[page'[r].cursor + 1] =
                       page'[r].sel
<1>1. ShellInv /\ (NextNext \/ UNCHANGED all) /\ Shell!Arrives => Sticks /\ Realigns
  <2> SUFFICES ASSUME ShellInv, NextNext \/ UNCHANGED all, Shell!Arrives
               PROVE  Sticks /\ Realigns
    OBVIOUS
  <2>1. Shell!NewCatalog
    BY ShellStep DEF shellVars, Shell!Arrives, Shell!Next, Shell!Load, Shell!Deliver,
                     Shell!KeyPress, Shell!Quiet
  <2>2. IsCatalog(shown') /\ page' = Shell!Broadcast(page, shown')
    BY <2>1, CatalogsTyped DEF Shell!NewCatalog
  <2>3. ASSUME NEW r \in Shell!Selecting
        PROVE  LET S == shown'[Shell!KindOf(r)]
               IN  /\ page[r].sel \in S \/ (page[r].explicit /\ page[r].sel # 0) =>
                         page'[r].sel = page[r].sel
                   /\ page'[r].sel \in S =>
                         Shell!Sorted(S)[page'[r].cursor + 1] = page'[r].sel
    <3> DEFINE S == shown'[Shell!KindOf(r)]
               q == Shell!SetCatalog(page[r], Shell!Sorted(S))
    <3>1. r \in Shell!AllRoutes /\ Shell!KindOf(r) \in Shell!Kinds
      BY Routes DEF Shell!Selecting, Shell!AllRoutes
    <3>2. Shell!KindOf(r) # "none" BY <3>1, Routes
    <3>3. page[r] \in Shell!Page /\ S \in SUBSET Ids
      BY <2>2, <3>1 DEF ShellInv, PagesOK, IsCatalog
    <3>4. page'[r] = q
      BY <2>2, <3>1, <3>2 DEF Shell!Broadcast, Shell!Follow, Shell!ItemsOf
    <3> HIDE DEF S
    <3>5. /\ page[r].sel \in S \/ (page[r].explicit /\ page[r].sel # 0) =>
                q.sel = page[r].sel
          /\ q.sel \in S => Shell!Sorted(S)[q.cursor + 1] = q.sel
      BY <3>3, SetCatalogKeeps
    <3> HIDE DEF q
    <3> QED BY <3>4, <3>5 DEF S
  <2>4. Sticks BY <2>3 DEF Shell!None
  <2>5. Realigns
    <3> SUFFICES ASSUME NEW r \in Shell!ListRoutes \ {"workspace", "reconcile"}
                 PROVE  page'[r].sel \in shown'[Shell!Listed[r]] =>
                            Shell!Sorted(shown'[Shell!Listed[r]])[page'[r].cursor + 1] =
                                page'[r].sel
      OBVIOUS
    <3>1. r \in Shell!Selecting /\ Shell!KindOf(r) = Shell!Listed[r]
      BY Routes DEF Shell!Selecting
    <3> QED BY <2>3, <3>1
  <2> QED BY <2>4, <2>5
<1> HIDE DEF Sticks, Realigns
<1>2. ShellInv /\ (NextNext \/ UNCHANGED all) =>
          (Shell!Arrives => Sticks) \/ UNCHANGED Shell!vars
  BY <1>1
<1>3. ShellInv /\ (NextNext \/ UNCHANGED all) =>
          (Shell!Arrives => Realigns) \/ UNCHANGED Shell!vars
  BY <1>1
<1> QED
  BY ShellInvariant, <1>2, <1>3, PTL
  DEF NextSpec, SelectionFollows, Shell!SelectionSticks, Shell!RefreshRealigns,
      Sticks, Realigns

-----------------------------------------------------------------------------
(***************************************************************************)
(* The parts beside the pages                                              *)
(***************************************************************************)

LEMMA LaneStep ==
    ASSUME NextNext \/ UNCHANGED all
    PROVE  Query!Next \/ UNCHANGED laneVars
BY DEF NextNext, all

LEMMA ClockStep ==
    ASSUME NextNext \/ UNCHANGED all
    PROVE  Clock!Next \/ UNCHANGED clockVars
BY DEF NextNext, all

-----------------------------------------------------------------------------
(***************************************************************************)
(* The search lane                                                         *)
(***************************************************************************)

(* A search that is under way, or whose results are.                       *)
Running(t) == t.at \in {"search", "results"}

(* What leads to results for the latest search: the search itself or a     *)
(* request that will take its place.                                       *)
Leads(t) == Running(t) => t.seq = searchSeq

(* A task has an identity, a label, a number, a text and a revision.       *)
IsTask(t) ==
    t \in [id : {t.id}, at : {"read", "ask", "search", "results"}, seq : Nat,
           text : {t.text}, rev : {t.rev}]
SearchesTyped == searchSeq \in Nat /\ \A t \in searches : IsTask(t)

(* No search has a number that was not given yet, and the one with the     *)
(* latest number is for the text that the root remembers.                  *)
LatestIsRemembered ==
    \A t \in searches : Running(t) =>
        /\ t.seq <= searchSeq
        /\ t.seq = searchSeq => t.text = searchText

(* The latest search is answered, or something leads to its answer.        *)
AnswerComes ==
    \/ spage.seq = searchSeq
    \/ searchSeq \in failed
    \/ \E t \in searches : Leads(t)

LaneInv == SearchesTyped /\ LatestIsRemembered /\ AnswerComes

LEMMA LaneInit == NextInit => LaneInv
BY DEF NextInit, Query!Init, LaneInv, SearchesTyped, LatestIsRemembered, AnswerComes

(* A task t of the lane gives way to a task u, or is the last of its       *)
(* search: all that such a step has to keep, unless it gives out a number. *)
LEMMA LaneReplace ==
    ASSUME LaneInv, NEW t \in searches, NEW u, IsTask(u),
           searches' = (searches \ {t}) \cup {u},
           UNCHANGED << searchSeq, searchText, spage, failed >>,
           Running(u) => Running(t) /\ u.seq = t.seq /\ u.text = t.text,
           Leads(t) => Leads(u)
    PROVE  LaneInv'
<1>1. SearchesTyped' BY DEF LaneInv, SearchesTyped
<1>2. LatestIsRemembered' BY DEF LaneInv, LatestIsRemembered
<1>3. AnswerComes' BY DEF LaneInv, AnswerComes, Leads
<1> QED BY <1>1, <1>2, <1>3 DEF LaneInv

LEMMA LaneDrop ==
    ASSUME LaneInv, NEW t \in searches, searches' = searches \ {t},
           UNCHANGED << searchSeq, searchText >>,
           failed \subseteq failed',
           spage' = spage \/ spage'.seq = searchSeq,
           Leads(t) => searchSeq \in failed' \/ spage'.seq = searchSeq
    PROVE  LaneInv'
<1>1. SearchesTyped' BY DEF LaneInv, SearchesTyped
<1>2. LatestIsRemembered' BY DEF LaneInv, LatestIsRemembered
<1>3. AnswerComes' BY DEF LaneInv, AnswerComes, Leads
<1> QED BY <1>1, <1>2, <1>3 DEF LaneInv

LEMMA TypeKeeps ==
    ASSUME LaneInv, NEW q \in Queries, Query!Type(q) PROVE LaneInv'
<1> PICK u : u.at = "read" /\ IsTask(u) /\ searches' = searches \cup {u}
  BY DEF Query!Type, Query!Start, IsTask
<1>1. UNCHANGED << searchSeq, searchText, spage, failed >>
  BY DEF Query!Type, Query!rootVars
<1>2. SearchesTyped' BY <1>1 DEF LaneInv, SearchesTyped
<1>3. LatestIsRemembered' BY <1>1 DEF LaneInv, LatestIsRemembered, Running
<1>4. AnswerComes' BY <1>1 DEF LaneInv, AnswerComes, Leads, Running
<1> QED BY <1>2, <1>3, <1>4 DEF LaneInv

LEMMA ReadInputKeeps ==
    ASSUME LaneInv, NEW t \in searches, Query!ReadInput(t) PROVE LaneInv'
<1> DEFINE u == [t EXCEPT !.at = "ask", !.text = input]
<1>1. IsTask(t) BY DEF LaneInv, SearchesTyped
<1>2. u.at = "ask" /\ IsTask(u) BY <1>1 DEF IsTask
<1>3. searches' = (searches \ {t}) \cup {u} BY DEF Query!ReadInput, Query!Rest
<1>4. UNCHANGED << searchSeq, searchText, spage, failed >>
  BY DEF Query!ReadInput, Query!rootVars
<1> HIDE DEF u
<1> QED BY <1>2, <1>3, <1>4, LaneReplace DEF Leads, Running

LEMMA SearchRequestKeeps ==
    ASSUME LaneInv, NEW t \in searches, Query!SearchRequest(t) PROVE LaneInv'
<1> DEFINE u == [id |-> Query!FreshId(searches \ {t}), at |-> "search",
                 seq |-> searchSeq + 1, text |-> t.text, rev |-> 0]
<1>1. searches' = (searches \ {t}) \cup {u}
  BY DEF Query!SearchRequest, Query!Start, Query!Rest
<1>2. /\ searchSeq' = searchSeq + 1 /\ searchText' = t.text /\ searchSeq \in Nat
      /\ u.seq = searchSeq + 1 /\ u.text = t.text /\ IsTask(u)
  BY DEF Query!SearchRequest, LaneInv, SearchesTyped, IsTask
<1> HIDE DEF u
<1>3. SearchesTyped' BY <1>1, <1>2 DEF LaneInv, SearchesTyped
<1>4. LatestIsRemembered'
  BY <1>1, <1>2 DEF LaneInv, SearchesTyped, IsTask, LatestIsRemembered, Running
<1>5. AnswerComes' BY <1>1, <1>2 DEF AnswerComes, Leads
<1> QED BY <1>3, <1>4, <1>5 DEF LaneInv

LEMMA SearchKeeps ==
    ASSUME LaneInv, NEW t \in searches, Query!Search(t) PROVE LaneInv'
<1> DEFINE u == [t EXCEPT !.at = "results", !.rev = srev]
<1>1. IsTask(t) BY DEF LaneInv, SearchesTyped
<1>2. IsTask(u) /\ u.at = "results" /\ u.seq = t.seq /\ u.text = t.text
  BY <1>1 DEF IsTask
<1>3. searches' = (searches \ {t}) \cup {u} /\ t.at = "search"
  BY DEF Query!Search, Query!Rest
<1>4. UNCHANGED << searchSeq, searchText, spage, failed >>
  BY DEF Query!Search, Query!rootVars
<1> HIDE DEF u
<1> QED BY <1>2, <1>3, <1>4, LaneReplace DEF Leads, Running

LEMMA SearchFailedKeeps ==
    ASSUME LaneInv, NEW t \in searches, Query!SearchFailed(t) PROVE LaneInv'
<1>1. searches' = searches \ {t} /\ t.at = "search"
  BY DEF Query!SearchFailed, Query!Rest
<1>2. failed' = failed \cup {t.seq} /\ UNCHANGED << searchSeq, searchText, spage >>
  BY DEF Query!SearchFailed
<1> QED BY <1>1, <1>2, LaneDrop DEF Leads, Running

LEMMA SearchResultsKeeps ==
    ASSUME LaneInv, NEW t \in searches, Query!SearchResults(t) PROVE LaneInv'
<1>1. t.at = "results" /\ UNCHANGED << searchSeq, searchText, failed >>
  BY DEF Query!SearchResults
<1>2. CASE t.seq # searchSeq /\ searches' = searches \ {t} /\ UNCHANGED spage
  BY <1>1, <1>2, LaneDrop DEF Leads, Running
<1>3. CASE searches' = Query!Start(searches \ {t}, "ask", 0, searchText) /\ UNCHANGED spage
  <2> PICK u : u.at = "ask" /\ IsTask(u) /\ searches' = (searches \ {t}) \cup {u}
    BY <1>3 DEF Query!Start, IsTask
  <2> QED BY <1>1, <1>3, LaneReplace DEF Leads, Running
<1>4. CASE t.seq = searchSeq /\ searches' = searches \ {t} /\ spage'.seq = t.seq
  BY <1>1, <1>4, LaneDrop
<1> QED BY <1>2, <1>3, <1>4 DEF Query!SearchResults, Query!Rest

LEMMA LaneNext == LaneInv /\ (NextNext \/ UNCHANGED all) => LaneInv'
<1> SUFFICES ASSUME LaneInv, Query!Next \/ UNCHANGED laneVars PROVE LaneInv'
  BY LaneStep
<1>1. CASE UNCHANGED laneVars
  BY <1>1 DEF laneVars, LaneInv, SearchesTyped, LatestIsRemembered, AnswerComes, Leads
<1>2. CASE Query!Observe \/ Query!CatchUp
  BY <1>2 DEF Query!Observe, Query!CatchUp, Query!rootVars, LaneInv, SearchesTyped,
              LatestIsRemembered, AnswerComes, Leads
<1> QED
  BY <1>1, <1>2, TypeKeeps, ReadInputKeeps, SearchRequestKeeps, SearchKeeps,
     SearchFailedKeeps, SearchResultsKeeps DEF Query!Next

(* Results of a superseded query never reach the page, and no query is     *)
(* lost, for any texts and however many searches overtake one another.     *)
THEOREM LatestSearchIsAnswered == NextSpec => LatestSearchAnswered
<1>1. LaneInv => (part = "lane" => Query!LatestIsAnswered)
  BY DEF LaneInv, AnswerComes, Query!LatestIsAnswered
<1>2. LaneInv /\ (NextNext \/ UNCHANGED all) =>
          \/ spage' # spage => spage'.text = searchText /\ spage'.seq = searchSeq
          \/ UNCHANGED Query!vars
  <2> SUFFICES ASSUME LaneInv, Query!Next, spage' # spage
               PROVE  spage'.text = searchText /\ spage'.seq = searchSeq
    BY LaneStep DEF laneVars, Query!vars
  <2> PICK t \in searches : /\ t.at = "results" /\ t.seq = searchSeq
                            /\ spage' = [seq |-> t.seq, text |-> t.text]
    BY DEF Query!Next, Query!Type, Query!ReadInput, Query!SearchRequest, Query!Search,
           Query!SearchFailed, Query!SearchResults, Query!Observe, Query!CatchUp, Query!rootVars
  <2> QED BY DEF LaneInv, LatestIsRemembered, Running
<1> QED
  BY LaneInit, LaneNext, <1>1, <1>2, PTL
  DEF NextSpec, LatestSearchAnswered, Query!OnlyLatestShown

-----------------------------------------------------------------------------
(***************************************************************************)
(* The notices                                                             *)
(***************************************************************************)

(* Timers are armed for tokens that were given out, one for each at most,  *)
(* and while the help is open it holds such a token, whose timer is armed  *)
(* when it plays and was never armed when it does not.                     *)
TimersTyped ==
    /\ helpSeq \in 0 .. MaxChains
    /\ ticks \in [1 .. MaxChains -> {0, 1}]
    /\ \A token \in 1 .. MaxChains : token > helpSeq => ticks[token] = 0
HelpTyped ==
    /\ help \in [open : BOOLEAN, playing : BOOLEAN, step : {help.step}, token : Nat]
    /\ help.open => help.token \in 1 .. helpSeq
ClockInv ==
    /\ Clock!ToastsExpire
    /\ TimersTyped /\ HelpTyped
    /\ Clock!HelpTicksOnce

LEMMA ClockInit == NextInit => ClockInv
<1> SUFFICES ASSUME Clock!Init PROVE ClockInv BY DEF NextInit
<1>1. Clock!ToastsExpire BY DEF Clock!Init, Clock!ToastsExpire
<1>2. TimersTyped BY ClockAssumptions DEF Clock!Init, TimersTyped, Clock!ClockAssumption
<1>3. HelpTyped /\ Clock!HelpTicksOnce
  BY DEF Clock!Init, Clock!Closed, HelpTyped, Clock!HelpTicksOnce
<1> QED BY <1>1, <1>2, <1>3 DEF ClockInv

(* Notifications come and go without the help.                             *)
LEMMA ToastsKeep ==
    ASSUME Clock!ToastsExpire,
           \/ \E text \in Texts : Clock!PushToast(text)
           \/ \E seq \in expiries : Clock!Expire(seq)
    PROVE  Clock!ToastsExpire' /\ UNCHANGED << help, helpSeq, ticks >>
BY DEF Clock!ToastsExpire, Clock!PushToast, Clock!Refreshed, Clock!Expire

(* A new chain: its token is new, so no timer is armed for it.             *)
LEMMA NewChain ==
    ASSUME TimersTyped, HelpTyped, helpSeq < MaxChains, helpSeq' = helpSeq + 1,
           help'.token = helpSeq', HelpTyped',
           ticks' = IF help'.playing THEN Clock!Armed(helpSeq') ELSE ticks
    PROVE  TimersTyped' /\ Clock!HelpTicksOnce'
<1> USE DEF TimersTyped
<1>1. MaxChains \in Nat BY ClockAssumptions DEF Clock!ClockAssumption
<1>2. helpSeq' \in 1 .. MaxChains /\ ticks[helpSeq'] = 0 BY <1>1
<1>3. TimersTyped' BY <1>1, <1>2 DEF Clock!Armed
<1>4. Clock!HelpTicksOnce' BY <1>1, <1>2 DEF Clock!Armed, Clock!HelpTicksOnce, HelpTyped
<1> QED BY <1>3, <1>4

LEMMA PlayKeeps ==
    ASSUME ClockInv, Clock!PlayFromStart PROVE ClockInv'
<1>1. Clock!ToastsExpire' BY DEF ClockInv, Clock!PlayFromStart, Clock!ToastsExpire
<1>2. /\ helpSeq' = helpSeq + 1 /\ helpSeq < MaxChains
      /\ help'.token = helpSeq' /\ help'.playing /\ ticks' = Clock!Armed(helpSeq')
  BY DEF Clock!PlayFromStart
<1>3. HelpTyped' BY DEF Clock!PlayFromStart, HelpTyped, ClockInv, TimersTyped
<1> QED BY <1>1, <1>2, <1>3, NewChain DEF ClockInv

LEMMA PauseKeeps ==
    ASSUME ClockInv, Clock!PauseOrPlay PROVE ClockInv'
<1>1. Clock!ToastsExpire' BY DEF ClockInv, Clock!PauseOrPlay, Clock!ToastsExpire
<1>2. helpSeq' = helpSeq + 1 /\ helpSeq < MaxChains /\ helpSeq \in Nat
  BY DEF Clock!PauseOrPlay, ClockInv, TimersTyped
<1>3. /\ help' = [help EXCEPT !.playing = ~help.playing, !.token = helpSeq']
      /\ help \in [open : BOOLEAN, playing : BOOLEAN, step : {help.step}, token : Nat]
  BY DEF Clock!PauseOrPlay, Clock!Paused, ClockInv, HelpTyped
<1>4. HelpTyped' /\ help'.token = helpSeq'
  <2>1. help' = [open |-> help.open, playing |-> ~help.playing, step |-> help.step,
                 token |-> helpSeq']
    BY <1>3
  <2>2. help.open \in BOOLEAN BY <1>3
  <2>2b. (~help.playing) \in BOOLEAN OBVIOUS
  <2>3. helpSeq' \in Nat /\ helpSeq' \in 1 .. helpSeq' BY <1>2
  <2>4. /\ help' \in [open : BOOLEAN, playing : BOOLEAN, step : {help'.step}, token : Nat]
        /\ help'.token = helpSeq'
    BY <2>1, <2>2, <2>2b, <2>3
  <2> QED BY <2>3, <2>4 DEF HelpTyped
<1>5. ticks' = IF help'.playing THEN Clock!Armed(helpSeq') ELSE ticks
  BY <1>4 DEF Clock!PauseOrPlay
<1> QED BY <1>1, <1>2, <1>4, <1>5, NewChain DEF ClockInv

(* A page is turned: the timers do not see it.                             *)
LEMMA ClockTurnKeeps ==
    ASSUME ClockInv, NEW step, help' = [help EXCEPT !.step = step],
           UNCHANGED << toasts, expiries, helpSeq, ticks >>
    PROVE  ClockInv'
<1>1. /\ help'.open = help.open /\ help'.playing = help.playing /\ help'.token = help.token
      /\ HelpTyped'
  BY DEF ClockInv, HelpTyped
<1> QED BY <1>1 DEF ClockInv, TimersTyped, Clock!ToastsExpire, Clock!HelpTicksOnce

LEMMA TickKeeps ==
    ASSUME ClockInv, NEW token \in 1 .. MaxChains, Clock!Tick(token) PROVE ClockInv'
<1>1. CASE help.open /\ help.playing /\ help.token = token
  BY <1>1, ClockTurnKeeps DEF Clock!Tick
<1>2. CASE ~(help.open /\ help.playing /\ help.token = token)
  <2>1. /\ ticks' = [ticks EXCEPT ![token] = ticks[token] - 1] /\ ticks[token] = 1
        /\ UNCHANGED << toasts, expiries, help, helpSeq >>
    BY <1>2 DEF Clock!Tick, ClockInv, TimersTyped
  <2>2. TimersTyped' /\ HelpTyped' /\ Clock!ToastsExpire'
    BY <2>1 DEF ClockInv, TimersTyped, HelpTyped, Clock!ToastsExpire
  <2>3. Clock!HelpTicksOnce'
    BY <1>2, <2>1 DEF ClockInv, TimersTyped, HelpTyped, Clock!HelpTicksOnce
  <2> QED BY <2>2, <2>3 DEF ClockInv
<1> QED BY <1>1, <1>2

LEMMA ClockNext == ClockInv /\ (NextNext \/ UNCHANGED all) => ClockInv'
<1> SUFFICES ASSUME ClockInv, Clock!Next \/ UNCHANGED clockVars PROVE ClockInv'
  BY ClockStep
<1>1. CASE UNCHANGED clockVars
  BY <1>1 DEF clockVars, ClockInv, TimersTyped, HelpTyped, Clock!ToastsExpire, Clock!HelpTicksOnce
<1>2. CASE \/ \E text \in Texts : Clock!PushToast(text)
           \/ \E seq \in expiries : Clock!Expire(seq)
  BY <1>2, ToastsKeep DEF ClockInv, TimersTyped, HelpTyped, Clock!HelpTicksOnce
<1>3. CASE Clock!CloseHelp
  BY <1>3 DEF Clock!CloseHelp, Clock!Closed, ClockInv, TimersTyped, HelpTyped,
              Clock!ToastsExpire, Clock!HelpTicksOnce
<1>4. CASE \E delta \in {1, -1} : Clock!Turn(delta)
  BY <1>4, ClockTurnKeeps DEF Clock!Turn
<1> QED
  BY <1>1, <1>2, <1>3, <1>4, PlayKeeps, PauseKeeps, TickKeeps DEF Clock!Next

(* Every notification is taken down, and the help neither stops nor runs at*)
(* double speed, for any texts, any steps and any number of both.          *)
THEOREM NoticesKeepTheirTime == NextSpec => []NoticesKeepTime
<1>1. ClockInv => NoticesKeepTime BY DEF ClockInv, NoticesKeepTime
<1> QED BY ClockInit, ClockNext, <1>1, PTL DEF NextSpec

=============================================================================
