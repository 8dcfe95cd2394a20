----------------------- MODULE SessionCommandsProofs ------------------------
(***************************************************************************)
(* Proofs about SessionCommands, for any number of processes and sessions, *)
(* any configuration and any mix of commands, faults and acts of the user. *)
(*                                                                         *)
(* The inductive invariant says of each process, by the step it is about to*)
(* take, what is true of the sessions that nobody else has touched since it*)
(* began (Kept), of the windows a kill has captured and recorded (Caught)  *)
(* and of the event an undo has read (Recalled).                           *)
(***************************************************************************)
EXTENDS SessionCommands, SequenceTheorems, WellFoundedInduction, TLAPS

Planners == {"undo", "restore", "push", "init", "new"}
ItemSteps == {"again", "new", "window", "layout", "list"}
Early == {"sessions", "windows", "journal", "kill", "store", "event", "snapshot", "scratch"}

(***************************************************************************)
(* The windows that are missing: what the recursion of Without computes.   *)
(***************************************************************************)

(* A set of numbers has a least one: the natural numbers are well-founded. *)
LEMMA LeastNumber ==
    ASSUME NEW T, T \subseteq Nat, T # {}
    PROVE  \E x \in T : \A y \in T : x <= y
<1>1. \E x \in T : \A y \in T : ~ (<<y, x>> \in OpToRel(<,Nat)) BY WFMin, NatLessThanWellFounded, Zenon
<1>2. \A x, y \in T : ~ (<<y, x>> \in OpToRel(<,Nat)) => x <= y BY DEF OpToRel
<1> QED BY <1>1, <1>2

(* A set that goes on from each number to the next, up to n, has them all. *)
LEMMA CountUp ==
    ASSUME NEW T, NEW n \in Nat, 0 \in T, \A i \in 1 .. n : i - 1 \in T => i \in T
    PROVE  \A i \in 0 .. n : i \in T
<1> DEFINE Out == { i \in 0 .. n : i \notin T }
<1>1. SUFFICES ASSUME Out # {} PROVE FALSE OBVIOUS
<1>2. Out \subseteq Nat BY DEF Out
<1>3. PICK x \in Out : \A y \in Out : x <= y
  <2> HIDE DEF Out
  <2> QED BY <1>1, <1>2, LeastNumber
<1>4. x \in 0 .. n /\ x \notin T OBVIOUS
<1>5. x - 1 \in T
  <2>1. x # 0 BY <1>4
  <2>2. x - 1 \in 0 .. n /\ ~ (x <= x - 1) BY <1>4, <2>1
  <2>3. x - 1 \notin Out BY <1>3, <2>2
  <2> QED BY <2>2, <2>3
<1> QED BY <1>4, <1>5

(* What is missing of a sequence of windows is a sequence of windows: the  *)
(* recursion has a solution (Solved, counting up), and every prefix of it  *)
(* has its type.                                                           *)
LEMMA WithoutType ==
    ASSUME NEW S, NEW wins \in Seq(S), NEW present
    PROVE  Without(wins, present) \in Seq(S)
<1> DEFINE n == Len(wins)
           has(i) == \E j \in 1 .. Len(present) : present[j] = wins[i]
           next(f, i) == IF i = 0 THEN << >>
            ELSE IF has(i) THEN f[i - 1]
            ELSE Append(f[i - 1], wins[i])
           kept == CHOOSE f : f = [i \in 0 .. n |-> next(f, i)]
<1>1. Without(wins, present) = kept[n]  BY Zenon DEF Without
<1>2. n \in Nat /\ \A i \in 1 .. n : wins[i] \in S OBVIOUS
<1> HIDE DEF n, has
<1>3. \A f : next(f, 0) = << >> OBVIOUS
<1>4. \A f, g : \A i \in 1 .. n : f[i - 1] = g[i - 1] => next(f, i) = next(g, i) OBVIOUS
<1>5. \A f : \A i \in 1 .. n : f[i - 1] \in Seq(S) => next(f, i) \in Seq(S)
  <2> TAKE f
  <2> SUFFICES ASSUME NEW i \in 1 .. n, f[i - 1] \in Seq(S) PROVE next(f, i) \in Seq(S) OBVIOUS
  <2>1. wins[i] \in S /\ i # 0 BY <1>2
  <2>2. CASE has(i) BY <2>1, <2>2
  <2>3. CASE ~has(i) BY <2>1, <2>3
  <2> QED BY <2>2, <2>3
<1> HIDE DEF next
<1> DEFINE solves(f, m) == f \in [0 .. m -> Seq(S)] /\ \A i \in 0 .. m : f[i] = next(f, i)
           Solved == { m \in 0 .. n : \E f : solves(f, m) }
<1>6. 0 \in Solved
  <2> DEFINE f == [i \in 0 .. 0 |-> << >>]
  <2>1. f \in [0 .. 0 -> Seq(S)] OBVIOUS
  <2>2. \A i \in 0 .. 0 : f[i] = next(f, i) BY <1>3
  <2>3. solves(f, 0) BY <2>1, <2>2
  <2> HIDE DEF f, solves
  <2> QED BY <1>2, <2>3
<1>7. ASSUME NEW m \in 1 .. n, m - 1 \in Solved PROVE m \in Solved
  <2>1. PICK g : solves(g, m - 1) BY <1>7
  <2>2. m \in 0 .. n /\ m \in 0 .. m /\ m - 1 \in 0 .. m - 1 BY <1>2
  <2> DEFINE f == [i \in 0 .. m |-> IF i = m THEN next(g, m) ELSE g[i]]
  <2>3. next(g, m) \in Seq(S) BY <2>1, <2>2, <1>5
  <2>4. \A i \in 0 .. m : i # m => i \in 0 .. m - 1 /\ g[i] \in Seq(S) BY <1>2, <2>1
  <2>5. f \in [0 .. m -> Seq(S)] BY <2>3, <2>4
  <2>6. f[m] = next(g, m) BY <2>2
  <2>7. \A i \in 0 .. m : i # m => f[i] = g[i] OBVIOUS
  <2> HIDE DEF f
  <2>8. f[m] = next(f, m)
    <3>1. m - 1 \in 0 .. m /\ m - 1 # m BY <1>2
    <3>2. f[m - 1] = g[m - 1] BY <3>1, <2>7
    <3> QED BY <2>6, <3>2, <1>4
  <2>9. ASSUME NEW i \in 0 .. m, i # m PROVE f[i] = next(f, i)
    <3>1. f[i] = g[i] /\ g[i] = next(g, i) BY <2>1, <2>4, <2>7, <2>9
    <3>2. i # 0 => i - 1 \in 0 .. m /\ i - 1 # m /\ i \in 1 .. n BY <1>2, <2>9
    <3>3. CASE i = 0 BY <3>1, <3>3, <1>3
    <3>4. CASE i # 0
      <4>1. f[i - 1] = g[i - 1] BY <3>2, <3>4, <2>7
      <4> QED BY <3>1, <3>2, <3>4, <4>1, <1>4
    <3> QED BY <3>3, <3>4
  <2>10. solves(f, m) BY <2>5, <2>8, <2>9
  <2> HIDE DEF solves
  <2> QED BY <2>2, <2>10
<1>8. n \in Solved
  <2> HIDE DEF Solved
  <2>1. \A i \in 1 .. n : i - 1 \in Solved => i \in Solved BY <1>7
  <2>2. \A i \in 0 .. n : i \in Solved BY <2>1, <1>2, <1>6, CountUp
  <2> QED BY <1>2, <2>2
<1>9. PICK f : solves(f, n) BY <1>8
<1>10. f = [i \in 0 .. n |-> next(f, i)] BY <1>9
<1>11. kept = [i \in 0 .. n |-> next(kept, i)] BY <1>10, Zenon
<1> HIDE DEF kept
<1> DEFINE Typed == { i \in 0 .. n : kept[i] \in Seq(S) }
<1>12. 0 \in Typed
  <2>1. 0 \in 0 .. n BY <1>2
  <2>2. kept[0] = next(kept, 0) BY <2>1, <1>11
  <2>3. kept[0] = << >> BY <2>2, <1>3, Zenon
  <2>4. kept[0] \in Seq(S) BY <2>3
  <2> QED BY <2>1, <2>4
<1>13. ASSUME NEW i \in 1 .. n, i - 1 \in Typed PROVE i \in Typed
  <2>1. i \in 0 .. n BY <1>2
  <2>2. kept[i] = next(kept, i) BY <2>1, <1>11
  <2> QED BY <2>1, <2>2, <1>5, <1>13
<1>14. n \in Typed
  <2> HIDE DEF Typed
  <2>1. \A i \in 1 .. n : i - 1 \in Typed => i \in Typed BY <1>13
  <2>2. \A i \in 0 .. n : i \in Typed BY <2>1, <1>2, <1>12, CountUp
  <2> QED BY <1>2, <2>2
<1> QED BY <1>1, <1>14

(***************************************************************************)
(* The inductive invariant                                                 *)
(***************************************************************************)
Payloads == UNION { [within -> Windows] : within \in SUBSET Sessions }
Records ==
    [pc : Steps, op : AllOps \cup {"none"}, arg : SUBSET Sessions, plan : Payloads,
     todo : SUBSET Sessions, cur : Sessions \cup {None}, want : Windows,
     name : Labels, at : Nat, ev : 0 .. lastId, err : BOOLEAN]

FieldsTyped ==
    /\ live \in [Sessions -> Windows]
    /\ lastId \in Nat /\ journal \subseteq Events
    /\ \A e, f \in journal : e.id = f.id => e = f
    /\ saved = None \/ saved \in Payloads
    /\ proc \in [Procs -> Records]
    /\ start \in [Procs -> [Sessions -> Windows]]
    /\ touched \in [Procs -> SUBSET Sessions]
    /\ acts \in 0 .. MaxActs

(* The commands that take a step, and what they have by then.              *)
Placed(r) ==
    /\ r.op \in {"kill", "new", "scratch"} => \E s \in Sessions : r.arg = {s}
    /\ r.pc \in {"has", "forget"} \cup ItemSteps =>
           r.op \in Planners /\ r.todo \subseteq DOMAIN r.plan
    /\ r.pc \in ItemSteps => r.cur \in DOMAIN r.plan \ r.todo
    /\ r.pc \in {"again", "list"} => r.op = "push"
    /\ r.pc = "window" => r.want # << >>
    /\ r.pc = "sessions" => r.op \in {"kill", "killall", "save"}
    /\ r.pc = "windows" => r.op \in {"kill", "save"}
    /\ r.pc = "journal" => r.op = "kill" /\ r.arg \subseteq DOMAIN r.plan
    /\ r.pc = "kill" => r.op = "kill"
    /\ r.pc = "each" => r.op = "killall" /\ r.todo \subseteq r.arg
    /\ r.pc = "store" => r.op = "save"
    /\ r.pc = "event" => r.op = "undo"
    /\ r.pc = "snapshot" => r.op = "restore"
    /\ r.pc \in {"scratch", "expiry"} => r.op = "scratch"
    /\ r.pc = "forget" => r.op = "undo" /\ r.todo = {}

(* Outcome, of a process in state r that began with the sessions was.      *)
Result(r, was, s) ==
    CASE r.op \in {"kill", "killall"} -> IF s \in r.arg THEN Gone ELSE was[s]
      [] r.op = "scratch" -> IF s \in r.arg THEN << Shell >> ELSE was[s]
      [] OTHER ->
           IF r.op = "save" \/ s \notin DOMAIN r.plan THEN was[s]
           ELSE IF was[s] = Gone THEN Whole(r.plan[s])
           ELSE IF r.op = "push" THEN was[s] \o Without(r.plan[s], was[s])
           ELSE was[s]

(* init goes on after an error, to fail in the end.                        *)
Doomed(r) == r.op = "init" /\ r.err

(* A session is as it was until its turn comes, and then as it shall be.   *)
Treated(r, was, lv, s) ==
    ~Doomed(r) => lv[s] = IF s \in r.todo THEN was[s] ELSE Result(r, was, s)

(* The session whose turn it is: what it has and what it wants yet make the*)
(* result.                                                                 *)
Underway(r, was, lv, s) ==
    ~Doomed(r) =>
        /\ r.pc \in {"again", "new"} =>
               was[s] = Gone /\ lv[s] = Gone /\ r.want = r.plan[s]
        /\ r.pc = "list" => was[s] # Gone /\ lv[s] = was[s] /\ r.want = r.plan[s]
        /\ r.pc \in {"window", "layout"} => lv[s] \o r.want = Result(r, was, s)
        /\ r.pc = "layout" =>
               lv[s] # Gone /\ r.at = Len(lv[s]) /\ r.name = lv[s][Len(lv[s])]

Kept(r, was, hands, lv) ==
    \A s \in Sessions \ hands :
        /\ r.pc \in Early => lv[s] = was[s]
        /\ r.pc = "each" => lv[s] = IF s \in r.arg \ r.todo THEN Gone ELSE was[s]
        /\ r.pc \in {"has", "forget"} => Treated(r, was, lv, s)
        /\ r.pc \in ItemSteps =>
               IF s = r.cur THEN Underway(r, was, lv, s) ELSE Treated(r, was, lv, s)
        /\ r.pc \in {"expiry", "done"} => lv[s] = Result(r, was, s)

(* What a kill has captured is what was there, and it has an event for it  *)
(* unless the insert failed or the session is not there.                   *)
Caught(r, was, hands, lv, jl) ==
    r.op = "kill" =>
        /\ \A s \in DOMAIN r.plan \ hands : r.plan[s] = was[s]
        /\ \A e \in jl : e.id = r.ev /\ e.target \notin hands => e.wins = was[e.target]
        /\ hands = {} =>
             /\ r.pc = "windows" =>
                    \A s \in Sessions : /\ s \in r.todo => lv[s] # Gone
                                        /\ lv[s] # Gone => s \in r.todo \cup DOMAIN r.plan
             /\ r.pc = "kill" => r.ev # 0 \/ r.err \/ \A s \in r.arg : lv[s] = Gone
             /\ r.pc = "done" => r.ev # 0 \/ r.err

(* The id an undo holds is still the event whose windows it brings back.   *)
Recalled(r, jl) ==
    r.op = "undo" /\ r.pc \in {"has", "forget"} \cup ItemSteps =>
        \A e \in jl : e.id = r.ev => r.plan = Only(e.target, e.wins)

Sound(r, was, hands, lv, jl) ==
    /\ Placed(r) /\ Kept(r, was, hands, lv)
    /\ Caught(r, was, hands, lv, jl) /\ Recalled(r, jl)

AllSound == \A p \in Procs : Sound(proc[p], start[p], touched[p], live, journal)

IInv == FieldsTyped /\ AllSound

(***************************************************************************)
(* Payloads and the states of a process                                    *)
(***************************************************************************)
LEMMA PayloadType ==
    ASSUME NEW f \in Payloads
    PROVE  DOMAIN f \subseteq Sessions /\ f \in [DOMAIN f -> Windows]
BY DEF Payloads

LEMMA PayloadMade ==
    ASSUME NEW within \in SUBSET Sessions, NEW f \in [within -> Windows]
    PROVE  f \in Payloads
BY DEF Payloads

LEMMA NoPlanType == NoPlan \in Payloads /\ DOMAIN NoPlan = {}
<1>1. DOMAIN NoPlan = {} BY DEF NoPlan
<1>2. NoPlan = [s \in {} |-> << >>] BY DEF NoPlan
<1>3. NoPlan \in [{} -> Windows] BY <1>2
<1> QED BY <1>1, <1>3, PayloadMade

(* The payload of one session.                                             *)
LEMMA OnlyType ==
    ASSUME NEW s \in Sessions, NEW wins \in Windows
    PROVE  /\ Only(s, wins) \in Payloads
           /\ DOMAIN Only(s, wins) = {s} /\ Only(s, wins)[s] = wins
<1>1. Only(s, wins) \in [{s} -> Windows] BY DEF Only
<1> QED BY <1>1, PayloadMade DEF Only

(* A payload and one session more.                                         *)
LEMMA WithType ==
    ASSUME NEW f \in Payloads, NEW s \in Sessions, NEW wins \in Windows
    PROVE  LET g == With(f, s, wins) IN
           /\ g \in Payloads /\ DOMAIN g = DOMAIN f \cup {s}
           /\ \A t \in DOMAIN g : g[t] = IF t = s THEN wins ELSE f[t]
<1>1. DOMAIN f \subseteq Sessions /\ \A t \in DOMAIN f : f[t] \in Windows BY PayloadType
<1>2. With(f, s, wins) \in [DOMAIN f \cup {s} -> Windows] BY <1>1 DEF With
<1>3. With(f, s, wins) \in Payloads BY <1>1, <1>2, PayloadMade
<1> QED BY <1>3 DEF With

(* A process that goes on with another step, and is the same otherwise.    *)
LEMMA StepOnly ==
    ASSUME NEW r \in Records, NEW pc \in Steps
    PROVE  LET st == [r EXCEPT !.pc = pc] IN
           /\ st \in Records /\ st.pc = pc
           /\ st.op = r.op /\ st.arg = r.arg /\ st.plan = r.plan /\ st.todo = r.todo
           /\ st.cur = r.cur /\ st.want = r.want /\ st.name = r.name /\ st.at = r.at
           /\ st.ev = r.ev /\ st.err = r.err
BY DEF Records

LEMMA RecordType ==
    ASSUME NEW r \in Records
    PROVE  /\ r.pc \in Steps /\ r.op \in AllOps \cup {"none"} /\ r.arg \subseteq Sessions
           /\ r.plan \in Payloads /\ r.todo \subseteq Sessions
           /\ DOMAIN r.plan \subseteq Sessions
           /\ \A s \in DOMAIN r.plan : r.plan[s] \in Windows
           /\ r.want \in Windows /\ r.name \in Labels /\ r.at \in Nat
           /\ r.ev \in 0 .. lastId /\ r.err \in BOOLEAN
BY PayloadType DEF Records

(* What shall become of a session is told by the command, the sessions it  *)
(* names and the plan.                                                     *)
LEMMA SameResult ==
    ASSUME NEW r, NEW st, NEW was, NEW s,
           st.op = r.op, st.arg = r.arg, st.plan = r.plan
    PROVE  Result(st, was, s) = Result(r, was, s)
BY DEF Result

LEMMA ResultType ==
    ASSUME NEW r \in Records, NEW was \in [Sessions -> Windows], NEW s \in Sessions
    PROVE  Result(r, was, s) \in Windows
<1>1. << Shell >> \in Windows BY DEF Windows, Labels
<1>2. Gone \in Windows BY DEF Gone, Windows
<1>3. ASSUME s \in DOMAIN r.plan PROVE r.plan[s] \in Windows BY <1>3, RecordType
<1>4. ASSUME s \in DOMAIN r.plan
      PROVE  /\ Whole(r.plan[s]) \in Windows
             /\ was[s] \o Without(r.plan[s], was[s]) \in Windows
  <2>1. Without(r.plan[s], was[s]) \in Windows BY <1>3, <1>4, WithoutType DEF Windows
  <2>2. was[s] \o Without(r.plan[s], was[s]) \in Windows BY <2>1 DEF Windows
  <2> QED BY <1>1, <1>3, <1>4, <2>2 DEF Whole
<1> HIDE DEF Windows
<1> QED BY <1>1, <1>2, <1>4 DEF Result

(***************************************************************************)
(* What others do                                                          *)
(***************************************************************************)

(* Nobody spoils what a process holds: they become hands that have touched *)
(* the sessions they change, no event changes and no id is used twice.     *)
LEMMA OthersKeepSound ==
    ASSUME NEW r \in Records, NEW was \in [Sessions -> Windows],
           NEW hands \in SUBSET Sessions, NEW more \in SUBSET Sessions, NEW lv, NEW now,
           NEW jl, NEW jn,
           hands \subseteq more, \A s \in Sessions \ more : now[s] = lv[s],
           jl \subseteq Events, \A e \in jn : e \in jl \/ e.id > lastId,
           Sound(r, was, hands, lv, jl), lastId \in Nat
    PROVE  Sound(r, was, more, now, jn)
<1>1. Placed(r) BY DEF Sound
<1>2. Kept(r, was, more, now)
  <2> SUFFICES ASSUME NEW s \in Sessions \ more
               PROVE  /\ r.pc \in Early => now[s] = was[s]
                      /\ r.pc = "each" => now[s] = IF s \in r.arg \ r.todo THEN Gone ELSE was[s]
                      /\ r.pc \in {"has", "forget"} => Treated(r, was, now, s)
                      /\ r.pc \in ItemSteps =>
                             IF s = r.cur THEN Underway(r, was, now, s) ELSE Treated(r, was, now, s)
                      /\ r.pc \in {"expiry", "done"} => now[s] = Result(r, was, s)
    BY DEF Kept
  <2>1. s \in Sessions \ hands /\ now[s] = lv[s] OBVIOUS
  <2>2. Treated(r, was, lv, s) <=> Treated(r, was, now, s) BY <2>1 DEF Treated
  <2>3. Underway(r, was, lv, s) <=> Underway(r, was, now, s) BY <2>1 DEF Underway
  <2>4. Kept(r, was, hands, lv) BY DEF Sound
  <2> QED BY <2>1, <2>2, <2>3, <2>4 DEF Kept
<1>3. \A e \in jn : e.id = r.ev => e \in jl
  BY RecordType
<1>4. Caught(r, was, more, now, jn)
  <2>1. Caught(r, was, hands, lv, jl) BY DEF Sound
  <2>2. more = {} => hands = {} /\ \A s \in Sessions : now[s] = lv[s] OBVIOUS
  <2>3. r.arg \subseteq Sessions BY RecordType
  <2> SUFFICES ASSUME r.op = "kill" PROVE Caught(r, was, more, now, jn) BY DEF Caught
  <2>4. \A s \in DOMAIN r.plan \ more : r.plan[s] = was[s] BY <2>1 DEF Caught
  <2>5. \A e \in jn : e.id = r.ev /\ e.target \notin more => e.wins = was[e.target]
    BY <1>3, <2>1 DEF Caught
  <2>6. ASSUME more = {}
        PROVE  /\ r.pc = "windows" =>
                    \A s \in Sessions : /\ s \in r.todo => now[s] # Gone
                                        /\ now[s] # Gone => s \in r.todo \cup DOMAIN r.plan
               /\ r.pc = "kill" => r.ev # 0 \/ r.err \/ \A s \in r.arg : now[s] = Gone
               /\ r.pc = "done" => r.ev # 0 \/ r.err
    BY <2>1, <2>2, <2>3, <2>6 DEF Caught
  <2> QED BY <2>4, <2>5, <2>6 DEF Caught
<1>5. Recalled(r, jn)
  <2>1. Recalled(r, jl) BY DEF Sound
  <2> QED BY <1>3, <2>1 DEF Recalled
<1> QED BY <1>1, <1>2, <1>4, <1>5 DEF Sound

(***************************************************************************)
(* From one session of the plan to the next                                *)
(***************************************************************************)

(* A command that is dealing with its plan.                                *)
Midway(st, jl) ==
    /\ st.op \in Planners /\ st.todo \subseteq DOMAIN st.plan
    /\ st.op = "new" => \E s \in Sessions : st.arg = {s}
    /\ st.op = "undo" => \A e \in jl : e.id = st.ev => st.plan = Only(e.target, e.wins)

(* Between two sessions; between two windows of the session cur.           *)
ItemOver(st, was, hands, lv, jl) ==
    Midway(st, jl) /\ \A s \in Sessions \ hands : Treated(st, was, lv, s)

WindowOver(st, was, hands, lv, jl) ==
    /\ Midway(st, jl) /\ st.cur \in DOMAIN st.plan \ st.todo
    /\ \A s \in Sessions \ hands :
           IF s = st.cur THEN ~Doomed(st) => lv[s] \o st.want = Result(st, was, s)
           ELSE Treated(st, was, lv, s)

LEMMA MidwayOf ==
    ASSUME NEW r \in Records, NEW was, NEW hands, NEW lv, NEW jl,
           Sound(r, was, hands, lv, jl), r.pc \in {"has"} \cup ItemSteps
    PROVE  Midway(r, jl)
<1>1. Placed(r) /\ Recalled(r, jl) BY DEF Sound
<1> QED BY <1>1 DEF Placed, Recalled, Midway

LEMMA FailedSound ==
    ASSUME NEW r \in Records, NEW was, NEW hands, NEW lv, NEW now, NEW jl,
           Sound(r, was, hands, lv, jl)
    PROVE  LET st == [r EXCEPT !.pc = "failed"] IN
           st \in Records /\ Sound(st, was, hands, now, jl)
<1> DEFINE st == [r EXCEPT !.pc = "failed"]
<1>0. "failed" \in Steps BY DEF Steps
<1>1. /\ st \in Records /\ st.pc = "failed" /\ st.op = r.op /\ st.arg = r.arg
      /\ st.plan = r.plan /\ st.ev = r.ev
  BY <1>0, StepOnly
<1> HIDE DEF st
<1>2. Placed(st) BY <1>1 DEF Sound, Placed, ItemSteps
<1>3. Kept(st, was, hands, now) BY <1>1 DEF Kept, Early, ItemSteps
<1>4. Caught(st, was, hands, now, jl) BY <1>1 DEF Sound, Caught
<1>5. Recalled(st, jl) BY <1>1 DEF Recalled, ItemSteps
<1> QED BY <1>1, <1>2, <1>3, <1>4, <1>5 DEF Sound, st

LEMMA SameTreated ==
    ASSUME NEW r, NEW st, NEW was, NEW lv, NEW s,
           st.op = r.op, st.arg = r.arg, st.plan = r.plan, st.todo = r.todo,
           Doomed(r) => Doomed(st), Treated(r, was, lv, s)
    PROVE  Treated(st, was, lv, s)
BY SameResult DEF Treated

(* The next session, or the end: all are as they shall be, unless init has *)
(* noted an error.                                                         *)
LEMMA NextItemSound ==
    ASSUME NEW st \in Records, NEW was, NEW hands, NEW lv, NEW jl,
           ItemOver(st, was, hands, lv, jl)
    PROVE  LET x == [st EXCEPT !.pc = AfterItem(st)] IN
           x \in Records /\ Sound(x, was, hands, lv, jl)
<1> DEFINE x == [st EXCEPT !.pc = AfterItem(st)]
<1>1. /\ AfterItem(st) \in {"has", "forget", "failed", "done"}
      /\ AfterItem(st) = "forget" => st.op = "undo" /\ st.todo = {}
      /\ AfterItem(st) = "done" => st.todo = {} /\ ~st.err
  BY DEF AfterItem
<1>2. AfterItem(st) \in Steps BY <1>1 DEF Steps
<1>3. /\ x \in Records /\ x.pc = AfterItem(st) /\ x.op = st.op /\ x.arg = st.arg
      /\ x.plan = st.plan /\ x.todo = st.todo /\ x.ev = st.ev /\ x.err = st.err
  BY <1>2, StepOnly
<1> HIDE DEF x
<1>4. x.pc \in {"has", "forget", "failed", "done"} BY <1>1, <1>3
<1>5. Midway(st, jl) /\ x.op \in Planners /\ x.todo \subseteq DOMAIN x.plan
  BY <1>3 DEF ItemOver, Midway
<1>6. Placed(x) BY <1>1, <1>3, <1>4, <1>5 DEF Placed, ItemSteps, Planners, Midway
<1>7. Kept(x, was, hands, lv)
  <2> SUFFICES ASSUME NEW s \in Sessions \ hands
               PROVE  /\ x.pc \in {"has", "forget"} => Treated(x, was, lv, s)
                      /\ x.pc = "done" => lv[s] = Result(x, was, s)
    BY <1>4 DEF Kept, Early, ItemSteps
  <2>1. Treated(x, was, lv, s)
    <3>1. Treated(st, was, lv, s) BY DEF ItemOver
    <3>2. Doomed(st) => Doomed(x) BY <1>3 DEF Doomed
    <3> QED BY <1>3, <3>1, <3>2, SameTreated
  <2>2. x.pc = "done" => ~Doomed(x) /\ s \notin x.todo BY <1>1, <1>3 DEF Doomed
  <2> QED BY <2>1, <2>2 DEF Treated
<1>8. Caught(x, was, hands, lv, jl) BY <1>5 DEF Caught, Planners
<1>9. Recalled(x, jl) BY <1>3, <1>5 DEF Recalled, Midway
<1> QED BY <1>3, <1>6, <1>7, <1>8, <1>9 DEF Sound, x

(* The next window, or the next session.                                   *)
LEMMA AfterWindowSound ==
    ASSUME NEW p, NEW st \in Records, NEW was, NEW hands, NEW lv \in [Sessions -> Windows],
           NEW jl, WindowOver(st, was, hands, lv, jl), AfterWindow(p, st)
    PROVE  \E x \in Records : Become(p, x) /\ Sound(x, was, hands, lv, jl)
<1>1. CASE st.want = << >>
  <2>1. ASSUME NEW s \in Sessions \ hands PROVE Treated(st, was, lv, s)
    <3>1. CASE s = st.cur
      <4>1. lv[s] \o << >> = lv[s] BY DEF Windows
      <4>2. s \notin st.todo BY <3>1 DEF WindowOver
      <4>3. ~Doomed(st) => lv[s] \o st.want = Result(st, was, s) BY <3>1 DEF WindowOver
      <4> QED BY <1>1, <4>1, <4>2, <4>3 DEF Treated
    <3>2. CASE s # st.cur BY <3>2 DEF WindowOver
    <3> QED BY <3>1, <3>2
  <2>2. ItemOver(st, was, hands, lv, jl) BY <2>1 DEF ItemOver, WindowOver
  <2>3. Become(p, [st EXCEPT !.pc = AfterItem(st)]) BY <1>1 DEF AfterWindow, NextItem
  <2> QED BY <2>2, <2>3, NextItemSound
<1>2. CASE st.want # << >>
  <2> DEFINE x == [st EXCEPT !.pc = "window"]
  <2>0. "window" \in Steps BY DEF Steps
  <2>1. /\ x \in Records /\ x.pc = "window" /\ x.op = st.op /\ x.arg = st.arg
        /\ x.plan = st.plan /\ x.todo = st.todo /\ x.ev = st.ev /\ x.err = st.err
        /\ x.cur = st.cur /\ x.want = st.want
    BY <2>0, StepOnly
  <2>2. Become(p, x) BY <1>2 DEF AfterWindow
  <2> HIDE DEF x
  <2>3. Midway(st, jl) /\ x.op \in Planners /\ x.todo \subseteq DOMAIN x.plan
        /\ x.cur \in DOMAIN x.plan \ x.todo
    BY <2>1 DEF WindowOver, Midway
  <2>4. Placed(x) BY <1>2, <2>1, <2>3 DEF Placed, ItemSteps, Planners, Midway
  <2>5. ASSUME NEW s \in Sessions \ hands
        PROVE  IF s = x.cur THEN Underway(x, was, lv, s) ELSE Treated(x, was, lv, s)
    <3>1. Result(x, was, s) = Result(st, was, s) BY <2>1, SameResult
    <3>2. Doomed(x) <=> Doomed(st) BY <2>1 DEF Doomed
    <3>3. CASE s = x.cur
      <4>1. ~Doomed(st) => lv[s] \o st.want = Result(st, was, s)
        BY <2>1, <3>3 DEF WindowOver
      <4> QED BY <2>1, <3>1, <3>2, <3>3, <4>1 DEF Underway
    <3>4. CASE s # x.cur
      <4>1. Treated(st, was, lv, s) BY <2>1, <3>4 DEF WindowOver
      <4> QED BY <2>1, <3>2, <3>4, <4>1, SameTreated
    <3> QED BY <3>3, <3>4
  <2>6. Kept(x, was, hands, lv) BY <2>1, <2>5 DEF Kept, Early, ItemSteps
  <2>7. Caught(x, was, hands, lv, jl) BY <2>3 DEF Caught, Planners
  <2>8. Recalled(x, jl) BY <2>1, <2>3 DEF Recalled, Midway
  <2> QED BY <2>1, <2>2, <2>4, <2>6, <2>7, <2>8 DEF Sound
<1> QED BY <1>1, <1>2

(* A window was made, the last the session has: on to its layout or past it.*)
LEMMA MadeSound ==
    ASSUME NEW p, proc[p] \in Records, NEW was, NEW hands,
           NEW lv \in [Sessions -> Windows], NEW jl,
           NEW name \in Labels, NEW index \in Nat, NEW rest \in Windows,
           Midway(proc[p], jl), Cur(p) \in DOMAIN Plan(p) \ proc[p].todo,
           \A s \in Sessions \ hands :
               IF s = Cur(p)
               THEN ~Doomed(proc[p]) =>
                        /\ lv[s] \o rest = Result(proc[p], was, s)
                        /\ lv[s] # Gone /\ index = Len(lv[s]) /\ name = lv[s][Len(lv[s])]
               ELSE Treated(proc[p], was, lv, s),
           Made(p, name, index, rest)
    PROVE  \E x \in Records : Become(p, x) /\ Sound(x, was, hands, lv, jl)
<1> DEFINE r == proc[p]
           st == [r EXCEPT !.name = name, !.at = index, !.want = rest]
<1>1. /\ st \in Records /\ st.op = r.op /\ st.arg = r.arg /\ st.plan = r.plan
      /\ st.todo = r.todo /\ st.ev = r.ev /\ st.err = r.err /\ st.cur = r.cur
      /\ st.name = name /\ st.at = index /\ st.want = rest /\ r \in Records
  BY DEF Records
<1>2. IF Creates(p) THEN Become(p, [st EXCEPT !.pc = "layout"]) ELSE AfterWindow(p, st)
  BY DEF Made
<1>3. /\ Midway(r, jl) /\ r.cur \in DOMAIN r.plan \ r.todo
      /\ \A s \in Sessions \ hands :
             IF s = r.cur
             THEN ~Doomed(r) =>
                      /\ lv[s] \o rest = Result(r, was, s)
                      /\ lv[s] # Gone /\ index = Len(lv[s]) /\ name = lv[s][Len(lv[s])]
             ELSE Treated(r, was, lv, s)
  BY DEF Cur, Plan
<1> HIDE DEF r, st
<1>4. Midway(st, jl) BY <1>1, <1>3 DEF Midway
<1>5. Doomed(st) <=> Doomed(r) BY <1>1 DEF Doomed
<1>6. ASSUME NEW s \in Sessions \ hands, s # st.cur PROVE Treated(st, was, lv, s)
  <2>1. Treated(r, was, lv, s) BY <1>1, <1>3, <1>6
  <2> QED BY <1>1, <1>5, <2>1, SameTreated
<1>7. ASSUME NEW s \in Sessions \ hands, s = st.cur, ~Doomed(st)
      PROVE  /\ lv[s] \o rest = Result(st, was, s)
             /\ lv[s] # Gone /\ index = Len(lv[s]) /\ name = lv[s][Len(lv[s])]
  <2>1. Result(st, was, s) = Result(r, was, s) BY <1>1, SameResult
  <2> QED BY <1>1, <1>3, <1>5, <1>7, <2>1
<1>8. CASE ~Creates(p)
  <2>1. WindowOver(st, was, hands, lv, jl)
    BY <1>1, <1>3, <1>4, <1>6, <1>7 DEF WindowOver
  <2> QED BY <1>1, <1>2, <1>8, <2>1, AfterWindowSound
<1>9. CASE Creates(p)
  <2> DEFINE x == [st EXCEPT !.pc = "layout"]
  <2>0. "layout" \in Steps BY DEF Steps
  <2>1. /\ x \in Records /\ x.pc = "layout" /\ x.op = st.op /\ x.arg = st.arg
        /\ x.plan = st.plan /\ x.todo = st.todo /\ x.ev = st.ev /\ x.err = st.err
        /\ x.cur = st.cur /\ x.want = st.want /\ x.name = st.name /\ x.at = st.at
    BY <1>1, <2>0, StepOnly
  <2>2. Become(p, x) BY <1>2, <1>9
  <2> HIDE DEF x
  <2>3. x.op \in Planners /\ x.todo \subseteq DOMAIN x.plan /\ x.cur \in DOMAIN x.plan \ x.todo
    BY <1>1, <1>3, <1>4, <2>1 DEF Midway
  <2>4. Placed(x) BY <1>4, <2>1, <2>3 DEF Placed, ItemSteps, Planners, Midway
  <2>5. Doomed(x) <=> Doomed(st) BY <2>1 DEF Doomed
  <2>6. ASSUME NEW s \in Sessions \ hands, s # x.cur PROVE Treated(x, was, lv, s)
    <3>1. Treated(st, was, lv, s) BY <1>6, <2>1, <2>6
    <3> QED BY <2>1, <2>5, <3>1, SameTreated
  <2>7. ASSUME NEW s \in Sessions \ hands, s = x.cur PROVE Underway(x, was, lv, s)
    <3>1. Result(x, was, s) = Result(st, was, s) BY <2>1, SameResult
    <3> QED BY <1>1, <1>7, <2>1, <2>5, <2>7, <3>1 DEF Underway
  <2>8. Kept(x, was, hands, lv) BY <2>1, <2>6, <2>7 DEF Kept, Early, ItemSteps
  <2>9. Caught(x, was, hands, lv, jl) BY <2>3 DEF Caught, Planners
  <2>10. Recalled(x, jl) BY <1>4, <2>1 DEF Recalled, Midway
  <2> QED BY <2>1, <2>2, <2>4, <2>8, <2>9, <2>10 DEF Sound
<1> QED BY <1>8, <1>9

(* A session could not be made: init goes on, to fail in the end.          *)
LEMMA ItemFailedSound ==
    ASSUME NEW p, proc[p] \in Records, NEW was, NEW hands, NEW lv, NEW now, NEW jl,
           Sound(proc[p], was, hands, lv, jl), proc[p].pc \in ItemSteps, ItemFailed(p)
    PROVE  \E x \in Records : Become(p, x) /\ Sound(x, was, hands, now, jl)
<1> DEFINE r == proc[p]
           st == [r EXCEPT !.err = TRUE]
<1>1. CASE Op(p) # "init"
  <2>1. Become(p, [r EXCEPT !.pc = "failed"]) BY <1>1 DEF ItemFailed, Goto
  <2> QED BY <2>1, FailedSound
<1>2. CASE Op(p) = "init"
  <2>1. /\ st \in Records /\ st.op = r.op /\ st.arg = r.arg /\ st.plan = r.plan
        /\ st.todo = r.todo /\ st.ev = r.ev /\ st.err
    BY DEF Records
  <2>2. Become(p, [st EXCEPT !.pc = AfterItem(st)]) BY <1>2 DEF ItemFailed, NextItem
  <2>3. Midway(r, jl) BY MidwayOf
  <2>4. Midway(st, jl) BY <2>1, <2>3 DEF Midway
  <2>5. Doomed(st) BY <1>2, <2>1 DEF Doomed, Op
  <2>6. ItemOver(st, was, hands, now, jl) BY <2>4, <2>5 DEF ItemOver, Treated
  <2> HIDE DEF st
  <2> QED BY <2>1, <2>2, <2>6, NextItemSound
<1> QED BY <1>1, <1>2

(***************************************************************************)
(* The steps                                                               *)
(***************************************************************************)

(* What each step of a process leaves behind: sessions and tables of their *)
(* types, no id used again, and the process sound in its next state.       *)
DbTyped ==
    /\ lastId' \in Nat /\ lastId <= lastId'
    /\ journal' \subseteq Events' /\ \A e, f \in journal' : e.id = f.id => e = f
    /\ \A e \in journal' : e \in journal \/ e.id > lastId
    /\ saved' = None \/ saved' \in Payloads

StepSound(p) ==
    /\ live' \in [Sessions -> Windows] /\ DbTyped
    /\ \E x \in Records' :
           Become(p, x) /\ Sound(x, start[p], touched[p], live', journal')

LEMMA Here ==
    ASSUME IInv, NEW p \in Procs
    PROVE  /\ proc[p] \in Records /\ start[p] \in [Sessions -> Windows]
           /\ touched[p] \in SUBSET Sessions /\ live \in [Sessions -> Windows]
           /\ Sound(proc[p], start[p], touched[p], live, journal)
BY DEF IInv, FieldsTyped, AllSound

LEMMA DbUnchanged ==
    ASSUME IInv, UnchangedDb
    PROVE  DbTyped /\ Records' = Records /\ journal' = journal
<1>1. lastId' = lastId /\ journal' = journal /\ saved' = saved BY DEF UnchangedDb
<1>2. Records' = Records /\ Events' = Events
  BY <1>1 DEF Records, Events, Payloads, Windows, Labels
<1>3. Payloads' = Payloads BY DEF Payloads, Windows, Labels
<1> QED BY <1>1, <1>2, <1>3 DEF IInv, FieldsTyped, DbTyped

(* A step that leaves the tables alone.                                    *)
LEMMA StepSoundOf ==
    ASSUME IInv, NEW p, UnchangedDb, live' \in [Sessions -> Windows],
           \E x \in Records : Become(p, x) /\ Sound(x, start[p], touched[p], live', journal)
    PROVE  StepSound(p)
BY DbUnchanged DEF StepSound

(* ... and the sessions.                                                   *)
LEMMA StepSoundAlone ==
    ASSUME IInv, NEW p, UnchangedDb, UnchangedTmux,
           \E x \in Records : Become(p, x) /\ Sound(x, start[p], touched[p], live, journal)
    PROVE  StepSound(p)
<1>1. live' = live /\ live \in [Sessions -> Windows]
  BY DEF UnchangedTmux, IInv, FieldsTyped
<1> QED BY <1>1, StepSoundOf

LEMMA AbortStep ==
    ASSUME IInv, NEW p \in Procs, Goto(p, "failed"), UnchangedTmux, UnchangedDb
    PROVE  StepSound(p)
<1>1. Become(p, [proc[p] EXCEPT !.pc = "failed"]) BY DEF Goto
<1> QED BY <1>1, Here, FailedSound, StepSoundAlone

LEMMA SameSaved ==
    ASSUME NEW s \in Sessions
    PROVE  /\ live \in [Sessions -> Windows] => live[s] \in Windows
           /\ Gone \in Windows /\ << Shell >> \in Windows
BY DEF Gone, Windows, Labels

LEMMA ListSessionsStep ==
    ASSUME IInv, NEW p \in Procs, ListSessions(p)
    PROVE  StepSound(p)
<1> DEFINE r == proc[p]
           found == { s \in Sessions : Exists(s) }
           all == [r EXCEPT !.pc = "each", !.todo = found \cap r.arg]
           next == IF found = {} THEN AfterCapture(p, NoPlan) ELSE "windows"
           st == [r EXCEPT !.todo = found, !.pc = next]
<1>1. /\ r \in Records /\ r.pc = "sessions" /\ Placed(r)
      /\ Kept(r, start[p], touched[p], live)
      /\ Caught(r, start[p], touched[p], live, journal)
  BY Here DEF ListSessions, At, Sound
<1>2. UnchangedTmux /\ UnchangedDb BY DEF ListSessions
<1>3. r.op \in {"kill", "killall", "save"} BY <1>1 DEF Placed
<1>4. \A s \in Sessions : Exists(s) <=> live[s] # Gone BY DEF Exists
<1>5. \A s \in Sessions \ touched[p] : live[s] = start[p][s]
  BY <1>1 DEF Kept, Early
<1>6. CASE r.op = "killall"
  <2>1. Become(p, all) BY <1>6 DEF ListSessions, Op
  <2>2. /\ all \in Records /\ all.pc = "each" /\ all.op = "killall" /\ all.arg = r.arg
        /\ all.todo = found \cap r.arg
    BY <1>1, <1>6 DEF Records, Steps
  <2>3. r.arg \subseteq Sessions BY <1>1, RecordType
  <2> HIDE DEF all, found
  <2>4. Placed(all) BY <2>2 DEF Placed, ItemSteps
  <2>5. Kept(all, start[p], touched[p], live)
    <3>1. \A s \in Sessions : s \in all.arg \ all.todo => live[s] = Gone
      BY <1>4, <2>2 DEF found
    <3> QED BY <1>5, <2>2, <3>1 DEF Kept, Early, ItemSteps
  <2>6. Caught(all, start[p], touched[p], live, journal) /\ Recalled(all, journal)
    BY <2>2 DEF Caught, Recalled
  <2> QED BY <1>2, <2>1, <2>2, <2>4, <2>5, <2>6, StepSoundAlone DEF Sound
<1>7. CASE r.op # "killall"
  <2>1. Become(p, st) BY <1>7 DEF ListSessions, Op
  <2>2. /\ next \in {"windows", "store", "journal", "kill"}
        /\ next \in {"windows", "journal", "kill"} \/ r.op = "save"
        /\ next \in {"windows", "store"} \/ r.op = "kill"
        /\ next = "journal" => r.arg \subseteq DOMAIN NoPlan
        /\ next = "kill" => found = {}
        /\ next # "windows" => found = {}
    BY <1>3, <1>7 DEF AfterCapture, Op
  <2>3. /\ st \in Records /\ st.pc = next /\ st.op = r.op /\ st.arg = r.arg
        /\ st.todo = found /\ st.plan = r.plan /\ st.ev = r.ev /\ st.err = r.err
    BY <1>1, <2>2 DEF Records, Steps
  <2> HIDE DEF st, next
  <2>4. r.op = "kill" => \E s \in Sessions : r.arg = {s} BY <1>1 DEF Placed
  <2>5. next # "journal" BY <2>2, <2>4, NoPlanType, <1>3, <1>7
  <2>6. Placed(st) BY <1>3, <1>7, <2>2, <2>3, <2>4, <2>5 DEF Placed, ItemSteps
  <2>7. Kept(st, start[p], touched[p], live)
    BY <1>5, <2>2, <2>3 DEF Kept, Early, ItemSteps
  <2>8. Caught(st, start[p], touched[p], live, journal)
    <3>1. \A s \in Sessions : live[s] # Gone <=> s \in found BY <1>4
    <3>2. r.arg \subseteq Sessions BY <1>1, RecordType
    <3> HIDE DEF found
    <3> QED BY <1>1, <2>2, <2>3, <3>1, <3>2 DEF Caught
  <2>9. Recalled(st, journal) BY <2>2, <2>3 DEF Recalled, ItemSteps
  <2> QED BY <1>2, <2>1, <2>3, <2>6, <2>7, <2>8, <2>9, StepSoundAlone DEF Sound
<1> QED BY <1>6, <1>7

LEMMA ListWindowsStep ==
    ASSUME IInv, NEW p \in Procs, ListWindows(p)
    PROVE  StepSound(p)
<1> DEFINE r == proc[p]
<1>1. /\ r \in Records /\ r.pc = "windows" /\ Placed(r)
      /\ Kept(r, start[p], touched[p], live)
      /\ Caught(r, start[p], touched[p], live, journal)
      /\ Sound(r, start[p], touched[p], live, journal)
  BY Here DEF ListWindows, At, Sound
<1>2. UnchangedTmux /\ UnchangedDb BY DEF ListWindows
<1>3. r.op \in {"kill", "save"} /\ (r.op = "kill" => \E s \in Sessions : r.arg = {s})
  BY <1>1 DEF Placed
<1>4. \A s \in Sessions : Exists(s) <=> live[s] # Gone BY DEF Exists
<1>5. \A s \in Sessions \ touched[p] : live[s] = start[p][s]
  BY <1>1 DEF Kept, Early
<1>6. r.todo \subseteq Sessions /\ r.plan \in Payloads /\ r.arg \subseteq Sessions
  BY <1>1, RecordType
<1>7. PICK s \in r.todo :
         LET plan == With(Plan(p), s, live[s])
             todo == r.todo \ {s}
         IN \/ Become(p, [r EXCEPT !.plan = plan, !.todo = todo,
                          !.pc = IF todo = {} THEN AfterCapture(p, plan) ELSE "windows"])
            \/ /\ ~Exists(s)
               /\ Goto(p, IF Op(p) = "save" THEN "failed" ELSE "kill")
  BY DEF ListWindows
<1> DEFINE plan == With(Plan(p), s, live[s])
           todo == r.todo \ {s}
           next == IF todo = {} THEN AfterCapture(p, plan) ELSE "windows"
           st == [r EXCEPT !.plan = plan, !.todo = todo, !.pc = next]
<1>8. CASE Become(p, st)
  <2>1. s \in Sessions /\ live[s] \in Windows BY <1>6, Here
  <2>2. /\ plan \in Payloads /\ DOMAIN plan = DOMAIN r.plan \cup {s}
        /\ \A t \in DOMAIN plan : plan[t] = IF t = s THEN live[s] ELSE r.plan[t]
    <3>1. plan = With(r.plan, s, live[s]) BY DEF Plan
    <3> DEFINE f == r.plan
               wins == live[s]
    <3>2. f \in Payloads /\ s \in Sessions /\ wins \in Windows /\ plan = With(f, s, wins)
      BY <1>6, <2>1, <3>1
    <3> HIDE DEF plan, f, wins
    <3>3. /\ plan \in Payloads /\ DOMAIN plan = DOMAIN f \cup {s}
          /\ \A t \in DOMAIN plan : plan[t] = IF t = s THEN wins ELSE f[t]
      BY <3>2, WithType
    <3> QED BY <3>3 DEF f, wins
  <2>3. /\ next \in {"windows", "store", "journal", "kill"}
        /\ next = "store" => r.op = "save"
        /\ next = "journal" => r.op = "kill" /\ r.arg \subseteq DOMAIN plan
        /\ next = "kill" => r.op = "kill" /\ todo = {} /\ ~(r.arg \subseteq DOMAIN plan)
    BY <1>3 DEF AfterCapture, Op
  <2>4. todo \subseteq Sessions /\ todo = r.todo \ {s} BY <1>6
  <2> HIDE DEF plan, todo, next
  <2>5. /\ st \in Records /\ st.pc = next /\ st.op = r.op /\ st.arg = r.arg
        /\ st.todo = todo /\ st.plan = plan /\ st.ev = r.ev /\ st.err = r.err
    BY <1>1, <2>2, <2>3, <2>4 DEF Records, Steps
  <2> HIDE DEF st
  <2>6. Placed(st) BY <1>3, <2>3, <2>5 DEF Placed, ItemSteps
  <2>7. Kept(st, start[p], touched[p], live)
    BY <1>5, <2>3, <2>5 DEF Kept, Early, ItemSteps
  <2>8. Caught(st, start[p], touched[p], live, journal)
    <3> SUFFICES ASSUME r.op = "kill" PROVE Caught(st, start[p], touched[p], live, journal)
      BY <2>5 DEF Caught
    <3>1. PICK t \in Sessions : r.arg = {t} BY <1>3
    <3>2. \A u \in DOMAIN plan \ touched[p] : plan[u] = start[p][u]
      BY <1>1, <1>5, <2>1, <2>2 DEF Caught
    <3>3. ASSUME touched[p] = {}
          PROVE  \A u \in Sessions : /\ u \in todo => live[u] # Gone
                                     /\ live[u] # Gone => u \in todo \cup DOMAIN plan
      BY <1>1, <2>2, <2>4, <3>3 DEF Caught
    <3>4. touched[p] = {} /\ next = "kill" => live[t] = Gone
      BY <2>3, <3>1, <3>3
    <3>5. \A e \in journal : e.id = r.ev /\ e.target \notin touched[p] => e.wins = start[p][e.target]
      BY <1>1 DEF Caught
    <3> QED BY <2>3, <2>5, <3>1, <3>2, <3>3, <3>4, <3>5 DEF Caught
  <2>9. Recalled(st, journal) BY <2>3, <2>5 DEF Recalled, ItemSteps
  <2> QED BY <1>2, <1>8, <2>5, <2>6, <2>7, <2>8, <2>9, StepSoundAlone DEF Sound
<1>9. CASE ~Exists(s) /\ Goto(p, IF Op(p) = "save" THEN "failed" ELSE "kill")
  <2>1. CASE r.op = "save" BY <1>2, <1>9, <2>1, AbortStep DEF Op
  <2>2. CASE r.op = "kill"
    <3> DEFINE x == [r EXCEPT !.pc = "kill"]
    <3>1. Become(p, x) BY <1>9, <2>2 DEF Op, Goto
    <3>2. "kill" \in Steps BY DEF Steps
    <3>3. /\ x \in Records /\ x.pc = "kill" /\ x.op = r.op /\ x.arg = r.arg
          /\ x.todo = r.todo /\ x.plan = r.plan /\ x.ev = r.ev /\ x.err = r.err
      BY <1>1, <3>2, StepOnly
    <3> HIDE DEF x
    <3>4. Placed(x) BY <1>3, <2>2, <3>3 DEF Placed, ItemSteps
    <3>5. Kept(x, start[p], touched[p], live) BY <1>5, <3>3 DEF Kept, Early, ItemSteps
    <3>6. touched[p] # {} BY <1>1, <1>4, <1>6, <1>9, <2>2 DEF Caught
    <3>7. Caught(x, start[p], touched[p], live, journal) BY <1>1, <3>3, <3>6 DEF Caught
    <3>8. Recalled(x, journal) BY <2>2, <3>3 DEF Recalled
    <3> QED BY <1>2, <3>1, <3>3, <3>4, <3>5, <3>7, <3>8, StepSoundAlone DEF Sound
  <2> QED BY <1>3, <2>1, <2>2
<1> QED BY <1>7, <1>8, <1>9

LEMMA KillSessionStep ==
    ASSUME IInv, NEW p \in Procs, KillSession(p)
    PROVE  StepSound(p)
<1> DEFINE r == proc[p]
<1>1. /\ r \in Records /\ r.pc = "kill" /\ Placed(r)
      /\ Kept(r, start[p], touched[p], live)
      /\ Caught(r, start[p], touched[p], live, journal)
  BY Here DEF KillSession, At, Sound
<1>2. UnchangedDb BY DEF KillSession
<1>3. r.op = "kill" /\ \E s \in Sessions : r.arg = {s} BY <1>1 DEF Placed
<1>4. PICK s \in Sessions :
        /\ r.arg = {s}
        /\ \/ Exists(s) /\ live' = [live EXCEPT ![s] = Gone] /\ Goto(p, "done")
           \/ Goto(p, "failed") /\ UnchangedTmux
  BY <1>3 DEF KillSession
<1>5. CASE Goto(p, "failed") /\ UnchangedTmux BY <1>2, <1>5, AbortStep
<1>6. CASE Exists(s) /\ live' = [live EXCEPT ![s] = Gone] /\ Goto(p, "done")
  <2> DEFINE x == [r EXCEPT !.pc = "done"]
  <2>1. Become(p, x) BY <1>6 DEF Goto
  <2>2. "done" \in Steps BY DEF Steps
  <2>3. /\ x \in Records /\ x.pc = "done" /\ x.op = r.op /\ x.arg = r.arg
        /\ x.todo = r.todo /\ x.plan = r.plan /\ x.ev = r.ev /\ x.err = r.err
    BY <1>1, <2>2, StepOnly
  <2> HIDE DEF x
  <2>4. live \in [Sessions -> Windows] /\ live' \in [Sessions -> Windows]
    BY <1>6, Here, SameSaved
  <2>5. Placed(x) BY <1>3, <2>3 DEF Placed, ItemSteps
  <2>6. Kept(x, start[p], touched[p], live')
    <3> SUFFICES ASSUME NEW t \in Sessions \ touched[p]
                 PROVE  live'[t] = Result(x, start[p], t)
      BY <2>3 DEF Kept, Early, ItemSteps
    <3>1. live[t] = start[p][t] BY <1>1 DEF Kept, Early
    <3> QED BY <1>3, <1>4, <1>6, <2>3, <2>4, <3>1 DEF Result
  <2>7. Caught(x, start[p], touched[p], live', journal)
    <3>1. live[s] # Gone BY <1>6 DEF Exists
    <3> QED BY <1>1, <1>3, <1>4, <2>3, <3>1 DEF Caught
  <2>8. Recalled(x, journal) BY <1>3, <2>3 DEF Recalled
  <2> QED BY <1>2, <2>1, <2>3, <2>4, <2>5, <2>6, <2>7, <2>8, StepSoundOf DEF Sound
<1> QED BY <1>4, <1>5, <1>6

LEMMA KillMatchingStep ==
    ASSUME IInv, NEW p \in Procs, KillMatching(p)
    PROVE  StepSound(p)
<1> DEFINE r == proc[p]
<1>1. /\ r \in Records /\ r.pc = "each" /\ Placed(r)
      /\ Kept(r, start[p], touched[p], live)
  BY Here DEF KillMatching, At, Sound
<1>2. UnchangedDb BY DEF KillMatching
<1>3. r.op = "killall" /\ r.todo \subseteq r.arg BY <1>1 DEF Placed
<1>4. \A t \in Sessions \ touched[p] :
          live[t] = IF t \in r.arg \ r.todo THEN Gone ELSE start[p][t]
  BY <1>1 DEF Kept
<1>5. CASE /\ r.todo = {} /\ UnchangedTmux
           /\ Goto(p, IF r.err THEN "failed" ELSE "done")
  <2>1. CASE r.err BY <1>2, <1>5, <2>1, AbortStep
  <2>2. CASE ~r.err
    <3> DEFINE x == [r EXCEPT !.pc = "done"]
    <3>1. Become(p, x) BY <1>5, <2>2 DEF Goto
    <3>2. "done" \in Steps BY DEF Steps
    <3>3. /\ x \in Records /\ x.pc = "done" /\ x.op = r.op /\ x.arg = r.arg
          /\ x.todo = r.todo /\ x.plan = r.plan /\ x.ev = r.ev /\ x.err = r.err
      BY <1>1, <3>2, StepOnly
    <3> HIDE DEF x
    <3>4. Placed(x) BY <1>3, <3>3 DEF Placed, ItemSteps
    <3>5. Kept(x, start[p], touched[p], live)
      BY <1>3, <1>4, <1>5, <3>3 DEF Kept, Early, ItemSteps, Result
    <3>6. Caught(x, start[p], touched[p], live, journal) /\ Recalled(x, journal)
      BY <1>3, <3>3 DEF Caught, Recalled
    <3> QED BY <1>2, <1>5, <3>1, <3>3, <3>4, <3>5, <3>6, StepSoundAlone DEF Sound
  <2> QED BY <2>1, <2>2
<1>6. ASSUME NEW s \in r.todo, live' = [live EXCEPT ![s] = Gone],
             Become(p, [r EXCEPT !.todo = @ \ {s}, !.err = @ \/ ~Exists(s)])
      PROVE  StepSound(p)
  <2> DEFINE x == [r EXCEPT !.todo = @ \ {s}, !.err = @ \/ ~Exists(s)]
  <2>1. (r.err \/ ~Exists(s)) \in BOOLEAN BY <1>1, RecordType, Zenon DEF Exists
  <2>2. r.todo \subseteq Sessions BY <1>1, RecordType
  <2>3. /\ x \in Records /\ x.pc = "each" /\ x.op = "killall" /\ x.arg = r.arg
        /\ x.todo = r.todo \ {s}
    BY <1>1, <1>3, <2>1, <2>2 DEF Records
  <2> HIDE DEF x
  <2>4. live \in [Sessions -> Windows] /\ live' \in [Sessions -> Windows]
    BY <1>6, Here, SameSaved
  <2>5. Placed(x) BY <1>3, <2>3 DEF Placed, ItemSteps
  <2>6. Kept(x, start[p], touched[p], live')
    <3> SUFFICES ASSUME NEW t \in Sessions \ touched[p]
                 PROVE  live'[t] = IF t \in x.arg \ x.todo THEN Gone ELSE start[p][t]
      BY <2>3 DEF Kept, Early, ItemSteps
    <3> QED BY <1>3, <1>4, <1>6, <2>2, <2>3, <2>4
  <2>7. Caught(x, start[p], touched[p], live', journal) /\ Recalled(x, journal)
    BY <2>3 DEF Caught, Recalled
  <2>8. Become(p, x) BY <1>6 DEF x
  <2> QED BY <1>2, <2>3, <2>4, <2>5, <2>6, <2>7, <2>8, StepSoundOf DEF Sound
<1> QED BY <1>5, <1>6 DEF KillMatching

LEMMA RecordsGrow ==
    ASSUME lastId \in Nat, lastId' \in Nat, lastId <= lastId'
    PROVE  /\ Events \subseteq Events'
           /\ \A r \in Records : r \in Records'
           /\ \A r \in Records, id \in 0 .. lastId' : [r EXCEPT !.ev = id] \in Records'
BY DEF Events, Records, Payloads, Windows, Labels

(* A row more: its id is greater than all there were.                      *)
LEMMA RecordTyped ==
    ASSUME IInv, NEW kind \in {"kill_session", "scratch_ttl"}, NEW target \in Sessions,
           NEW wins \in Windows, Record(kind, target, wins)
    PROVE  /\ DbTyped /\ lastId' = lastId + 1
           /\ \A e \in journal' : e \in journal \/ e = Event(lastId + 1, kind, target, wins)
<1> DEFINE new == Event(lastId + 1, kind, target, wins)
<1>1. lastId \in Nat /\ lastId' = lastId + 1 /\ journal \subseteq Events
  BY DEF IInv, FieldsTyped, Record
<1>2. journal' = journal \cup {new} BY DEF Record
<1>3. new \in Events' /\ new.id = lastId + 1
  BY <1>1 DEF Event, Events, Windows, Labels
<1>4. Events \subseteq Events' BY <1>1, RecordsGrow
<1>5. \A e \in journal : e.id \in 1 .. lastId BY <1>1 DEF Events
<1>6. \A e, f \in journal : e.id = f.id => e = f BY DEF IInv, FieldsTyped
<1>7. saved' = None \/ saved' \in Payloads
  BY DEF Record, IInv, FieldsTyped, Payloads, Windows, Labels
<1> HIDE DEF new
<1>8. \A e, f \in journal' : e.id = f.id => e = f BY <1>1, <1>2, <1>3, <1>5, <1>6
<1>9. \A e \in journal' : e \in journal \/ e.id > lastId BY <1>1, <1>2, <1>3
<1> QED BY <1>1, <1>2, <1>3, <1>4, <1>7, <1>8, <1>9 DEF DbTyped, new

LEMMA InsertEventStep ==
    ASSUME IInv, NEW p \in Procs, InsertEvent(p)
    PROVE  StepSound(p)
<1> DEFINE r == proc[p]
<1>1. /\ r \in Records /\ r.pc = "journal" /\ Placed(r)
      /\ Kept(r, start[p], touched[p], live)
      /\ Caught(r, start[p], touched[p], live, journal)
  BY Here DEF InsertEvent, At, Sound
<1>2. UnchangedTmux BY DEF InsertEvent
<1>3. r.op = "kill" /\ r.arg \subseteq DOMAIN r.plan /\ \E s \in Sessions : r.arg = {s}
  BY <1>1 DEF Placed
<1>4. \A s \in Sessions \ touched[p] : live[s] = start[p][s]
  BY <1>1 DEF Kept, Early
<1>5. /\ live' = live /\ live \in [Sessions -> Windows] /\ lastId \in Nat
      /\ journal \subseteq Events
  BY <1>2, Here DEF UnchangedTmux, IInv, FieldsTyped
<1>6. "kill" \in Steps BY DEF Steps
<1>7. ASSUME NEW s \in r.arg, Record("kill_session", s, Plan(p)[s]),
             Become(p, [r EXCEPT !.pc = "kill", !.ev = lastId + 1])
      PROVE  StepSound(p)
  <2> DEFINE x == [r EXCEPT !.pc = "kill", !.ev = lastId + 1]
  <2>1. s \in Sessions /\ s \in DOMAIN r.plan /\ r.plan[s] \in Windows
    BY <1>1, <1>3, RecordType
  <2>2. /\ DbTyped /\ lastId' = lastId + 1
        /\ \A e \in journal' : e \in journal \/ e = Event(lastId + 1, "kill_session", s, r.plan[s])
    BY <1>7, <2>1, RecordTyped DEF Plan
  <2>3. /\ x \in Records' /\ x.pc = "kill" /\ x.op = r.op /\ x.arg = r.arg
        /\ x.plan = r.plan /\ x.ev = lastId + 1
    <3> DEFINE y == [r EXCEPT !.pc = "kill"]
    <3>1. y \in Records /\ y.pc = "kill" /\ y.op = r.op /\ y.arg = r.arg /\ y.plan = r.plan
      BY <1>1, <1>6, StepOnly
    <3>2. lastId + 1 \in 0 .. lastId' /\ lastId' \in Nat /\ lastId <= lastId'
      BY <1>5, <2>2
    <3>3. x = [y EXCEPT !.ev = lastId + 1] BY <1>1 DEF Records
    <3> HIDE DEF x, y
    <3>4. x \in Records' BY <1>5, <3>1, <3>2, <3>3, RecordsGrow
    <3> QED BY <3>1, <3>3, <3>4 DEF Records
  <2> HIDE DEF x
  <2>4. Placed(x) BY <1>3, <2>3 DEF Placed, ItemSteps
  <2>5. Kept(x, start[p], touched[p], live) BY <1>4, <2>3 DEF Kept, Early, ItemSteps
  <2>6. Caught(x, start[p], touched[p], live, journal')
    <3>1. \A t \in DOMAIN x.plan \ touched[p] : x.plan[t] = start[p][t]
      BY <1>1, <1>3, <2>3 DEF Caught
    <3>2. \A e \in journal : e.id # x.ev BY <1>5, <2>3 DEF Events
    <3>3. ASSUME NEW e \in journal', e.id = x.ev, e.target \notin touched[p]
          PROVE  e.wins = start[p][e.target]
      <4>1. e = Event(lastId + 1, "kill_session", s, r.plan[s]) BY <2>2, <3>2, <3>3
      <4>2. e.target = s /\ e.wins = r.plan[s] BY <4>1 DEF Event
      <4> QED BY <2>1, <2>3, <3>1, <3>3, <4>2
    <3>4. x.ev # 0 BY <1>5, <2>3
    <3> QED BY <2>3, <3>1, <3>3, <3>4 DEF Caught
  <2>7. Recalled(x, journal') BY <1>3, <2>3 DEF Recalled
  <2>8. Become(p, x) BY <1>7 DEF x
  <2> QED BY <1>5, <2>2, <2>3, <2>4, <2>5, <2>6, <2>7, <2>8 DEF StepSound, Sound
<1>8. CASE Become(p, [r EXCEPT !.pc = "kill", !.err = TRUE]) /\ UnchangedDb
  <2> DEFINE x == [r EXCEPT !.pc = "kill", !.err = TRUE]
  <2>1. /\ x \in Records /\ x.pc = "kill" /\ x.op = r.op /\ x.arg = r.arg
        /\ x.plan = r.plan /\ x.ev = r.ev /\ x.err
    BY <1>1, <1>6 DEF Records
  <2> HIDE DEF x
  <2>2. Placed(x) BY <1>3, <2>1 DEF Placed, ItemSteps
  <2>3. Kept(x, start[p], touched[p], live) BY <1>4, <2>1 DEF Kept, Early, ItemSteps
  <2>4. Caught(x, start[p], touched[p], live, journal) BY <1>1, <2>1 DEF Caught
  <2>5. Recalled(x, journal) BY <1>3, <2>1 DEF Recalled
  <2>6. Become(p, x) BY <1>8 DEF x
  <2> QED BY <1>2, <1>8, <2>1, <2>2, <2>3, <2>4, <2>5, <2>6, StepSoundAlone DEF Sound
<1> QED BY <1>7, <1>8 DEF InsertEvent

LEMMA SaveSnapshotStep ==
    ASSUME IInv, NEW p \in Procs, SaveSnapshot(p)
    PROVE  StepSound(p)
<1> DEFINE r == proc[p]
           x == [r EXCEPT !.pc = "done"]
<1>1. /\ r \in Records /\ r.pc = "store" /\ Placed(r)
      /\ Kept(r, start[p], touched[p], live)
  BY Here DEF SaveSnapshot, At, Sound
<1>2. /\ live' = live /\ live \in [Sessions -> Windows] /\ Become(p, x)
      /\ journal' = journal /\ lastId' = lastId /\ saved' = r.plan
  BY Here DEF SaveSnapshot, UnchangedTmux, Goto, Plan
<1>3. r.op = "save" BY <1>1 DEF Placed
<1>4. r.plan \in Payloads BY <1>1, RecordType
<1>5. DbTyped /\ Records \subseteq Records'
  <2>1. Payloads' = Payloads /\ Events' = Events /\ Records' = Records
    BY <1>2 DEF Payloads, Events, Records, Windows, Labels
  <2> QED BY <1>2, <1>4, <2>1 DEF DbTyped, IInv, FieldsTyped
<1>6. "done" \in Steps BY DEF Steps
<1>7. /\ x \in Records /\ x.pc = "done" /\ x.op = r.op /\ x.arg = r.arg
      /\ x.plan = r.plan /\ x.ev = r.ev
  BY <1>1, <1>6, StepOnly
<1> HIDE DEF x
<1>8. Placed(x) BY <1>3, <1>7 DEF Placed, ItemSteps
<1>9. Kept(x, start[p], touched[p], live)
  <2>1. \A s \in Sessions \ touched[p] : live[s] = start[p][s]
    BY <1>1 DEF Kept, Early
  <2> QED BY <1>3, <1>7, <2>1 DEF Kept, Early, ItemSteps, Result
<1>10. Caught(x, start[p], touched[p], live, journal) /\ Recalled(x, journal)
  BY <1>3, <1>7 DEF Caught, Recalled
<1> QED BY <1>2, <1>5, <1>7, <1>8, <1>9, <1>10 DEF StepSound, Sound

LEMMA InsertExpiryStep ==
    ASSUME IInv, NEW p \in Procs, InsertExpiry(p)
    PROVE  StepSound(p)
<1> DEFINE r == proc[p]
           x == [r EXCEPT !.pc = "done"]
<1>1. /\ r \in Records /\ r.pc = "expiry" /\ Placed(r)
      /\ Kept(r, start[p], touched[p], live)
  BY Here DEF InsertExpiry, At, Sound
<1>2. UnchangedTmux /\ live' = live /\ live \in [Sessions -> Windows]
  BY Here DEF InsertExpiry, UnchangedTmux
<1>3. r.op = "scratch" /\ r.arg \subseteq Sessions /\ \E s \in Sessions : r.arg = {s}
  BY <1>1, RecordType DEF Placed
<1>4. ASSUME NEW s \in r.arg, Record("scratch_ttl", s, << >>), Goto(p, "done")
      PROVE  StepSound(p)
  <2>1. << >> \in Windows BY DEF Windows
  <2>2. DbTyped BY <1>3, <1>4, <2>1, RecordTyped
  <2>3. "done" \in Steps BY DEF Steps
  <2>4. /\ x \in Records /\ x.pc = "done" /\ x.op = r.op /\ x.arg = r.arg
        /\ x.plan = r.plan /\ x.ev = r.ev
    BY <1>1, <2>3, StepOnly
  <2>5. Become(p, x) BY <1>4 DEF Goto
  <2> HIDE DEF x
  <2>6. x \in Records' BY <2>2, <2>4, RecordsGrow DEF DbTyped, IInv, FieldsTyped
  <2>7. Placed(x) BY <1>3, <2>4 DEF Placed, ItemSteps
  <2>8. Kept(x, start[p], touched[p], live)
    <3>1. \A t : Result(x, start[p], t) = Result(r, start[p], t) BY <2>4, SameResult
    <3> QED BY <1>1, <2>4, <3>1 DEF Kept, Early, ItemSteps
  <2>9. Caught(x, start[p], touched[p], live, journal') /\ Recalled(x, journal')
    BY <1>3, <2>4 DEF Caught, Recalled
  <2> QED BY <1>2, <2>2, <2>5, <2>6, <2>7, <2>8, <2>9 DEF StepSound, Sound
<1>5. CASE UnchangedDb /\ Goto(p, "failed") BY <1>2, <1>5, AbortStep
<1> QED BY <1>4, <1>5 DEF InsertExpiry

LEMMA CreateScratchStep ==
    ASSUME IInv, NEW p \in Procs, CreateScratch(p)
    PROVE  StepSound(p)
<1> DEFINE r == proc[p]
           x == [r EXCEPT !.pc = "expiry"]
<1>1. /\ r \in Records /\ r.pc = "scratch" /\ Placed(r)
      /\ Kept(r, start[p], touched[p], live)
  BY Here DEF CreateScratch, At, Sound
<1>2. UnchangedDb BY DEF CreateScratch
<1>3. r.op = "scratch" /\ \E s \in Sessions : r.arg = {s} BY <1>1 DEF Placed
<1>4. PICK s \in Sessions :
        /\ r.arg = {s}
        /\ \/ live' = [live EXCEPT ![s] = << Shell >>] /\ Goto(p, "expiry")
           \/ Goto(p, "failed") /\ UnchangedTmux
  BY <1>3 DEF CreateScratch
<1>5. CASE Goto(p, "failed") /\ UnchangedTmux BY <1>2, <1>5, AbortStep
<1>6. CASE live' = [live EXCEPT ![s] = << Shell >>] /\ Goto(p, "expiry")
  <2>1. live \in [Sessions -> Windows] /\ live' \in [Sessions -> Windows]
    BY <1>6, Here, SameSaved
  <2>2. "expiry" \in Steps BY DEF Steps
  <2>3. /\ x \in Records /\ x.pc = "expiry" /\ x.op = r.op /\ x.arg = r.arg
        /\ x.plan = r.plan /\ x.ev = r.ev
    BY <1>1, <2>2, StepOnly
  <2>4. Become(p, x) BY <1>6 DEF Goto
  <2> HIDE DEF x
  <2>5. Placed(x) BY <1>3, <2>3 DEF Placed, ItemSteps
  <2>6. Kept(x, start[p], touched[p], live')
    <3> SUFFICES ASSUME NEW t \in Sessions \ touched[p]
                 PROVE  live'[t] = Result(x, start[p], t)
      BY <2>3 DEF Kept, Early, ItemSteps
    <3>1. live[t] = start[p][t] BY <1>1 DEF Kept, Early
    <3> QED BY <1>3, <1>4, <1>6, <2>1, <2>3, <3>1 DEF Result
  <2>7. Caught(x, start[p], touched[p], live', journal) /\ Recalled(x, journal)
    BY <1>3, <2>3 DEF Caught, Recalled
  <2> QED BY <1>2, <2>1, <2>3, <2>4, <2>5, <2>6, <2>7, StepSoundOf DEF Sound
<1> QED BY <1>4, <1>5, <1>6

LEMMA ReadEventStep ==
    ASSUME IInv, NEW p \in Procs, ReadEvent(p)
    PROVE  StepSound(p)
<1> DEFINE r == proc[p]
<1>1. /\ r \in Records /\ r.pc = "event" /\ Placed(r)
      /\ Kept(r, start[p], touched[p], live)
  BY Here DEF ReadEvent, At, Sound
<1>2. UnchangedTmux /\ UnchangedDb BY DEF ReadEvent
<1>3. r.op = "undo" BY <1>1 DEF Placed
<1>4. CASE Goto(p, "failed") BY <1>2, <1>4, AbortStep
<1>5. ASSUME NEW e \in journal,
             Become(p, [r EXCEPT !.pc = "has", !.ev = e.id, !.todo = {e.target},
                                 !.plan = Only(e.target, e.wins)])
      PROVE  StepSound(p)
  <2> DEFINE plan == Only(e.target, e.wins)
             x == [r EXCEPT !.pc = "has", !.ev = e.id, !.todo = {e.target}, !.plan = plan]
  <2>1. e.target \in Sessions /\ e.wins \in Windows /\ e.id \in 0 .. lastId
    BY DEF IInv, FieldsTyped, Events
  <2>2. plan \in Payloads /\ DOMAIN plan = {e.target} BY <2>1, OnlyType
  <2>3. "has" \in Steps BY DEF Steps
  <2>4. plan = Only(e.target, e.wins) OBVIOUS
  <2> HIDE DEF plan
  <2>5. /\ x \in Records /\ x.pc = "has" /\ x.op = r.op /\ x.arg = r.arg
        /\ x.todo = {e.target} /\ x.plan = plan /\ x.ev = e.id
    BY <1>1, <2>1, <2>2, <2>3 DEF Records
  <2>6. Become(p, x) BY <1>5, <2>4
  <2> HIDE DEF x
  <2>7. Placed(x) BY <1>3, <2>2, <2>5 DEF Placed, ItemSteps, Planners
  <2>8. Kept(x, start[p], touched[p], live)
    <3> SUFFICES ASSUME NEW s \in Sessions \ touched[p]
                 PROVE  Treated(x, start[p], live, s)
      BY <2>5 DEF Kept, Early, ItemSteps
    <3>1. live[s] = start[p][s] BY <1>1 DEF Kept, Early
    <3>2. s \notin x.todo => Result(x, start[p], s) = start[p][s]
      BY <1>3, <2>2, <2>5 DEF Result
    <3> QED BY <3>1, <3>2 DEF Treated
  <2>9. Caught(x, start[p], touched[p], live, journal) BY <1>3, <2>5 DEF Caught
  <2>10. Recalled(x, journal)
    <3>1. \A f \in journal : f.id = e.id => f = e BY DEF IInv, FieldsTyped
    <3> QED BY <2>4, <2>5, <3>1 DEF Recalled
  <2> QED BY <1>2, <2>5, <2>6, <2>7, <2>8, <2>9, <2>10, StepSoundAlone DEF Sound
<1> QED BY <1>4, <1>5 DEF ReadEvent

LEMMA GetSnapshotStep ==
    ASSUME IInv, NEW p \in Procs, GetSnapshot(p)
    PROVE  StepSound(p)
<1> DEFINE r == proc[p]
           next == IF saved = NoPlan THEN "done" ELSE "has"
           x == [r EXCEPT !.pc = next, !.plan = saved, !.todo = DOMAIN saved]
<1>1. /\ r \in Records /\ r.pc = "snapshot" /\ Placed(r)
      /\ Kept(r, start[p], touched[p], live)
  BY Here DEF GetSnapshot, At, Sound
<1>2. UnchangedTmux /\ UnchangedDb BY DEF GetSnapshot
<1>3. r.op = "restore" BY <1>1 DEF Placed
<1>4. CASE Goto(p, "failed") BY <1>2, <1>4, AbortStep
<1>5. CASE saved # None /\ Become(p, x)
  <2>1. saved \in Payloads BY <1>5 DEF IInv, FieldsTyped
  <2>2. DOMAIN saved \subseteq Sessions BY <2>1, PayloadType
  <2>3. next \in Steps /\ next \in {"done", "has"} BY DEF Steps
  <2>4. next = "done" => DOMAIN saved = {} BY NoPlanType
  <2> HIDE DEF next
  <2>5. /\ x \in Records /\ x.pc = next /\ x.op = r.op /\ x.arg = r.arg
        /\ x.todo = DOMAIN saved /\ x.plan = saved /\ x.ev = r.ev
    BY <1>1, <2>1, <2>2, <2>3 DEF Records
  <2> HIDE DEF x
  <2>6. Placed(x) BY <1>3, <2>3, <2>4, <2>5 DEF Placed, ItemSteps, Planners
  <2>7. Kept(x, start[p], touched[p], live)
    <3> SUFFICES ASSUME NEW s \in Sessions \ touched[p]
                 PROVE  /\ Treated(x, start[p], live, s)
                        /\ x.pc = "done" => live[s] = Result(x, start[p], s)
      BY <2>3, <2>5 DEF Kept, Early, ItemSteps
    <3>1. live[s] = start[p][s] BY <1>1 DEF Kept, Early
    <3>2. s \notin x.todo => Result(x, start[p], s) = start[p][s]
      BY <1>3, <2>5 DEF Result
    <3> QED BY <2>4, <2>5, <3>1, <3>2 DEF Treated
  <2>8. Caught(x, start[p], touched[p], live, journal) /\ Recalled(x, journal)
    BY <1>3, <2>5 DEF Caught, Recalled
  <2> QED BY <1>2, <1>5, <2>5, <2>6, <2>7, <2>8, StepSoundAlone DEF Sound
<1> QED BY <1>4, <1>5 DEF GetSnapshot

LEMMA DeleteEventStep ==
    ASSUME IInv, NEW p \in Procs, DeleteEvent(p)
    PROVE  StepSound(p)
<1> DEFINE r == proc[p]
           x == [r EXCEPT !.pc = "done"]
<1>1. /\ r \in Records /\ r.pc = "forget" /\ Placed(r)
      /\ Kept(r, start[p], touched[p], live)
  BY Here DEF DeleteEvent, At, Sound
<1>2. /\ live' = live /\ live \in [Sessions -> Windows] /\ Become(p, x)
      /\ lastId' = lastId /\ saved' = saved /\ journal' \subseteq journal
  BY Here DEF DeleteEvent, UnchangedTmux, UnchangedDb, Goto
<1>3. r.op = "undo" /\ r.todo = {} BY <1>1 DEF Placed
<1>4. DbTyped /\ Records' = Records
  <2>1. Payloads' = Payloads /\ Events' = Events /\ Records' = Records
    BY <1>2 DEF Payloads, Events, Records, Windows, Labels
  <2> QED BY <1>2, <2>1 DEF DbTyped, IInv, FieldsTyped
<1>5. "done" \in Steps BY DEF Steps
<1>6. /\ x \in Records /\ x.pc = "done" /\ x.op = r.op /\ x.arg = r.arg
      /\ x.plan = r.plan /\ x.ev = r.ev /\ x.todo = r.todo
  BY <1>1, <1>5, StepOnly
<1> HIDE DEF x
<1>7. Placed(x) BY <1>3, <1>6 DEF Placed, ItemSteps
<1>8. Kept(x, start[p], touched[p], live)
  <2> SUFFICES ASSUME NEW s \in Sessions \ touched[p]
               PROVE  live[s] = Result(x, start[p], s)
    BY <1>6 DEF Kept, Early, ItemSteps
  <2>1. Treated(r, start[p], live, s) BY <1>1 DEF Kept
  <2>2. live[s] = Result(r, start[p], s) BY <1>3, <2>1 DEF Treated, Doomed
  <2> QED BY <1>6, <2>2, SameResult
<1>9. Caught(x, start[p], touched[p], live, journal') /\ Recalled(x, journal')
  BY <1>3, <1>6 DEF Caught, Recalled, ItemSteps
<1> QED BY <1>2, <1>4, <1>6, <1>7, <1>8, <1>9 DEF StepSound, Sound

LEMMA HasSessionStep ==
    ASSUME IInv, NEW p \in Procs, HasSession(p)
    PROVE  StepSound(p)
<1> DEFINE r == proc[p]
<1>1. /\ r \in Records /\ r.pc = "has" /\ Placed(r)
      /\ Kept(r, start[p], touched[p], live) /\ Recalled(r, journal)
      /\ Sound(r, start[p], touched[p], live, journal)
  BY Here DEF HasSession, At, Sound
<1>2. UnchangedTmux /\ UnchangedDb BY DEF HasSession
<1>3. Midway(r, journal) BY <1>1, MidwayOf
<1>4. \A s \in Sessions \ touched[p] : Treated(r, start[p], live, s)
  BY <1>1 DEF Kept
<1>5. PICK s \in r.todo :
         LET item == [r EXCEPT !.cur = s, !.todo = @ \ {s}, !.want = Plan(p)[s]]
         IN \/ /\ ~Exists(s)
               /\ Become(p, [item EXCEPT !.pc = IF Op(p) = "push" THEN "again" ELSE "new"])
            \/ Exists(s) /\ Op(p) = "push" /\ Become(p, [item EXCEPT !.pc = "list"])
            \/ Exists(s) /\ Op(p) # "push" /\ NextItem(p, item)
  <2>1. PICK s \in r.todo :
         LET item == [r EXCEPT !.cur = s, !.todo = @ \ {s}, !.want = Plan(p)[s]]
         IN CASE ~Exists(s) ->
                   Become(p, [item EXCEPT !.pc = IF Op(p) = "push" THEN "again" ELSE "new"])
              [] Exists(s) /\ Op(p) = "push" -> Become(p, [item EXCEPT !.pc = "list"])
              [] OTHER -> NextItem(p, item)
    BY DEF HasSession
  <2>2. Exists(s) \in BOOLEAN /\ (Op(p) = "push") \in BOOLEAN BY DEF Exists
  <2> QED BY <2>1, <2>2
<1> DEFINE item == [r EXCEPT !.cur = s, !.todo = @ \ {s}, !.want = Plan(p)[s]]
<1>6. s \in Sessions /\ r.todo \subseteq Sessions /\ s \in DOMAIN r.plan
  BY <1>1, <1>3, RecordType DEF Midway
<1>7. /\ item \in Records /\ item.op = r.op /\ item.arg = r.arg /\ item.plan = r.plan
      /\ item.cur = s /\ item.todo = r.todo \ {s} /\ item.want = r.plan[s]
      /\ item.ev = r.ev /\ item.err = r.err
  <2>1. r.plan[s] \in Windows BY <1>1, <1>6, RecordType
  <2> QED BY <1>1, <1>6, <2>1 DEF Records, Plan
<1> HIDE DEF item
<1>8. Midway(item, journal) /\ item.cur \in DOMAIN item.plan \ item.todo
  BY <1>3, <1>6, <1>7 DEF Midway
<1>9. Doomed(item) <=> Doomed(r) BY <1>7 DEF Doomed
<1>10. ASSUME NEW t \in Sessions \ touched[p], t # s
       PROVE  Treated(item, start[p], live, t)
  <2>1. Treated(r, start[p], live, t) BY <1>4
  <2>2. Result(item, start[p], t) = Result(r, start[p], t) BY <1>7, SameResult
  <2> QED BY <1>7, <1>9, <1>10, <2>1, <2>2 DEF Treated
<1>11. ASSUME s \notin touched[p], ~Doomed(r) PROVE live[s] = start[p][s]
  BY <1>4, <1>6, <1>11 DEF Treated
<1>12. ASSUME NEW pc \in {"again", "new", "list"}, Become(p, [item EXCEPT !.pc = pc]),
              pc \in {"again", "list"} => r.op = "push",
              pc \in {"again", "new"} <=> ~Exists(s)
       PROVE  StepSound(p)
  <2> DEFINE x == [item EXCEPT !.pc = pc]
  <2>1. pc \in Steps BY <1>12 DEF Steps
  <2>2. /\ x \in Records /\ x.pc = pc /\ x.op = item.op /\ x.arg = item.arg
        /\ x.plan = item.plan /\ x.todo = item.todo /\ x.ev = item.ev
        /\ x.err = item.err /\ x.cur = item.cur /\ x.want = item.want
    BY <1>7, <2>1, StepOnly
  <2>3. Become(p, x) BY <1>12
  <2> HIDE DEF x
  <2>4. Placed(x) BY <1>7, <1>8, <1>12, <2>2 DEF Placed, ItemSteps, Planners, Midway
  <2>5. Doomed(x) <=> Doomed(r) BY <1>9, <2>2 DEF Doomed
  <2>6. ASSUME NEW t \in Sessions \ touched[p], t # s PROVE Treated(x, start[p], live, t)
    <3>1. Treated(item, start[p], live, t) BY <1>10, <2>6
    <3> QED BY <1>9, <2>2, <2>5, <3>1, SameTreated
  <2>7. ASSUME s \notin touched[p] PROVE Underway(x, start[p], live, s)
    <3>1. Exists(s) <=> live[s] # Gone BY DEF Exists
    <3> QED BY <1>7, <1>11, <1>12, <2>2, <2>5, <2>7, <3>1 DEF Underway
  <2>8. Kept(x, start[p], touched[p], live)
    BY <1>7, <1>12, <2>2, <2>6, <2>7 DEF Kept, Early, ItemSteps
  <2>9. Caught(x, start[p], touched[p], live, journal)
    BY <1>8, <2>2 DEF Caught, Midway, Planners
  <2>10. Recalled(x, journal) BY <1>8, <2>2 DEF Recalled, Midway
  <2> QED BY <1>2, <2>2, <2>3, <2>4, <2>8, <2>9, <2>10, StepSoundAlone DEF Sound
<1>13. CASE Exists(s) /\ Op(p) # "push" /\ NextItem(p, item)
  <2>1. ASSUME s \notin touched[p] PROVE Treated(item, start[p], live, s)
    <3>1. live[s] # Gone BY <1>13 DEF Exists
    <3>2. item.op \in Planners /\ item.op # "push" BY <1>7, <1>8, <1>13 DEF Midway, Op
    <3>3. start[p][s] # Gone => Result(item, start[p], s) = start[p][s]
      BY <1>6, <1>7, <3>2 DEF Result, Planners
    <3> QED BY <1>7, <1>9, <1>11, <2>1, <3>1, <3>3 DEF Treated
  <2>2. ItemOver(item, start[p], touched[p], live, journal)
    BY <1>8, <1>10, <2>1 DEF ItemOver
  <2>3. Become(p, [item EXCEPT !.pc = AfterItem(item)]) BY <1>13 DEF NextItem
  <2> QED BY <1>2, <1>7, <2>2, <2>3, NextItemSound, StepSoundAlone
<1>14. CASE Exists(s) /\ Op(p) = "push" /\ Become(p, [item EXCEPT !.pc = "list"])
  <2>1. r.op = "push" BY <1>14 DEF Op
  <2> QED BY <1>12, <1>14, <2>1
<1>15. CASE /\ ~Exists(s)
            /\ Become(p, [item EXCEPT !.pc = IF Op(p) = "push" THEN "again" ELSE "new"])
  <2>1. CASE r.op = "push" BY <1>12, <1>15, <2>1 DEF Op
  <2>2. CASE r.op # "push" BY <1>12, <1>15, <2>2 DEF Op
  <2> QED BY <2>1, <2>2
<1> QED BY <1>5, <1>13, <1>14, <1>15 DEF item

LEMMA UnderwayOf ==
    ASSUME IInv, NEW p \in Procs, proc[p].pc \in ItemSteps
    PROVE  /\ Midway(proc[p], journal) /\ Cur(p) \in DOMAIN Plan(p) \ proc[p].todo
           /\ Cur(p) \in Sessions
           /\ \A s \in Sessions \ touched[p] :
                  IF s = Cur(p) THEN Underway(proc[p], start[p], live, s)
                  ELSE Treated(proc[p], start[p], live, s)
<1>1. /\ proc[p] \in Records /\ Sound(proc[p], start[p], touched[p], live, journal)
  BY Here
<1>2. Placed(proc[p]) /\ Kept(proc[p], start[p], touched[p], live) BY <1>1 DEF Sound
<1>3. Midway(proc[p], journal) BY <1>1, MidwayOf
<1>4. Cur(p) \in DOMAIN Plan(p) \ proc[p].todo BY <1>2 DEF Placed, Cur, Plan
<1>5. Cur(p) \in Sessions BY <1>1, <1>4, RecordType DEF Plan
<1>6. \A s \in Sessions \ touched[p] :
          IF s = Cur(p) THEN Underway(proc[p], start[p], live, s)
          ELSE Treated(proc[p], start[p], live, s)
  BY <1>2 DEF Kept, Cur
<1> QED BY <1>3, <1>4, <1>5, <1>6

LEMMA HasSessionAgainStep ==
    ASSUME IInv, NEW p \in Procs, HasSessionAgain(p)
    PROVE  StepSound(p)
<1> DEFINE r == proc[p]
<1>1. /\ r \in Records /\ r.pc = "again" /\ Placed(r) /\ r.pc \in ItemSteps
  BY Here DEF HasSessionAgain, At, Sound, ItemSteps
<1>2. UnchangedTmux /\ UnchangedDb BY DEF HasSessionAgain
<1>3. /\ Midway(r, journal) /\ r.cur \in DOMAIN r.plan \ r.todo
      /\ \A s \in Sessions \ touched[p] :
             IF s = r.cur THEN Underway(r, start[p], live, s)
             ELSE Treated(r, start[p], live, s)
  BY <1>1, UnderwayOf DEF Cur, Plan
<1>4. CASE Exists(Cur(p))
  <2>1. Become(p, [r EXCEPT !.pc = AfterItem(r)])
    BY <1>4 DEF HasSessionAgain, NextItem
  <2>2. ASSUME NEW s \in Sessions \ touched[p] PROVE Treated(r, start[p], live, s)
    <3>1. s = r.cur => live[s] # Gone BY <1>4 DEF Exists, Cur
    <3> QED BY <1>1, <1>3, <3>1 DEF Underway, Treated
  <2>3. ItemOver(r, start[p], touched[p], live, journal) BY <1>3, <2>2 DEF ItemOver
  <2> QED BY <1>1, <1>2, <2>1, <2>3, NextItemSound, StepSoundAlone
<1>5. CASE ~Exists(Cur(p))
  <2> DEFINE x == [r EXCEPT !.pc = "new"]
  <2>1. "new" \in Steps BY DEF Steps
  <2>2. /\ x \in Records /\ x.pc = "new" /\ x.op = r.op /\ x.arg = r.arg
        /\ x.plan = r.plan /\ x.todo = r.todo /\ x.ev = r.ev
        /\ x.err = r.err /\ x.cur = r.cur /\ x.want = r.want
    BY <1>1, <2>1, StepOnly
  <2>3. Become(p, x) BY <1>5 DEF HasSessionAgain, Goto
  <2> HIDE DEF x
  <2>4. Placed(x) BY <1>3, <2>2 DEF Placed, ItemSteps, Planners, Midway
  <2>5. Doomed(x) <=> Doomed(r) BY <2>2 DEF Doomed
  <2>6. ASSUME NEW s \in Sessions \ touched[p]
        PROVE  IF s = x.cur THEN Underway(x, start[p], live, s)
               ELSE Treated(x, start[p], live, s)
    <3>1. CASE s = x.cur
      <4>1. Underway(r, start[p], live, s) BY <1>3, <2>2, <3>1
      <4> QED BY <1>1, <2>2, <2>5, <3>1, <4>1 DEF Underway
    <3>2. CASE s # x.cur
      <4>1. Treated(r, start[p], live, s) BY <1>3, <2>2, <3>2
      <4> QED BY <2>2, <2>5, <3>2, <4>1, SameTreated
    <3> QED BY <3>1, <3>2
  <2>7. Kept(x, start[p], touched[p], live)
    BY <2>2, <2>6 DEF Kept, Early, ItemSteps
  <2>8. Caught(x, start[p], touched[p], live, journal)
    BY <1>3, <2>2 DEF Caught, Midway, Planners
  <2>9. Recalled(x, journal) BY <1>3, <2>2 DEF Recalled, Midway
  <2> QED BY <1>2, <2>2, <2>3, <2>4, <2>7, <2>8, <2>9, StepSoundAlone DEF Sound
<1> QED BY <1>4, <1>5

LEMMA ListForPushStep ==
    ASSUME IInv, NEW p \in Procs, ListForPush(p)
    PROVE  StepSound(p)
<1> DEFINE r == proc[p]
           st == [r EXCEPT !.want = Missing(Cur(p), @)]
<1>1. /\ r \in Records /\ r.pc = "list" /\ Placed(r) /\ r.pc \in ItemSteps
  BY Here DEF ListForPush, At, Sound, ItemSteps
<1>2. UnchangedTmux /\ UnchangedDb BY DEF ListForPush
<1>3. /\ Midway(r, journal) /\ r.cur \in DOMAIN r.plan \ r.todo /\ r.cur \in Sessions
      /\ \A s \in Sessions \ touched[p] :
             IF s = r.cur THEN Underway(r, start[p], live, s)
             ELSE Treated(r, start[p], live, s)
  BY <1>1, UnderwayOf DEF Cur, Plan
<1>4. r.op = "push" BY <1>1 DEF Placed
<1>5. CASE Goto(p, "failed") BY <1>2, <1>5, AbortStep
<1>6. CASE AfterWindow(p, st)
  <2>1. r.want \in Windows BY <1>1, RecordType
  <2>2. Missing(Cur(p), r.want) = Without(r.want, live[r.cur]) BY DEF Missing, Cur
  <2>3. Without(r.want, live[r.cur]) \in Windows BY <2>1, WithoutType DEF Windows
  <2>4. /\ st \in Records /\ st.op = r.op /\ st.arg = r.arg /\ st.plan = r.plan
        /\ st.todo = r.todo /\ st.ev = r.ev /\ st.err = r.err /\ st.cur = r.cur
        /\ st.want = Without(r.want, live[r.cur])
    BY <1>1, <2>2, <2>3 DEF Records
  <2> HIDE DEF st
  <2>5. Midway(st, journal) BY <1>3, <2>4 DEF Midway
  <2>6. Doomed(st) <=> Doomed(r) BY <2>4 DEF Doomed
  <2>7. ASSUME NEW s \in Sessions \ touched[p], s = st.cur, ~Doomed(st)
        PROVE  live[s] \o st.want = Result(st, start[p], s)
    <3>1. start[p][s] # Gone /\ live[s] = start[p][s] /\ r.want = r.plan[s]
      BY <1>1, <1>3, <2>4, <2>6, <2>7 DEF Underway
    <3>2. Result(st, start[p], s) = start[p][s] \o Without(r.plan[s], start[p][s])
      BY <1>3, <1>4, <2>4, <2>7, <3>1 DEF Result
    <3> QED BY <2>4, <2>7, <3>1, <3>2
  <2>8. ASSUME NEW s \in Sessions \ touched[p], s # st.cur
        PROVE  Treated(st, start[p], live, s)
    <3>1. Treated(r, start[p], live, s) BY <1>3, <2>4, <2>8
    <3> QED BY <2>4, <2>6, <3>1, SameTreated
  <2>9. WindowOver(st, start[p], touched[p], live, journal)
    BY <1>3, <2>4, <2>5, <2>7, <2>8 DEF WindowOver
  <2> QED BY <1>2, <1>6, <2>4, <2>9, Here, AfterWindowSound, StepSoundAlone
<1> QED BY <1>5, <1>6 DEF ListForPush

LEMMA WindowAdded ==
    ASSUME NEW have \in Windows, NEW want \in Windows, want # << >>
    PROVE  LET now == Append(have, Head(want)) IN
           /\ now \in Windows /\ now # Gone /\ Head(want) \in Labels /\ Tail(want) \in Windows
           /\ Len(now) \in Nat /\ now[Len(now)] = Head(want)
           /\ now \o Tail(want) = have \o want
BY DEF Windows, Gone

LEMMA NewWindowStep ==
    ASSUME IInv, NEW p \in Procs, NewWindow(p)
    PROVE  StepSound(p)
<1> DEFINE r == proc[p]
           now == Append(live[r.cur], Head(r.want))
<1>1. /\ r \in Records /\ r.pc = "window" /\ Placed(r) /\ r.pc \in ItemSteps
      /\ live \in [Sessions -> Windows]
      /\ Sound(r, start[p], touched[p], live, journal)
  BY Here DEF NewWindow, At, Sound, ItemSteps
<1>2. UnchangedDb BY DEF NewWindow
<1>3. /\ Midway(r, journal) /\ r.cur \in DOMAIN r.plan \ r.todo /\ r.cur \in Sessions
      /\ \A s \in Sessions \ touched[p] :
             IF s = r.cur THEN Underway(r, start[p], live, s)
             ELSE Treated(r, start[p], live, s)
  BY <1>1, UnderwayOf DEF Cur, Plan
<1>4. CASE ItemFailed(p) /\ UnchangedTmux
  <2>1. \E x \in Records : Become(p, x) /\ Sound(x, start[p], touched[p], live, journal)
    BY <1>1, <1>4, ItemFailedSound
  <2> QED BY <1>2, <1>4, <2>1, StepSoundAlone
<1>5. CASE /\ live' = [live EXCEPT ![Cur(p)] = Append(@, Head(Want(p)))]
           /\ Made(p, Head(Want(p)), Len(live'[Cur(p)]), Tail(Want(p)))
  <2>1. r.want \in Windows /\ r.want # << >> BY <1>1, RecordType DEF Placed
  <2>2. live[r.cur] \in Windows BY <1>1, <1>3
  <2>3. /\ now \in Windows /\ now # Gone /\ Head(r.want) \in Labels /\ Tail(r.want) \in Windows
        /\ Len(now) \in Nat /\ now[Len(now)] = Head(r.want)
        /\ now \o Tail(r.want) = live[r.cur] \o r.want
    BY <2>1, <2>2, WindowAdded
  <2>4. live' = [live EXCEPT ![r.cur] = now] BY <1>5 DEF Cur, Want
  <2> HIDE DEF now
  <2>5. live' \in [Sessions -> Windows] /\ live'[r.cur] = now BY <1>1, <1>3, <2>3, <2>4
  <2>6. Made(p, Head(r.want), Len(now), Tail(r.want)) BY <1>5, <2>5 DEF Cur, Want
  <2>7. ASSUME NEW s \in Sessions \ touched[p]
        PROVE  IF s = r.cur
               THEN ~Doomed(r) =>
                        /\ live'[s] \o Tail(r.want) = Result(r, start[p], s)
                        /\ live'[s] # Gone /\ Len(now) = Len(live'[s])
                        /\ Head(r.want) = live'[s][Len(live'[s])]
               ELSE Treated(r, start[p], live', s)
    <3>1. CASE s = r.cur
      <4>1. ~Doomed(r) => live[s] \o r.want = Result(r, start[p], s)
        BY <1>1, <1>3, <3>1 DEF Underway
      <4> QED BY <2>3, <2>5, <3>1, <4>1
    <3>2. CASE s # r.cur
      <4>1. live'[s] = live[s] BY <1>1, <2>4, <3>2
      <4> QED BY <1>3, <3>2, <4>1 DEF Treated
    <3> QED BY <3>1, <3>2
  <2>8. \E x \in Records : Become(p, x) /\ Sound(x, start[p], touched[p], live', journal)
    <3> DEFINE name == Head(r.want)
               index == Len(now)
               rest == Tail(r.want)
               was == start[p]
               hands == touched[p]
    <3>1. name \in Labels /\ index \in Nat /\ rest \in Windows /\ Made(p, name, index, rest)
      BY <2>3, <2>6
    <3>2. \A s \in Sessions \ hands :
              IF s = Cur(p)
              THEN ~Doomed(proc[p]) =>
                       /\ live'[s] \o rest = Result(proc[p], was, s)
                       /\ live'[s] # Gone /\ index = Len(live'[s])
                       /\ name = live'[s][Len(live'[s])]
              ELSE Treated(proc[p], was, live', s)
      BY <2>7 DEF Cur
    <3>3. Midway(proc[p], journal) /\ Cur(p) \in DOMAIN Plan(p) \ proc[p].todo
          /\ proc[p] \in Records
      BY <1>1, <1>3 DEF Cur, Plan
    <3> HIDE DEF name, index, rest, was, hands, r
    <3>4. \E x \in Records : Become(p, x) /\ Sound(x, was, hands, live', journal)
      BY <2>5, <3>1, <3>2, <3>3, MadeSound
    <3> QED BY <3>4 DEF was, hands
  <2> QED BY <1>2, <2>5, <2>8, StepSoundOf
<1> QED BY <1>4, <1>5 DEF NewWindow

LEMMA ApplyLayoutStep ==
    ASSUME IInv, NEW p \in Procs, ApplyLayout(p)
    PROVE  StepSound(p)
<1> DEFINE r == proc[p]
           now == [live[r.cur] EXCEPT ![r.at] = r.name]
<1>1. /\ r \in Records /\ r.pc = "layout" /\ Placed(r) /\ r.pc \in ItemSteps
      /\ live \in [Sessions -> Windows]
      /\ Sound(r, start[p], touched[p], live, journal)
  BY Here DEF ApplyLayout, At, Sound, ItemSteps
<1>2. UnchangedDb BY DEF ApplyLayout
<1>3. /\ Midway(r, journal) /\ r.cur \in DOMAIN r.plan \ r.todo /\ r.cur \in Sessions
      /\ \A s \in Sessions \ touched[p] :
             IF s = r.cur THEN Underway(r, start[p], live, s)
             ELSE Treated(r, start[p], live, s)
  BY <1>1, UnderwayOf DEF Cur, Plan
<1>4. CASE ItemFailed(p) /\ UnchangedTmux
  <2>1. \E x \in Records : Become(p, x) /\ Sound(x, start[p], touched[p], live, journal)
    BY <1>1, <1>4, ItemFailedSound
  <2> QED BY <1>2, <1>4, <2>1, StepSoundAlone
<1>5. CASE /\ live' = [live EXCEPT ![Cur(p)][r.at] = r.name]
           /\ AfterWindow(p, r)
  <2>1. r.name \in Labels /\ r.at \in Nat BY <1>1, RecordType
  <2>2. live[r.cur] \in Windows BY <1>1, <1>3
  <2>3. now \in Windows
    <3>1. ASSUME NEW q \in Windows, NEW i \in Nat, NEW n \in Labels
          PROVE  [q EXCEPT ![i] = n] \in Windows
      <4>1. CASE i \in 1 .. Len(q) BY <4>1, ExceptSeq DEF Windows
      <4>2. CASE i \notin 1 .. Len(q)
        <5>1. [q EXCEPT ![i] = n] = q BY <4>2 DEF Windows
        <5> QED BY <5>1
      <4> QED BY <4>1, <4>2
    <3> QED BY <2>1, <2>2, <3>1
  <2>4. live' = [live EXCEPT ![r.cur] = now] BY <1>5 DEF Cur
  <2>5. r.at = Len(live[r.cur]) /\ r.name = live[r.cur][Len(live[r.cur])]
            => now = live[r.cur]
    BY <2>2 DEF Windows
  <2> HIDE DEF now
  <2>6. live' \in [Sessions -> Windows] /\ live'[r.cur] = now BY <1>1, <1>3, <2>3, <2>4
  <2>7. ASSUME NEW s \in Sessions \ touched[p]
        PROVE  IF s = r.cur THEN ~Doomed(r) => live'[s] \o r.want = Result(r, start[p], s)
               ELSE Treated(r, start[p], live', s)
    <3>1. CASE s = r.cur
      <4>1. Underway(r, start[p], live, s) BY <1>3, <3>1
      <4> QED BY <1>1, <2>5, <2>6, <3>1, <4>1 DEF Underway
    <3>2. CASE s # r.cur
      <4>1. live'[s] = live[s] BY <1>1, <2>4, <3>2
      <4> QED BY <1>3, <3>2, <4>1 DEF Treated
    <3> QED BY <3>1, <3>2
  <2>8. WindowOver(r, start[p], touched[p], live', journal)
    BY <1>3, <2>7 DEF WindowOver
  <2>9. \E x \in Records : Become(p, x) /\ Sound(x, start[p], touched[p], live', journal)
    BY <1>1, <1>5, <2>6, <2>8, AfterWindowSound
  <2> QED BY <1>2, <2>6, <2>9, StepSoundOf
<1> QED BY <1>4, <1>5 DEF ApplyLayout

LEMMA WindowFirst ==
    ASSUME NEW want \in Windows, want # << >>
    PROVE  LET now == << Head(want) >> IN
           /\ now \in Windows /\ now # Gone /\ Head(want) \in Labels /\ Tail(want) \in Windows
           /\ Len(now) = 1 /\ now[1] = Head(want) /\ now \o Tail(want) = want
BY DEF Windows, Gone

LEMMA NewSessionStep ==
    ASSUME IInv, NEW p \in Procs, NewSession(p)
    PROVE  StepSound(p)
<1> DEFINE r == proc[p]
           there == Exists(r.cur)
           first == IF r.want = << >> THEN << Shell >> ELSE << Head(r.want) >>
<1>1. /\ r \in Records /\ r.pc = "new" /\ r.pc \in ItemSteps
      /\ live \in [Sessions -> Windows]
      /\ Sound(r, start[p], touched[p], live, journal)
  BY Here DEF NewSession, At, Sound, ItemSteps
<1>2. UnchangedDb BY DEF NewSession
<1>3. /\ Midway(r, journal) /\ r.cur \in DOMAIN r.plan \ r.todo /\ r.cur \in Sessions
      /\ \A s \in Sessions \ touched[p] :
             IF s = r.cur THEN Underway(r, start[p], live, s)
             ELSE Treated(r, start[p], live, s)
  BY <1>1, UnderwayOf DEF Cur, Plan
<1>4. r.want \in Windows /\ r.op \in Planners BY <1>1, <1>3, RecordType DEF Midway
<1>5. there \in BOOLEAN /\ (there <=> live[r.cur] # Gone) BY DEF Exists
<1>6. /\ there => live' = live
      /\ ~there => live' = [live EXCEPT ![r.cur] = first]
  BY DEF NewSession, Cur, Want, UnchangedTmux
<1>7. first \in Windows
  BY <1>4, WindowFirst, SameSaved, <1>3
<1> HIDE DEF there
<1>8. live' \in [Sessions -> Windows] /\ (~there => live'[r.cur] = first)
  <2> HIDE DEF first
  <2> QED BY <1>1, <1>3, <1>5, <1>6, <1>7
<1>9. \A s \in Sessions : s # r.cur => live'[s] = live[s] BY <1>1, <1>5, <1>6
<1>10. ASSUME NEW s \in Sessions \ touched[p], s # r.cur
       PROVE  Treated(r, start[p], live', s)
  <2>1. Treated(r, start[p], live, s) BY <1>3, <1>10
  <2> QED BY <1>9, <1>10, <2>1 DEF Treated
<1>11. ASSUME r.cur \notin touched[p], ~Doomed(r)
       PROVE  /\ ~there /\ Result(r, start[p], r.cur) = Whole(r.want)
  <2>1. start[p][r.cur] = Gone /\ live[r.cur] = Gone /\ r.want = r.plan[r.cur]
    BY <1>1, <1>3, <1>11 DEF Underway
  <2> QED BY <1>3, <1>4, <1>5, <2>1 DEF Result, Planners
<1>12. CASE r.want # << >> /\ Made(p, Head(r.want), 1, Tail(r.want))
  <2> DEFINE name == Head(r.want)
             rest == Tail(r.want)
             was == start[p]
             hands == touched[p]
  <2>1. /\ first = << name >> /\ first # Gone /\ name \in Labels /\ rest \in Windows
        /\ Len(first) = 1 /\ first[1] = name /\ first \o rest = r.want
    BY <1>4, <1>12, WindowFirst
  <2>2. Whole(r.want) = r.want BY <1>12 DEF Whole
  <2> HIDE DEF name, rest, first
  <2>3. \A s \in Sessions \ hands :
            IF s = Cur(p)
            THEN ~Doomed(proc[p]) =>
                     /\ live'[s] \o rest = Result(proc[p], was, s)
                     /\ live'[s] # Gone /\ 1 = Len(live'[s])
                     /\ name = live'[s][Len(live'[s])]
            ELSE Treated(proc[p], was, live', s)
    BY <1>8, <1>10, <1>11, <2>1, <2>2 DEF Cur
  <2>4. Midway(proc[p], journal) /\ Cur(p) \in DOMAIN Plan(p) \ proc[p].todo
        /\ proc[p] \in Records /\ Made(p, name, 1, rest)
    BY <1>1, <1>3, <1>12 DEF Cur, Plan, name, rest
  <2> HIDE DEF was, hands, r
  <2>5. \E x \in Records : Become(p, x) /\ Sound(x, was, hands, live', journal)
    BY <1>8, <2>1, <2>3, <2>4, MadeSound
  <2> QED BY <1>2, <1>8, <2>5, StepSoundOf DEF was, hands
<1>13. CASE r.want = << >> /\ NextItem(p, r)
  <2>1. ASSUME NEW s \in Sessions \ touched[p], s = r.cur
        PROVE  Treated(r, start[p], live', s)
    <3>1. Whole(r.want) = << Shell >> /\ first = << Shell >> BY <1>13 DEF Whole
    <3> HIDE DEF first
    <3> QED BY <1>3, <1>8, <1>11, <2>1, <3>1 DEF Treated
  <2>2. ItemOver(r, start[p], touched[p], live', journal)
    BY <1>3, <1>10, <2>1 DEF ItemOver
  <2>3. Become(p, [r EXCEPT !.pc = AfterItem(r)]) BY <1>13 DEF NextItem
  <2>4. \E x \in Records : Become(p, x) /\ Sound(x, start[p], touched[p], live', journal)
    BY <1>1, <2>2, <2>3, NextItemSound
  <2> QED BY <1>2, <1>8, <2>4, StepSoundOf
<1>14. CASE ItemFailed(p)
  <2>1. \E x \in Records : Become(p, x) /\ Sound(x, start[p], touched[p], live', journal)
    BY <1>1, <1>14, ItemFailedSound
  <2> QED BY <1>2, <1>8, <2>1, StepSoundOf
<1>15. \/ r.want # << >> /\ Made(p, Head(r.want), 1, Tail(r.want))
       \/ r.want = << >> /\ NextItem(p, r)
       \/ ItemFailed(p)
  <2> DEFINE a == r.want # << >> /\ (Creates(p) \/ ~Exists(r.cur))
             b == r.want = << >> /\ (Op(p) = "push" \/ ~Exists(r.cur))
  <2>1. (CASE a -> Made(p, Head(r.want), 1, Tail(r.want))
           [] b -> NextItem(p, r)
           [] OTHER -> ItemFailed(p))
    BY DEF NewSession, Want, Cur
  <2>2. a \in BOOLEAN /\ b \in BOOLEAN /\ (a => r.want # << >>) /\ (b => r.want = << >>)
    OBVIOUS
  <2> HIDE DEF a, b
  <2> QED BY <2>1, <2>2
<1> QED BY <1>12, <1>13, <1>14, <1>15

(***************************************************************************)
(* All steps                                                               *)
(***************************************************************************)
LEMMA StepsSound ==
    ASSUME IInv, NEW p \in Procs, Step(p)
    PROVE  StepSound(p)
<1>1. Abort(p) => StepSound(p) BY AbortStep DEF Abort
<1> QED BY <1>1, ListSessionsStep, ListWindowsStep, InsertEventStep, SaveSnapshotStep,
       KillSessionStep, KillMatchingStep, ReadEventStep, GetSnapshotStep, DeleteEventStep,
       HasSessionStep, HasSessionAgainStep, NewSessionStep, NewWindowStep, ApplyLayoutStep,
       ListForPushStep, CreateScratchStep, InsertExpiryStep DEF Step

(* What a process begins with.                                             *)
LEMMA CommandType ==
    ASSUME NEW c \in Commands
    PROVE  /\ c.op \in AllOps /\ c.arg \subseteq Sessions
           /\ c.op \in {"kill", "new", "scratch"} => \E s \in Sessions : c.arg = {s}
BY ChoicesAssumption DEF Commands, Command, AllOps

LEMMA PlanOfType ==
    ASSUME NEW c \in Commands
    PROVE  PlanOf(c) \in Payloads
<1>1. Declared \in Payloads
  <2>1. Declared \in [DOMAIN Declared -> Windows]
    <3>1. \A w \in Seq(Names) : w \in Seq(Labels) BY DEF Labels
    <3> QED BY <3>1, DeclaredAssumption DEF Windows
  <2> QED BY <2>1, DeclaredAssumption, PayloadMade
<1>2. [s \in c.arg |-> << Shell >>] \in Payloads
  <2>1. << Shell >> \in Windows BY DEF Windows, Labels
  <2>2. [s \in c.arg |-> << Shell >>] \in [c.arg -> Windows] BY <2>1
  <2> QED BY <2>2, CommandType, PayloadMade
<1> QED BY <1>1, <1>2, NoPlanType DEF PlanOf

LEMMA BeginSound ==
    ASSUME IInv, NEW p \in Procs, NEW c \in Commands, Begin(p, c)
    PROVE  \E x \in Records : Become(p, x) /\ Sound(x, live, {}, live, journal)
<1> DEFINE x == [Idle EXCEPT !.pc = FirstLabel(c.op), !.op = c.op, !.arg = c.arg,
                             !.plan = PlanOf(c), !.todo = DOMAIN PlanOf(c)]
<1>1. /\ c.op \in AllOps /\ c.arg \subseteq Sessions
      /\ c.op \in {"kill", "new", "scratch"} => \E s \in Sessions : c.arg = {s}
  BY CommandType
<1>2. PlanOf(c) \in Payloads /\ DOMAIN PlanOf(c) \subseteq Sessions
  BY PlanOfType, PayloadType
<1>3. \/ FirstLabel(c.op) = "sessions" /\ c.op \in {"kill", "killall", "save"}
      \/ FirstLabel(c.op) = "event" /\ c.op = "undo"
      \/ FirstLabel(c.op) = "snapshot" /\ c.op = "restore"
      \/ FirstLabel(c.op) = "scratch" /\ c.op = "scratch"
      \/ FirstLabel(c.op) = "has" /\ c.op \in {"push", "init", "new"}
  BY <1>1 DEF FirstLabel, AllOps
<1>4. FirstLabel(c.op) \in Steps BY <1>3 DEF Steps
<1>5. << >> \in Windows /\ Shell \in Labels BY DEF Windows, Labels
<1>6. lastId \in Nat BY DEF IInv, FieldsTyped
<1>7. /\ x \in Records /\ x.pc = FirstLabel(c.op) /\ x.op = c.op /\ x.arg = c.arg
      /\ x.plan = PlanOf(c) /\ x.todo = DOMAIN PlanOf(c) /\ x.ev = 0
  <2> DEFINE pc == FirstLabel(c.op)
             op == c.op
             arg == c.arg
             plan == PlanOf(c)
             todo == DOMAIN PlanOf(c)
  <2>1. /\ pc \in Steps /\ op \in AllOps /\ arg \subseteq Sessions
        /\ plan \in Payloads /\ todo \subseteq Sessions
    BY <1>1, <1>2, <1>4
  <2> HIDE DEF pc, op, arg, plan, todo
  <2>2. x = [Idle EXCEPT !.pc = pc, !.op = op, !.arg = arg, !.plan = plan, !.todo = todo]
    BY DEF pc, op, arg, plan, todo
  <2> HIDE DEF x
  <2>3. x = [pc |-> pc, op |-> op, arg |-> arg, plan |-> plan, todo |-> todo, cur |-> None,
             want |-> << >>, name |-> Shell, at |-> 0, ev |-> 0, err |-> FALSE]
    BY <2>2 DEF Idle
  <2>4. 0 \in Nat /\ 0 \in 0 .. lastId /\ FALSE \in BOOLEAN BY <1>6
  <2>5. x \in Records BY <1>5, <2>1, <2>3, <2>4 DEF Records
  <2>6. /\ x.pc = pc /\ x.op = op /\ x.arg = arg
        /\ x.plan = plan /\ x.todo = todo /\ x.ev = 0
    BY <2>3
  <2> QED BY <2>5, <2>6 DEF pc, op, arg, plan, todo
<1>8. Become(p, x) BY DEF Begin
<1> HIDE DEF x
<1>9. Placed(x) BY <1>1, <1>3, <1>7 DEF Placed, ItemSteps, Planners
<1>10. Kept(x, live, {}, live)
  <2> SUFFICES ASSUME NEW s \in Sessions, x.pc = "has" PROVE Treated(x, live, live, s)
    BY <1>3, <1>7 DEF Kept, Early, ItemSteps
  <2>1. s \notin x.todo => Result(x, live, s) = live[s] BY <1>3, <1>7 DEF Result
  <2> QED BY <2>1 DEF Treated
<1>11. Caught(x, live, {}, live, journal)
  <2>1. \A e \in journal : e.id # 0 BY <1>6 DEF IInv, FieldsTyped, Events
  <2>2. c.op = "kill" => PlanOf(c) = NoPlan /\ FirstLabel(c.op) = "sessions"
    BY DEF PlanOf, FirstLabel
  <2> QED BY <1>7, <2>1, <2>2, NoPlanType DEF Caught
<1>12. Recalled(x, journal) BY <1>3, <1>7 DEF Recalled, ItemSteps
<1> QED BY <1>7, <1>8, <1>9, <1>10, <1>11, <1>12 DEF Sound

(* The user opens, closes and kills.                                       *)
LEMMA UserType ==
    ASSUME IInv, User
    PROVE  live' \in [Sessions -> Windows]
<1>1. live \in [Sessions -> Windows] BY DEF IInv, FieldsTyped
<1>2. ASSUME NEW s \in Sessions, NEW n \in Labels, UserOpens(s, n)
      PROVE  live' \in [Sessions -> Windows]
  <2>1. Append(live[s], n) \in Windows BY <1>1 DEF Windows
  <2> QED BY <1>1, <1>2, <2>1 DEF UserOpens
<1>3. ASSUME NEW s \in Sessions, NEW i \in 1 .. Len(live[s]), UserCloses(s, i)
      PROVE  live' \in [Sessions -> Windows]
  <2> DEFINE less == SubSeq(live[s], 1, i - 1) \o SubSeq(live[s], i + 1, Len(live[s]))
  <2>1. less \in Windows
    <3>1. live[s] \in Seq(Labels) /\ Len(live[s]) \in Nat BY <1>1 DEF Windows
    <3>2. SubSeq(live[s], 1, i - 1) \in Seq(Labels) BY <3>1, SubSeqProperties
    <3>3. SubSeq(live[s], i + 1, Len(live[s])) \in Seq(Labels) BY <3>1, SubSeqProperties
    <3> QED BY <3>2, <3>3 DEF Windows
  <2> QED BY <1>1, <1>3, <2>1 DEF UserCloses
<1>4. ASSUME NEW s \in Sessions, UserKills(s) PROVE live' \in [Sessions -> Windows]
  BY <1>1, <1>4, SameSaved DEF UserKills
<1> QED BY <1>2, <1>3, <1>4 DEF User

(***************************************************************************)
(* The invariant is inductive                                              *)
(***************************************************************************)
LEMMA IInvInit == Init => IInv
<1> SUFFICES ASSUME Init PROVE IInv OBVIOUS
<1>1. << Shell >> \in Windows /\ Gone \in Windows /\ << >> \in Windows /\ Shell \in Labels
  BY DEF Windows, Labels, Gone
<1>2. live \in [Sessions -> Windows] BY <1>1 DEF Init
<1>3. Idle \in Records BY <1>1, NoPlanType DEF Init, Idle, Records, Steps
<1>4. FieldsTyped
  BY <1>2, <1>3, BoundsAssumption DEF Init, FieldsTyped
<1>5. ASSUME NEW p \in Procs PROVE Sound(proc[p], start[p], touched[p], live, journal)
  <2>1. proc[p] = Idle /\ Idle.pc = "idle" /\ Idle.op = "none" BY DEF Init, Idle
  <2> QED BY <2>1 DEF Sound, Placed, Kept, Caught, Recalled, Early, ItemSteps
<1> QED BY <1>4, <1>5 DEF IInv, AllSound

(* The other processes, when who act: they notice what has changed.        *)
LEMMA OthersSound ==
    ASSUME IInv, NEW who, Notice(who), UNCHANGED start, DbTyped,
           live' \in [Sessions -> Windows],
           NEW q \in Procs \ who, proc'[q] = proc[q]
    PROVE  Sound(proc'[q], start'[q], touched'[q], live', journal')
<1> DEFINE more == touched[q] \cup Changed
<1>1. touched'[q] = more BY DEF Notice
<1>2. more \in SUBSET Sessions /\ touched[q] \subseteq more BY Here DEF Changed
<1>3. \A s \in Sessions \ more : live'[s] = live[s] BY DEF Changed
<1>4. journal \subseteq Events /\ lastId \in Nat BY DEF IInv, FieldsTyped
<1>5. \A e \in journal' : e \in journal \/ e.id > lastId BY DEF DbTyped
<1> HIDE DEF more
<1>6. Sound(proc[q], start[q], more, live', journal')
  BY <1>2, <1>3, <1>4, <1>5, Here, OthersKeepSound
<1> QED BY <1>1, <1>6

LEMMA FieldsNext ==
    ASSUME IInv, live' \in [Sessions -> Windows], DbTyped, proc' \in [Procs -> Records'],
           start' \in [Procs -> [Sessions -> Windows]],
           touched' \in [Procs -> SUBSET Sessions], acts' \in 0 .. MaxActs
    PROVE  FieldsTyped'
<1>1. Windows' = Windows /\ Payloads' = Payloads BY DEF Windows, Payloads, Labels
<1> QED BY <1>1 DEF FieldsTyped, DbTyped

LEMMA NoticeType ==
    ASSUME IInv, NEW who, Notice(who)
    PROVE  touched' \in [Procs -> SUBSET Sessions]
<1>1. Changed \subseteq Sessions BY DEF Changed
<1> QED BY <1>1 DEF IInv, FieldsTyped, Notice

LEMMA StepKeeps ==
    ASSUME IInv, NEW p \in Procs, Step(p), Notice({p}), UNCHANGED << start, acts >>
    PROVE  IInv'
<1>1. StepSound(p) BY StepsSound
<1>2. PICK x \in Records' :
         Become(p, x) /\ Sound(x, start[p], touched[p], live', journal')
  BY <1>1 DEF StepSound
<1>3. /\ proc \in [Procs -> Records] /\ start \in [Procs -> [Sessions -> Windows]]
      /\ acts \in 0 .. MaxActs /\ lastId \in Nat /\ touched \in [Procs -> SUBSET Sessions]
  BY DEF IInv, FieldsTyped
<1>4. /\ DbTyped /\ live' \in [Sessions -> Windows] /\ lastId' \in Nat /\ lastId <= lastId'
  BY <1>1 DEF StepSound, DbTyped
<1>5. proc' \in [Procs -> Records']
  <2>1. \A r \in Records : r \in Records' BY <1>3, <1>4, RecordsGrow
  <2>2. \A q \in Procs : proc[q] \in Records' BY <1>3, <2>1
  <2>3. proc' = [proc EXCEPT ![p] = x] BY <1>2 DEF Become
  <2>4. proc' = [q \in Procs |-> IF q = p THEN x ELSE proc[q]] BY <1>3, <2>3
  <2> QED BY <1>2, <2>2, <2>4
<1>6. FieldsTyped' BY <1>3, <1>4, <1>5, NoticeType, FieldsNext
<1>7. \A q \in Procs : proc'[q] = IF q = p THEN x ELSE proc[q]
  BY <1>2, <1>3 DEF Become
<1>8. touched'[p] = touched[p] BY DEF Notice
<1>9. ASSUME NEW q \in Procs PROVE Sound(proc'[q], start'[q], touched'[q], live', journal')
  <2>1. CASE q = p BY <1>2, <1>7, <1>8, <2>1
  <2>2. CASE q # p
    <3>1. q \in Procs \ {p} /\ proc'[q] = proc[q] BY <1>7, <2>2
    <3> QED BY <1>4, <3>1, OthersSound
  <2> QED BY <2>1, <2>2
<1> QED BY <1>6, <1>9 DEF IInv, AllSound

LEMMA BeginKeeps ==
    ASSUME IInv, NEW p \in Procs, NEW c \in Commands, Act, Begin(p, c),
           start' = [start EXCEPT ![p] = live], touched' = [touched EXCEPT ![p] = {}]
    PROVE  IInv'
<1>1. PICK x \in Records : Become(p, x) /\ Sound(x, live, {}, live, journal)
  BY BeginSound
<1>2. live' = live /\ UnchangedDb BY DEF Begin, UnchangedTmux
<1>3. DbTyped /\ Records' = Records /\ journal' = journal BY <1>2, DbUnchanged
<1>4. /\ proc \in [Procs -> Records] /\ start \in [Procs -> [Sessions -> Windows]]
      /\ touched \in [Procs -> SUBSET Sessions] /\ live \in [Sessions -> Windows]
  BY DEF IInv, FieldsTyped
<1>5. acts' \in 0 .. MaxActs
  BY BoundsAssumption DEF IInv, FieldsTyped, Act
<1>6. FieldsTyped'
  BY <1>1, <1>2, <1>3, <1>4, <1>5, FieldsNext DEF Become
<1>7. ASSUME NEW q \in Procs PROVE Sound(proc'[q], start'[q], touched'[q], live', journal')
  <2>1. CASE q = p
    <3>1. proc'[p] = x /\ start'[p] = live /\ touched'[p] = {} BY <1>1, <1>4 DEF Become
    <3> QED BY <1>1, <1>2, <1>3, <2>1, <3>1
  <2>2. CASE q # p
    <3>1. proc'[q] = proc[q] /\ start'[q] = start[q] /\ touched'[q] = touched[q]
      BY <1>1, <1>4, <2>2 DEF Become
    <3> QED BY <1>2, <1>3, <3>1, Here
  <2> QED BY <2>1, <2>2
<1> QED BY <1>6, <1>7 DEF IInv, AllSound

LEMMA UserKeeps ==
    ASSUME IInv, Act, User, Notice({}), UNCHANGED << journal, lastId, saved, proc, start >>
    PROVE  IInv'
<1>1. live' \in [Sessions -> Windows] BY UserType
<1>2. UnchangedDb BY DEF UnchangedDb
<1>3. DbTyped /\ Records' = Records BY <1>2, DbUnchanged
<1>4. acts' \in 0 .. MaxActs BY BoundsAssumption DEF IInv, FieldsTyped, Act
<1>5. /\ proc \in [Procs -> Records] /\ start \in [Procs -> [Sessions -> Windows]]
  BY DEF IInv, FieldsTyped
<1>6. FieldsTyped' BY <1>1, <1>3, <1>4, <1>5, NoticeType, FieldsNext
<1>7. ASSUME NEW q \in Procs PROVE Sound(proc'[q], start'[q], touched'[q], live', journal')
  BY <1>1, <1>3, OthersSound
<1> QED BY <1>6, <1>7 DEF IInv, AllSound

LEMMA IInvNext == IInv /\ [Next]_vars => IInv'
<1> SUFFICES ASSUME IInv, [Next]_vars PROVE IInv' OBVIOUS
<1>1. CASE UNCHANGED vars
  <2>1. /\ live' = live /\ journal' = journal /\ lastId' = lastId /\ saved' = saved
        /\ proc' = proc /\ start' = start /\ touched' = touched /\ acts' = acts
    BY <1>1 DEF vars
  <2>2. DbTyped /\ Records' = Records BY <2>1, DbUnchanged DEF UnchangedDb
  <2>3. FieldsTyped' BY <2>1, <2>2, FieldsNext DEF IInv, FieldsTyped
  <2>4. AllSound' BY <2>1 DEF IInv, AllSound
  <2> QED BY <2>3, <2>4 DEF IInv
<1>2. CASE Next
  <2>1. ASSUME NEW p \in Procs, Act, \E c \in Commands : Begin(p, c),
               start' = [start EXCEPT ![p] = live], touched' = [touched EXCEPT ![p] = {}]
        PROVE  IInv'
    BY <2>1, BeginKeeps
  <2>2. ASSUME NEW p \in Procs, Step(p), Notice({p}), UNCHANGED << start, acts >>
        PROVE  IInv'
    BY <2>2, StepKeeps
  <2>3. CASE Act /\ User /\ Notice({}) /\ UNCHANGED << journal, lastId, saved, proc, start >>
    BY <2>3, UserKeeps
  <2> QED BY <1>2, <2>1, <2>2, <2>3 DEF Next
<1> QED BY <1>1, <1>2

THEOREM IInvHolds == Spec => []IInv
BY IInvInit, IInvNext, PTL DEF Spec

(***************************************************************************)
(* The theorems                                                            *)
(***************************************************************************)

(* The tables keep their types, no two events have one id, and a process   *)
(* treats the sessions of its plan only.                                   *)
THEOREM CommandsTypeCorrect == Spec => []TypeOK
<1>1. IInv => TypeOK
  <2> SUFFICES ASSUME IInv PROVE TypeOK OBVIOUS
  <2>1. FieldsTyped BY DEF IInv
  <2>2. ASSUME NEW p \in Procs
        PROVE  /\ IsPayload(Plan(p)) /\ [proc[p] EXCEPT !.plan = NoPlan] \in Processes
               /\ proc[p].pc \in {"new", "window", "layout", "list"} => Cur(p) \in DOMAIN Plan(p)
               /\ proc[p].pc = "window" => Want(p) # << >>
    <3>1. proc[p] \in Records /\ Placed(proc[p]) BY Here DEF Sound
    <3>2. IsPayload(Plan(p)) BY <3>1, RecordType, PayloadType DEF IsPayload, Plan
    <3>3. [proc[p] EXCEPT !.plan = NoPlan] \in Processes BY <3>1 DEF Records, Processes
    <3> QED BY <3>1, <3>2, <3>3 DEF Placed, ItemSteps, Cur, Plan, Want
  <2>3. saved = None \/ IsPayload(saved)
    BY <2>1, PayloadType DEF FieldsTyped, IsPayload
  <2> QED BY <2>1, <2>2, <2>3 DEF FieldsTyped, TypeOK
<1> QED BY <1>1, IInvHolds, PTL

(* A command that ends without an error has done to each session nobody    *)
(* else touched exactly what it would have done at one stroke, however its *)
(* steps interleave with those of other commands and of the user.          *)
THEOREM CommandsDeliver == Spec => []Delivers
<1>1. IInv => Delivers
  <2> SUFFICES ASSUME IInv, NEW p \in Procs, At(p, "done"), NEW s \in Sessions \ touched[p]
               PROVE  live[s] = Outcome(p, s)
    BY DEF Delivers
  <2>1. Kept(proc[p], start[p], touched[p], live) BY Here DEF Sound
  <2>2. live[s] = Result(proc[p], start[p], s) BY <2>1 DEF Kept, At
  <2> QED BY <2>2 DEF Result, Outcome, Op, Plan
<1> QED BY <1>1, IInvHolds, PTL

(* After a kill in the TUI its event holds the session as it was, and is   *)
(* missing only if the insert failed or others changed a session meanwhile.*)
THEOREM KillsAreUndoable == Spec => []KillIsUndoable
<1>1. IInv => KillIsUndoable
  <2> SUFFICES ASSUME IInv, NEW p \in Procs, At(p, "done"), Op(p) = "kill"
               PROVE  /\ touched[p] = {} /\ ~proc[p].err => proc[p].ev # 0
                      /\ \A e \in journal :
                             e.id = proc[p].ev /\ e.target \notin touched[p] =>
                                 e.wins = start[p][e.target]
    BY DEF KillIsUndoable
  <2>1. Caught(proc[p], start[p], touched[p], live, journal) BY Here DEF Sound
  <2> QED BY <2>1 DEF Caught, At, Op
<1> QED BY <1>1, IInvHolds, PTL

(* Only the event an undo has replayed is ever deleted: the id it uses long*)
(* after it was read still means the same kill.                            *)
THEOREM OnlyReplayedForgotten == Spec => OnlyUndoneForgotten
<1> DEFINE Replayed(e) ==
              \E p \in Procs : /\ Op(p) = "undo" /\ proc'[p] # proc[p]
                               /\ Plan(p) = Only(e.target, e.wins)
<1>1. IInv /\ [Next]_vars => [\A e \in journal \ journal' : Replayed(e)]_vars
  <2> SUFFICES ASSUME IInv, Next, NEW e \in journal \ journal' PROVE Replayed(e) OBVIOUS
  <2>1. journal' # journal OBVIOUS
  <2>2. ASSUME NEW p \in Procs, NEW c \in Commands, Begin(p, c) PROVE FALSE
    BY <2>1, <2>2 DEF Begin, UnchangedDb
  <2>3. ASSUME NEW p \in Procs, Step(p) PROVE Replayed(e)
    <3>1. DeleteEvent(p)
      <4>1. InsertEvent(p) \/ InsertExpiry(p) => FALSE
        BY <2>1 DEF InsertEvent, InsertExpiry, Record, UnchangedDb
      <4>2. ASSUME UnchangedDb \/ journal' = journal PROVE FALSE
        BY <2>1, <4>2 DEF UnchangedDb
      <4> QED BY <2>3, <4>1, <4>2
          DEF Step, ListSessions, ListWindows, SaveSnapshot, KillSession, KillMatching,
              ReadEvent, GetSnapshot, HasSession, HasSessionAgain, NewSession, NewWindow,
              ApplyLayout, ListForPush, CreateScratch, Abort
    <3>2. proc[p].pc = "forget" /\ e.id = proc[p].ev
      BY <2>1, <3>1 DEF DeleteEvent, At, UnchangedDb
    <3>3. proc[p].op = "undo" BY <3>2, Here DEF Sound, Placed
    <3>4. proc[p].plan = Only(e.target, e.wins) BY <3>2, <3>3, Here DEF Sound, Recalled
    <3>5. proc'[p] # proc[p]
      <4>1. proc' = [proc EXCEPT ![p] = [proc[p] EXCEPT !.pc = "done"]]
        BY <3>1 DEF DeleteEvent, Goto, Become
      <4>2. proc \in [Procs -> Records] BY DEF IInv, FieldsTyped
      <4>3. proc'[p].pc = "done" BY <4>1, <4>2 DEF Records
      <4> QED BY <3>2, <4>3
    <3> QED BY <3>3, <3>4, <3>5 DEF Op, Plan
  <2> QED BY <2>1, <2>2, <2>3 DEF Next
<1> QED BY <1>1, IInvHolds, PTL DEF Spec, OnlyUndoneForgotten
=============================================================================
