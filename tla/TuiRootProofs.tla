---------------------------- MODULE TuiRootProofs ----------------------------
(***************************************************************************)
(* Proofs about TuiRoot, for any actions, any setups, production and demo, *)
(* whatever may fail in them, and any bound on the revisions.              *)
(***************************************************************************)
EXTENDS TuiRoot, FiniteSetTheorems, TLAPS

(***************************************************************************)
(* The inductive invariant. It says of the commands under way what the     *)
(* handlers of Update take for granted: what each of them carries, that    *)
(* the first snapshot is fetched once, and that the watch and the ticker   *)
(* are chains of one link.                                                 *)
(***************************************************************************)

(* The tasks of T the watch, or the ticker, goes on with.                  *)
WatchTasks(T) == { t \in T : t.kind \in {"watch", "fetch", "retry"} }
Of(T, kind) == { t \in T : t.kind = kind }

AtMostOne(S) == \A x, y \in S : x = y
One(S) == AtMostOne(S) /\ S # {}

(* What a task carries: an action to execute has an identity, and a        *)
(* subscription alone stays open.                                          *)
Sound(t) ==
    /\ t \in Tasks
    /\ t.kind = "execute" => t.act \in Acts
    /\ t.at = "open" => t.kind = "watch"

AllSound(T) == IsFiniteSet(T) /\ \A t \in T : Sound(t)

(* The variables apart from the tasks.                                     *)
FieldsTyped ==
    /\ setup \in Setups
    /\ rev \in 1 .. MaxRevision
    /\ mine \in SUBSET [act : Acts, base : 1 .. MaxRevision - 1]
    /\ cat \in 0 .. MaxRevision /\ eventSeq \in 0 .. MaxRevision
    /\ mut \in [kind : LaneKinds, act : Acts \cup {NoAct}]
    /\ {ready, tickPending, timerArmed} \subseteq BOOLEAN
    /\ armedToken \in {0, 1}

(* Init's snapshot is fetched once, and it is all there is before the root *)
(* is ready, unless the user is early.                                     *)
Beginning ==
    /\ AtMostOne(Of(tasks, "load"))
    /\ ready => Of(tasks, "load") = {}
    /\ ~ready /\ ~setup.early => /\ tasks = Of(tasks, "load")
                                 /\ cat = 0 /\ ~tickPending

WatchChain ==
    /\ Watching /\ ready => One(WatchTasks(tasks))
    /\ ~(Watching /\ ready) => WatchTasks(tasks) = {}

(* The demo's next tick is armed, pending or in the lane.                  *)
Exclusive ==
    /\ timerArmed => ~tickPending /\ mut.kind # "tick"
    /\ tickPending => mut.kind # "tick"

(* It is one of the three, except that the first catalog may arm a timer   *)
(* beside the tick of a user who was early, and a tick that is in conflict *)
(* has a reload arm the next.                                              *)
TickChain ==
    Ticking =>
        /\ \A t \in Of(tasks, "timer") : timerArmed /\ t.arg = armedToken
        /\ AtMostOne(Of(tasks, "timer"))
        /\ timerArmed => Of(tasks, "timer") # {}
        /\ mut.kind = "tick" => Of(tasks, "tick") # {}
        /\ ~(timerArmed /\ tickPending /\ mut.kind = "tick")
        /\ ~ready \/ ~setup.early => Exclusive
        /\ ready => timerArmed \/ tickPending \/ mut.kind \in {"tick", "reload"}

IInv ==
    /\ FieldsTyped /\ AllSound(tasks)
    /\ Beginning /\ LaneSerialized /\ WatchChain /\ TickChain

(***************************************************************************)
(* Tasks that are started and answered.                                    *)
(***************************************************************************)

(* A set of tasks is never as large as the choice of numbers, so there is  *)
(* always a fresh one.                                                     *)
LEMMA FreshIds ==
    ASSUME NEW T, IsFiniteSet(T)
    PROVE  FreshId(T) \in Nat /\ \A t \in T : t.id # FreshId(T)
<1> DEFINE N == 0 .. Cardinality(T)
<1>1. Cardinality(T) \in Nat
  BY FS_CardinalityType
<1>2. \E n \in N : \A t \in T : t.id # n
  <2> SUFFICES ASSUME \A n \in N : \E t \in T : t.id = n
               PROVE  FALSE
    OBVIOUS
  <2> DEFINE f == [n \in N |-> CHOOSE t \in T : t.id = n]
  <2>1. \A n \in N : f[n] \in T /\ f[n].id = n
    OBVIOUS
  <2>2. f \in [N -> T]
    BY <2>1
  <2>3. IsFiniteSet(N) /\ Cardinality(T) < Cardinality(N)
    BY <1>1, FS_Interval
  <2> HIDE DEF f, N
  <2>4. PICK m, n \in N : m # n /\ f[m] = f[n]
    BY <2>2, <2>3, FS_PigeonHole
  <2> QED
    BY <2>1, <2>4
<1> QED
  BY <1>1, <1>2 DEF FreshId

(* A task that is started is sound and has the next fresh number.          *)
LEMMA StartSound ==
    ASSUME NEW T, AllSound(T),
           NEW kind \in TaskKinds, NEW arg \in 0 .. MaxRevision,
           NEW act \in Acts \cup {NoAct}, kind = "execute" => act \in Acts
    PROVE  /\ AllSound(Start(T, kind, arg, act))
           /\ \E n : /\ Start(T, kind, arg, act) = T \cup {n}
                     /\ n.kind = kind /\ n.arg = arg /\ n.act = act
<1> DEFINE n == [id |-> FreshId(T), kind |-> kind, arg |-> arg, act |-> act,
                 at |-> "call", res |-> Pending]
<1>1. FreshId(T) \in Nat
  BY FreshIds DEF AllSound
<1>2. n \in Tasks
  BY <1>1 DEF Tasks, Results
<1>3. Sound(n)
  BY <1>2 DEF Sound, Results, Pending
<1>4. Start(T, kind, arg, act) = T \cup {n}
  BY DEF Start
<1> HIDE DEF n
<1>5. IsFiniteSet(T \cup {n})
  BY FS_AddElement DEF AllSound
<1>6. n.kind = kind /\ n.arg = arg /\ n.act = act
  BY DEF n
<1> QED
  BY <1>3, <1>4, <1>5, <1>6 DEF AllSound

(* So are the tasks that are left when one is delivered.                   *)
LEMMA RestSound ==
    ASSUME AllSound(tasks), NEW t
    PROVE  AllSound(Rest(t))
BY FS_RemoveElement DEF AllSound, Rest

(* A task that is answered stays what it was.                              *)
LEMMA AnswerSound ==
    ASSUME NEW t, Sound(t), NEW res, res \in Results
    PROVE  LET u == Answer(t, res)
           IN  Sound(u) /\ u.kind = t.kind /\ u.arg = t.arg /\ u.act = t.act
<1> DEFINE u == Answer(t, res)
<1>1. u \in Tasks /\ u.kind = t.kind /\ u.arg = t.arg /\ u.act = t.act
      /\ u.at = "msg" /\ u.res = res
  BY DEF Sound, Tasks, Answer
<1> QED
  BY <1>1 DEF Sound

(***************************************************************************)
(* Steps of the backend. It answers tasks, several at once when a revision *)
(* is published, but starts none, delivers none and changes none into      *)
(* another.                                                                *)
(***************************************************************************)

(* g maps each task to what has become of it.                              *)
Answers(g) ==
    /\ tasks' = { g[t] : t \in tasks }
    /\ \A t \in tasks : /\ Sound(g[t])
                        /\ g[t].kind = t.kind /\ g[t].arg = t.arg
                        /\ g[t].act = t.act

Answering ==
    /\ \E g \in [tasks -> Tasks] : Answers(g)
    /\ rev' \in 1 .. MaxRevision
    /\ mine' \in SUBSET [act : Acts, base : 1 .. MaxRevision - 1]
    /\ UNCHANGED << setup, cat, eventSeq, ready, mut, timerVars >>

(* One task is answered, with the subscriptions open to it published to.   *)
LEMMA AnswerOne ==
    ASSUME AllSound(tasks), NEW t \in tasks, NEW u, Sound(u),
           u.kind = t.kind, u.arg = t.arg, u.act = t.act,
           \/ tasks' = Rest(t) \cup {u}
           \/ \E r \in 0 .. MaxRevision : tasks' = Published(Rest(t), r) \cup {u}
    PROVE  \E g \in [tasks -> Tasks] : Answers(g)
<1> DEFINE P(x, r) == IF x.at = "open" THEN Answer(x, Ok(r)) ELSE x
<1>1. CASE tasks' = Rest(t) \cup {u}
  <2> DEFINE g == [x \in tasks |-> IF x = t THEN u ELSE x]
  <2>1. g \in [tasks -> Tasks] /\ tasks' = { g[x] : x \in tasks }
    BY <1>1 DEF Rest, AllSound, Sound
  <2>2. \A x \in tasks : /\ Sound(g[x])
                         /\ g[x].kind = x.kind /\ g[x].arg = x.arg
                         /\ g[x].act = x.act
    BY DEF AllSound
  <2> HIDE DEF g
  <2> QED
    BY <2>1, <2>2 DEF Answers
<1>2. ASSUME NEW r \in 0 .. MaxRevision,
             tasks' = Published(Rest(t), r) \cup {u}
      PROVE  \E g \in [tasks -> Tasks] : Answers(g)
  <2> DEFINE g == [x \in tasks |-> IF x = t THEN u ELSE P(x, r)]
  <2>1. \A x \in tasks : /\ Sound(P(x, r))
                         /\ P(x, r).kind = x.kind /\ P(x, r).arg = x.arg
                         /\ P(x, r).act = x.act
    <3> SUFFICES ASSUME NEW x \in tasks, x.at = "open"
                 PROVE  LET y == Answer(x, Ok(r))
                        IN  /\ Sound(y) /\ y.kind = x.kind
                            /\ y.arg = x.arg /\ y.act = x.act
      BY DEF AllSound
    <3>1. Sound(x) /\ x.kind = "watch"
      BY DEF AllSound, Sound
    <3>2. Ok(r) \in Results
      BY <3>1 DEF Ok, Results
    <3> QED
      BY <3>1, <3>2, AnswerSound
  <2>2. tasks' = { P(x, r) : x \in Rest(t) } \cup {u}
    BY <1>2 DEF Published
  <2> HIDE DEF P
  <2>3. g \in [tasks -> Tasks]
    BY <2>1 DEF Sound
  <2>4. tasks' = { g[x] : x \in tasks }
    BY <2>2 DEF Rest
  <2>5. \A x \in tasks : /\ Sound(g[x])
                         /\ g[x].kind = x.kind /\ g[x].arg = x.arg
                         /\ g[x].act = x.act
    BY <2>1
  <2> HIDE DEF g
  <2> QED
    BY <2>3, <2>4, <2>5 DEF Answers
<1> QED
  BY <1>1, <1>2

(* What the runtime changes is published.                                  *)
LEMMA ObserveAnswers ==
    ASSUME FieldsTyped, AllSound(tasks), Observe, UNCHANGED setup
    PROVE  Answering
<1> DEFINE P(x) == IF x.at = "open" THEN Answer(x, Ok(rev + 1)) ELSE x
           g == [x \in tasks |-> P(x)]
<1>1. rev + 1 \in 1 .. MaxRevision
  BY MaxRevisionAssumption DEF FieldsTyped, Observe
<1>2. \A x \in tasks : /\ Sound(P(x)) /\ P(x).kind = x.kind
                       /\ P(x).arg = x.arg /\ P(x).act = x.act
  <2> SUFFICES ASSUME NEW x \in tasks, x.at = "open"
               PROVE  LET y == Answer(x, Ok(rev + 1))
                      IN  /\ Sound(y) /\ y.kind = x.kind
                          /\ y.arg = x.arg /\ y.act = x.act
    BY DEF AllSound
  <2>1. Sound(x) /\ x.kind = "watch"
    BY DEF AllSound, Sound
  <2>2. Ok(rev + 1) \in Results
    BY <1>1, <2>1 DEF Ok, Results
  <2> QED
    BY <2>1, <2>2, AnswerSound
<1>3. tasks' = { P(x) : x \in tasks }
  BY DEF Observe, Published
<1> HIDE DEF P
<1>4. g \in [tasks -> Tasks] /\ tasks' = { g[x] : x \in tasks }
  BY <1>2, <1>3 DEF Sound
<1>5. Answers(g)
  BY <1>2, <1>4 DEF Answers
<1> QED
  BY <1>1, <1>4, <1>5 DEF Answering, FieldsTyped, Observe

(* A call is answered, a subscription opened, kept alive or broken.        *)
LEMMA ServeAnswers ==
    ASSUME FieldsTyped, AllSound(tasks), NEW t \in tasks,
           Serve(t) \/ Heartbeat(t) \/ Break(t), UNCHANGED setup
    PROVE  Answering
<1>1. Sound(t)
  BY DEF AllSound
<1>2. ASSUME NEW u, Sound(u), u.kind = t.kind, u.arg = t.arg, u.act = t.act,
             tasks' = Rest(t) \cup {u},
             UNCHANGED << mine, cat, eventSeq, ready, mut, timerVars >>,
             rev' \in {rev, rev + 1}, rev' \in 1 .. MaxRevision
      PROVE  Answering
  BY <1>2, AnswerOne DEF Answering, FieldsTyped
<1>3. ASSUME NEW res, res \in Results, tasks' = Rest(t) \cup {Answer(t, res)},
             UNCHANGED << mine, cat, eventSeq, ready, mut, timerVars >>,
             rev' \in {rev, rev + 1}, rev' \in 1 .. MaxRevision
      PROVE  Answering
  BY <1>1, <1>2, <1>3, AnswerSound
<1>4. CASE ServeSnapshot(t)
  <2>1. Ok(rev) \in Results
    BY <1>4 DEF ServeSnapshot, Ok, Results, FieldsTyped
  <2> QED
    BY <1>3, <1>4, <2>1 DEF ServeSnapshot, backendVars, FieldsTyped
<1>5. CASE ServeExecute(t)
  <2>1. rev + 1 \in 1 .. MaxRevision /\ t.act \in Acts
    BY <1>1, <1>5, MaxRevisionAssumption DEF ServeExecute, FieldsTyped, Sound
  <2>2. PICK res \in {Ok(rev + 1), Failed} :
           tasks' = Published(Rest(t), rev + 1) \cup {Answer(t, res)}
    BY <1>5 DEF ServeExecute
  <2>3. res \in Results
    BY <1>5, <2>1 DEF ServeExecute, Ok, Failed, Results
  <2>4. \E g \in [tasks -> Tasks] : Answers(g)
    BY <1>1, <2>1, <2>2, <2>3, AnswerSound, AnswerOne
  <2>5. [act |-> t.act, base |-> t.arg] \in [act : Acts, base : 1 .. MaxRevision - 1]
    BY <1>5, <2>1, MaxRevisionAssumption DEF ServeExecute, FieldsTyped
  <2> QED
    BY <1>5, <2>1, <2>4, <2>5 DEF ServeExecute, Answering, FieldsTyped
<1>6. CASE ServeStored(t)
  <2>1. t.arg \in 1 .. MaxRevision - 1
    BY <1>6 DEF ServeStored, FieldsTyped
  <2>2. Ok(t.arg + 1) \in Results
    BY <1>6, <2>1, MaxRevisionAssumption DEF ServeStored, Ok, Results
  <2> QED
    BY <1>3, <1>6, <2>2 DEF ServeStored, backendVars, FieldsTyped
<1>7. CASE ServeConflict(t)
  <2>1. Conflict \in Results
    BY <1>7 DEF ServeConflict, Conflict, Results
  <2> QED
    BY <1>3, <1>7, <2>1 DEF ServeConflict, backendVars, FieldsTyped
<1>8. CASE ServeUnloaded(t)
  <2>1. Failed \in Results
    BY DEF Results
  <2> QED
    BY <1>3, <1>8, <2>1 DEF ServeUnloaded, backendVars, FieldsTyped
<1>9. CASE ServeTick(t)
  <2>1. rev + 1 \in 1 .. MaxRevision
    BY <1>9, MaxRevisionAssumption DEF ServeTick, FieldsTyped
  <2>2. Ok(rev + 1) \in Results
    BY <1>9, <2>1 DEF ServeTick, Ok, Results
  <2> QED
    BY <1>3, <1>9, <2>1, <2>2 DEF ServeTick
<1>10. CASE ServeTimer(t)
  <2>1. Ok(0) \in Results
    BY <1>10, MaxRevisionAssumption DEF ServeTimer, Ok, Results
  <2> QED
    BY <1>3, <1>10, <2>1 DEF ServeTimer, backendVars, FieldsTyped
<1>11. CASE ServeWatch(t)
  <2>1. CASE rev > t.arg
    <3>1. Ok(rev) \in Results
      BY <1>11 DEF ServeWatch, Ok, Results, FieldsTyped
    <3> QED
      BY <1>3, <1>11, <2>1, <3>1 DEF ServeWatch, backendVars, FieldsTyped
  <2>2. CASE ~(rev > t.arg)
    <3> DEFINE u == [t EXCEPT !.at = "open"]
    <3>1. Sound(u) /\ u.kind = t.kind /\ u.arg = t.arg /\ u.act = t.act
      BY <1>1, <1>11 DEF ServeWatch, Sound, Tasks
    <3>2. tasks' = Rest(t) \cup {u}
      BY <1>11, <2>2 DEF ServeWatch
    <3> HIDE DEF u
    <3> QED
      BY <1>2, <1>11, <3>1, <3>2 DEF ServeWatch, backendVars, FieldsTyped
  <2> QED
    BY <2>1, <2>2
<1>12. CASE Heartbeat(t)
  <2>1. Ok(0) \in Results
    BY <1>1, <1>12, MaxRevisionAssumption DEF Heartbeat, Sound, Ok, Results
  <2> QED
    BY <1>3, <1>12, <2>1 DEF Heartbeat, backendVars, FieldsTyped
<1>13. CASE Break(t)
  <2>1. Failed \in Results
    BY DEF Failed, Results
  <2> QED
    BY <1>3, <1>13, <2>1 DEF Break, backendVars, FieldsTyped
<1> QED
  BY <1>4, <1>5, <1>6, <1>7, <1>9, <1>10, <1>11, <1>12, <1>13,
     <1>8 DEF Serve

(* However tasks are answered, the invariant holds on.                     *)
LEMMA AnsweringKeeps ==
    ASSUME IInv, Answering
    PROVE  IInv'
<1>1. PICK g \in [tasks -> Tasks] : Answers(g)
  BY DEF Answering
<1>2. \A u \in tasks' : \E t \in tasks : u = g[t]
  BY <1>1 DEF Answers
<1>3. \A t \in tasks :
         /\ g[t] \in tasks' /\ Sound(g[t])
         /\ g[t].kind = t.kind /\ g[t].arg = t.arg /\ g[t].act = t.act
  BY <1>1 DEF Answers
<1>4. UNCHANGED << setup, cat, eventSeq, ready, mut, tickPending, timerArmed,
                   armedToken, Watching, Ticking >>
  BY DEF Answering, timerVars, Watching, Ticking
<1>5. FieldsTyped'
  BY <1>4 DEF Answering, IInv, FieldsTyped
<1>6. AllSound(tasks)'
  <2>1. g \in Surjection(tasks, tasks')
    BY <1>2, <1>3 DEF Surjection
  <2>2. IsFiniteSet(tasks')
    BY <2>1, FS_Surjection DEF IInv, AllSound
  <2> QED
    BY <1>2, <1>3, <2>2 DEF AllSound
<1>7. Beginning'
  BY <1>2, <1>3, <1>4 DEF IInv, Beginning, Of, AtMostOne
<1>8. LaneSerialized'
  <2>1. ASSUME NEW u \in LaneTasks'
        PROVE  \E t \in LaneTasks : u = g[t] /\ LaneOf(u) = LaneOf(t)
    BY <1>2, <1>3, <2>1 DEF LaneTasks, LaneOf
  <2> QED
    BY <1>4, <2>1 DEF IInv, LaneSerialized
<1>9. WatchChain'
  BY <1>2, <1>3, <1>4 DEF IInv, WatchChain, WatchTasks, One, AtMostOne
<1>10. TickChain'
  <2>1. ASSUME NEW k, NEW u \in Of(tasks', k)
        PROVE  \E t \in Of(tasks, k) : u = g[t] /\ u.arg = t.arg
    BY <1>2, <1>3, <2>1 DEF Of
  <2>2. ASSUME NEW k, Of(tasks, k) # {}
        PROVE  Of(tasks', k) # {}
    BY <1>3, <2>2 DEF Of
  <2> QED
    BY <1>4, <2>1, <2>2 DEF IInv, TickChain, Exclusive, AtMostOne
<1> QED
  BY <1>5, <1>6, <1>7, <1>8, <1>9, <1>10 DEF IInv

(***************************************************************************)
(* Steps of Update.                                                        *)
(***************************************************************************)

(* The command that holds the lane is the only one that can.               *)
LEMMA LaneIsLeft ==
    ASSUME IInv, NEW t \in LaneTasks, NEW u \in Rest(t)
    PROVE  u.kind \notin {"execute", "tick", "reload"}
BY DEF IInv, LaneSerialized, LaneTasks, Rest

(* A message that is dropped: no link of the watch and, in the demo, none  *)
(* of the ticker.                                                          *)
LEMMA DropKeeps ==
    ASSUME IInv, NEW t \in tasks, Drop(t), UNCHANGED setup,
           t.kind \notin {"watch", "fetch", "retry"},
           Ticking => t.kind \notin {"tick", "timer"}
    PROVE  IInv'
<1>1. UNCHANGED << setup, rev, mine, cat, eventSeq, ready, mut, tickPending,
                   timerArmed, armedToken, Watching, Ticking >>
  BY DEF Drop, backendVars, timerVars, Watching, Ticking
<1>2. tasks' = Rest(t) /\ tasks' \subseteq tasks
  BY DEF Drop, Rest
<1>4. FieldsTyped'
  BY <1>1 DEF IInv, FieldsTyped
<1>5. AllSound(tasks)'
  BY <1>2, RestSound DEF IInv
<1>6. Beginning'
  BY <1>1, <1>2 DEF IInv, Beginning, Of, AtMostOne
<1>7. LaneSerialized'
  BY <1>1, <1>2 DEF IInv, LaneSerialized, LaneTasks, LaneOf
<1>8. WatchChain'
  <2>1. WatchTasks(tasks') = WatchTasks(tasks)
    BY <1>2 DEF WatchTasks, Rest
  <2> QED
    BY <1>1, <2>1 DEF IInv, WatchChain
<1>9. TickChain'
  <2>1. Ticking => Of(tasks', "tick") = Of(tasks, "tick")
                   /\ Of(tasks', "timer") = Of(tasks, "timer")
    BY <1>2 DEF Of, Rest
  <2> QED
    BY <1>1, <2>1 DEF IInv, TickChain, Exclusive
<1> QED
  BY <1>4, <1>5, <1>6, <1>7, <1>8, <1>9 DEF IInv

(* The watch goes on: one link of its chain is replaced by the next, and   *)
(* what is shown may change.                                               *)
LEMMA WatchKeeps ==
    ASSUME IInv, NEW t \in WatchTasks(tasks),
           NEW kind \in {"watch", "fetch", "retry"}, NEW arg \in 0 .. MaxRevision,
           tasks' = Start(Rest(t), kind, arg, NoAct),
           cat' \in 0 .. MaxRevision, eventSeq' \in 0 .. MaxRevision,
           UNCHANGED << setup, rev, mine, ready, mut, timerVars >>
    PROVE  IInv'
<1>0. t \in tasks /\ t.kind # "load"
  BY DEF WatchTasks
<1>1. UNCHANGED << setup, rev, mine, ready, mut, tickPending,
                   timerArmed, armedToken, Watching, Ticking >>
  BY DEF timerVars, Watching, Ticking
<1>2. PICK n : tasks' = Rest(t) \cup {n} /\ n.kind = kind
  BY RestSound, StartSound DEF IInv, TaskKinds
<1>3. ready /\ Watching
  BY DEF IInv, WatchChain
<1>4. FieldsTyped'
  BY <1>1 DEF IInv, FieldsTyped
<1>5. AllSound(tasks)'
  BY RestSound, StartSound DEF IInv, TaskKinds
<1>6. Beginning'
  <2>1. \A u \in tasks' : u.kind # "load"
    BY <1>2, <1>3 DEF IInv, Beginning, Of, Rest
  <2> QED
    BY <1>1, <1>3, <2>1 DEF Beginning, Of, AtMostOne
<1>7. LaneSerialized'
  <2>1. LaneTasks' \subseteq LaneTasks
    BY <1>2 DEF LaneTasks, Rest
  <2> QED
    BY <1>1, <2>1 DEF IInv, LaneSerialized, LaneOf
<1>8. WatchChain'
  <2>1. WatchTasks(Rest(t)) = {}
    BY <1>3 DEF IInv, WatchChain, WatchTasks, One, AtMostOne, Rest
  <2>2. WatchTasks(tasks') = {n}
    BY <1>2, <2>1 DEF WatchTasks
  <2> QED
    BY <1>1, <1>3, <2>2 DEF WatchChain, One, AtMostOne, Watching
<1>9. TickChain'
  BY <1>1, <1>3 DEF TickChain, Watching, Ticking
<1> QED
  BY <1>4, <1>5, <1>6, <1>7, <1>8, <1>9 DEF IInv

(* The lane is released by the command that holds it.                      *)
LEMMA ReleaseKeeps ==
    ASSUME IInv, NEW t \in LaneTasks,
           cat' \in 0 .. MaxRevision, Release(Rest(t), cat'),
           UNCHANGED << setup, rev, mine, eventSeq, ready >>
    PROVE  IInv'
<1>1. t \in tasks /\ t.kind # "load" /\ mut = LaneOf(t)
  BY DEF LaneTasks, IInv, LaneSerialized
<1>2. UNCHANGED << setup, ready, Watching, Ticking >>
  BY DEF Watching, Ticking
<1>3. AllSound(Rest(t)) /\ Rest(t) \subseteq tasks
      /\ FieldsTyped /\ TickChain
  BY RestSound DEF IInv, Rest
<1>4. \A u \in Rest(t) : u.kind \notin {"execute", "tick", "reload"}
  BY LaneIsLeft
<1>5. ready \/ setup.early
  BY <1>1 DEF IInv, Beginning, Of
<1>6. Of(Rest(t), "load") = Of(tasks, "load")
  BY <1>1 DEF Of, Rest
<1>7. CASE tickPending
  <2>1. PICK n : /\ tasks' = Rest(t) \cup {n} /\ n.kind = "tick"
                 /\ n.arg = cat' /\ n.act = NoAct
    BY <1>3, <1>7, StartSound DEF Release, TaskKinds
  <2>2. /\ mut' = Lane("tick", NoAct) /\ tickPending' = FALSE
        /\ UNCHANGED << timerArmed, armedToken >>
    BY <1>7 DEF Release
  <2>3. FieldsTyped'
    BY <1>3, <2>2 DEF FieldsTyped, Lane, LaneKinds
  <2>4. AllSound(tasks)'
    BY <1>3, <1>7, StartSound DEF Release, TaskKinds
  <2>5. Beginning'
    <3>1. Of(tasks', "load") = Of(tasks, "load")
      BY <1>6, <2>1 DEF Of
    <3> QED
      BY <1>2, <1>5, <3>1 DEF IInv, Beginning
  <2>6. LaneSerialized'
    BY <1>4, <2>1, <2>2 DEF LaneSerialized, LaneTasks, LaneOf, Lane
  <2>7. WatchChain'
    <3>1. WatchTasks(tasks') = WatchTasks(tasks)
      BY <2>1 DEF WatchTasks, Rest, LaneTasks
    <3> QED
      BY <1>2, <3>1 DEF IInv, WatchChain
  <2>8. TickChain'
    <3> SUFFICES ASSUME Ticking
                 PROVE  TickChain'
      BY <1>2 DEF TickChain
    <3>1. Of(tasks', "timer") = Of(tasks, "timer") /\ Of(tasks', "tick") = {n}
      BY <1>4, <2>1 DEF Of, Rest, LaneTasks
    <3> QED
      BY <1>2, <1>3, <1>7, <2>1, <2>2, <3>1
         DEF TickChain, Exclusive, AtMostOne, Lane
  <2> QED
    BY <2>3, <2>4, <2>5, <2>6, <2>7, <2>8 DEF IInv
<1>8. CASE ~tickPending /\ Ticking /\ ~timerArmed
  <2>1. /\ mut' = Idle /\ UNCHANGED tickPending
        /\ timerArmed' = TRUE /\ armedToken' = 1 - armedToken
        /\ tasks' = Start(Rest(t), "timer", armedToken', NoAct)
    BY <1>8 DEF Release, Arm
  <2>2. armedToken' \in {0, 1} /\ armedToken' \in 0 .. MaxRevision
    BY <1>3, <2>1, MaxRevisionAssumption DEF FieldsTyped
  <2>3. PICK n : /\ tasks' = Rest(t) \cup {n} /\ n.kind = "timer"
                 /\ n.arg = armedToken'
    BY <1>3, <2>1, <2>2, StartSound DEF TaskKinds
  <2>4. FieldsTyped'
    BY <1>3, <2>1, <2>2 DEF FieldsTyped, Idle, Lane, LaneKinds
  <2>5. AllSound(tasks)'
    BY <1>3, <2>1, <2>2, StartSound DEF TaskKinds
  <2>6. Beginning'
    <3>1. Of(tasks', "load") = Of(tasks, "load")
      BY <1>6, <2>3 DEF Of
    <3> QED
      BY <1>2, <1>5, <3>1 DEF IInv, Beginning
  <2>7. LaneSerialized'
    BY <1>4, <2>3 DEF LaneSerialized, LaneTasks
  <2>8. WatchChain'
    <3>1. WatchTasks(tasks') = WatchTasks(tasks)
      BY <2>3 DEF WatchTasks, Rest, LaneTasks
    <3> QED
      BY <1>2, <3>1 DEF IInv, WatchChain
  <2>9. TickChain'
    <3>1. Of(Rest(t), "timer") = {}
      BY <1>2, <1>3, <1>8 DEF TickChain, Of
    <3>2. Of(tasks', "timer") = {n} /\ Of(tasks', "tick") = {}
      BY <1>4, <2>3, <3>1 DEF Of
    <3> QED
      BY <1>8, <2>1, <2>3, <3>2 DEF TickChain, Exclusive, AtMostOne, Idle, Lane
  <2> QED
    BY <2>4, <2>5, <2>6, <2>7, <2>8, <2>9 DEF IInv
<1>9. CASE ~tickPending /\ ~(Ticking /\ ~timerArmed)
  <2>1. /\ mut' = Idle /\ tasks' = Rest(t)
        /\ UNCHANGED << tickPending, timerArmed, armedToken >>
    BY <1>9 DEF Release, Arm
  <2>2. FieldsTyped'
    BY <1>3, <2>1 DEF FieldsTyped, Idle, Lane, LaneKinds
  <2>3. AllSound(tasks)'
    BY <1>3, <2>1
  <2>4. Beginning'
    <3>1. Of(tasks', "load") = Of(tasks, "load")
      BY <1>6, <2>1 DEF Of
    <3> QED
      BY <1>2, <1>5, <3>1 DEF IInv, Beginning
  <2>5. LaneSerialized'
    BY <1>4, <2>1 DEF LaneSerialized, LaneTasks
  <2>6. WatchChain'
    <3>1. WatchTasks(tasks') = WatchTasks(tasks)
      BY <2>1 DEF WatchTasks, Rest, LaneTasks
    <3> QED
      BY <1>2, <3>1 DEF IInv, WatchChain
  <2>7. TickChain'
    <3>1. Of(tasks', "timer") = Of(tasks, "timer") /\ Of(tasks', "tick") = {}
      BY <1>4, <2>1 DEF Of, Rest, LaneTasks
    <3> QED
      BY <1>2, <1>3, <1>9, <2>1, <3>1 DEF TickChain, Exclusive, Idle, Lane
  <2> QED
    BY <2>2, <2>3, <2>4, <2>5, <2>6, <2>7 DEF IInv
<1> QED
  BY <1>7, <1>8, <1>9

(* A reload takes the lane over.                                           *)
LEMMA StartReloadKeeps ==
    ASSUME IInv, NEW t \in LaneTasks, StartReload(Rest(t)),
           UNCHANGED << setup, rev, mine, eventSeq, ready >>
    PROVE  IInv'
<1>0. t \in tasks /\ t.kind # "load" /\ mut = LaneOf(t)
  BY DEF LaneTasks, IInv, LaneSerialized
<1>1. UNCHANGED << setup, ready, Watching, Ticking >>
  BY DEF Watching, Ticking
<1>2. /\ mut' = Lane("reload", NoAct) /\ UNCHANGED << cat, timerVars >>
      /\ UNCHANGED << tickPending, timerArmed, armedToken >>
  BY DEF StartReload, timerVars
<1>3. AllSound(Rest(t)) /\ FieldsTyped /\ TickChain /\ 0 \in 0 .. MaxRevision
  BY RestSound, MaxRevisionAssumption DEF IInv
<1>4. PICK n : tasks' = Rest(t) \cup {n} /\ n.kind = "reload"
  BY <1>3, StartSound DEF StartReload, TaskKinds
<1>5. FieldsTyped'
  BY <1>2, <1>3 DEF FieldsTyped, Lane, LaneKinds
<1>6. AllSound(tasks)'
  BY <1>3, StartSound DEF StartReload, TaskKinds
<1>7. \A u \in Rest(t) : u.kind \notin {"execute", "tick", "reload"}
  BY LaneIsLeft
<1>12. ready \/ setup.early
  BY <1>0 DEF IInv, Beginning, Of
<1>13. Of(tasks', "load") = Of(tasks, "load")
  BY <1>0, <1>4 DEF Of, Rest
<1>8. Beginning'
  BY <1>1, <1>2, <1>12, <1>13 DEF IInv, Beginning
<1>9. LaneSerialized'
  BY <1>2, <1>4, <1>7 DEF LaneSerialized, LaneTasks, LaneOf
<1>10. WatchChain'
  <2>1. WatchTasks(tasks') = WatchTasks(tasks)
    BY <1>4 DEF WatchTasks, Rest, LaneTasks
  <2> QED
    BY <1>1, <2>1 DEF IInv, WatchChain
<1>11. TickChain'
  <2> SUFFICES ASSUME Ticking
               PROVE  TickChain'
    BY <1>1 DEF TickChain
  <2>1. mut'.kind = "reload"
    BY <1>2 DEF Lane
  <2>2. Of(tasks', "timer") = Of(tasks, "timer")
    BY <1>4 DEF Of, Rest, LaneTasks
  <2> QED
    BY <1>1, <1>2, <1>3, <2>1, <2>2 DEF TickChain, Exclusive
<1> QED
  BY <1>5, <1>6, <1>8, <1>9, <1>10, <1>11 DEF IInv

(* The first snapshot is shown, and the watch or the ticker begins, beside *)
(* what a user who was early has begun.                                    *)
LEMMA LoadedKeeps ==
    ASSUME IInv, NEW t \in tasks, Loaded(t), UNCHANGED setup
    PROVE  IInv'
<1>1. /\ cat' = t.res.rev /\ eventSeq' = t.res.rev /\ ready' = TRUE
      /\ UNCHANGED << setup, rev, mine, mut, tickPending, Watching, Ticking >>
  BY DEF Loaded, backendVars, Watching, Ticking
<1>2. t.kind = "load" /\ ~ready
  BY DEF IInv, Beginning, Loaded, Due, Of
<1>3. t.res.rev \in 0 .. MaxRevision
  BY DEF IInv, AllSound, Sound, Tasks, Loaded, Due, Results, Ok, Pending, Failed,
         Conflict
<1>4. AllSound(Rest(t)) /\ FieldsTyped /\ TickChain
  BY RestSound DEF IInv
<1>5. /\ Of(Rest(t), "load") = {} /\ WatchTasks(Rest(t)) = {}
      /\ \A k \in {"timer", "tick"} : Of(Rest(t), k) = Of(tasks, k)
  BY <1>2 DEF IInv, Beginning, WatchChain, WatchTasks, Of, AtMostOne, Rest
<1>6. ASSUME NEW n, tasks' = Rest(t) \cup {n}, n.kind \in {"watch", "timer"}
      PROVE  Beginning' /\ LaneSerialized'
  BY <1>1, <1>5, <1>6
     DEF IInv, Beginning, Of, AtMostOne, LaneSerialized, LaneTasks, LaneOf, Rest
<1>7. CASE Watching
  <2>1. /\ tasks' = Start(Rest(t), "watch", eventSeq', NoAct)
        /\ UNCHANGED << timerArmed, armedToken >>
    BY <1>7 DEF Loaded, WaitWatch
  <2>2. /\ AllSound(tasks)'
        /\ \E n : tasks' = Rest(t) \cup {n} /\ n.kind = "watch"
    BY <1>1, <1>3, <1>4, <2>1, StartSound DEF TaskKinds
  <2> PICK n : tasks' = Rest(t) \cup {n} /\ n.kind = "watch"
    BY <2>2
  <2>3. FieldsTyped'
    BY <1>1, <1>3, <1>4, <2>1 DEF FieldsTyped
  <2>4. WatchChain'
    <3>1. WatchTasks(tasks') = {n}
      BY <1>5 DEF WatchTasks
    <3> QED
      BY <1>1, <1>7, <3>1 DEF WatchChain, One, AtMostOne
  <2>5. TickChain'
    BY <1>1, <1>7 DEF TickChain, Watching, Ticking
  <2> QED
    BY <1>6, <2>2, <2>3, <2>4, <2>5 DEF IInv
<1>8. CASE ~Watching /\ ~timerArmed
  <2>1. /\ timerArmed' = TRUE /\ armedToken' = 1 - armedToken
        /\ tasks' = Start(Rest(t), "timer", armedToken', NoAct)
    BY <1>8 DEF Loaded, Arm, Watching, Ticking
  <2>2. armedToken' \in {0, 1} /\ armedToken' \in 0 .. MaxRevision
    BY <1>4, <2>1, MaxRevisionAssumption DEF FieldsTyped
  <2>3. /\ AllSound(tasks)'
        /\ \E n : /\ tasks' = Rest(t) \cup {n} /\ n.kind = "timer"
                  /\ n.arg = armedToken'
    BY <1>4, <2>1, <2>2, StartSound DEF TaskKinds
  <2> PICK n : /\ tasks' = Rest(t) \cup {n} /\ n.kind = "timer"
               /\ n.arg = armedToken'
    BY <2>3
  <2>4. FieldsTyped'
    BY <1>1, <1>3, <1>4, <2>1, <2>2 DEF FieldsTyped
  <2>5. WatchChain'
    BY <1>1, <1>5, <1>8 DEF WatchChain, WatchTasks
  <2>6. TickChain'
    <3>1. /\ Of(tasks', "timer") = {n}
          /\ Of(tasks', "tick") = Of(tasks, "tick")
      BY <1>4, <1>5, <1>8 DEF TickChain, Of, Watching, Ticking
    <3>2. ~(tickPending /\ mut.kind = "tick")
      BY <1>2, <1>4, <1>8 DEF TickChain, Exclusive, Watching, Ticking
    <3>3. ~setup.early => ~tickPending /\ mut.kind # "tick"
      BY <1>2, <1>4, <1>8 DEF IInv, Beginning, TickChain, Of, Watching, Ticking
    <3> QED
      BY <1>1, <1>4, <1>8, <2>1, <3>1, <3>2, <3>3
         DEF TickChain, Exclusive, AtMostOne, Watching, Ticking
  <2> QED
    BY <1>6, <2>3, <2>4, <2>5, <2>6 DEF IInv
<1>9. CASE ~Watching /\ timerArmed
  <2>1. tasks' = Rest(t) /\ UNCHANGED << timerArmed, armedToken >>
    BY <1>9 DEF Loaded, Arm, Watching, Ticking
  <2>2. FieldsTyped'
    BY <1>1, <1>3, <1>4, <2>1 DEF FieldsTyped
  <2>3. Beginning' /\ LaneSerialized'
    BY <1>1, <1>5, <2>1
       DEF IInv, Beginning, Of, AtMostOne, LaneSerialized, LaneTasks, LaneOf, Rest
  <2>4. WatchChain'
    BY <1>1, <1>5, <1>9, <2>1 DEF WatchChain
  <2>5. TickChain'
    BY <1>1, <1>2, <1>4, <1>5, <1>9, <2>1 DEF TickChain, Exclusive
  <2> QED
    BY <1>4, <2>1, <2>2, <2>3, <2>4, <2>5 DEF IInv
<1> QED
  BY <1>7, <1>8, <1>9

(* The first snapshot is not had, and nothing more is asked for.           *)
LEMMA LoadFailedKeeps ==
    ASSUME IInv, NEW t \in tasks, LoadFailed(t), UNCHANGED setup
    PROVE  IInv'
<1>1. t.kind = "load" /\ Drop(t)
  BY DEF LoadFailed, Due, Drop
<1> QED
  BY <1>1, DropKeeps

(* The user acts: the lane is idle, so no command holds it.                *)
LEMMA RequestKeeps ==
    ASSUME IInv, NEW act \in setup.acts, RequestAction(act), UNCHANGED setup
    PROVE  IInv'
<1>1. /\ mut' = Lane("action", act)
      /\ UNCHANGED << setup, rev, mine, cat, eventSeq, ready, tickPending,
                      timerArmed, armedToken, Watching, Ticking >>
  BY DEF RequestAction, backendVars, timerVars, Watching, Ticking
<1>2. (ready \/ setup.early) /\ mut = Idle
  BY DEF RequestAction, Asking
<1>3. act \in Acts
  BY SetupsAssumption DEF IInv, FieldsTyped
<1>4. LaneTasks = {}
  BY <1>2 DEF IInv, LaneSerialized, LaneTasks, LaneOf, Lane, Idle
<1>5. AllSound(tasks) /\ cat \in 0 .. MaxRevision
      /\ tasks' = Start(tasks, "execute", cat, act)
  BY DEF IInv, FieldsTyped, RequestAction
<1>6. /\ AllSound(tasks')
      /\ \E n : tasks' = tasks \cup {n} /\ n.kind = "execute" /\ n.act = act
  <2>1. "execute" \in TaskKinds /\ act \in Acts \cup {NoAct}
    BY <1>3 DEF TaskKinds
  <2> QED
    BY <1>3, <1>5, <2>1, StartSound
<1> PICK n : tasks' = tasks \cup {n} /\ n.kind = "execute" /\ n.act = act
  BY <1>6
<1>7. FieldsTyped'
  BY <1>1, <1>3 DEF IInv, FieldsTyped, Lane, LaneKinds
<1>8. Beginning'
  <2>1. Of(tasks', "load") = Of(tasks, "load")
    BY DEF Of
  <2> QED
    BY <1>1, <1>2, <2>1 DEF IInv, Beginning
<1>9. LaneSerialized'
  BY <1>1, <1>4 DEF LaneSerialized, LaneTasks, LaneOf
<1>10. WatchChain'
  <2>1. WatchTasks(tasks') = WatchTasks(tasks)
    BY DEF WatchTasks
  <2> QED
    BY <1>1, <2>1 DEF IInv, WatchChain
<1>11. TickChain'
  <2>1. \A k \in {"timer", "tick"} : Of(tasks', k) = Of(tasks, k)
    BY DEF Of
  <2> QED
    BY <1>1, <1>2, <2>1 DEF IInv, TickChain, Exclusive, Lane, Idle
<1> QED
  BY <1>6, <1>7, <1>8, <1>9, <1>10, <1>11 DEF IInv

(* The demo's clock: a timer that is not dropped is the armed one, and the *)
(* tick it calls for waits for the lane or takes it.                       *)
LEMMA TickTimerKeeps ==
    ASSUME IInv, NEW t \in tasks, TickTimer(t), UNCHANGED setup
    PROVE  IInv'
<1>0. t.kind = "timer" /\ UNCHANGED << Watching, Ticking >>
  BY DEF TickTimer, Due, Watching, Ticking
<1>1. UNCHANGED << setup, ready >> /\ (ready \/ setup.early)
  BY <1>0 DEF TickTimer, Drop, backendVars, IInv, Beginning, Of
<1>2. CASE ~timerArmed \/ t.arg # armedToken
  <2>1. ~Ticking
    BY <1>0, <1>2 DEF IInv, TickChain, Of
  <2> QED
    BY <1>0, <1>2, <2>1, DropKeeps DEF TickTimer
<1>3. CASE timerArmed /\ t.arg = armedToken
  <2>1. /\ timerArmed' = FALSE
        /\ UNCHANGED << setup, rev, mine, cat, eventSeq, ready, armedToken >>
    BY <1>3 DEF TickTimer, backendVars
  <2>2. Ticking => Of(Rest(t), "timer") = {}
    BY <1>0 DEF IInv, TickChain, Of, AtMostOne, Rest
  <2>3. Of(Rest(t), "load") = Of(tasks, "load")
    BY <1>0 DEF Of, Rest
  <2>4. AllSound(Rest(t))
    BY RestSound DEF IInv
  <2>5. CASE mut # Idle
    <3>1. tickPending' = TRUE /\ tasks' = Rest(t) /\ UNCHANGED mut
      BY <1>3, <2>5 DEF TickTimer
    <3>2. FieldsTyped'
      BY <2>1, <3>1 DEF IInv, FieldsTyped
    <3>3. Beginning'
      BY <1>1, <2>1, <2>3, <3>1 DEF IInv, Beginning
    <3>4. LaneSerialized'
      BY <3>1 DEF IInv, LaneSerialized, LaneTasks, LaneOf, Rest
    <3>5. WatchChain'
      <4>1. WatchTasks(tasks') = WatchTasks(tasks)
        BY <1>0, <3>1 DEF WatchTasks, Rest
      <4> QED
        BY <1>0, <2>1, <4>1 DEF IInv, WatchChain
    <3>6. TickChain'
      <4>1. Of(tasks', "tick") = Of(tasks, "tick")
        BY <1>0, <3>1 DEF Of, Rest
      <4> QED
        BY <1>0, <1>1, <1>3, <2>1, <2>2, <3>1, <4>1
           DEF IInv, TickChain, Exclusive, AtMostOne
    <3> QED
      BY <2>4, <3>1, <3>2, <3>3, <3>4, <3>5, <3>6 DEF IInv
  <2>6. CASE mut = Idle
    <3>1. /\ mut' = Lane("tick", NoAct) /\ UNCHANGED tickPending
          /\ tasks' = Start(Rest(t), "tick", cat, NoAct)
      BY <1>3, <2>6 DEF TickTimer
    <3>2. cat \in 0 .. MaxRevision
      BY DEF IInv, FieldsTyped
    <3>3. /\ AllSound(tasks')
          /\ \E n : /\ tasks' = Rest(t) \cup {n} /\ n.kind = "tick"
                    /\ n.arg = cat
      BY <2>4, <3>1, <3>2, StartSound DEF TaskKinds
    <3> PICK n : tasks' = Rest(t) \cup {n} /\ n.kind = "tick" /\ n.arg = cat
      BY <3>3
    <3>4. FieldsTyped'
      BY <2>1, <3>1 DEF IInv, FieldsTyped, Lane, LaneKinds
    <3>5. Beginning'
      <4>1. Of(tasks', "load") = Of(tasks, "load")
        BY <2>3 DEF Of
      <4> QED
        BY <1>1, <2>1, <4>1 DEF IInv, Beginning
    <3>6. LaneTasks = {}
      BY <2>6 DEF IInv, LaneSerialized, LaneTasks, LaneOf, Lane, Idle
    <3>7. LaneSerialized'
      BY <3>1, <3>6 DEF LaneSerialized, LaneTasks, LaneOf, Rest
    <3>8. WatchChain'
      <4>1. WatchTasks(tasks') = WatchTasks(tasks)
        BY <1>0 DEF WatchTasks, Rest
      <4> QED
        BY <1>0, <2>1, <4>1 DEF IInv, WatchChain
    <3>9. TickChain'
      <4> SUFFICES ASSUME Ticking
                   PROVE  TickChain'
        BY <1>0 DEF TickChain
      <4>1. Of(tasks', "timer") = {} /\ Of(tasks', "tick") = {n}
        BY <2>2, <3>6 DEF Of, LaneTasks, Rest
      <4>2. ~ready \/ ~setup.early => ~tickPending
        BY <1>0, <1>3 DEF IInv, TickChain, Exclusive
      <4> QED
        BY <2>1, <3>1, <4>1, <4>2 DEF TickChain, Exclusive, AtMostOne, Lane
    <3> QED
      BY <3>3, <3>4, <3>5, <3>7, <3>8, <3>9 DEF IInv
  <2> QED
    BY <2>5, <2>6
<1> QED
  BY <1>2, <1>3

(* The result of the command that holds the lane.                          *)
LEMMA ResultRevision ==
    ASSUME IInv, NEW t \in tasks, t.res.st = "ok"
    PROVE  t.res.rev \in 0 .. MaxRevision
BY DEF IInv, AllSound, Sound, Tasks, Results, Ok, Pending, Failed, Conflict

(* A result that is accepted.                                              *)
LEMMA AcceptKeeps ==
    ASSUME IInv, NEW t \in LaneTasks, t.res.st = "ok", Accept(t), UNCHANGED setup
    PROVE  IInv'
<1>1. cat' = t.res.rev /\ Release(Rest(t), t.res.rev)
      /\ UNCHANGED << setup, rev, mine, eventSeq, ready >>
  BY DEF Accept, backendVars
<1>2. t.res.rev \in 0 .. MaxRevision
  BY ResultRevision DEF LaneTasks
<1>3. Release(Rest(t), cat')
  BY <1>1
<1> QED
  BY <1>1, <1>2, <1>3, ReleaseKeeps

(* Every handler of Update keeps the invariant.                            *)
LEMMA DeliverKeeps ==
    ASSUME IInv, NEW t \in tasks, Deliver(t), UNCHANGED setup
    PROVE  IInv'
<1>0. LaneSerialized /\ FieldsTyped /\ Sound(t)
  BY DEF IInv, AllSound
<1>1. CASE Loaded(t)
  BY <1>1, LoadedKeeps
<1>2. CASE LoadFailed(t)
  BY <1>2, LoadFailedKeeps
<1>3. CASE AcceptMutation(t)
  <2>1. t \in LaneTasks /\ t.kind = "execute" /\ t.res.st = "ok"
    BY <1>3 DEF AcceptMutation, Due, LaneTasks
  <2>2. CASE Accept(t)
    BY <2>1, <2>2, AcceptKeeps
  <2>3. CASE Drop(t)
    BY <2>1, <2>3, DropKeeps
  <2> QED
    BY <1>3, <2>2, <2>3 DEF AcceptMutation
<1>4. CASE AcceptTick(t)
  <2>1. t \in LaneTasks /\ t.kind = "tick" /\ t.res.st = "ok"
    BY <1>4 DEF AcceptTick, Due, LaneTasks
  <2>2. mut.kind = "tick"
    BY <1>0, <2>1 DEF LaneSerialized, LaneOf, Lane
  <2>3. CASE ValidChain(t)
    BY <1>4, <2>1, <2>2, <2>3, AcceptKeeps DEF AcceptTick
  <2>4. CASE ~ValidChain(t)
    <3>1. StartReload(Rest(t))
          /\ UNCHANGED << setup, rev, mine, eventSeq, ready >>
      BY <1>4, <2>2, <2>4 DEF AcceptTick, backendVars
    <3> QED
      BY <2>1, <3>1, StartReloadKeeps
  <2> QED
    BY <2>3, <2>4
<1>5. CASE RejectMutation(t)
  <2>1. t \in LaneTasks /\ t.kind \in {"execute", "tick"}
        /\ t.res.st \in {"failed", "conflict"}
    BY <1>5 DEF RejectMutation, LaneTasks
  <2>2. mut = LaneOf(t)
    BY <1>0, <2>1 DEF LaneSerialized
  <2>3. IF t.kind = "tick" THEN mut.kind = "tick" ELSE mut = Lane("action", t.act)
    BY <2>1, <2>2 DEF LaneOf, Lane
  <2>4. UNCHANGED << setup, rev, mine, eventSeq, ready >>
    BY <1>5, <2>3 DEF RejectMutation, backendVars
  <2>5. CASE t.res.st = "conflict"
    <3>1. StartReload(Rest(t))
      BY <1>5, <2>3, <2>5 DEF RejectMutation
    <3> QED
      BY <2>1, <2>4, <3>1, StartReloadKeeps
  <2>6. CASE t.res.st # "conflict"
    <3>1. Release(Rest(t), cat) /\ cat' = cat
      BY <1>5, <2>3, <2>6 DEF RejectMutation
    <3>2. Release(Rest(t), cat') /\ cat' \in 0 .. MaxRevision
      BY <1>0, <3>1 DEF FieldsTyped
    <3> QED
      BY <2>1, <2>4, <3>2, ReleaseKeeps
  <2> QED
    BY <2>5, <2>6
<1>6. CASE Reloaded(t)
  <2>1. t \in LaneTasks /\ t.kind = "reload"
    BY <1>6 DEF Reloaded, Due, LaneTasks
  <2>2. mut.kind = "reload"
    BY <1>0, <2>1 DEF LaneSerialized, LaneOf, Lane
  <2>3. /\ cat' = IF t.res.st = "ok" THEN t.res.rev ELSE cat
        /\ Release(Rest(t), cat')
        /\ UNCHANGED << setup, rev, mine, eventSeq, ready >>
    BY <1>6, <2>2 DEF Reloaded, backendVars
  <2>4. cat' \in 0 .. MaxRevision
    BY <1>0, <2>3, ResultRevision DEF FieldsTyped
  <2> QED
    BY <2>1, <2>3, <2>4, ReleaseKeeps
<1>7. ASSUME t.kind \in {"watch", "fetch", "retry"}, NEW r,
             WaitWatch(Rest(t), r), r \in 0 .. MaxRevision,
             cat' \in 0 .. MaxRevision, eventSeq' \in 0 .. MaxRevision,
             UNCHANGED << setup, rev, mine, ready, mut, timerVars >>
      PROVE  IInv'
  <2>1. t \in WatchTasks(tasks)
    BY <1>7 DEF WatchTasks
  <2>2. Watching
    BY <2>1 DEF IInv, WatchChain
  <2>3. tasks' = Start(Rest(t), "watch", r, NoAct)
    BY <1>7, <2>2 DEF WaitWatch
  <2> QED
    BY <1>7, <2>1, <2>3, WatchKeeps
<1>8. CASE RuntimeWatch(t)
  <2>1. t.kind = "watch" /\ t.res.rev \in 0 .. MaxRevision
    BY <1>8, ResultRevision DEF RuntimeWatch, Due
  <2>2. /\ eventSeq' \in 0 .. MaxRevision /\ cat' \in 0 .. MaxRevision
        /\ UNCHANGED << setup, rev, mine, ready, mut, timerVars >>
    BY <1>0, <1>8, <2>1 DEF RuntimeWatch, backendVars, FieldsTyped
  <2>3. CASE t.res.rev <= cat
    BY <1>7, <1>8, <2>1, <2>2, <2>3 DEF RuntimeWatch
  <2>4. CASE ~(t.res.rev <= cat)
    <3>1. tasks' = Start(Rest(t), "fetch", 0, NoAct)
      BY <1>8, <2>4 DEF RuntimeWatch
    <3>2. t \in WatchTasks(tasks) /\ 0 \in 0 .. MaxRevision
      BY <2>1, MaxRevisionAssumption DEF WatchTasks
    <3> QED
      BY <2>2, <3>1, <3>2, WatchKeeps
  <2> QED
    BY <2>3, <2>4
<1>9. CASE RuntimeSnapshot(t)
  <2>1. t.kind = "fetch" /\ t.res.rev \in 0 .. MaxRevision
    BY <1>9, ResultRevision DEF RuntimeSnapshot, Due
  <2>2. /\ eventSeq' \in 0 .. MaxRevision /\ cat' \in 0 .. MaxRevision
        /\ UNCHANGED << setup, rev, mine, ready, mut, timerVars >>
        /\ WaitWatch(Rest(t), eventSeq')
    BY <1>0, <1>9, <2>1 DEF RuntimeSnapshot, backendVars, FieldsTyped
  <2> QED
    BY <1>7, <2>1, <2>2
<1>10. CASE RuntimeWatchFailed(t)
  <2>1. t \in WatchTasks(tasks) /\ 0 \in 0 .. MaxRevision
    BY <1>10, MaxRevisionAssumption DEF RuntimeWatchFailed, WatchTasks
  <2>2. /\ eventSeq' \in 0 .. MaxRevision /\ cat' \in 0 .. MaxRevision
        /\ UNCHANGED << setup, rev, mine, ready, mut, timerVars >>
        /\ tasks' = Start(Rest(t), "retry", 0, NoAct)
    BY <1>0, <1>10 DEF RuntimeWatchFailed, backendVars, FieldsTyped
  <2> QED
    BY <2>1, <2>2, WatchKeeps
<1>11. CASE RetryWatch(t)
  <2>1. /\ t.kind = "retry" /\ eventSeq \in 0 .. MaxRevision
        /\ eventSeq' \in 0 .. MaxRevision /\ cat' \in 0 .. MaxRevision
        /\ UNCHANGED << setup, rev, mine, ready, mut, timerVars >>
        /\ WaitWatch(Rest(t), eventSeq)
    BY <1>0, <1>11 DEF RetryWatch, Due, backendVars, FieldsTyped
  <2> QED
    BY <1>7, <2>1
<1>12. CASE TickTimer(t)
  BY <1>12, TickTimerKeeps
<1> QED
  BY <1>1, <1>2, <1>3, <1>4, <1>5, <1>6, <1>8, <1>9, <1>10, <1>11, <1>12
     DEF Deliver

(***************************************************************************)
(* The invariant is inductive.                                             *)
(***************************************************************************)

(* It holds at the beginning,                                              *)
LEMMA InvInit == Init => IInv
<1> SUFFICES ASSUME Init PROVE IInv
  OBVIOUS
<1>1. FieldsTyped
  <2>1. {ready, tickPending, timerArmed} \subseteq BOOLEAN
    BY Zenon DEF Init
  <2>2. rev \in 1 .. MaxRevision /\ cat \in 0 .. MaxRevision
        /\ eventSeq \in 0 .. MaxRevision /\ armedToken \in {0, 1}
    BY MaxRevisionAssumption DEF Init
  <2>3. mut \in [kind : LaneKinds, act : Acts \cup {NoAct}]
    BY DEF Init, Idle, Lane, LaneKinds
  <2> QED
    BY <2>1, <2>2, <2>3 DEF Init, FieldsTyped
<1>2. AllSound({}) /\ 0 \in 0 .. MaxRevision
  BY FS_EmptySet, MaxRevisionAssumption DEF AllSound
<1>3. AllSound(tasks) /\ \E n : tasks = {n} /\ n.kind = "load"
  BY <1>2, StartSound DEF Init, TaskKinds
<1> PICK n : tasks = {n} /\ n.kind = "load"
  BY <1>3
<1>4. Beginning
  BY DEF Init, Beginning, Of, AtMostOne
<1>5. LaneSerialized /\ WatchChain /\ TickChain
  BY DEF Init, LaneSerialized, LaneTasks, WatchChain, WatchTasks, TickChain, Of,
         AtMostOne, Exclusive, Idle, Lane
<1> QED
  BY <1>1, <1>3, <1>4, <1>5 DEF IInv

(* and every step preserves it.                                            *)
LEMMA InvNext == IInv /\ [Next]_vars => IInv'
<1> SUFFICES ASSUME IInv, [Next]_vars PROVE IInv'
  OBVIOUS
<1>0. FieldsTyped /\ AllSound(tasks)
  BY DEF IInv
<1>1. CASE UNCHANGED vars
  BY <1>1 DEF vars, IInv, FieldsTyped, Beginning, LaneSerialized, LaneTasks,
              LaneOf, WatchChain, TickChain, Exclusive, Watching, Ticking
<1>2. CASE Observe /\ UNCHANGED setup
  BY <1>0, <1>2, ObserveAnswers, AnsweringKeeps
<1>3. ASSUME NEW t \in tasks, Serve(t) \/ Heartbeat(t) \/ Break(t),
             UNCHANGED setup
      PROVE  IInv'
  BY <1>0, <1>3, ServeAnswers, AnsweringKeeps
<1>4. ASSUME NEW t \in tasks, Deliver(t), UNCHANGED setup
      PROVE  IInv'
  BY <1>4, DeliverKeeps
<1>5. ASSUME NEW act \in setup.acts, RequestAction(act), UNCHANGED setup
      PROVE  IInv'
  BY <1>5, RequestKeeps
<1> QED
  BY <1>1, <1>2, <1>3, <1>4, <1>5 DEF Next

(* A set with one element has one.                                         *)
LEMMA OneCounts ==
    ASSUME NEW S, One(S)
    PROVE  Cardinality(S) = 1
<1>1. PICK x : S = {x}
  BY DEF One, AtMostOne
<1> QED
  BY <1>1, FS_Singleton

(* In the demo the next tick is one of three, and a reload has it armed.    *)
LEMMA InvTicks == IInv => TickChainSingle
<1> SUFFICES ASSUME IInv, Ticking, ready PROVE TickChainSingle
  BY DEF TickChainSingle
<1> DEFINE S == { t \in tasks : /\ t.kind \in {"timer", "tick"}
                                /\ t.kind = "timer" => /\ timerArmed
                                                       /\ t.arg = armedToken }
           P == IF tickPending THEN 1 ELSE 0
<1>1. TickChain /\ LaneSerialized /\ NextTicks = Cardinality(S) + P
  BY DEF IInv, NextTicks
<1>2. /\ S = Of(tasks, "timer") \cup Of(tasks, "tick")
      /\ Of(tasks, "timer") \cap Of(tasks, "tick") = {}
  BY <1>1 DEF TickChain, Of
<1>3. \A t \in Of(tasks, "tick") : mut.kind = "tick" /\ t \in LaneTasks
  BY <1>1 DEF LaneSerialized, Of, LaneTasks, LaneOf, Lane
<1>4. IF timerArmed THEN One(Of(tasks, "timer")) ELSE Of(tasks, "timer") = {}
  BY <1>1 DEF TickChain, One
<1>5. IF mut.kind = "tick" THEN One(Of(tasks, "tick"))
      ELSE Of(tasks, "tick") = {}
  BY <1>1, <1>3 DEF TickChain, One, AtMostOne, LaneSerialized
<1>6. Cardinality(S) = (IF timerArmed THEN 1 ELSE 0)
                       + (IF mut.kind = "tick" THEN 1 ELSE 0)
  <2> DEFINE A == Of(tasks, "timer")
             B == Of(tasks, "tick")
  <2>1. \A X \in {A, B} : One(X) => Cardinality(X) = 1 /\ IsFiniteSet(X)
    <3> SUFFICES ASSUME NEW X, One(X)
                 PROVE  Cardinality(X) = 1 /\ IsFiniteSet(X)
      OBVIOUS
    <3>1. PICK x : X = {x}
      BY DEF One, AtMostOne
    <3> QED
      BY <3>1, FS_Singleton
  <2>2. \A X \in {A, B} : X = {} => Cardinality(X) = 0 /\ IsFiniteSet(X)
    BY FS_EmptySet
  <2>3. IsFiniteSet(A) /\ IsFiniteSet(B)
    BY <1>4, <1>5, <2>1, <2>2
  <2>4. Cardinality(A) = (IF timerArmed THEN 1 ELSE 0)
        /\ Cardinality(B) = (IF mut.kind = "tick" THEN 1 ELSE 0)
    BY <1>4, <1>5, <2>1, <2>2
  <2> HIDE DEF A, B, S
  <2>5. Cardinality(A \cup B) = Cardinality(A) + Cardinality(B)
    <3>1. Cardinality(A \cap B) = 0
      BY <1>2, FS_EmptySet DEF A, B
    <3> QED
      BY <2>3, <2>4, <3>1, FS_Union
  <2> QED
    BY <1>2, <2>4, <2>5 DEF A, B
<1> HIDE DEF S
<1>7. NextTicks = 0 => mut.kind = "reload"
  BY <1>1, <1>6 DEF TickChain
<1>8. NextTicks <= 2
  BY <1>1, <1>6 DEF TickChain
<1>9. ~setup.early => NextTicks <= 1
  BY <1>1, <1>6 DEF TickChain, Exclusive
<1> QED
  BY <1>7, <1>8, <1>9 DEF TickChainSingle

(* In production the watch is one chain.                                   *)
LEMMA InvLanes == IInv => OneLaneOneWatch
<1> SUFFICES ASSUME IInv PROVE OneLaneOneWatch
  OBVIOUS
<1>1. Watching /\ ready => Cardinality(WatchTasks(tasks)) = 1
  BY OneCounts DEF IInv, WatchChain
<1> QED
  BY <1>1, InvTicks DEF IInv, OneLaneOneWatch, WatchChainSingle, WatchTasks

(* Every variable of the root and of its backend has its type.             *)
THEOREM RootTypeCorrect == Spec => []TypeOK
<1>1. IInv => TypeOK
  BY DEF IInv, FieldsTyped, AllSound, Sound, TypeOK
<1> QED
  BY <1>1, InvInit, InvNext, PTL DEF Spec

(* However results, events, snapshots, timers and failures interleave, at  *)
(* most one mutation is under way, the lane says which, and a root with a  *)
(* watcher has exactly one watch, fetch or retry under way.                *)
THEOREM LaneAndWatchAreSingle == Spec => []OneLaneOneWatch
<1> QED
  BY InvInit, InvNext, InvLanes, PTL DEF Spec

(* The demo never loses its next tick, which a reload under way arms at the*)
(* latest, and has it once, or twice if the user acted before the first    *)
(* catalog had arrived.                                                    *)
THEOREM TickerIsSingle == Spec => []TickChainSingle
<1> QED
  BY InvInit, InvNext, InvTicks, PTL DEF Spec

(* No message, however late, takes the catalog shown back to an older      *)
(* revision, except the answer to a reload and, if the user acted before   *)
(* it had arrived, the first snapshot.                                     *)
THEOREM CatalogOnlyReloadedBack == Spec => OnlyReloadRegresses
<1>1. ASSUME IInv, [Next]_vars
      PROVE  [cat' < cat => \/ mut.kind = "reload"
                            \/ setup.early /\ ready' # ready]_vars
  <2> SUFFICES ASSUME Next, cat' < cat, mut.kind # "reload",
                      ~(setup.early /\ ready' # ready)
               PROVE  FALSE
    BY <1>1
  <2>1. cat \in Nat
    BY <1>1 DEF IInv, FieldsTyped
  <2>2. cat' # cat
    BY <2>1
  <2>3. PICK t \in tasks : Deliver(t)
    BY <2>2 DEF Next, Observe, Serve, ServeSnapshot, ServeExecute, ServeStored,
                ServeUnloaded, ServeConflict, ServeTick, ServeTimer, ServeWatch,
                Heartbeat, Break, RequestAction
  <2>4. CASE Loaded(t)
    <3>1. ~ready /\ ready' /\ ~setup.early
      BY <1>1, <2>4 DEF Loaded, Due, IInv, Beginning, Of
    <3>2. cat = 0 /\ cat' \in Nat
      BY <1>1, <2>4, <3>1, ResultRevision DEF Loaded, Due, IInv, Beginning
    <3> QED
      BY <3>2
  <2>5. CASE AcceptMutation(t) \/ AcceptTick(t)
    <3>1. cat' = cat + 1
      BY <2>2, <2>5 DEF AcceptMutation, AcceptTick, Accept, Drop, StartReload,
                        ValidChain
    <3> QED
      BY <2>1, <3>1
  <2>6. CASE RuntimeSnapshot(t)
    <3>1. t.res.rev \in Nat
      BY <1>1, <2>6, ResultRevision DEF RuntimeSnapshot
    <3>2. t.res.rev >= cat /\ cat' = t.res.rev
      BY <2>2, <2>6 DEF RuntimeSnapshot
    <3> QED
      BY <2>1, <3>1, <3>2
  <2> QED
    BY <2>2, <2>3, <2>4, <2>5, <2>6
       DEF Deliver, LoadFailed, RejectMutation, Reloaded, RuntimeWatch,
           RuntimeWatchFailed, RetryWatch, TickTimer, Drop, StartReload
<1> QED
  BY <1>1, InvInit, InvNext, PTL DEF Spec, OnlyReloadRegresses
=============================================================================
