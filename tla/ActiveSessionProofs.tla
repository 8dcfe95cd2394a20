------------------------ MODULE ActiveSessionProofs -------------------------
(***************************************************************************)
(* Proofs about ActiveSession, for any processes, windows, sessions,       *)
(* commands, faults and bounds.                                            *)
(***************************************************************************)
EXTENDS ActiveSession, TLAPS

(***************************************************************************)
(* No window is destroyed.  No invariant is needed: whatever a process     *)
(* believes about the links, tmux itself refuses to remove a last one.     *)
(***************************************************************************)

(* Links that only grow keep every window alive.                           *)
LEMMA GrowingKeepsLives ==
    ASSUME NEW w, links \subseteq links', Lives(links, w)
    PROVE  Lives(links', w)
BY DEF Lives, Alias, Sources

(* So does taking away the alias of a window with another link.            *)
LEMMA UnlinkingKeepsLives ==
    ASSUME NEW w \in Windows, NEW v, Unlinkable(v),
           links' = links \ {<< v, Active >>}, Lives(links, w)
    PROVE  Lives(links', w)
<1>1. CASE w = v
  <2>1. PICK s \in Sessions : << w, s >> \in links
    BY <1>1 DEF Unlinkable, Sources
  <2>2. << w, s >> # << v, Active >>
    BY <2>1, NamesAssumption
  <2> QED
    BY <2>1, <2>2 DEF Lives, Sources
<1>2. CASE w # v
  BY <1>2 DEF Lives, Alias, Sources
<1> QED
  BY <1>1, <1>2

(* Nor does the placeholder's end touch a window.                          *)
LEMMA CleaningKeepsLives ==
    ASSUME NEW w \in Windows, links' = links \ LinksOf(Placeholder),
           Lives(links, w)
    PROVE  Lives(links', w)
<1>1. w # Placeholder
  BY NamesAssumption
<1> QED
  BY <1>1 DEF Lives, Alias, Sources, LinksOf

(* Every step of a process other than a kill keeps every window alive.     *)
LEMMA StepKeepsLives ==
    ASSUME NEW p \in Procs, Step(p), ~Kill(p),
           NEW w \in Windows, Lives(links, w)
    PROVE  Lives(links', w)
<1>1. CASE UNCHANGED links
  BY <1>1
<1>2. CASE Unlink(p)
  <2>1. CASE Unlinkable(proc[p].cur)
    BY <1>2, <2>1, UnlinkingKeepsLives DEF Unlink, Relink
  <2>2. CASE ~Unlinkable(proc[p].cur)
    BY <1>2, <2>2 DEF Unlink
  <2> QED
    BY <2>1, <2>2
<1>3. CASE Undo(p)
  <2>1. CASE Unlinkable(Win(p))
    BY <1>3, <2>1, UnlinkingKeepsLives DEF Undo, Relink
  <2>2. CASE ~Unlinkable(Win(p))
    BY <1>3, <2>2 DEF Undo
  <2> QED
    BY <2>1, <2>2
<1>4. CASE Cleanup(p)
  BY <1>4, CleaningKeepsLives DEF Cleanup, Relink
<1>5. CASE EnsureOwned(p)
  BY <1>5, GrowingKeepsLives DEF EnsureOwned
<1>6. CASE Link(p)
  BY <1>6, GrowingKeepsLives DEF Link, Relink
<1> QED
  BY <1>1, <1>2, <1>3, <1>4, <1>5, <1>6
     DEF Step, Begin, CheckOwned, ReadEpoch, SweepEpochs, ListRows, Snapshot,
         Apply, Applied, VerifyUnlinked, DeleteRow, Resolve, Linked,
         VerifyCleaned, Persist, PersistFails, Rollback, FindRow, TouchRow,
         Abort, unchangedTmux, unchangedAll

(* No housekeeping of tmh destroys a window.                               *)
THEOREM WindowsAreNotDestroyed == Spec => OnlyKillsDestroy
<1>1. ASSUME [Next]_vars
      PROVE  [\A w \in Windows :
                 Lives(links, w) /\ ~Lives(links', w)
                     => User \/ \E p \in Procs : Kill(p)]_vars
  <2> SUFFICES ASSUME Next, NEW w \in Windows, Lives(links, w),
                      ~Lives(links', w), ~User
               PROVE  \E p \in Procs : Kill(p)
    BY <1>1
  <2>1. CASE Tick
    BY <2>1 DEF Tick, unchangedTmux
  <2>2. ASSUME NEW p \in Procs, Step(p)
        PROVE  Kill(p)
    BY <2>2, StepKeepsLives
  <2> QED
    BY <2>1, <2>2 DEF Next
<1> QED
  BY <1>1, PTL DEF Spec, OnlyKillsDestroy

(***************************************************************************)
(* The inductive invariant. TypeOK is not inductive by itself: a row that  *)
(* is persisted has the window and the server of its process, so the       *)
(* invariant says which command a process at each label carries out, and   *)
(* that it has read the identity of the server.                            *)
(***************************************************************************)

(* What a prune decides about a row.                                       *)
Moves == [win : Windows, move : {"drop", "keep", "expire", "orphan", "alias"}]

(* Command lines.                                                          *)
Lines == [op : AllOps \cup {"none"}, win : Targets, ses : Places]

(* Processes of the right shape ...                                        *)
Processes == [pc : Labels, job : AllOps \cup {"none"}, cmd : Lines,
              now : 0 .. MaxTime, ep : 0 .. MaxEpoch,
              todo : SUBSET (Rows \cup Moves), snap : Links, cur : Targets,
              linked : BOOLEAN]

(* The commands that link a window.                                        *)
Placed == {"promote", "recover"}

(* ... whose label fits their command.                                     *)
Ready(s) ==
    /\ s.job \in {"prune", s.cmd.op}
    /\ s.cmd.op \in Placed => s.cmd.win \in Windows /\ s.cmd.ses \in Sessions
    /\ s.pc \in {"resolve", "ensure", "cleanup", "cleaned"} => s.job = "promote"
    /\ s.pc \in {"link", "linked"} => s.job \in Placed
    /\ s.pc \in {"sweep", "rows", "find", "link", "linked", "cleanup", "cleaned"}
           => s.ep # 0
    /\ s.pc = "links" /\ s.job \notin {"kill", "killwin"} => s.ep # 0

(* The states a process can be in.                                         *)
Good == { s \in Processes : Ready(s) }

ProcsGood == proc \in [Procs -> Good]

(* The parts of TypeOK that a step of tmux, of the table and of time keeps. *)
LinksGood ==
    /\ links \in Links
    /\ owner \in (IF Aliases(links) = {} THEN {"none"} ELSE {"tmh", "user"})
    /\ epoch \in 1 .. MaxEpoch /\ clock \in 0 .. MaxTime

RowsGood ==
    /\ rows \subseteq Rows
    /\ \A r, s \in rows : r.ep = s.ep /\ r.win = s.win => r = s

(* All of it.                                                              *)
IInv == LinksGood /\ RowsGood /\ ProcsGood /\ calm \in [Procs -> BOOLEAN]



(***************************************************************************)
(* Processes.                                                              *)
(***************************************************************************)

(* What is read off a process.                                             *)
LEMMA GoodFields ==
    ASSUME NEW s \in Good
    PROVE  /\ s \in Processes /\ Ready(s)
           /\ s.pc \in Labels /\ s.now \in 0 .. MaxTime /\ s.ep \in 0 .. MaxEpoch
           /\ s.snap \in Links /\ s.cmd.win \in Targets /\ s.cmd.ses \in Places
           /\ s.todo \subseteq Rows \cup Moves
BY DEF Good, Processes, Lines

(* A step that leaves a process in a good state.                           *)
LEMMA Becoming ==
    ASSUME ProcsGood, NEW p \in Procs, NEW s \in Good, Become(p, s)
    PROVE  ProcsGood'
BY DEF ProcsGood, Become

(* A process with nothing to do is in one.                                 *)
LEMMA IdleGood == Idle \in Good
<1>1. Idle \in Processes
  BY BoundsAssumption
     DEF Idle, Command, Processes, Lines, Targets, Places, Labels, AllOps, Links
<1>2. Ready(Idle)
  BY DEF Idle, Command, Ready, Placed
<1> QED
  BY <1>1, <1>2 DEF Good

(* So is one that finishes.                                                *)
LEMMA FinishGood ==
    ASSUME ProcsGood, NEW p \in Procs, Finish(p)
    PROVE  ProcsGood'
BY IdleGood, Becoming DEF Finish

(* A command that begins.                                                  *)
LEMMA BeginGood ==
    ASSUME LinksGood, ProcsGood, NEW p \in Procs, NEW c \in Commands, Begin(p, c)
    PROVE  ProcsGood'
<1> DEFINE s == [Idle EXCEPT !.pc = "own", !.cmd = c, !.now = clock,
                              !.job = IF c.op \in {"promote", "touch"}
                                      THEN "prune" ELSE c.op]
<1>1. c \in Lines /\ c.op \in AllOps
      /\ (c.op \in Placed => c.win \in Windows /\ c.ses \in Sessions)
  BY DEF Commands, Command, Lines, AllOps, Targets, Places, Placed
<1>2. "own" \in Labels /\ clock \in 0 .. MaxTime
      /\ (IF c.op \in {"promote", "touch"} THEN "prune" ELSE c.op) \in AllOps
  BY <1>1 DEF Labels, AllOps, LinksGood
<1>3. s \in Processes
  BY <1>1, <1>2, IdleGood, GoodFields DEF Processes
<1>4. Ready(s)
  BY <1>1 DEF Ready, Placed, Idle
<1> QED
  BY <1>3, <1>4, Becoming DEF Begin, Good

(* A step that changes the label alone.                                    *)
LEMMA GoingTo ==
    ASSUME ProcsGood, NEW p \in Procs, NEW l \in Labels, Goto(p, l),
           l \in {"resolve", "ensure", "cleanup", "cleaned"} => Job(p) = "promote",
           l \in {"link", "linked"} => Job(p) \in Placed,
           l \in {"sweep", "rows", "find", "link", "linked", "cleanup", "cleaned"}
               => proc[p].ep # 0,
           l = "links" /\ Job(p) \notin {"kill", "killwin"} => proc[p].ep # 0
    PROVE  ProcsGood'
<1>1. proc[p] \in Good
  BY DEF ProcsGood
<1>2. [proc[p] EXCEPT !.pc = l] \in Processes
  BY <1>1, GoodFields DEF Processes
<1>3. Ready([proc[p] EXCEPT !.pc = l])
  BY <1>1, GoodFields DEF Ready, Job, Processes
<1> QED
  BY <1>2, <1>3, Becoming DEF Goto, Good

(* The actions that do no more than that.                                  *)
LEMMA PlainStepsGood ==
    ASSUME ProcsGood, LinksGood, NEW p \in Procs,
           \/ CheckOwned(p) \/ SweepEpochs(p)
           \/ Resolve(p) \/ EnsureOwned(p) \/ FindRow(p) \/ Rollback(p)
    PROVE  ProcsGood'
<1> USE DEF At, Job
<1>0. proc[p] \in Good
  BY DEF ProcsGood
<1>1. CASE CheckOwned(p)
  BY <1>1, FinishGood, GoingTo DEF CheckOwned, Labels
<1>2. CASE SweepEpochs(p)
  <2>1. proc[p].ep # 0
    BY <1>0, <1>2, GoodFields DEF SweepEpochs, Ready
  <2>2. AfterSweep(Job(p)) \in {"rows", "find", "links"}
    BY DEF AfterSweep
  <2> QED
    BY <1>2, <2>1, <2>2, GoingTo DEF SweepEpochs, Labels
<1>3. CASE Resolve(p)
  BY <1>0, <1>3, GoodFields, FinishGood, GoingTo DEF Resolve, Labels, Ready
<1>4. CASE EnsureOwned(p)
  BY <1>4, FinishGood, GoingTo DEF EnsureOwned, Labels
<1>5. CASE FindRow(p)
  BY <1>0, <1>5, GoodFields, FinishGood, GoingTo DEF FindRow, Labels, Ready
<1>6. CASE Rollback(p)
  BY <1>6, FinishGood, GoingTo DEF Rollback, Labels
<1> QED
  BY <1>1, <1>2, <1>3, <1>4, <1>5, <1>6

(* The identity of the server is read.                                     *)
LEMMA EpochGood ==
    ASSUME ProcsGood, LinksGood, NEW p \in Procs, ReadEpoch(p)
    PROVE  ProcsGood'
<1> DEFINE s == [proc[p] EXCEPT !.pc = "sweep", !.ep = epoch]
<1>1. proc[p] \in Good
  BY DEF ProcsGood
<1>2. epoch \in 0 .. MaxEpoch /\ epoch # 0
  BY BoundsAssumption DEF LinksGood
<1>3. s \in Processes
  BY <1>1, <1>2, GoodFields DEF Processes, Labels
<1>4. Ready(s)
  BY <1>1, <1>2, GoodFields DEF Ready, Processes
<1> QED
  BY <1>3, <1>4, Becoming DEF ReadEpoch, Good

(* The rows are listed.                                                    *)
LEMMA ListGood ==
    ASSUME ProcsGood, RowsGood, NEW p \in Procs, ListRows(p)
    PROVE  ProcsGood'
<1> DEFINE T == { r \in rows : r.ep = proc[p].ep }
           s == [proc[p] EXCEPT !.pc = "links", !.todo = T]
<1>1. proc[p] \in Good /\ proc[p].ep # 0
  BY GoodFields DEF ProcsGood, ListRows, At, Ready
<1>2. s \in Processes
  BY <1>1, GoodFields DEF Processes, Labels, RowsGood
<1>3. Ready(s)
  BY <1>1, GoodFields DEF Ready, Processes
<1> QED
  BY <1>2, <1>3, Becoming DEF ListRows, Good

(* A process about to unlink an alias.                                     *)
LEMMA RemovingGood ==
    ASSUME ProcsGood, NEW p \in Procs, NEW w \in Targets, NEW L \in Links
    PROVE  Removing(p, w, L) \in Good
<1>1. proc[p] \in Good
  BY DEF ProcsGood
<1>2. ASSUME NEW l \in {"kill", "delete", "unlink"}, NEW M \in Links
      PROVE  [proc[p] EXCEPT !.pc = l, !.cur = w, !.snap = M] \in Good
  <2> DEFINE s == [proc[p] EXCEPT !.pc = l, !.cur = w, !.snap = M]
  <2>1. s \in Processes
    BY <1>1, GoodFields DEF Processes, Labels
  <2>2. Ready(s)
    BY <1>1, GoodFields DEF Ready, Processes
  <2> QED
    BY <2>1, <2>2 DEF Good
<1>3. {} \in Links
  BY DEF Links
<1> QED
  BY <1>2, <1>3, IdleGood DEF Removing

(* The links are read, by any of the commands.                             *)
LEMMA SnapshotGood ==
    ASSUME ProcsGood, LinksGood, NEW p \in Procs, Snapshot(p)
    PROVE  ProcsGood'
<1>1. proc[p] \in Good /\ At(p, "links") /\ links \in Links
  BY DEF ProcsGood, Snapshot, LinksGood
<1>2. Win(p) \in Targets
  BY <1>1, GoodFields DEF Win
<1>3. CASE Job(p) = "prune"
  <2>1. Classified(p) \subseteq Rows \cup Moves
    <3>1. ASSUME NEW r \in proc[p].todo
          PROVE  [win |-> r.win, move |-> Move(r, links, proc[p].now)] \in Moves
      BY <1>1, GoodFields DEF Move, Moves, Rows
    <3> QED
      BY <3>1 DEF Classified
  <2>2. PruneSeen(p) \in Processes
    BY <1>1, <2>1, GoodFields DEF PruneSeen, Processes, Labels
  <2>3. Ready(PruneSeen(p))
    BY <1>1, GoodFields DEF PruneSeen, Ready, Processes
  <2> QED
    BY <1>3, <2>2, <2>3, Becoming DEF Snapshot, Good
<1>4. ASSUME Job(p) \in Placed
      PROVE  [proc[p] EXCEPT !.pc = "link", !.snap = links] \in Good
  <2> DEFINE s == [proc[p] EXCEPT !.pc = "link", !.snap = links]
  <2>1. s \in Processes
    BY <1>1, GoodFields DEF Processes, Labels
  <2>2. Ready(s)
    BY <1>1, <1>4, GoodFields DEF Ready, Processes, Job, At, Placed
  <2> QED
    BY <2>1, <2>2 DEF Good
<1>5. CASE Job(p) = "promote"
  BY <1>4, <1>5, IdleGood, Becoming DEF Snapshot, PromoteSeen, Placed
<1>6. CASE Job(p) = "recover"
  BY <1>4, <1>6, IdleGood, Becoming DEF Snapshot, RecoverSeen, Placed
<1>7. CASE Job(p) = "touch"
  <2>1. [proc[p] EXCEPT !.pc = "touch"] \in Good
    <3>1. [proc[p] EXCEPT !.pc = "touch"] \in Processes
      BY <1>1, GoodFields DEF Processes, Labels
    <3>2. Ready([proc[p] EXCEPT !.pc = "touch"])
      BY <1>1, GoodFields DEF Ready, Processes
    <3> QED
      BY <3>1, <3>2 DEF Good
  <2>2. [proc[p] EXCEPT !.pc = "delete", !.cur = Win(p)] \in Good
    <3>1. [proc[p] EXCEPT !.pc = "delete", !.cur = Win(p)] \in Processes
      BY <1>1, <1>2, GoodFields DEF Processes, Labels
    <3>2. Ready([proc[p] EXCEPT !.pc = "delete", !.cur = Win(p)])
      BY <1>1, GoodFields DEF Ready, Processes
    <3> QED
      BY <3>1, <3>2 DEF Good
  <2> QED
    BY <1>7, <2>1, <2>2, Becoming DEF Snapshot, TouchSeen
<1>8. CASE Job(p) = "remove"
  BY <1>1, <1>2, <1>8, RemovingGood, IdleGood, Becoming DEF Snapshot, RemoveSeen
<1>9. CASE Job(p) = "killwin"
  BY <1>1, <1>2, <1>9, RemovingGood, IdleGood, Becoming
     DEF Snapshot, WindowKillSeen
<1>10. CASE Job(p) \notin {"prune", "promote", "recover", "touch", "remove", "killwin"}
  <2> DEFINE T == { [win |-> w, move |-> "alias"] : w \in
                      { v \in Windows : Alias(links, v) /\ Ses(p) \in Sources(links, v) } }
             s == [proc[p] EXCEPT !.pc = "apply", !.todo = T]
  <2>1. T \subseteq Rows \cup Moves
    BY DEF Moves
  <2> HIDE DEF T
  <2>2. s \in Processes
    BY <1>1, <2>1, GoodFields DEF Processes, Labels
  <2>3. Ready(s)
    BY <1>1, GoodFields DEF Ready, Processes
  <2> QED
    BY <1>10, <2>2, <2>3, Becoming DEF Snapshot, SessionKillSeen, Good, T
<1> QED
  BY <1>3, <1>5, <1>6, <1>7, <1>8, <1>9, <1>10

(* One transition of a prune, or one alias of a kill.                      *)
LEMMA ApplyGood ==
    ASSUME ProcsGood, NEW p \in Procs, NEW m \in proc[p].todo, Apply(p, m)
    PROVE  ProcsGood'
<1> DEFINE T == proc[p].todo \ {m}
           rest == [proc[p] EXCEPT !.todo = T]
<1>1. proc[p] \in Good
  BY DEF ProcsGood
<1>2. T \subseteq Rows \cup Moves /\ m.win \in Targets
      /\ proc[p].snap \in Links
  BY <1>1, GoodFields DEF Rows, Moves, Targets
<1> HIDE DEF T
<1>3. rest \in Good
  <2>1. rest \in Processes
    BY <1>1, <1>2, GoodFields DEF Processes
  <2>2. Ready(rest)
    BY <1>1, GoodFields DEF Ready, Processes
  <2> QED
    BY <2>1, <2>2 DEF Good
<1>4. CASE m.move = "expire"
  <2> DEFINE next == Removing(p, m.win, proc[p].snap)
             s == [next EXCEPT !.todo = T, !.snap = proc[p].snap]
  <2>1. next \in Good
    BY <1>2, RemovingGood
  <2> HIDE DEF next
  <2>2. s \in Processes
    BY <1>2, <2>1, GoodFields DEF Processes
  <2>3. Ready(s)
    BY <2>1, GoodFields DEF Ready, Processes
  <2>4. Become(p, IF next = Idle THEN Idle ELSE s)
    BY <1>4 DEF Apply, T, next
  <2> QED
    BY <2>2, <2>3, <2>4, IdleGood, Becoming DEF Good
<1>5. CASE m.move \notin {"drop", "orphan", "expire"}
  <2> DEFINE s == [rest EXCEPT !.pc = "unlink", !.cur = m.win]
  <2>1. s \in Processes
    BY <1>2, <1>3, GoodFields DEF Processes, Labels
  <2>2. Ready(s)
    BY <1>3, GoodFields DEF Ready, Processes
  <2>3. Become(p, s)
    BY <1>5 DEF Apply, T
  <2> QED
    BY <2>1, <2>2, <2>3, Becoming DEF Good
<1>6. CASE m.move \in {"drop", "orphan"}
  BY <1>3, <1>6, Becoming DEF Apply, T
<1> QED
  BY <1>4, <1>5, <1>6 DEF Apply

(* The end of a prune.                                                     *)
LEMMA AppliedGood ==
    ASSUME ProcsGood, NEW p \in Procs, Applied(p)
    PROVE  ProcsGood'
<1> DEFINE l == IF proc[p].cmd.op = "promote" THEN "resolve" ELSE "own"
           s == [proc[p] EXCEPT !.job = proc[p].cmd.op, !.snap = {}, !.ep = 0,
                                !.pc = l]
<1>1. proc[p] \in Good /\ {} \in Links /\ 0 \in 0 .. MaxEpoch
  BY BoundsAssumption DEF ProcsGood, Links
<1>2. l \in Labels /\ proc[p].cmd.op \in AllOps \cup {"none"}
  BY <1>1, GoodFields DEF Labels, Processes, Lines
<1>3. s \in Processes
  BY <1>1, <1>2, GoodFields DEF Processes
<1>4. Ready(s)
  BY <1>1, GoodFields DEF Ready, Processes
<1>5. CASE Job(p) = "kill"
  BY <1>5, GoingTo DEF Applied, Labels
<1>6. CASE Job(p) # "kill"
  BY <1>3, <1>4, <1>6, FinishGood, Becoming DEF Applied, Good
<1> QED
  BY <1>5, <1>6

(* The steps of an unlink.                                                 *)
LEMMA UnlinkGood ==
    ASSUME ProcsGood, LinksGood, NEW p \in Procs,
           Unlink(p) \/ VerifyUnlinked(p) \/ DeleteRow(p) \/ Undo(p)
    PROVE  ProcsGood'
<1>1. proc[p] \in Good /\ {} \in Links /\ links \in Links
  BY DEF ProcsGood, Links, LinksGood
<1>2. ASSUME NEW l \in {"apply", "verify", "delete", "kill"}, NEW M \in Links
      PROVE  [proc[p] EXCEPT !.snap = M, !.pc = l] \in Good
  <2> DEFINE s == [proc[p] EXCEPT !.snap = M, !.pc = l]
  <2>1. s \in Processes
    BY <1>1, GoodFields DEF Processes, Labels
  <2>2. Ready(s)
    BY <1>1, GoodFields DEF Ready, Processes
  <2> QED
    BY <2>1, <2>2 DEF Good
<1>3. [proc[p] EXCEPT !.pc = "apply", !.cur = Placeholder] \in Good
  <2> DEFINE s == [proc[p] EXCEPT !.pc = "apply", !.cur = Placeholder]
  <2>1. s \in Processes
    BY <1>1, GoodFields DEF Processes, Labels, Targets
  <2>2. Ready(s)
    BY <1>1, GoodFields DEF Ready, Processes
  <2> QED
    BY <2>1, <2>2 DEF Good
<1>4. [proc[p] EXCEPT !.pc = "verify", !.snap = {}] \in Good
  <2> DEFINE s == [proc[p] EXCEPT !.pc = "verify", !.snap = {}]
  <2>1. s \in Processes
    BY <1>1, GoodFields DEF Processes, Labels
  <2>2. Ready(s)
    BY <1>1, GoodFields DEF Ready, Processes
  <2> QED
    BY <2>1, <2>2 DEF Good
<1>5. CASE Unlink(p)
  BY <1>3, <1>4, <1>5, FinishGood, Becoming DEF Unlink
<1>6. CASE VerifyUnlinked(p)
  BY <1>1, <1>2, <1>6, FinishGood, Becoming DEF VerifyUnlinked
<1>7. CASE DeleteRow(p)
  BY <1>3, <1>7, FinishGood, Becoming DEF DeleteRow
<1>8. CASE Undo(p)
  BY <1>8, FinishGood DEF Undo
<1> QED
  BY <1>5, <1>6, <1>7, <1>8

(* The steps of a promotion or a recovery.                                 *)
LEMMA PlacingGood ==
    ASSUME ProcsGood, LinksGood, NEW p \in Procs,
           Link(p) \/ Linked(p) \/ Cleanup(p) \/ VerifyCleaned(p)
    PROVE  ProcsGood'
<1>1. proc[p] \in Good /\ {} \in Links /\ links \in Links
      /\ proc[p].snap \in Links
  BY GoodFields DEF ProcsGood, Links, LinksGood
<1>2. Win(p) \in Targets /\ Job(p) \in Placed /\ proc[p].ep # 0
      /\ (At(p, "cleanup") \/ At(p, "cleaned") => Job(p) = "promote")
  BY <1>1, GoodFields
     DEF Win, Job, At, Ready, Link, Linked, Cleanup, VerifyCleaned, Placed
<1>3. ASSUME NEW l \in {"link", "linked", "cleanup", "cleaned", "rollback"},
             NEW M \in Links, NEW b \in BOOLEAN,
             l \in {"cleanup", "cleaned"} => Job(p) = "promote"
      PROVE  /\ [proc[p] EXCEPT !.pc = l, !.snap = M] \in Good
             /\ [proc[p] EXCEPT !.pc = l, !.snap = M, !.linked = b] \in Good
  <2> DEFINE s == [proc[p] EXCEPT !.pc = l, !.snap = M]
             t == [proc[p] EXCEPT !.pc = l, !.snap = M, !.linked = b]
  <2>0. proc[p] \in Processes /\ l \in Labels
    BY <1>1, GoodFields DEF Labels
  <2>1. s \in Processes /\ t \in Processes
    BY <2>0 DEF Processes
  <2>2. Ready(s)
    BY <1>1, <1>2, <1>3, GoodFields DEF Ready, Processes, Job, Placed
  <2>3. Ready(t)
    BY <1>1, <1>2, <1>3, GoodFields DEF Ready, Processes, Job, Placed
  <2> QED
    BY <2>1, <2>2, <2>3 DEF Good
<1>4. [proc[p] EXCEPT !.pc = "cleanup"] \in Good \/ Job(p) = "recover"
  <2> DEFINE s == [proc[p] EXCEPT !.pc = "cleanup"]
  <2>1. s \in Processes
    BY <1>1, GoodFields DEF Processes, Labels
  <2>2. Ready(s) \/ Job(p) = "recover"
    BY <1>1, <1>2, GoodFields DEF Ready, Processes, Job, Placed
  <2> QED
    BY <2>1, <2>2 DEF Good
<1>5. Removing(p, Win(p), links) \in Good
      /\ Removing(p, Win(p), proc[p].snap) \in Good
  BY <1>1, <1>2, RemovingGood
<1>6. CASE Link(p)
  BY <1>1, <1>3, <1>4, <1>5, <1>6, Becoming DEF Link
<1>7. CASE Linked(p)
  <2>1. CASE Job(p) = "recover"
    BY <1>1, <1>3, <1>5, <1>7, <2>1, Becoming, FinishGood DEF Linked
  <2>2. CASE Job(p) = "promote"
    BY <1>1, <1>3, <1>7, <2>2, Becoming, FinishGood DEF Linked
  <2> QED
    BY <1>2, <2>1, <2>2 DEF Placed
<1>8. CASE Cleanup(p)
  BY <1>1, <1>2, <1>3, <1>8, Becoming DEF Cleanup
<1>9. CASE VerifyCleaned(p)
  <2>1. Job(p) = "promote"
    BY <1>2, <1>9 DEF VerifyCleaned
  <2> QED
    BY <1>1, <1>3, <1>9, <2>1, Becoming, GoingTo DEF VerifyCleaned, Labels
<1> QED
  BY <1>6, <1>7, <1>8, <1>9

(* The last steps of a command.                                            *)
LEMMA PersistingGood ==
    ASSUME ProcsGood, NEW p \in Procs,
           Persist(p) \/ PersistFails(p) \/ TouchRow(p) \/ Kill(p) \/ Abort(p)
    PROVE  ProcsGood'
<1>1. proc[p] \in Good /\ {} \in Links
  BY DEF ProcsGood, Links
<1>2. [proc[p] EXCEPT !.pc = "rollback", !.snap = {}] \in Good
  <2> DEFINE s == [proc[p] EXCEPT !.pc = "rollback", !.snap = {}]
  <2>1. s \in Processes
    BY <1>1, GoodFields DEF Processes, Labels
  <2>2. Ready(s)
    BY <1>1, GoodFields DEF Ready, Processes
  <2> QED
    BY <2>1, <2>2 DEF Good
<1> QED
  BY <1>2, FinishGood, Becoming
     DEF Persist, PersistFails, TouchRow, Kill, Abort

(* So every step of a process.                                             *)
LEMMA StepProcsGood ==
    ASSUME LinksGood, RowsGood, ProcsGood, NEW p \in Procs, Step(p)
    PROVE  ProcsGood'
BY PlainStepsGood, BeginGood, EpochGood, ListGood, SnapshotGood, ApplyGood,
   AppliedGood, UnlinkGood, PlacingGood, PersistingGood DEF Step

(***************************************************************************)
(* Rows. Each step keeps one row for a window and a server, and, unless it *)
(* is a promotion that persists, moves no time of selection backwards.     *)
(***************************************************************************)

(* A row that is marked.                                                   *)
LEMMA MarkedRow ==
    ASSUME NEW r \in Rows, NEW st \in {"tracked", "orphaned"}
    PROVE  LET s == [r EXCEPT !.st = st]
           IN  s \in Rows /\ s.ep = r.ep /\ s.win = r.win /\ s.sel = r.sel
BY DEF Rows

(* A row that is selected.                                                 *)
LEMMA MovedRow ==
    ASSUME NEW r \in Rows, NEW t \in 0 .. MaxTime
    PROVE  LET s == [r EXCEPT !.sel = t]
           IN  s \in Rows /\ s.ep = r.ep /\ s.win = r.win /\ s.sel = t
BY DEF Rows

(* No time of selection is before what it was.                             *)
Later(old, new) ==
    \A r \in old, s \in new : r.ep = s.ep /\ r.win = s.win => r.sel <= s.sel

(* Rows are deleted.                                                       *)
LEMMA FewerRows ==
    ASSUME RowsGood, rows' \subseteq rows
    PROVE  RowsGood' /\ Later(rows, rows')
<1>1. \A r \in rows : r.sel <= r.sel
  BY DEF RowsGood, Rows
<1> QED
  BY <1>1 DEF RowsGood, Later

(* A prune marks orphans.                                                  *)
LEMMA ApplyRows ==
    ASSUME RowsGood, NEW p \in Procs, NEW m, Apply(p, m)
    PROVE  RowsGood' /\ Later(rows, rows')
<1>1. CASE m.move = "orphan"
  <2> DEFINE old == RowOf(p, m.win)
             new == { [r EXCEPT !.st = "orphaned"] : r \in old }
  <2>1. rows' = (rows \ old) \cup new
    BY <1>1 DEF Apply
  <2>2. ASSUME NEW s \in new
        PROVE  /\ s \in Rows
               /\ \E r \in old : s = [r EXCEPT !.st = "orphaned"]
                                /\ s.ep = r.ep /\ s.win = r.win /\ s.sel = r.sel
    <3>1. PICK r \in old : s = [r EXCEPT !.st = "orphaned"]
      BY <2>2
    <3>2. r \in Rows
      BY <3>1 DEF RowOf, RowsGood
    <3>3. s \in Rows /\ s.ep = r.ep /\ s.win = r.win /\ s.sel = r.sel
      BY <3>1, <3>2, MarkedRow
    <3> QED
      BY <3>1, <3>3
  <2>3. \A r \in rows : r \in old <=> r.ep = proc[p].ep /\ r.win = m.win
    BY DEF RowOf
  <2>4. old \subseteq rows /\ \A r, s \in old : r = s
    BY DEF RowOf, RowsGood
  <2> HIDE DEF old, new
  <2>5. \A r \in rows : r.sel <= r.sel
    BY DEF RowsGood, Rows
  <2>6. rows' \subseteq Rows
    BY <2>1, <2>2 DEF RowsGood
  <2>7. \A r, s \in rows' : r.ep = s.ep /\ r.win = s.win => r = s
    BY <2>1, <2>2, <2>3, <2>4 DEF RowsGood
  <2>8. Later(rows, rows')
    BY <2>1, <2>2, <2>3, <2>4, <2>5 DEF Later, RowsGood
  <2> QED
    BY <2>6, <2>7, <2>8 DEF RowsGood
<1>2. CASE m.move # "orphan"
  BY <1>2, FewerRows DEF Apply
<1> QED
  BY <1>1, <1>2

(* A hook touches a row.                                                   *)
LEMMA TouchRows ==
    ASSUME RowsGood, ProcsGood, NEW p \in Procs, TouchRow(p)
    PROVE  RowsGood' /\ Later(rows, rows')
<1> DEFINE now == proc[p].now
           old == { r \in RowOf(p, Win(p)) : Selectable(r, now) }
           new == { [r EXCEPT !.sel = now] : r \in old }
<1>1. rows' = (rows \ old) \cup new
  BY DEF TouchRow
<1>2. now \in 0 .. MaxTime
  BY GoodFields DEF ProcsGood
<1>3. ASSUME NEW s \in new
      PROVE  /\ s \in Rows
             /\ \E r \in old : s = [r EXCEPT !.sel = now]
                              /\ s.ep = r.ep /\ s.win = r.win /\ r.sel <= s.sel
  <2>1. PICK r \in old : s = [r EXCEPT !.sel = now]
    BY <1>3
  <2>2. r \in Rows /\ r.sel <= now
    BY <2>1 DEF RowOf, RowsGood, Selectable
  <2>3. s \in Rows /\ s.ep = r.ep /\ s.win = r.win /\ s.sel = now
    BY <1>2, <2>1, <2>2, MovedRow
  <2> QED
    BY <2>1, <2>2, <2>3
<1>4. \A r, s \in rows : r \in old /\ r.ep = s.ep /\ r.win = s.win => s \in old
  BY DEF RowsGood
<1>5. old \subseteq rows /\ \A r, s \in old : r = s
  BY DEF RowOf, RowsGood
<1> HIDE DEF old, new, now
<1>6. \A r \in rows : r.sel <= r.sel
  BY DEF RowsGood, Rows
<1>7. rows' \subseteq Rows
  BY <1>1, <1>3 DEF RowsGood
<1>8. \A r, s \in rows' : r.ep = s.ep /\ r.win = s.win => r = s
  BY <1>1, <1>3, <1>4, <1>5 DEF RowsGood
<1>9. Later(rows, rows')
  BY <1>1, <1>3, <1>4, <1>5, <1>6 DEF Later, RowsGood
<1> QED
  BY <1>7, <1>8, <1>9 DEF RowsGood

(* A promotion replaces the row of its window.                             *)
LEMMA PersistRows ==
    ASSUME RowsGood, ProcsGood, NEW p \in Procs, Persist(p)
    PROVE  RowsGood'
<1> DEFINE row == [ep |-> proc[p].ep, win |-> Win(p), st |-> "tracked",
                   sel |-> proc[p].now]
<1>1. proc[p] \in Good
  BY DEF ProcsGood
<1>2. proc[p].ep \in 1 .. MaxEpoch
  BY <1>1, GoodFields, BoundsAssumption DEF Persist, At, Ready
<1>3. Win(p) \in Windows
  BY <1>1, GoodFields DEF Persist, At, Ready, Win, Placed
<1>4. row \in Rows
  BY <1>1, <1>2, <1>3, GoodFields DEF Rows
<1>5. rows' = (rows \ RowOf(p, Win(p))) \cup {row}
  BY DEF Persist
<1>6. row.ep = proc[p].ep /\ row.win = Win(p)
  OBVIOUS
<1> HIDE DEF row
<1> QED
  BY <1>4, <1>5, <1>6 DEF RowsGood, RowOf

(* So every step of a process.                                             *)
LEMMA StepRows ==
    ASSUME RowsGood, ProcsGood, NEW p \in Procs, Step(p)
    PROVE  RowsGood' /\ (Later(rows, rows') \/ Persist(p))
<1>1. CASE rows' \subseteq rows
  BY <1>1, FewerRows
<1>2. CASE \E m \in proc[p].todo : Apply(p, m)
  BY <1>2, ApplyRows
<1>3. CASE TouchRow(p)
  BY <1>3, TouchRows
<1>4. CASE Persist(p)
  BY <1>4, PersistRows
<1> QED
  BY <1>1, <1>2, <1>3, <1>4
     DEF Step, Begin, CheckOwned, ReadEpoch, SweepEpochs, ListRows, Snapshot,
         Applied, Unlink, VerifyUnlinked, DeleteRow, Resolve, EnsureOwned, Link,
         Linked, Cleanup, VerifyCleaned, PersistFails, Rollback, Undo, FindRow,
         Kill, Abort, unchangedAll

(***************************************************************************)
(* Links and ownership. A session that has windows has an owner: links     *)
(* only vanish, or are added to a session that exists.                     *)
(***************************************************************************)

(* A command of tmux that creates no active session.                       *)
LEMMA Relinked ==
    ASSUME LinksGood, NEW L \in Links, Relink(L),
           Aliases(L) # {} => Aliases(links) # {},
           UNCHANGED << epoch, clock >>
    PROVE  LinksGood'
BY DEF LinksGood, Relink, Aliases, Alias

(* Links are removed.                                                      *)
LEMMA FewerLinks ==
    ASSUME LinksGood, NEW L \in SUBSET links, Relink(L),
           UNCHANGED << epoch, clock >>
    PROVE  LinksGood'
<1>1. L \in Links
  BY DEF LinksGood, Links
<1>2. Aliases(L) # {} => Aliases(links) # {}
  BY DEF Aliases, Alias
<1> QED
  BY <1>1, <1>2, Relinked

(* A link is added to an existing session.                                 *)
LEMMA MoreLinks ==
    ASSUME LinksGood, NEW w \in Targets, NEW s \in Places,
           s = Active => LinksIn(s) # {},
           Relink(links \cup {<< w, s >>}), UNCHANGED << epoch, clock >>
    PROVE  LinksGood'
<1>1. links \cup {<< w, s >>} \in Links
  BY DEF LinksGood, Links
<1>2. ASSUME Aliases(links \cup {<< w, s >>}) # {}
      PROVE  Aliases(links) # {}
  <2>1. CASE s = Active
    <3>1. PICK l \in links : l[2] = Active
      BY <2>1 DEF LinksIn
    <3>2. l = << l[1], Active >> /\ l[1] \in Targets
      BY <3>1 DEF LinksGood, Links
    <3> QED
      BY <3>1, <3>2 DEF Aliases, Alias
  <2>2. CASE s # Active
    BY <1>2, <2>2 DEF Aliases, Alias
  <2> QED
    BY <2>1, <2>2
<1> QED
  BY <1>1, <1>2, Relinked

(* So every step of a process.                                             *)
LEMMA StepLinks ==
    ASSUME LinksGood, ProcsGood, NEW p \in Procs, Step(p)
    PROVE  LinksGood'
<1>1. proc[p] \in Good
  BY DEF ProcsGood
<1>2. CASE UNCHANGED << links, owner, epoch, clock >>
  BY <1>2 DEF LinksGood, Aliases, Alias
<1>3. CASE Unlink(p) \/ Undo(p) \/ Cleanup(p) \/ Kill(p)
  <2>1. CASE UNCHANGED << links, owner >>
    BY <1>2, <1>3, <2>1 DEF Unlink, Undo, Cleanup, Kill
  <2>2. CASE ~UNCHANGED << links, owner >>
    <3>1. PICK L \in SUBSET links : Relink(L)
      BY <1>3, <2>2 DEF Unlink, Undo, Cleanup, Kill
    <3> QED
      BY <1>3, <3>1, FewerLinks DEF Unlink, Undo, Cleanup, Kill
  <2> QED
    BY <2>1, <2>2
<1>4. CASE EnsureOwned(p)
  <2>1. CASE owner = "none"
    <3>1. links \cup {<< Placeholder, Active >>} \in Links
      BY DEF LinksGood, Links, Targets, Places
    <3>2. links' = links \cup {<< Placeholder, Active >>} /\ owner' = "tmh"
          /\ UNCHANGED << epoch, clock >>
      BY <1>4, <2>1 DEF EnsureOwned
    <3>3. Placeholder \in Aliases(links')
      BY <3>2 DEF Aliases, Alias, Targets
    <3> QED
      BY <3>1, <3>2, <3>3 DEF LinksGood, Aliases, Alias
  <2>2. CASE owner # "none"
    BY <1>2, <1>4, <2>2 DEF EnsureOwned
  <2> QED
    BY <2>1, <2>2
<1>5. CASE Link(p)
  <2>1. Win(p) \in Targets /\ Destination(p) \in Places
    BY <1>1, GoodFields DEF Win, Ses, Destination, Places
  <2> QED
    BY <1>2, <1>5, <2>1, MoreLinks DEF Link
<1> QED
  BY <1>2, <1>3, <1>4, <1>5
     DEF Step, Begin, CheckOwned, ReadEpoch, SweepEpochs, ListRows, Snapshot,
         Apply, Applied, VerifyUnlinked, DeleteRow, Resolve, Linked,
         VerifyCleaned, Persist, PersistFails, Rollback, FindRow, TouchRow,
         Abort, unchangedTmux, unchangedAll

(* And every step of the user, a restart included.                         *)
LEMMA UserLinks ==
    ASSUME LinksGood, User
    PROVE  LinksGood'
<1>0. UNCHANGED clock
  BY DEF User
<1>1. CASE UserRelinks /\ UNCHANGED epoch
  <2>1. CASE \E w \in Windows, s \in Sessions : Relink(links \cup {<< w, s >>})
    BY <1>0, <1>1, <2>1, MoreLinks, NamesAssumption DEF Targets, Places
  <2>2. CASE \E L \in SUBSET links : Relink(L)
    BY <1>0, <1>1, <2>2, FewerLinks
  <2> QED
    BY <1>1, <2>1, <2>2 DEF UserRelinks
<1>2. CASE UserOwnsActive /\ UNCHANGED epoch
  <2>1. PICK s \in Sessions :
           /\ LinksIn(s) # {}
           /\ links' = { IF l[2] = s THEN << l[1], Active >> ELSE l : l \in links }
    BY <1>2 DEF UserOwnsActive
  <2>2. links' \in Links
    BY <2>1 DEF LinksGood, Links, Places
  <2>3. PICK l \in links : l[2] = s
    BY <2>1 DEF LinksIn
  <2>4. l[1] \in Targets /\ << l[1], Active >> \in links'
    BY <2>1, <2>3 DEF LinksGood, Links
  <2>5. Aliases(links') # {}
    BY <2>4 DEF Aliases, Alias
  <2> QED
    BY <1>0, <1>2, <2>2, <2>5 DEF LinksGood, UserOwnsActive, Aliases, Alias
<1>3. CASE Restart
  <2>1. links' \in SUBSET (Windows \X Sessions)
    BY <1>3 DEF Restart
  <2>2. links' \in Links
    BY <2>1 DEF Links, Targets, Places
  <2>3. Aliases(links') = {}
    BY <2>1, NamesAssumption DEF Aliases, Alias
  <2>4. epoch' \in 1 .. MaxEpoch
    BY <1>3, BoundsAssumption DEF Restart, LinksGood
  <2>5. owner' = "none"
    BY <1>3 DEF Restart
  <2> QED
    BY <1>0, <2>2, <2>3, <2>4, <2>5 DEF LinksGood, Aliases, Alias
<1> QED
  BY <1>1, <1>2, <1>3 DEF User

(***************************************************************************)
(* The invariant is inductive.                                             *)
(***************************************************************************)

(* It holds at the beginning,                                              *)
LEMMA InvInit == Init => IInv
<1> SUFFICES ASSUME Init PROVE IInv
  OBVIOUS
<1>1. links \in SUBSET (Windows \X Sessions)
  BY DEF Init
<1>2. links \in Links /\ Aliases(links) = {}
  BY <1>1, NamesAssumption DEF Links, Targets, Places, Aliases, Alias
<1>3. LinksGood
  BY <1>2, BoundsAssumption DEF LinksGood, Init
<1>4. RowsGood
  BY DEF RowsGood, Init
<1>5. ProcsGood /\ calm \in [Procs -> BOOLEAN]
  BY IdleGood DEF ProcsGood, Init
<1> QED
  BY <1>3, <1>4, <1>5 DEF IInv

(* is preserved by every step,                                             *)
LEMMA InvNext == IInv /\ [Next]_vars => IInv'
<1> SUFFICES ASSUME IInv, [Next]_vars PROVE IInv'
  OBVIOUS
<1> USE DEF IInv
<1>1. CASE UNCHANGED vars
  BY <1>1 DEF vars, LinksGood, RowsGood, ProcsGood, Aliases, Alias
<1>2. ASSUME NEW p \in Procs, Step(p), Disturb(Procs \ {p})
      PROVE  IInv'
  <2>1. calm' \in [Procs -> BOOLEAN]
    BY <1>2 DEF Disturb
  <2> QED
    BY <1>2, <2>1, StepLinks, StepRows, StepProcsGood
<1>3. CASE User /\ Disturb(Procs)
  <2>1. calm' \in [Procs -> BOOLEAN]
    BY <1>3 DEF Disturb
  <2>2. RowsGood' /\ ProcsGood'
    BY <1>3 DEF User, RowsGood, ProcsGood
  <2> QED
    BY <1>3, <2>1, <2>2, UserLinks
<1>4. CASE Tick /\ UNCHANGED calm
  <2>1. clock' \in 0 .. MaxTime
    BY <1>4, BoundsAssumption DEF Tick, LinksGood
  <2> QED
    BY <1>4, <2>1
       DEF Tick, unchangedTmux, LinksGood, RowsGood, ProcsGood, Aliases, Alias
<1> QED
  BY <1>1, <1>2, <1>3, <1>4 DEF Next

(* and implies the type invariant.                                         *)
LEMMA InvType == IInv => TypeOK
<1> SUFFICES ASSUME IInv PROVE TypeOK
  OBVIOUS
<1>1. \A p \in Procs : proc[p] \in Good
  BY DEF IInv, ProcsGood
<1> QED
  BY <1>1, GoodFields DEF IInv, TypeOK, LinksGood, RowsGood

(* Every variable has its type, a window one row per server, and the       *)
(* ownership marker lives and dies with the session, after any             *)
(* interleaving.                                                           *)
THEOREM TypeCorrect == Spec => []TypeOK
<1> QED
  BY InvInit, InvNext, InvType, PTL DEF Spec

(* However late or out of order hooks arrive, none moves the expiry of a   *)
(* window backwards.                                                       *)
THEOREM TouchesNeverGoBack == Spec => TouchNeverBack
<1>1. ASSUME IInv, [Next]_vars
      PROVE  [\A r \in rows, s \in rows' :
                 r.ep = s.ep /\ r.win = s.win /\ s.sel < r.sel
                     => \E p \in Procs : Persist(p)]_vars
  <2> SUFFICES ASSUME Next, ~(\E p \in Procs : Persist(p)),
                      NEW r \in rows, NEW s \in rows',
                      r.ep = s.ep /\ r.win = s.win /\ s.sel < r.sel
               PROVE  FALSE
    BY <1>1
  <2>1. RowsGood /\ RowsGood' /\ ProcsGood
    BY <1>1, InvNext DEF IInv
  <2>2. Later(rows, rows')
    <3>1. CASE \E p \in Procs : Step(p)
      BY <2>1, <3>1, StepRows
    <3>2. CASE User \/ Tick
      BY <2>1, <3>2, FewerRows DEF User, Tick
    <3> QED
      BY <3>1, <3>2 DEF Next
  <2>3. r.sel \in Int /\ s.sel \in Int
    BY <2>1 DEF RowsGood, Rows
  <2> QED
    BY <2>2, <2>3 DEF Later
<1> QED
  BY <1>1, InvInit, InvNext, PTL DEF Spec, TouchNeverBack

(***************************************************************************)
(* A session named active that is not tmh's. The user takes the name by a  *)
(* step that disturbs every command under way, so a process that is calm   *)
(* has not got past the check of the owner.                                *)
(***************************************************************************)

(* The invariant of it.                                                    *)
Avoided ==
    \A p \in Procs : owner = "user" /\ calm[p] => proc[p].pc \in {"idle", "own"}

(* A step of one process leaves the others where they are.                 *)
LEMMA OthersStay ==
    ASSUME ProcsGood, NEW p \in Procs, NEW q \in Procs \ {p}, Step(p)
    PROVE  proc'[q] = proc[q]
<1>1. \A s : Become(p, s) => proc'[q] = proc[q]
  BY DEF Become, ProcsGood
<1> HIDE DEF Become
<1>2. CASE \E m \in proc[p].todo : Apply(p, m)
  BY <1>1, <1>2 DEF Apply
<1>3. CASE Snapshot(p)
  BY <1>1, <1>3 DEF Snapshot
<1>4. CASE Link(p) \/ Linked(p) \/ Unlink(p) \/ Applied(p)
  BY <1>1, <1>4 DEF Link, Linked, Unlink, Applied, Finish, Goto
<1> QED
  BY <1>1, <1>2, <1>3, <1>4
     DEF Step, Begin, CheckOwned, ReadEpoch, SweepEpochs, ListRows,
         VerifyUnlinked, DeleteRow, Resolve, EnsureOwned,
         Cleanup, VerifyCleaned, Persist, PersistFails, Rollback, Undo, FindRow,
         TouchRow, Kill, Abort, Finish, Goto

(* A process that finds the collision stops without a change.              *)
LEMMA CollisionStops ==
    ASSUME ProcsGood, NEW p \in Procs, Step(p), owner = "user",
           proc[p].pc \in {"idle", "own"}
    PROVE  UNCHANGED links /\ proc'[p].pc \in {"idle", "own"}
<1>1. \A s : Become(p, s) => proc'[p] = s
  BY DEF Become, ProcsGood
<1>2. Idle.pc = "idle"
  BY DEF Idle
<1> HIDE DEF Become
<1>3. CASE \E c \in Commands : Begin(p, c)
  <2>1. PICK c \in Commands : Begin(p, c)
    BY <1>3
  <2>2. [Idle EXCEPT !.pc = "own", !.cmd = c, !.now = clock,
                      !.job = IF c.op \in {"promote", "touch"}
                              THEN "prune" ELSE c.op].pc = "own"
    BY DEF Idle
  <2> QED
    BY <1>1, <2>1, <2>2 DEF Begin, unchangedAll, unchangedTmux
<1>4. CASE CheckOwned(p) \/ Abort(p)
  BY <1>1, <1>2, <1>4
     DEF CheckOwned, Abort, Collision, Finish, unchangedAll, unchangedTmux
<1> QED
  BY <1>3, <1>4
     DEF Step, At, ReadEpoch, SweepEpochs, ListRows, Snapshot, Apply, Applied,
         Unlink, VerifyUnlinked, DeleteRow, Resolve, EnsureOwned, Link, Linked,
         Cleanup, VerifyCleaned, Persist, PersistFails, Rollback, Undo, FindRow,
         TouchRow, Kill

(* No process makes the session the user's.                                *)
LEMMA OwnerStays ==
    ASSUME NEW p \in Procs, Step(p), owner' = "user"
    PROVE  owner = "user"
BY DEF Step, Begin, CheckOwned, ReadEpoch, SweepEpochs, ListRows, Snapshot,
       Apply, Applied, Unlink, VerifyUnlinked, DeleteRow, Resolve, EnsureOwned,
       Link, Linked, Cleanup, VerifyCleaned, Persist, PersistFails, Rollback,
       Undo, FindRow, TouchRow, Kill, Abort, Relink, unchangedTmux, unchangedAll

(* Every step preserves it.                                                *)
LEMMA AvoidedNext == IInv /\ Avoided /\ [Next]_vars => Avoided'
<1> SUFFICES ASSUME IInv, Avoided, [Next]_vars,
                    NEW q \in Procs, owner' = "user", calm'[q]
             PROVE  proc'[q].pc \in {"idle", "own"}
  BY DEF Avoided
<1>0. ProcsGood /\ Idle.pc = "idle"
  BY DEF IInv, Idle
<1>1. CASE UNCHANGED vars
  BY <1>1 DEF vars, Avoided
<1>2. ASSUME NEW p \in Procs, Step(p), Disturb(Procs \ {p})
      PROVE  proc'[q].pc \in {"idle", "own"}
  <2>1. owner = "user"
    BY <1>2, OwnerStays
  <2>2. proc'[q] = Idle \/ calm[q]
    BY <1>2 DEF Disturb
  <2>3. CASE calm[q] /\ p = q
    BY <1>0, <1>2, <2>1, <2>3, CollisionStops DEF Avoided
  <2>4. CASE calm[q] /\ p # q
    BY <1>0, <1>2, <2>1, <2>4, OthersStay DEF Avoided
  <2> QED
    BY <1>0, <2>2, <2>3, <2>4
<1>3. CASE User /\ Disturb(Procs)
  <2>1. proc'[q] = Idle \/ (calm[q] /\ UNCHANGED << links, rows, epoch >>)
    BY <1>3 DEF Disturb
  <2>2. UNCHANGED << links, epoch >> => FALSE
    BY <1>3 DEF User, Restart, IInv, LinksGood
  <2> QED
    BY <1>0, <2>1, <2>2
<1>4. CASE Tick /\ UNCHANGED calm
  BY <1>4 DEF Tick, unchangedTmux, Avoided
<1> QED
  BY <1>1, <1>2, <1>3, <1>4 DEF Next

(* A command that finds the user's own session active from its beginning   *)
(* to its end changes no link at all.                                      *)
THEOREM CollisionIsLeftAlone == Spec => CollisionUntouched
<1>1. Init => Avoided
  BY DEF Init, Avoided
<1>2. ASSUME IInv, Avoided, [Next]_vars
      PROVE  [\A p \in Procs :
                 owner = "user" /\ calm[p] /\ proc'[p] # proc[p]
                     => UNCHANGED links]_vars
  <2> SUFFICES ASSUME Next, NEW q \in Procs, owner = "user", calm[q],
                      proc'[q] # proc[q]
               PROVE  UNCHANGED links
    BY <1>2
  <2>1. Step(q)
    BY <1>2, OthersStay DEF Next, User, Tick, IInv
  <2> QED
    BY <1>2, <2>1, CollisionStops DEF Avoided, IInv
<1> QED
  BY <1>1, <1>2, InvInit, InvNext, AvoidedNext, PTL DEF Spec, CollisionUntouched

(***************************************************************************)
(* Commands that nobody disturbs. What such a process has read is still    *)
(* true, so the invariant relates its locals to the links and to the table.*)
(***************************************************************************)

(* A row a prune need not touch again.                                     *)
Settled(r, L, now) ==
    /\ Alias(L, r.win)
    /\ Expired(r, now) => Sources(L, r.win) = {} /\ r.st = "orphaned"

(* The window whose row the process s is about to delete.                  *)
Current(s) == IF s.pc = "apply" THEN {} ELSE {s.cur}

(* Each window is planned for once, what is to be marked as an orphan is   *)
(* one, and a row that is not planned for is settled.                      *)
Planned(s, L, R) ==
    /\ \A m, n \in s.todo : m.win = n.win => m = n
    /\ \A m \in s.todo :
          /\ m.win \notin Current(s)
          /\ m.move = "orphan" => Alias(L, m.win) /\ Sources(L, m.win) = {}
    /\ \A r \in R : \/ r.win \in Current(s)
                    \/ \E m \in s.todo : m.win = r.win
                    \/ Settled(r, L, s.now)

Applying == {"apply", "unlink", "verify", "delete"}
Listing == {"rows", "links"} \cup Applying

(* A process s that prunes, over the links L, the rows R and the server e. *)
PruneFits(s, L, R, e) ==
    s.job = "prune" =>
        /\ s.pc # "find"
        /\ s.pc \in Listing \cup {"sweep"} => s.ep = e
        /\ s.pc \in Listing => \A r \in R : r.ep = e
        /\ s.pc = "links" => s.todo = R
        /\ s.pc \in Applying => Planned(s, L, R)

(* A process s that promotes.                                              *)
PromoteFits(s, L) ==
    s.job = "promote" =>
        /\ s.pc \in {"link", "linked", "cleanup", "cleaned"}
               => << s.cmd.win, s.cmd.ses >> \in L
        /\ s.pc \in {"link", "cleanup"} => s.snap = L
        /\ s.pc \in {"cleanup", "cleaned"} => Alias(L, s.cmd.win)

Undisturbed ==
    \A p \in Procs : calm[p] => /\ PruneFits(proc[p], links, rows, epoch)
                                /\ PromoteFits(proc[p], links)

(* A step of a process that does not prune does not make it prune.         *)
LEMMA PruneIsBegun ==
    ASSUME ProcsGood, NEW p \in Procs, Step(p), Job(p) # "prune"
    PROVE  proc'[p].job # "prune" \/ proc'[p].pc = "own"
<1>0. \A s : Become(p, s) => proc'[p] = s
  BY DEF Become, ProcsGood
<1>1. proc[p] \in Processes /\ Idle.job = "none"
  BY GoodFields DEF ProcsGood, Idle
<1>2. ASSUME NEW w, NEW L
      PROVE  Removing(p, w, L).job # "prune"
  BY <1>1 DEF Removing, Job, Processes
<1> HIDE DEF Become
<1>3. CASE \E c \in Commands : Begin(p, c)
  <2>1. PICK c \in Commands : Begin(p, c)
    BY <1>3
  <2>2. proc'[p].pc = "own"
    BY <1>0, <2>1 DEF Begin, Idle
  <2> QED
    BY <2>2
<1>4. CASE Snapshot(p)
  <2>1. PromoteSeen(p).job # "prune" /\ RecoverSeen(p).job # "prune"
        /\ TouchSeen(p).job # "prune"
    BY <1>1 DEF PromoteSeen, RecoverSeen, TouchSeen, Job, Processes
  <2>2. RemoveSeen(p).job # "prune" /\ WindowKillSeen(p).job # "prune"
    BY <1>1, <1>2 DEF RemoveSeen, WindowKillSeen
  <2>3. SessionKillSeen(p).job # "prune"
    BY <1>1 DEF SessionKillSeen, Job, Processes
  <2> QED
    BY <1>0, <1>4, <2>1, <2>2, <2>3 DEF Snapshot
<1>5. CASE \E m \in proc[p].todo : Apply(p, m)
  <2>1. PICK m \in proc[p].todo : Apply(p, m)
    BY <1>5
  <2>2. CASE m.move \in {"drop", "orphan"}
    BY <1>0, <1>1, <2>1, <2>2 DEF Apply, Job, Processes
  <2>3. CASE m.move = "expire"
    <3> DEFINE next == Removing(p, m.win, proc[p].snap)
    <3>1. \A T, L, t : t = [next EXCEPT !.todo = T, !.snap = L]
                           => t.job # "prune"
      BY <1>1 DEF Removing, Job, Processes, Idle
    <3> HIDE DEF next
    <3>2. proc'[p] = Idle \/ \E T, L : proc'[p] = [next EXCEPT !.todo = T, !.snap = L]
      BY <1>0, <2>1, <2>3 DEF Apply, next
    <3>3. CASE proc'[p] = Idle
      BY <1>1, <3>3
    <3>4. ASSUME NEW T, NEW L, proc'[p] = [next EXCEPT !.todo = T, !.snap = L]
          PROVE  proc'[p].job # "prune"
      BY <3>1, <3>4
    <3> QED
      BY <3>2, <3>3, <3>4
  <2>4. CASE m.move \notin {"drop", "orphan", "expire"}
    BY <1>0, <1>1, <2>1, <2>4 DEF Apply, Job, Processes
  <2> QED
    BY <2>2, <2>3, <2>4
<1>6. CASE Applied(p)
  BY <1>0, <1>1, <1>6 DEF Applied, Job, Processes, Finish, Goto
<1>7. CASE Link(p) \/ Linked(p) \/ Unlink(p) \/ Cleanup(p) \/ EnsureOwned(p)
  <2>1. CASE Link(p)
    <3>1. /\ [proc[p] EXCEPT !.pc = "cleanup"].job # "prune"
          /\ [proc[p] EXCEPT !.pc = "linked", !.snap = {}].job # "prune"
      BY <1>1 DEF Job, Processes
    <3> QED
      BY <1>0, <1>2, <2>1, <3>1 DEF Link
  <2>2. CASE Linked(p)
    <3> DEFINE there == [proc[p] EXCEPT !.pc = "cleanup", !.snap = links, !.linked = TRUE]
               again == [proc[p] EXCEPT !.pc = "link", !.snap = links]
    <3>1. there.job # "prune" /\ again.job # "prune"
      BY <1>1 DEF Job, Processes
    <3>2. proc'[p] \in {Removing(p, Win(p), links), there, again, Idle}
      BY <1>0, <2>2 DEF Linked, Finish
    <3> HIDE DEF there, again
    <3> QED
      BY <1>1, <1>2, <3>1, <3>2
  <2>3. CASE Unlink(p) \/ Cleanup(p) \/ EnsureOwned(p)
    BY <1>0, <1>1, <2>3
       DEF Unlink, Cleanup, EnsureOwned, Job, Processes, Finish, Goto
  <2> QED
    BY <1>7, <2>1, <2>2, <2>3
<1>8. CASE CheckOwned(p) \/ ReadEpoch(p) \/ SweepEpochs(p) \/ ListRows(p)
           \/ VerifyUnlinked(p) \/ DeleteRow(p) \/ Resolve(p) \/ VerifyCleaned(p)
  BY <1>0, <1>1, <1>8
     DEF CheckOwned, ReadEpoch, SweepEpochs, ListRows, VerifyUnlinked, DeleteRow,
         Resolve, VerifyCleaned, Job, Processes, Finish, Goto
<1>9. CASE Persist(p) \/ PersistFails(p) \/ Rollback(p) \/ Undo(p) \/ FindRow(p)
           \/ TouchRow(p) \/ Kill(p) \/ Abort(p)
  BY <1>0, <1>1, <1>9
     DEF Persist, PersistFails, Rollback, Undo, FindRow, TouchRow, Kill, Abort,
         Job, Processes, Finish, Goto
<1> QED
  BY <1>3, <1>4, <1>5, <1>6, <1>7, <1>8, <1>9 DEF Step

(* The plan of a prune that has just read the links.                       *)
LEMMA ClassifiedIsPlanned ==
    ASSUME IInv, NEW p \in Procs, proc[p].todo = rows,
           \A r \in rows : r.ep = epoch
    PROVE  Planned(PruneSeen(p), links, rows)
<1> DEFINE now == proc[p].now
           M(r) == [win |-> r.win, move |-> Move(r, links, now)]
           T == Classified(p)
<1>1. PruneSeen(p).pc = "apply" /\ PruneSeen(p).todo = T
      /\ PruneSeen(p).now = now
  BY GoodFields DEF PruneSeen, IInv, ProcsGood, Processes
<1>2. \A m \in T : \E r \in rows : m = M(r) /\ m.win = r.win
  BY DEF Classified
<1>3. \A m, n \in T : m.win = n.win => m = n
  <2> SUFFICES ASSUME NEW m \in T, NEW n \in T, m.win = n.win
               PROVE  m = n
    OBVIOUS
  <2>1. PICK r \in rows : m = M(r) /\ m.win = r.win
    BY <1>2
  <2>2. PICK s \in rows : n = M(s) /\ n.win = s.win
    BY <1>2
  <2>3. r = s
    BY <2>1, <2>2 DEF IInv, RowsGood
  <2> QED
    BY <2>1, <2>2, <2>3
<1>4. \A m \in T : m.move = "orphan" => Alias(links, m.win)
                                       /\ Sources(links, m.win) = {}
  BY <1>2 DEF Move
<1>5. ASSUME NEW r \in rows, ~ \E m \in T : m.win = r.win
      PROVE  Settled(r, links, now)
  <2>0. M(r).win = r.win
    OBVIOUS
  <2>1. M(r).move = "keep"
    BY <1>5, <2>0 DEF Classified
  <2>2. Move(r, links, now) = "keep"
    BY <2>1
  <2>3. Alias(links, r.win) /\ ~Expired(r, now)
    BY <2>2 DEF Move
  <2> QED
    BY <2>3 DEF Settled
<1> HIDE DEF T, now
<1> QED
  BY <1>1, <1>3, <1>4, <1>5 DEF Planned, Current

(* One move of the plan.                                                   *)
LEMMA ApplyingKeepsPlan ==
    ASSUME IInv, NEW p \in Procs, Job(p) = "prune", proc[p].ep = epoch,
           \A r \in rows : r.ep = epoch, Planned(proc[p], links, rows),
           NEW m \in proc[p].todo, Apply(p, m), proc'[p] # Idle
    PROVE  /\ proc'[p].pc \in Applying /\ proc'[p].ep = epoch
           /\ \A r \in rows' : r.ep = epoch
           /\ Planned(proc'[p], links, rows')
<1> DEFINE s == proc[p]
           rest == [s EXCEPT !.todo = @ \ {m}]
<1>0. \A t : Become(p, t) => proc'[p] = t
  BY DEF Become, IInv, ProcsGood
<1>1. s \in Processes /\ s.pc = "apply"
  BY GoodFields DEF IInv, ProcsGood, Apply, At
<1>2. /\ rest.pc = "apply" /\ rest.todo = s.todo \ {m}
      /\ rest.now = s.now /\ rest.ep = s.ep
  BY <1>1 DEF Processes
<1>3. \A n \in s.todo \ {m} : n.win # m.win
  BY DEF Planned
<1>4. RowOf(p, m.win) = { r \in rows : r.win = m.win }
  BY DEF RowOf
<1> HIDE DEF Become
<1>5. CASE m.move = "drop"
  <2>1. proc'[p] = rest /\ rows' = rows \ RowOf(p, m.win)
    BY <1>0, <1>5 DEF Apply
  <2>2. Planned(rest, links, rows')
    BY <1>1, <1>2, <1>4, <2>1 DEF Planned, Current
  <2> QED
    BY <1>1, <1>2, <2>1, <2>2 DEF Applying
<1>6. CASE m.move = "orphan"
  <2>1. /\ proc'[p] = rest
        /\ rows' = (rows \ RowOf(p, m.win))
                   \cup { [r EXCEPT !.st = "orphaned"] : r \in RowOf(p, m.win) }
    BY <1>0, <1>6 DEF Apply
  <2>2. Alias(links, m.win) /\ Sources(links, m.win) = {}
    BY <1>6 DEF Planned
  <2>3. ASSUME NEW r \in RowOf(p, m.win)
        PROVE  LET q == [r EXCEPT !.st = "orphaned"]
               IN  q.ep = epoch /\ q.win = m.win /\ q.st = "orphaned"
    BY <1>4 DEF IInv, RowsGood, Rows
  <2>4. ASSUME NEW q \in rows'
        PROVE  /\ q.ep = epoch
               /\ \/ q \in rows /\ q.win # m.win
                  \/ Settled(q, links, s.now)
    <3>1. CASE q \in rows \ RowOf(p, m.win)
      BY <1>4, <3>1
    <3>2. CASE q \notin rows \ RowOf(p, m.win)
      <4>0. PICK r \in RowOf(p, m.win) : q = [r EXCEPT !.st = "orphaned"]
        BY <2>1, <3>2
      <4>1. q.ep = epoch /\ q.win = m.win /\ q.st = "orphaned"
        BY <2>3, <4>0
      <4> QED
        BY <2>2, <4>1 DEF Settled
    <3> QED
      BY <3>1, <3>2
  <2>5. Planned(rest, links, rows')
    BY <1>1, <1>2, <2>4 DEF Planned, Current
  <2> QED
    BY <1>1, <1>2, <2>1, <2>4, <2>5 DEF Applying
<1>7. ASSUME NEW t, t.todo = s.todo \ {m}, t.cur = m.win, t.now = s.now,
             t.ep = s.ep, t.pc \in {"unlink", "delete"},
             proc'[p] = t, UNCHANGED rows
      PROVE  /\ proc'[p].pc \in Applying /\ proc'[p].ep = epoch
             /\ \A r \in rows' : r.ep = epoch
             /\ Planned(proc'[p], links, rows')
  <2>1. Planned(t, links, rows)
    BY <1>1, <1>3, <1>7 DEF Planned, Current
  <2> QED
    BY <1>7, <2>1 DEF Applying
<1>8. CASE m.move = "expire"
  <2> DEFINE next == Removing(p, m.win, s.snap)
             t == [next EXCEPT !.todo = rest.todo, !.snap = s.snap]
  <2>1. proc'[p] = t /\ next # Idle /\ UNCHANGED rows
    BY <1>0, <1>8 DEF Apply
  <2>2. /\ next.cur = m.win /\ next.now = s.now
        /\ next.ep = s.ep /\ next.pc \in {"unlink", "delete"}
    BY <1>1, <2>1 DEF Removing, Job, Processes
  <2>3. /\ t.todo = s.todo \ {m} /\ t.cur = m.win /\ t.now = s.now
        /\ t.ep = s.ep /\ t.pc \in {"unlink", "delete"}
    BY <1>1, <1>2, <2>1, <2>2 DEF Removing, Processes
  <2> HIDE DEF t
  <2> QED
    BY <1>7, <2>1, <2>3
<1>9. CASE m.move \notin {"drop", "orphan", "expire"}
  <2> DEFINE t == [rest EXCEPT !.pc = "unlink", !.cur = m.win]
  <2>1. proc'[p] = t /\ UNCHANGED rows
    BY <1>0, <1>9 DEF Apply
  <2>2. /\ t.todo = s.todo \ {m} /\ t.cur = m.win /\ t.now = s.now
        /\ t.ep = s.ep /\ t.pc = "unlink"
    BY <1>1 DEF Processes
  <2> HIDE DEF t
  <2> QED
    BY <1>7, <2>1, <2>2
<1> QED
  BY <1>5, <1>6, <1>8, <1>9

(* A step of a prune keeps its plan true.                                  *)
LEMMA PruneStep ==
    ASSUME IInv, NEW p \in Procs, Step(p),
           PruneFits(proc[p], links, rows, epoch)
    PROVE  PruneFits(proc'[p], links', rows', epoch')
<1> DEFINE s == proc[p]
           t == proc'[p]
<1>0. \A x : Become(p, x) => t = x
  BY DEF Become, IInv, ProcsGood
<1>1. s \in Processes /\ Ready(s) /\ Idle.pc = "idle"
  BY GoodFields DEF IInv, ProcsGood, Idle
<1>2. epoch' = epoch
  BY DEF Step, Begin, CheckOwned, ReadEpoch, SweepEpochs, ListRows, Snapshot,
         Apply, Applied, Unlink, VerifyUnlinked, DeleteRow, Resolve, EnsureOwned,
         Link, Linked, Cleanup, VerifyCleaned, Persist, PersistFails, Rollback,
         Undo, FindRow, TouchRow, Kill, Abort, unchangedTmux, unchangedAll
<1> HIDE DEF Become
<1>3. CASE t.pc \in {"idle", "own", "epoch", "kill", "undo"}
  BY <1>3 DEF PruneFits, Listing, Applying
<1>4. CASE Job(p) # "prune"
  BY <1>3, <1>4, PruneIsBegun DEF IInv, PruneFits
<1>5. ASSUME Job(p) = "prune", t.pc \notin {"idle", "own", "epoch", "kill", "undo"}
      PROVE  PruneFits(t, links', rows', epoch')
  <2>1. CASE \E c \in Commands : Begin(p, c)
    <3>1. PICK c \in Commands : Begin(p, c)
      BY <2>1
    <3>2. t.pc = "own"
      BY <1>0, <3>1 DEF Begin, Idle
    <3> QED
      BY <1>5, <3>2
  <2>2. CASE CheckOwned(p) \/ TouchRow(p) \/ Kill(p) \/ Abort(p) \/ Rollback(p)
             \/ Undo(p) \/ Persist(p)
    BY <1>0, <1>1, <1>5, <2>2
       DEF CheckOwned, TouchRow, Kill, Abort, Rollback, Undo, Persist, Finish, Goto,
           Processes
  <2>3. CASE Resolve(p) \/ EnsureOwned(p) \/ Link(p) \/ Linked(p) \/ Cleanup(p)
             \/ VerifyCleaned(p) \/ PersistFails(p) \/ FindRow(p)
    BY <1>1, <1>5, <2>3
       DEF Resolve, EnsureOwned, Link, Linked, Cleanup, VerifyCleaned, PersistFails,
           FindRow, At, Job, Ready, PruneFits, Placed
  <2>4. CASE ReadEpoch(p)
    <3>1. t.pc = "sweep" /\ t.ep = epoch
      BY <1>0, <1>1, <2>4 DEF ReadEpoch, Processes
    <3> QED
      BY <1>2, <3>1 DEF PruneFits, Listing, Applying
  <2>5. CASE SweepEpochs(p)
    <3>1. t.pc = "rows" /\ t.ep = s.ep
      BY <1>0, <1>1, <1>5, <2>5 DEF SweepEpochs, AfterSweep, Goto, Processes
    <3>2. s.ep = epoch
      BY <1>5, <2>5 DEF SweepEpochs, PruneFits, At, Job
    <3>3. \A r \in rows' : r.ep = epoch
      BY <2>5, <3>2 DEF SweepEpochs
    <3> QED
      BY <1>2, <3>1, <3>2, <3>3 DEF PruneFits, Applying
  <2>6. CASE ListRows(p)
    <3>1. t.pc = "links" /\ t.ep = s.ep /\ t.todo = { r \in rows : r.ep = s.ep }
          /\ UNCHANGED rows
      BY <1>0, <1>1, <2>6 DEF ListRows, unchangedAll, Processes
    <3>2. s.ep = epoch /\ \A r \in rows : r.ep = epoch
      BY <1>5, <2>6 DEF ListRows, PruneFits, Listing, At, Job
    <3>3. t.todo = rows
      BY <3>1, <3>2
    <3> QED
      BY <1>2, <3>1, <3>2, <3>3 DEF PruneFits, Applying
  <2>7. CASE Snapshot(p)
    <3>1. t = PruneSeen(p) /\ UNCHANGED << links, rows >>
      BY <1>0, <1>5, <2>7 DEF Snapshot, unchangedAll, unchangedTmux
    <3>2. s.ep = epoch /\ s.todo = rows /\ \A r \in rows : r.ep = epoch
      BY <1>5, <2>7 DEF Snapshot, PruneFits, Listing, At, Job
    <3>3. t.pc = "apply" /\ t.ep = epoch
      BY <1>1, <3>1, <3>2 DEF PruneSeen, Processes
    <3>4. Planned(t, links, rows)
      BY <3>1, <3>2, ClassifiedIsPlanned
    <3> QED
      BY <1>2, <3>1, <3>2, <3>3, <3>4 DEF PruneFits
  <2>8. ASSUME s.pc \in Applying
        PROVE  /\ s.ep = epoch /\ \A r \in rows : r.ep = epoch
               /\ Planned(s, links, rows)
    BY <1>5, <2>8 DEF PruneFits, Listing, Job
  <2>9. CASE \E m \in proc[p].todo : Apply(p, m)
    <3>1. PICK m \in proc[p].todo : Apply(p, m)
      BY <2>9
    <3>2. s.pc = "apply" /\ links' = links
      BY <3>1 DEF Apply, At, unchangedTmux
    <3>3. /\ t.pc \in Applying /\ t.ep = epoch
          /\ \A r \in rows' : r.ep = epoch
          /\ Planned(t, links, rows')
      BY <1>1, <1>5, <2>8, <3>1, <3>2, ApplyingKeepsPlan DEF Applying
    <3> QED
      BY <1>2, <3>2, <3>3 DEF PruneFits, Applying
  <2>10. CASE Applied(p)
    BY <1>0, <1>1, <1>5, <2>10 DEF Applied, Finish, Goto, Processes, PruneFits, Job,
                                   Ready
  <2>11. CASE Unlink(p)
    <3>1. Unlinkable(s.cur) /\ links' = links \ {<< s.cur, Active >>}
          /\ UNCHANGED rows /\ s.pc = "unlink"
      BY <1>0, <1>1, <1>5, <2>11 DEF Unlink, Relink, Finish, At
    <3>2. /\ t.pc = "verify" /\ t.todo = s.todo /\ t.cur = s.cur /\ t.now = s.now
          /\ t.ep = s.ep
      BY <1>0, <1>1, <1>5, <2>11, <3>1 DEF Unlink, Processes
    <3>3. \A w : w # s.cur => /\ Alias(links', w) <=> Alias(links, w)
                              /\ Sources(links', w) = Sources(links, w)
      BY <3>1 DEF Alias, Sources
    <3>4. /\ s.ep = epoch /\ \A r \in rows : r.ep = epoch
          /\ Planned(s, links, rows)
      BY <2>8, <3>1 DEF Applying
    <3>5. Planned(t, links', rows')
      BY <3>1, <3>2, <3>3, <3>4 DEF Planned, Current, Settled
    <3> QED
      BY <1>2, <3>1, <3>2, <3>4, <3>5 DEF PruneFits, Applying
  <2>12. CASE VerifyUnlinked(p)
    <3>1. /\ t.pc = "delete" /\ t.todo = s.todo /\ t.cur = s.cur /\ t.now = s.now
          /\ t.ep = s.ep /\ s.pc = "verify" /\ UNCHANGED << links, rows >>
      BY <1>0, <1>1, <1>5, <2>12
         DEF VerifyUnlinked, Finish, At, Processes, unchangedAll, unchangedTmux
    <3>2. /\ s.ep = epoch /\ \A r \in rows : r.ep = epoch
          /\ Planned(s, links, rows)
      BY <2>8, <3>1 DEF Applying
    <3>3. Planned(t, links', rows')
      BY <3>1, <3>2 DEF Planned, Current
    <3> QED
      BY <1>2, <3>1, <3>2, <3>3 DEF PruneFits, Applying
  <2>13. CASE DeleteRow(p)
    <3>1. /\ t.pc = "apply" /\ t.todo = s.todo /\ t.now = s.now /\ t.ep = s.ep
          /\ s.pc = "delete" /\ UNCHANGED links
          /\ rows' = rows \ RowOf(p, s.cur)
      BY <1>0, <1>1, <1>5, <2>13 DEF DeleteRow, At, Processes, unchangedTmux
    <3>2. /\ s.ep = epoch /\ \A r \in rows : r.ep = epoch
          /\ Planned(s, links, rows)
      BY <2>8, <3>1 DEF Applying
    <3>3. rows' = { r \in rows : r.win # s.cur }
      BY <3>1, <3>2 DEF RowOf
    <3>4. Planned(t, links', rows')
      BY <3>1, <3>2, <3>3 DEF Planned, Current
    <3> QED
      BY <1>2, <3>1, <3>2, <3>3, <3>4 DEF PruneFits, Applying
  <2> QED
    BY <2>1, <2>2, <2>3, <2>4, <2>5, <2>6, <2>7, <2>9, <2>10, <2>11, <2>12, <2>13
       DEF Step
<1> QED
  BY <1>3, <1>4, <1>5

(* A step of a promotion keeps what it knows of the links true.            *)
LEMMA PromoteStep ==
    ASSUME IInv, NEW p \in Procs, Step(p), PromoteFits(proc[p], links)
    PROVE  PromoteFits(proc'[p], links')
<1> DEFINE s == proc[p]
           t == proc'[p]
<1>0. \A x : Become(p, x) => t = x
  BY DEF Become, IInv, ProcsGood
<1>1. s \in Processes /\ Ready(s) /\ Idle.pc = "idle" /\ Idle.job = "none"
  BY GoodFields DEF IInv, ProcsGood, Idle
<1> HIDE DEF Become
<1>2. CASE t.job # "promote" \/ t.pc \notin {"link", "linked", "cleanup", "cleaned"}
  BY <1>2 DEF PromoteFits
<1>3. ASSUME t.job = "promote", t.pc \in {"link", "linked", "cleanup", "cleaned"}
      PROVE  PromoteFits(t, links')
  <2>1. CASE \E c \in Commands : Begin(p, c)
    <3>1. PICK c \in Commands : Begin(p, c)
      BY <2>1
    <3>2. t.pc = "own"
      BY <1>0, <3>1 DEF Begin, Idle
    <3> QED
      BY <1>3, <3>2
  <2>2. CASE \E m \in proc[p].todo : Apply(p, m)
    <3>1. PICK m \in proc[p].todo : Apply(p, m)
      BY <2>2
    <3>2. CASE m.move \in {"drop", "orphan"}
      BY <1>0, <1>1, <1>3, <3>1, <3>2 DEF Apply, At, Processes
    <3>3. CASE m.move = "expire"
      <4> DEFINE next == Removing(p, m.win, s.snap)
      <4>1. next = Idle \/ \A T, L, x : x = [next EXCEPT !.todo = T, !.snap = L]
                              => x.pc \in {"kill", "delete", "unlink"}
        BY <1>1 DEF Removing, Processes
      <4> HIDE DEF next
      <4>2. \/ t = Idle
            \/ /\ next # Idle
               /\ \E T, L : t = [next EXCEPT !.todo = T, !.snap = L]
        BY <1>0, <3>1, <3>3 DEF Apply, next
      <4>3. t = Idle \/ t.pc \in {"kill", "delete", "unlink"}
        BY <4>1, <4>2
      <4> QED
        BY <1>1, <1>3, <4>3
    <3>4. CASE m.move \notin {"drop", "orphan", "expire"}
      BY <1>0, <1>1, <1>3, <3>1, <3>4 DEF Apply, Processes
    <3> QED
      BY <3>2, <3>3, <3>4
  <2>3. CASE CheckOwned(p) \/ ReadEpoch(p) \/ SweepEpochs(p) \/ ListRows(p)
             \/ Applied(p) \/ VerifyUnlinked(p) \/ DeleteRow(p)
    <3>1. CASE CheckOwned(p) \/ ReadEpoch(p)
      BY <1>0, <1>1, <1>3, <3>1 DEF CheckOwned, ReadEpoch, Finish, Goto, Processes
    <3>2. CASE SweepEpochs(p)
      BY <1>0, <1>1, <1>3, <3>2 DEF SweepEpochs, AfterSweep, Finish, Goto, Processes
    <3>3. CASE ListRows(p) \/ Applied(p)
      BY <1>0, <1>1, <1>3, <3>3 DEF ListRows, Applied, Finish, Goto, Processes
    <3>4. CASE VerifyUnlinked(p) \/ DeleteRow(p)
      BY <1>0, <1>1, <1>3, <3>4 DEF VerifyUnlinked, DeleteRow, Finish, Goto, Processes
    <3> QED
      BY <2>3, <3>1, <3>2, <3>3, <3>4
  <2>4. CASE Unlink(p) \/ Resolve(p) \/ EnsureOwned(p) \/ PersistFails(p)
    <3>1. CASE Unlink(p) \/ Resolve(p)
      BY <1>0, <1>1, <1>3, <3>1 DEF Unlink, Resolve, Finish, Goto, Processes
    <3>2. CASE EnsureOwned(p) \/ PersistFails(p)
      BY <1>0, <1>1, <1>3, <3>2 DEF EnsureOwned, PersistFails, Finish, Goto, Processes
    <3> QED
      BY <2>4, <3>1, <3>2
  <2>5. CASE Persist(p) \/ Rollback(p) \/ Undo(p) \/ FindRow(p) \/ TouchRow(p)
             \/ Kill(p) \/ Abort(p)
    <3>1. CASE Persist(p) \/ FindRow(p) \/ TouchRow(p)
      BY <1>0, <1>1, <1>3, <3>1 DEF Persist, FindRow, TouchRow, Finish, Goto, Processes
    <3>2. CASE Rollback(p) \/ Undo(p)
      BY <1>0, <1>1, <1>3, <3>2 DEF Rollback, Undo, Finish, Goto, Processes
    <3>3. CASE Kill(p) \/ Abort(p)
      BY <1>0, <1>1, <1>3, <3>3 DEF Kill, Abort, Finish, Goto, Processes
    <3> QED
      BY <2>5, <3>1, <3>2, <3>3
  <2>6. CASE Snapshot(p)
    <3>1. UNCHANGED links
      BY <2>6 DEF Snapshot, unchangedAll, unchangedTmux
    <3>2. PruneSeen(p).pc = "apply" /\ SessionKillSeen(p).pc = "apply"
          /\ TouchSeen(p).pc \in {"touch", "delete"}
      BY <1>1 DEF PruneSeen, SessionKillSeen, TouchSeen, Processes
    <3>3. \A w, L : Removing(p, w, L).pc \in {"idle", "kill", "delete", "unlink"}
      BY <1>1 DEF Removing, Processes
    <3>4. RemoveSeen(p).pc \notin {"link", "linked", "cleanup", "cleaned"}
          /\ WindowKillSeen(p).pc \notin {"link", "linked", "cleanup", "cleaned"}
      BY <1>1, <3>3 DEF RemoveSeen, WindowKillSeen
    <3>5. Job(p) = "recover" => RecoverSeen(p).job # "promote"
      BY <1>1 DEF RecoverSeen, Job, Processes
    <3>6. t = PromoteSeen(p)
      BY <1>0, <1>3, <2>6, <3>2, <3>4, <3>5 DEF Snapshot
    <3>7. /\ Ses(p) \in Sources(links, Win(p)) /\ t.pc = "link" /\ t.snap = links
          /\ t.cmd = s.cmd
      BY <1>1, <1>3, <3>6 DEF PromoteSeen, Processes
    <3> QED
      BY <3>1, <3>7 DEF PromoteFits, Sources, Ses, Win
  <2>7. CASE Link(p)
    <3> DEFINE l == << Win(p), Destination(p) >>
    <3>0. \A w, L : Removing(p, w, L).pc \in {"idle", "kill", "delete", "unlink"}
      BY <1>1 DEF Removing, Processes
    <3>1. s.pc = "link"
      BY <2>7 DEF Link, At
    <3>2. links \subseteq links'
      BY <2>7 DEF Link, Relink
    <3>3. CASE l \in s.snap
      <4>1. t = [s EXCEPT !.pc = "cleanup"] /\ UNCHANGED links /\ Job(p) # "recover"
        BY <1>0, <1>3, <2>7, <3>0, <3>3 DEF Link
      <4>2. t.snap = s.snap /\ t.cmd = s.cmd /\ t.pc = "cleanup" /\ s.job = "promote"
            /\ t.job = "promote"
        BY <1>1, <1>3, <4>1 DEF Processes
      <4>3. s.snap = links /\ << s.cmd.win, s.cmd.ses >> \in links
        BY <3>1, <4>2 DEF PromoteFits
      <4>4. << s.cmd.win, Active >> \in links
        BY <3>3, <4>1, <4>2, <4>3 DEF Destination, Win, Job
      <4> HIDE DEF t, s
      <4> QED
        BY <4>1, <4>2, <4>3, <4>4 DEF PromoteFits, Alias
    <3>4. CASE l \notin s.snap
      <4>1. /\ t.pc = "linked" /\ t.cmd = s.cmd /\ s.job = "promote"
        BY <1>0, <1>1, <1>3, <2>7, <3>4 DEF Link, Processes
      <4> QED
        BY <3>1, <3>2, <4>1 DEF PromoteFits
    <3> QED
      BY <3>3, <3>4
  <2>8. CASE Linked(p)
    <3>0. \A w, L : Removing(p, w, L).pc \in {"idle", "kill", "delete", "unlink"}
      BY <1>1 DEF Removing, Processes
    <3>1. s.pc = "linked" /\ UNCHANGED links
      BY <2>8 DEF Linked, At, unchangedAll, unchangedTmux
    <3>2. CASE << Win(p), Destination(p) >> \in links
      <4>1. /\ Job(p) # "recover"
            /\ t = [s EXCEPT !.pc = "cleanup", !.snap = links, !.linked = TRUE]
        BY <1>0, <1>3, <2>8, <3>0, <3>2 DEF Linked
      <4>2. t.snap = links /\ t.cmd = s.cmd /\ t.pc = "cleanup" /\ s.job = "promote"
        BY <1>1, <1>3, <4>1 DEF Processes
      <4> QED
        BY <3>1, <3>2, <4>1, <4>2 DEF PromoteFits, Alias, Destination, Win
    <3>3. CASE << Win(p), Destination(p) >> \notin links
      <4>1. t = [s EXCEPT !.pc = "link", !.snap = links]
        BY <1>0, <1>1, <1>3, <2>8, <3>3 DEF Linked, Finish
      <4>2. t.snap = links /\ t.cmd = s.cmd /\ t.pc = "link" /\ s.job = "promote"
        BY <1>1, <1>3, <4>1 DEF Processes
      <4> QED
        BY <3>1, <4>2 DEF PromoteFits
    <3> QED
      BY <3>2, <3>3
  <2>9. CASE Cleanup(p)
    <3>1. /\ s.pc = "cleanup" /\ links' = links \ LinksOf(Placeholder)
          /\ t = [s EXCEPT !.pc = "cleaned", !.snap = {}]
      BY <1>0, <1>1, <1>3, <2>9 DEF Cleanup, Relink, At, Processes
    <3>2. t.cmd = s.cmd /\ t.pc = "cleaned" /\ s.job = "promote"
      BY <1>1, <1>3, <3>1 DEF Processes
    <3>3. s.cmd.win # Placeholder
      BY <1>1, <3>2, NamesAssumption DEF Ready, Placed
    <3> QED
      BY <3>1, <3>2, <3>3 DEF PromoteFits, LinksOf, Alias
  <2>10. CASE VerifyCleaned(p)
    <3>1. /\ s.pc = "cleaned" /\ UNCHANGED links
          /\ t = [s EXCEPT !.pc = "cleanup", !.snap = links]
      BY <1>0, <1>1, <1>3, <2>10
         DEF VerifyCleaned, At, Goto, Processes, unchangedAll, unchangedTmux
    <3>2. t.cmd = s.cmd /\ t.pc = "cleanup" /\ t.snap = links /\ s.job = "promote"
      BY <1>1, <1>3, <3>1 DEF Processes
    <3> QED
      BY <3>1, <3>2 DEF PromoteFits, Alias
  <2> QED
    BY <2>1, <2>2, <2>3, <2>4, <2>5, <2>6, <2>7, <2>8, <2>9, <2>10 DEF Step
<1> QED
  BY <1>2, <1>3

(* So what a process that nobody disturbs has read stays true.             *)
LEMMA UndisturbedNext == IInv /\ Undisturbed /\ [Next]_vars => Undisturbed'
<1> SUFFICES ASSUME IInv, Undisturbed, [Next]_vars, NEW q \in Procs, calm'[q]
             PROVE  /\ PruneFits(proc'[q], links', rows', epoch')
                    /\ PromoteFits(proc'[q], links')
  BY DEF Undisturbed
<1>1. CASE proc'[q] = Idle
  BY <1>1 DEF Idle, PruneFits, PromoteFits
<1>2. CASE UNCHANGED << links, rows, epoch >> /\ proc'[q] = proc[q] /\ calm[q]
  BY <1>2 DEF Undisturbed
<1>3. CASE UNCHANGED vars
  BY <1>2, <1>3 DEF vars
<1>4. ASSUME NEW p \in Procs, Step(p), Disturb(Procs \ {p})
      PROVE  /\ PruneFits(proc'[q], links', rows', epoch')
             /\ PromoteFits(proc'[q], links')
  <2>1. proc'[q] = Idle \/ /\ calm[q]
                           /\ q # p => UNCHANGED << links, rows, epoch >>
    BY <1>4 DEF Disturb
  <2>2. CASE q = p /\ calm[q]
    BY <1>4, <2>2, PruneStep, PromoteStep DEF Undisturbed
  <2>3. CASE q # p
    BY <1>1, <1>2, <1>4, <2>1, <2>3, OthersStay DEF IInv
  <2> QED
    BY <1>1, <2>1, <2>2, <2>3
<1>5. CASE User /\ Disturb(Procs)
  <2>1. proc'[q] = Idle \/ (calm[q] /\ UNCHANGED << links, rows, epoch >>)
    BY <1>5 DEF Disturb
  <2> QED
    BY <1>1, <1>2, <1>5, <2>1 DEF User
<1>6. CASE Tick /\ UNCHANGED calm
  BY <1>2, <1>6 DEF Tick, unchangedTmux
<1> QED
  BY <1>3, <1>4, <1>5, <1>6 DEF Next

(* Nobody has read anything at the beginning.                              *)
LEMMA UndisturbedInit == Init => Undisturbed
BY DEF Init, Undisturbed, Idle, PruneFits, PromoteFits

(* A prune that runs from its beginning to its end without interference,   *)
(* beside any other processes, leaves no row of another server and no row  *)
(* without an alias, and no expired one that is not marked as an orphan.   *)
THEOREM PrunesSettle == Spec => []PruneSettles
<1>1. Undisturbed => PruneSettles
  <2> SUFFICES ASSUME Undisturbed, NEW p \in Procs, calm[p], At(p, "apply"),
                      Job(p) = "prune", proc[p].todo = {}, NEW r \in rows
               PROVE  r.ep = epoch /\ Settled(r, links, proc[p].now)
    BY DEF PruneSettles, Settled
  <2> QED
    BY DEF Undisturbed, PruneFits, Planned, Current, Listing, Applying, At, Job
<1> QED
  BY <1>1, InvInit, InvNext, UndisturbedInit, UndisturbedNext, PTL DEF Spec

(* A promotion without interference that reports success has its window in *)
(* active and in its source session, and the placeholder is gone.          *)
THEOREM PromotionsDeliver == Spec => PromotionDelivers
<1>1. ASSUME IInv, Undisturbed, [Next]_vars
      PROVE  [\A p \in Procs :
                 calm[p] /\ Persist(p) =>
                     /\ Alias(links, Win(p)) /\ Sources(links, Win(p)) # {}
                     /\ ~Alias(links, Placeholder)]_vars
  <2> SUFFICES ASSUME NEW p \in Procs, calm[p], Persist(p)
               PROVE  /\ Alias(links, Win(p)) /\ Sources(links, Win(p)) # {}
                      /\ ~Alias(links, Placeholder)
    OBVIOUS
  <2>1. /\ proc[p] \in Processes /\ Ready(proc[p]) /\ proc[p].pc = "cleanup"
        /\ ~HasPlaceholder(proc[p].snap)
    BY <1>1, GoodFields DEF IInv, ProcsGood, Persist, At
  <2>2. proc[p].job = "promote" /\ Win(p) \in Windows /\ Ses(p) \in Sessions
    BY <2>1 DEF Ready, Placed, Win, Ses
  <2>3. /\ << Win(p), Ses(p) >> \in links /\ proc[p].snap = links
        /\ Alias(links, Win(p))
    BY <1>1, <2>1, <2>2 DEF Undisturbed, PromoteFits, Win, Ses
  <2>4. Win(p) \in Aliases(links) /\ Win(p) # Placeholder
    BY <2>2, <2>3, NamesAssumption DEF Aliases, Targets
  <2> QED
    BY <2>1, <2>2, <2>3, <2>4 DEF HasPlaceholder, Sources
<1> QED
  BY <1>1, InvInit, InvNext, UndisturbedInit, UndisturbedNext, PTL
     DEF Spec, PromotionDelivers
=============================================================================
