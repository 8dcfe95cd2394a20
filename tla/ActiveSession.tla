--------------------------- MODULE ActiveSession ----------------------------
(***************************************************************************)
(* tmh's optional "active" session: a real tmux session into which the     *)
(* windows a user selected lately are linked for a time, and the table     *)
(* active_windows that tracks those aliases.                               *)
(*                                                                         *)
(* There is no daemon: each tmh command and each run of the tmux hook is a *)
(* process of its own, and nothing but the single tmux command and the     *)
(* single SQL statement is atomic.  A process therefore takes one step per *)
(* call that leaves it; between any two of them other processes run, and   *)
(* the user goes on linking, unlinking and killing in the same tmux server.*)
(***************************************************************************)
EXTENDS Integers, FiniteSets

CONSTANTS
    Procs,        \* tmh processes
    Windows,      \* ids of the windows of source sessions
    Sessions,     \* names of source sessions
    Active,       \* the session name "active"
    Placeholder,  \* the window a new active session is created with
    TTL,          \* how long an alias lives, in ticks
    Ops,          \* the commands that are run, a subset of AllOps
    Faults,       \* what may go wrong, a subset of AllFaults
    UserActs,     \* what the user does, a subset of AllUserActs
    MaxTime,      \* bound: the clock stops there
    MaxEpoch      \* bound: the last tmux server

AllOps == {"prune", "promote", "touch", "remove", "recover", "kill", "killwin"}
AllFaults == {"abort", "persist"}
AllUserActs == {"link", "unlink", "kill", "own", "restart"}

ASSUME NamesAssumption == Active \notin Sessions /\ Placeholder \notin Windows
ASSUME TTLAssumption == TTL \in Nat \ {0}
ASSUME ChoicesAssumption ==
    Ops \subseteq AllOps /\ Faults \subseteq AllFaults
        /\ UserActs \subseteq AllUserActs
ASSUME BoundsAssumption == MaxTime \in Nat /\ MaxEpoch \in Nat \ {0}

VARIABLES
    links,   \* tmux: the pairs << window, session >> that are linked
    owner,   \* tmux: the ownership marker, "none" while active is missing
    epoch,   \* tmux: the server's identity
    rows,    \* active_windows
    clock,   \* wall-clock time in ticks
    proc,    \* the processes
    calm     \* history: has no one else interfered since the process began?

vars == << links, owner, epoch, rows, clock, proc, calm >>

Targets == Windows \cup {Placeholder}
Places == Sessions \cup {Active}
Links == SUBSET (Targets \X Places)

Alias(L, w) == << w, Active >> \in L
Sources(L, w) == { s \in Sessions : << w, s >> \in L }
Lives(L, w) == Alias(L, w) \/ Sources(L, w) # {}
Aliases(L) == { w \in Targets : Alias(L, w) }
LinksOf(w) == { l \in links : l[1] = w }
LinksIn(s) == { l \in links : l[2] = s }

(* A tmux command leaves the links L; a session without windows is gone.   *)
Relink(L) ==
    /\ links' = L
    /\ owner' = IF Aliases(L) = {} THEN "none" ELSE owner

(* A command line, with fillers for the arguments the command has not.     *)
Command(op, w, s) == [op |-> op, win |-> w, ses |-> s]
Commands ==
    { c \in {Command("prune", Placeholder, Active)}
            \cup { Command(op, w, Active) :
                     op \in {"touch", "remove", "killwin"}, w \in Windows }
            \cup { Command(op, w, s) :
                     op \in {"promote", "recover"}, w \in Windows, s \in Sessions }
            \cup { Command("kill", Placeholder, s) : s \in Sessions } :
      c.op \in Ops }

(* A process: the command it runs, the part of it that is under way (a     *)
(* promotion and a touch begin with a prune) and its locals.               *)
Idle == [pc |-> "idle", job |-> "none", cmd |-> Command("none", Placeholder, Active),
         now |-> 0, ep |-> 0, todo |-> {}, snap |-> {}, cur |-> Placeholder,
         linked |-> FALSE]

Init ==
    /\ \E L \in SUBSET (Windows \X Sessions) :
           /\ L # {} /\ links = L
    /\ owner = "none" /\ epoch = 1 /\ rows = {} /\ clock = 0
    /\ proc = [p \in Procs |-> Idle]
    /\ calm = [p \in Procs |-> TRUE]

At(p, label) == proc[p].pc = label
Job(p) == proc[p].job
Win(p) == proc[p].cmd.win
Ses(p) == proc[p].cmd.ses

Become(p, state) == proc' = [proc EXCEPT ![p] = state]
Goto(p, label) == Become(p, [proc[p] EXCEPT !.pc = label])
Finish(p) == Become(p, Idle)

unchangedTmux == UNCHANGED << links, owner, epoch >>
unchangedAll == unchangedTmux /\ UNCHANGED << rows, clock >>

(***************************************************************************)
(* What every command begins with                                          *)
(***************************************************************************)
Begin(p, c) ==
    /\ At(p, "idle")
    /\ Become(p, [Idle EXCEPT !.pc = "own", !.cmd = c, !.now = clock,
                              !.job = IF c.op \in {"promote", "touch"}
                                      THEN "prune" ELSE c.op])
    /\ unchangedAll

Collision_never == FALSE

(* A session named active that tmh does not own stops every command.       *)
Collision == owner = "user"

CheckOwned(p) ==
    /\ At(p, "own")
    /\ IF Collision \/ (Job(p) = "recover" /\ LinksIn(Ses(p)) = {}) THEN Finish(p)
       ELSE IF Job(p) \notin {"kill", "killwin"} THEN Goto(p, "epoch")
       ELSE Goto(p, IF owner = "none" THEN "kill" ELSE "links")
    /\ unchangedAll

ReadEpoch(p) ==
    /\ At(p, "epoch")
    /\ Become(p, [proc[p] EXCEPT !.pc = "sweep", !.ep = epoch])
    /\ unchangedAll

(* DeleteStaleActiveEpochs                                                 *)
AfterSweep(job) ==
    CASE job = "prune" -> "rows"
      [] job \in {"touch", "recover"} -> "find"
      [] OTHER -> "links"

SweepEpochs(p) ==
    /\ At(p, "sweep")
    /\ rows' = { r \in rows : r.ep = proc[p].ep }
    /\ Goto(p, AfterSweep(Job(p)))
    /\ unchangedTmux /\ UNCHANGED clock

(***************************************************************************)
(* Prune                                                                   *)
(***************************************************************************)
Expired(row, now) == row.sel + TTL <= now

Move_skipOrphans(row, L, now) ==
    IF ~Alias(L, row.win) THEN "drop"
    ELSE IF row.st = "orphaned" \/ ~Expired(row, now) THEN "keep"
    ELSE IF Sources(L, row.win) # {} THEN "expire"
    ELSE "orphan"

(* classifyActiveWindow, the rows that are kept left out.                  *)
Move(row, L, now) ==
    IF ~Alias(L, row.win) THEN "drop"
    ELSE IF ~Expired(row, now) THEN "keep"
    ELSE IF Sources(L, row.win) # {} THEN "expire"
    ELSE "orphan"

ListRows(p) ==
    /\ At(p, "rows")
    /\ Become(p, [proc[p] EXCEPT !.pc = "links",
                    !.todo = { r \in rows : r.ep = proc[p].ep }])
    /\ unchangedAll

Classified(p) ==
    { m \in { [win |-> r.win, move |-> Move(r, links, proc[p].now)] :
              r \in proc[p].todo } : m.move # "keep" }

(* The alias of w is to be unlinked, if the links L allow it.              *)
Removing(p, w, L) ==
    IF ~Alias(L, w)
    THEN [proc[p] EXCEPT !.pc = IF Job(p) = "killwin" THEN "kill" ELSE "delete",
                         !.cur = w, !.snap = {}]
    ELSE IF Sources(L, w) = {} THEN Idle
    ELSE [proc[p] EXCEPT !.pc = "unlink", !.cur = w, !.snap = L]

(* What each command makes of the links.                                   *)
PruneSeen(p) ==
    [proc[p] EXCEPT !.pc = "apply", !.snap = links, !.todo = Classified(p)]

PromoteSeen(p) ==
    IF Ses(p) \in Sources(links, Win(p))
    THEN [proc[p] EXCEPT !.pc = "link", !.snap = links] ELSE Idle

TouchSeen(p) ==
    IF Alias(links, Win(p)) THEN [proc[p] EXCEPT !.pc = "touch"]
    ELSE [proc[p] EXCEPT !.pc = "delete", !.cur = Win(p)]

RemoveSeen(p) ==
    IF Sources(links, Win(p)) = {} THEN Idle ELSE Removing(p, Win(p), links)

RecoverSeen(p) ==
    IF Lives(links, Win(p))
    THEN [proc[p] EXCEPT !.pc = "link", !.snap = links] ELSE Idle

WindowKillSeen(p) ==
    IF Lives(links, Win(p)) THEN Removing(p, Win(p), links) ELSE Idle

(* CleanupActiveAliasesBeforeKill takes all the aliases of the session.    *)
SessionKillSeen(p) ==
    [proc[p] EXCEPT !.pc = "apply",
        !.todo = { [win |-> w, move |-> "alias"] : w \in
            { v \in Windows : Alias(links, v) /\ Ses(p) \in Sources(links, v) } }]

Snapshot(p) ==
    /\ At(p, "links")
    /\ Become(p, CASE Job(p) = "prune" -> PruneSeen(p)
                   [] Job(p) = "promote" -> PromoteSeen(p)
                   [] Job(p) = "touch" -> TouchSeen(p)
                   [] Job(p) = "remove" -> RemoveSeen(p)
                   [] Job(p) = "recover" -> RecoverSeen(p)
                   [] Job(p) = "killwin" -> WindowKillSeen(p)
                   [] OTHER -> SessionKillSeen(p))
    /\ unchangedAll

RowOf(p, w) == { r \in rows : r.ep = proc[p].ep /\ r.win = w }

(* applyActiveTransitions, and the loop of CleanupActiveAliasesBeforeKill. *)
Apply(p, m) ==
    LET rest == [proc[p] EXCEPT !.todo = @ \ {m}]
    IN  /\ At(p, "apply") /\ m \in proc[p].todo
        /\ CASE m.move = "drop" ->
                    rows' = rows \ RowOf(p, m.win) /\ Become(p, rest)
             [] m.move = "orphan" ->
                    /\ rows' = (rows \ RowOf(p, m.win))
                               \cup { [r EXCEPT !.st = "orphaned"] : r \in RowOf(p, m.win) }
                    /\ Become(p, rest)
             [] m.move = "expire" ->
                    /\ UNCHANGED rows
                    /\ LET next == Removing(p, m.win, proc[p].snap)
                       IN  Become(p, IF next = Idle THEN Idle
                                     ELSE [next EXCEPT !.todo = rest.todo,
                                                       !.snap = proc[p].snap])
             [] OTHER ->  \* an alias of a session that is killed
                    /\ UNCHANGED rows
                    /\ Become(p, [rest EXCEPT !.pc = "unlink", !.cur = m.win])
        /\ unchangedTmux /\ UNCHANGED clock

(* The prune is done: the command ends or begins its own part.             *)
Applied(p) ==
    /\ At(p, "apply") /\ proc[p].todo = {}
    /\ IF Job(p) = "kill" THEN Goto(p, "kill")
       ELSE IF proc[p].cmd.op = "prune" THEN Finish(p)
       ELSE Become(p, [proc[p] EXCEPT
                !.job = proc[p].cmd.op, !.snap = {}, !.ep = 0,
                !.pc = IF proc[p].cmd.op = "promote" THEN "resolve" ELSE "own"])
    /\ unchangedAll

(***************************************************************************)
(* unlinkVerifiedActiveAlias                                               *)
(***************************************************************************)
Unlinkable_always(w) == Alias(links, w)

(* unlink-window without -k: tmux refuses to remove a window's last link.  *)
Unlinkable(w) == Alias(links, w) /\ Sources(links, w) # {}

Unlink(p) ==
    LET w == proc[p].cur
    IN  /\ At(p, "unlink")
        /\ IF Unlinkable(w)
           THEN /\ Relink(links \ {<< w, Active >>})
                /\ IF Job(p) = "kill"
                   THEN Become(p, [proc[p] EXCEPT !.pc = "apply", !.cur = Placeholder])
                   ELSE Become(p, [proc[p] EXCEPT !.pc = "verify", !.snap = {}])
           ELSE UNCHANGED << links, owner >> /\ Finish(p)
        /\ UNCHANGED << epoch, rows, clock >>

VerifyUnlinked(p) ==
    /\ At(p, "verify")
    /\ IF Alias(links, proc[p].cur) \/ Sources(links, proc[p].cur) = {} THEN Finish(p)
       ELSE Become(p, [proc[p] EXCEPT
                !.snap = IF Job(p) = "prune" THEN links ELSE {},
                !.pc = IF Job(p) = "killwin" THEN "kill" ELSE "delete"])
    /\ unchangedAll

DeleteRow(p) ==
    /\ At(p, "delete")
    /\ rows' = rows \ RowOf(p, proc[p].cur)
    /\ IF Job(p) = "prune"
       THEN Become(p, [proc[p] EXCEPT !.pc = "apply", !.cur = Placeholder])
       ELSE Finish(p)
    /\ unchangedTmux /\ UNCHANGED clock

(***************************************************************************)
(* Promotion and recovery                                                  *)
(***************************************************************************)
Resolve(p) ==
    /\ At(p, "resolve")
    /\ IF Ses(p) \in Sources(links, Win(p)) THEN Goto(p, "ensure") ELSE Finish(p)
    /\ unchangedAll

(* ensureOwnedActiveSession: created with its marker in one tmux command.  *)
EnsureOwned(p) ==
    /\ At(p, "ensure")
    /\ \/ /\ owner = "none"
          /\ links' = links \cup {<< Placeholder, Active >>}
          /\ owner' = "tmh"
          /\ Goto(p, "epoch")
       \/ owner = "tmh" /\ Goto(p, "epoch") /\ UNCHANGED << links, owner >>
       \/ owner = "user" /\ Finish(p) /\ UNCHANGED << links, owner >>
    /\ UNCHANGED << epoch, rows, clock >>

Destination(p) == IF Job(p) = "recover" THEN Ses(p) ELSE Active

(* One attempt of linkWindowWithRetry; the free index may be taken by now. *)
Link(p) ==
    LET l == << Win(p), Destination(p) >>
    IN  /\ At(p, "link")
        /\ IF l \in proc[p].snap
           THEN /\ Become(p, IF Job(p) = "recover" THEN Removing(p, Win(p), proc[p].snap)
                             ELSE [proc[p] EXCEPT !.pc = "cleanup"])
                /\ UNCHANGED << links, owner >>
           ELSE /\ Become(p, [proc[p] EXCEPT !.pc = "linked", !.snap = {}])
                /\ \/ /\ LinksIn(Destination(p)) # {} /\ Lives(links, Win(p))
                      /\ Relink(links \cup {l})
                   \/ UNCHANGED << links, owner >>
        /\ UNCHANGED << epoch, rows, clock >>

Linked_staleSnapshot(p) ==
    /\ At(p, "linked")
    /\ IF << Win(p), Destination(p) >> \in links
       THEN IF Job(p) = "recover" THEN Become(p, Removing(p, Win(p), links))
            ELSE Become(p, [proc[p] EXCEPT !.pc = "cleanup", !.linked = TRUE])
       ELSE Finish(p)
    /\ unchangedAll

(* The fresh snapshot after an attempt: there are three attempts in all.   *)
Linked(p) ==
    LET there == << Win(p), Destination(p) >> \in links
    IN  /\ At(p, "linked")
        /\ IF there /\ Job(p) = "recover" THEN Become(p, Removing(p, Win(p), links))
           ELSE IF there
           THEN Become(p, [proc[p] EXCEPT !.pc = "cleanup", !.snap = links, !.linked = TRUE])
           ELSE \/ Become(p, [proc[p] EXCEPT !.pc = "link", !.snap = links])
                \/ Finish(p)
        /\ unchangedAll

(* cleanupActivePlaceholders: not when it is all the session has.          *)
HasPlaceholder(L) == Alias(L, Placeholder) /\ Aliases(L) # {Placeholder}

Cleanup(p) ==
    /\ At(p, "cleanup") /\ HasPlaceholder(proc[p].snap)
    /\ IF Alias(links, Placeholder)
       THEN /\ Relink(links \ LinksOf(Placeholder))
            /\ Become(p, [proc[p] EXCEPT !.pc = "cleaned", !.snap = {}])
       ELSE /\ Become(p, [proc[p] EXCEPT !.pc = "rollback", !.snap = {}])
            /\ UNCHANGED << links, owner >>
    /\ UNCHANGED << epoch, rows, clock >>

VerifyCleaned(p) ==
    /\ At(p, "cleaned")
    /\ IF Alias(links, Placeholder) THEN Goto(p, "rollback")
       ELSE Become(p, [proc[p] EXCEPT !.pc = "cleanup", !.snap = links])
    /\ unchangedAll

Persist_insert(p) ==
    /\ At(p, "cleanup") /\ ~HasPlaceholder(proc[p].snap)
    /\ rows' = rows \cup {[ep |-> proc[p].ep, win |-> Win(p), st |-> "tracked",
                           sel |-> proc[p].now]}
    /\ Finish(p)
    /\ unchangedTmux /\ UNCHANGED clock

(* UpsertActiveWindow                                                      *)
Persist(p) ==
    /\ At(p, "cleanup") /\ ~HasPlaceholder(proc[p].snap)
    /\ rows' = (rows \ RowOf(p, Win(p)))
               \cup {[ep |-> proc[p].ep, win |-> Win(p), st |-> "tracked",
                      sel |-> proc[p].now]}
    /\ Finish(p)
    /\ unchangedTmux /\ UNCHANGED clock

PersistFails(p) ==
    /\ "persist" \in Faults
    /\ At(p, "cleanup") /\ ~HasPlaceholder(proc[p].snap)
    /\ Become(p, [proc[p] EXCEPT !.pc = "rollback", !.snap = {}])
    /\ unchangedAll

(* rollbackActivePromotion: a fresh snapshot, then the unlink.             *)
Rollback(p) ==
    /\ At(p, "rollback")
    /\ IF proc[p].linked /\ Unlinkable(Win(p)) THEN Goto(p, "undo") ELSE Finish(p)
    /\ unchangedAll

Undo(p) ==
    /\ At(p, "undo")
    /\ IF Unlinkable(Win(p)) THEN Relink(links \ {<< Win(p), Active >>})
       ELSE UNCHANGED << links, owner >>
    /\ Finish(p)
    /\ UNCHANGED << epoch, rows, clock >>

(***************************************************************************)
(* Touch, and the row a recovery needs                                     *)
(***************************************************************************)
FindRow(p) ==
    /\ At(p, "find")
    /\ IF \E r \in RowOf(p, Win(p)) :
              IF Job(p) = "recover" THEN r.st = "orphaned"
              ELSE r.st = "tracked" /\ ~Expired(r, proc[p].now)
       THEN Goto(p, "links") ELSE Finish(p)
    /\ unchangedAll

Selectable_anyTime(r, now) == TRUE

(* ... WHERE last_selected_at <= now                                       *)
Selectable(r, now) == r.sel <= now

TouchRow(p) ==
    LET old == { r \in RowOf(p, Win(p)) : Selectable(r, proc[p].now) }
    IN  /\ At(p, "touch")
        /\ rows' = (rows \ old) \cup { [r EXCEPT !.sel = proc[p].now] : r \in old }
        /\ Finish(p)
        /\ unchangedTmux /\ UNCHANGED clock

(***************************************************************************)
(* Kill                                                                    *)
(***************************************************************************)
Kill(p) ==
    /\ At(p, "kill")
    /\ Relink(IF Job(p) = "kill" THEN links \ LinksIn(Ses(p))
              ELSE links \ LinksOf(Win(p)))
    /\ Finish(p)
    /\ UNCHANGED << epoch, rows, clock >>

(* The process is killed, its context expires or a call fails.             *)
Abort(p) ==
    /\ "abort" \in Faults /\ ~At(p, "idle")
    /\ Finish(p)
    /\ unchangedAll

(***************************************************************************)
(* The user and the tmux server                                            *)
(***************************************************************************)
UserRelinks ==
    \/ /\ "link" \in UserActs
       /\ \E w \in Windows, s \in Sessions :
              Lives(links, w) /\ Relink(links \cup {<< w, s >>})
    \/ /\ "unlink" \in UserActs
       /\ \E l \in links : LinksOf(l[1]) # {l} /\ Relink(links \ {l})
    \/ /\ "kill" \in UserActs
       /\ \/ \E s \in Places : Relink(links \ LinksIn(s))
          \/ \E w \in Targets : Relink(links \ LinksOf(w))

(* The user renames a session of his own to active.                        *)
UserOwnsActive ==
    /\ "own" \in UserActs /\ owner = "none"
    /\ \E s \in Sessions :
           /\ LinksIn(s) # {}
           /\ links' = { IF l[2] = s THEN << l[1], Active >> ELSE l : l \in links }
    /\ owner' = "user"

Restart ==
    /\ "restart" \in UserActs /\ epoch < MaxEpoch
    /\ \E L \in SUBSET (Windows \X Sessions) : L # {} /\ links' = L
    /\ owner' = "none" /\ epoch' = epoch + 1

User ==
    /\ \/ (UserRelinks \/ UserOwnsActive) /\ links' # links /\ UNCHANGED epoch
       \/ Restart
    /\ UNCHANGED << rows, clock, proc >>

Tick ==
    /\ clock < MaxTime /\ clock' = clock + 1
    /\ unchangedTmux /\ UNCHANGED << rows, proc >>

Step(p) ==
    \/ \E c \in Commands : Begin(p, c)
    \/ CheckOwned(p)
    \/ ReadEpoch(p)
    \/ SweepEpochs(p)
    \/ ListRows(p)
    \/ Snapshot(p)
    \/ \E m \in proc[p].todo : Apply(p, m)
    \/ Applied(p)
    \/ Unlink(p)
    \/ VerifyUnlinked(p)
    \/ DeleteRow(p)
    \/ Resolve(p)
    \/ EnsureOwned(p)
    \/ Link(p)
    \/ Linked(p)
    \/ Cleanup(p)
    \/ VerifyCleaned(p)
    \/ Persist(p)
    \/ PersistFails(p)
    \/ Rollback(p)
    \/ Undo(p)
    \/ FindRow(p)
    \/ TouchRow(p)
    \/ Kill(p)
    \/ Abort(p)

(* Whose step it was decides who was disturbed by it.                      *)
Disturb(others) ==
    calm' = [q \in Procs |->
                \/ proc'[q] = Idle
                \/ /\ calm[q]
                   /\ q \in others => UNCHANGED << links, rows, epoch >>]

Next ==
    \/ \E p \in Procs : Step(p) /\ Disturb(Procs \ {p})
    \/ User /\ Disturb(Procs)
    \/ Tick /\ UNCHANGED calm

Spec == Init /\ [][Next]_vars

-----------------------------------------------------------------------------
(***************************************************************************)
(* Properties                                                              *)
(***************************************************************************)
Rows == [ep : 1 .. MaxEpoch, win : Windows, st : {"tracked", "orphaned"},
         sel : 0 .. MaxTime]

Labels == {"idle", "own", "epoch", "sweep", "rows", "links", "apply", "unlink",
           "verify", "delete", "resolve", "ensure", "link", "linked", "cleanup",
           "cleaned", "rollback", "undo", "find", "touch", "kill"}

(* The shape of every variable: a window has one row per server, and the   *)
(* ownership marker lives and dies with the session.                       *)
TypeOK ==
    /\ links \in Links
    /\ owner \in (IF Aliases(links) = {} THEN {"none"} ELSE {"tmh", "user"})
    /\ epoch \in 1 .. MaxEpoch /\ clock \in 0 .. MaxTime
    /\ rows \subseteq Rows
    /\ \A r, s \in rows : r.ep = s.ep /\ r.win = s.win => r = s
    /\ \A p \in Procs : /\ proc[p].pc \in Labels
                         /\ proc[p].snap \in Links
                         /\ proc[p].ep \in 0 .. MaxEpoch
                         /\ proc[p].now \in 0 .. MaxTime
                         /\ calm[p] \in BOOLEAN

(* Nothing tmh does to aliases -- expiry, removal, recovery, rollback and  *)
(* the removal of placeholders, all of them decided on a snapshot that may *)
(* be out of date -- destroys a window: only its own kill commands and the *)
(* user do.                                                                *)
OnlyKillsDestroy ==
    [][\A w \in Windows :
          Lives(links, w) /\ ~Lives(links', w) => User \/ \E p \in Procs : Kill(p)]_vars

(* Hooks that arrive late or out of order never move a window's time of    *)
(* selection, and with it its expiry, backwards.                           *)
TouchNeverBack ==
    [][\A r \in rows, s \in rows' :
          r.ep = s.ep /\ r.win = s.win /\ s.sel < r.sel
              => \E p \in Procs : Persist(p)]_vars

(* A session named active that is the user's is left as it is: a command   *)
(* that finds it from its beginning to its end changes no link at all.     *)
CollisionUntouched ==
    [][\A p \in Procs :
          owner = "user" /\ calm[p] /\ proc'[p] # proc[p] => UNCHANGED links]_vars

(* A prune that nobody disturbs settles every row: what is left is linked  *)
(* in active and, if it has expired, is an orphan and marked as one.       *)
PruneSettles ==
    \A p \in Procs :
        calm[p] /\ At(p, "apply") /\ Job(p) = "prune" /\ proc[p].todo = {} =>
            \A r \in rows :
                /\ r.ep = epoch /\ Alias(links, r.win)
                /\ Expired(r, proc[p].now) =>
                       Sources(links, r.win) = {} /\ r.st = "orphaned"

(* A promotion that nobody disturbs ends with the window linked in active  *)
(* beside its source and without the placeholder.                          *)
PromotionDelivers ==
    [][\A p \in Procs :
          calm[p] /\ Persist(p) =>
              /\ Alias(links, Win(p)) /\ Sources(links, Win(p)) # {}
              /\ ~Alias(links, Placeholder)]_vars

(* Whenever no command is under way, each alias tmh made has its row: the  *)
(* alias is temporary, a prune can still expire it.                        *)
AliasesAreTracked ==
    owner = "tmh" /\ (\A p \in Procs : proc[p] = Idle) =>
        \A w \in Aliases(links) \cap Windows :
            \E r \in rows : r.ep = epoch /\ r.win = w

(* A session tmh kills leaves no orphan behind: none of its windows lives  *)
(* on in active alone.                                                     *)
KillLeavesNoOrphan ==
    [][\A p \in Procs :
          Job(p) = "kill" /\ Kill(p) =>
              \A w \in Windows : Ses(p) \in Sources(links, w) /\ Lives(links', w)
                                   => Sources(links', w) # {}]_vars
=============================================================================
