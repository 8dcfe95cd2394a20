------------------------------ MODULE Notices -------------------------------
(***************************************************************************)
(* The two clocks of tmh-next's root that run beside the mutation timer:   *)
(* every notification is taken down by a timer of its own, and the guided  *)
(* help turns its page at each tick of a chain of timers.  A timer cannot  *)
(* be stopped: one that is out of date is told by its number.              *)
(***************************************************************************)
EXTENDS Integers

CONSTANTS
    Texts,      \* the notifications
    Steps,      \* the steps of a use case of the help
    MaxSeq      \* so many notifications, and so many chains of ticks

(* Assumed of the constants, where they get their values.                  *)
ClockAssumption == Steps \in Nat \ {0} /\ MaxSeq \in Nat

VARIABLES
    toasts,     \* Root.toasts, no two of them with one text
    toastSeq,   \* Root.toastSeq
    expiries,   \* the expiry timers under way, by number
    help,       \* the help overlay: open, playing, step, token
    helpSeq,    \* Root.helpTokenSeq
    ticks       \* the help timers under way: so many carry the token

nvars == << toasts, toastSeq, expiries, help, helpSeq, ticks >>

Closed == [open |-> FALSE, playing |-> FALSE, step |-> 0, token |-> 0]

Init ==
    /\ toasts = {} /\ toastSeq = 0 /\ expiries = {}
    /\ help = Closed /\ helpSeq = 0 /\ ticks = [token \in 1 .. MaxSeq |-> 0]

-----------------------------------------------------------------------------
(* A notification that is shown already is shown for longer.               *)
Refreshed(text, seq) ==
    { t \in toasts : t.text # text } \cup {[text |-> text, seq |-> seq]}

(* Mutant of PushToast: only a new notification gets a timer.              *)
PushToast_armsNewOnly(text) ==
    /\ toastSeq < MaxSeq
    /\ toastSeq' = toastSeq + 1
    /\ toasts' = Refreshed(text, toastSeq')
    /\ expiries' = IF \E t \in toasts : t.text = text THEN expiries
                   ELSE expiries \cup {toastSeq'}
    /\ UNCHANGED << help, helpSeq, ticks >>

PushToast(text) ==
    /\ toastSeq < MaxSeq
    /\ toastSeq' = toastSeq + 1
    /\ toasts' = Refreshed(text, toastSeq')
    /\ expiries' = expiries \cup {toastSeq'}
    /\ UNCHANGED << help, helpSeq, ticks >>

(* ToastExpiredMsg                                                         *)
Expire(seq) ==
    /\ seq \in expiries
    /\ expiries' = expiries \ {seq}
    /\ toasts' = { t \in toasts : t.seq # seq }
    /\ UNCHANGED << toastSeq, help, helpSeq, ticks >>

-----------------------------------------------------------------------------
Armed(token) == [ticks EXCEPT ![token] = @ + 1]

(* openHelpWalkthrough, r, h and l: from the first step in a chain of its  *)
(* own.  It opens over no overlay, or over one that a message replaces.    *)
PlayFromStart ==
    /\ helpSeq < MaxSeq
    /\ helpSeq' = helpSeq + 1
    /\ help' = [open |-> TRUE, playing |-> TRUE, step |-> 0, token |-> helpSeq']
    /\ ticks' = Armed(helpSeq')
    /\ UNCHANGED << toasts, toastSeq, expiries >>

(* j and k                                                                 *)
Turn(delta) ==
    /\ help.open
    /\ help' = [help EXCEPT !.step = (@ + delta + Steps) % Steps]
    /\ UNCHANGED << toasts, toastSeq, expiries, helpSeq, ticks >>

Paused(h, token) == [h EXCEPT !.playing = ~@, !.token = token]

(* space: a pause leaves the chain that is under way behind.               *)
PauseOrPlay ==
    /\ help.open /\ helpSeq < MaxSeq
    /\ helpSeq' = helpSeq + 1
    /\ help' = Paused(help, helpSeq')
    /\ ticks' = IF help'.playing THEN Armed(help'.token) ELSE ticks
    /\ UNCHANGED << toasts, toastSeq, expiries >>

(* esc, q and ?, enter, and a message that opens another overlay           *)
CloseHelp ==
    /\ help.open
    /\ help' = Closed
    /\ UNCHANGED << toasts, toastSeq, expiries, helpSeq, ticks >>

(* WalkthroughTickMsg: advanceWalkthrough, which arms the next timer.      *)
Tick(token) ==
    /\ ticks[token] > 0
    /\ IF help.open /\ help.playing /\ help.token = token
       THEN help' = [help EXCEPT !.step = (@ + 1) % Steps] /\ UNCHANGED ticks
       ELSE ticks' = [ticks EXCEPT ![token] = @ - 1] /\ UNCHANGED help
    /\ UNCHANGED << toasts, toastSeq, expiries, helpSeq >>

Next ==
    \/ \E text \in Texts : PushToast(text)
    \/ \E seq \in expiries : Expire(seq)
    \/ PlayFromStart \/ PauseOrPlay \/ CloseHelp
    \/ \E delta \in {1, -1} : Turn(delta)
    \/ \E token \in 1 .. MaxSeq : Tick(token)

Spec == Init /\ [][Next]_nvars

-----------------------------------------------------------------------------
(* Every notification on the screen has its expiry under way: none stays   *)
(* for good, in whatever order notifications come and timers fire.         *)
ToastsExpire == \A t \in toasts : t.seq \in expiries

(* While the help plays, exactly one tick of its chain is under way: it    *)
(* neither stops nor runs at double speed, however often it is paused,     *)
(* closed and opened before an old tick arrives.                           *)
HelpTicksOnce ==
    help.open => ticks[help.token] = IF help.playing THEN 1 ELSE 0
=============================================================================
