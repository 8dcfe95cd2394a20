------------------------------ MODULE WatchHub ------------------------------
(***************************************************************************)
(* The events of tmhd on their way to one watcher: the hub publishes what  *)
(* the control plane commits into the watcher's slots, the HTTP handler    *)
(* forwards them, and the watcher comes back with the last number it has   *)
(* seen whenever its stream ends.  Sequence numbers are those of the       *)
(* catalog's audit events, and every commit has one.                       *)
(***************************************************************************)
EXTENDS Integers, Sequences, FiniteSetsExt

CONSTANTS
    Slots,        \* the hub keeps so many events for a watcher (64)
    Pipe,         \* the socket and the client's channel hold so many
    MaxSeq,       \* so many commits
    MaxFailures   \* so many times the store or the connection fails

VARIABLES
    seq,          \* the newest audit event in the store
    stream,       \* "closed", "asked", "open" or "ended" by the handler
    asked,        \* the number the watcher asked to continue after
    slots,        \* Client.subs[id]
    trouble,      \* Client.subErrors[id] holds an error
    after,        \* the handler's last forwarded number
    pipe,         \* what is on its way to the watcher
    seen,         \* Root.eventSeq
    failures

vars == << seq, stream, asked, slots, trouble, after, pipe, seen, failures >>

Changed(n) == [kind |-> "catalog.changed", seq |-> n]
Heartbeat(n) == [kind |-> "heartbeat", seq |-> n]
StreamError == [kind |-> "invalid", seq |-> 0]

(* The watcher has taken a snapshot before it watches.                     *)
Init ==
    /\ seq = 1 /\ seen = 1
    /\ stream = "closed" /\ asked = 0 /\ after = 0
    /\ slots = << >> /\ trouble = FALSE /\ pipe = << >>
    /\ failures = 0

-----------------------------------------------------------------------------
(* publishLocked: an event that finds no slot is dropped ...               *)
Offered(event) == IF Len(slots) < Slots THEN Append(slots, event) ELSE slots

(* ... and the watcher is told so.                                         *)
Reported == trouble \/ Len(slots) >= Slots

Commit ==
    /\ seq < MaxSeq
    /\ seq' = seq + 1
    /\ IF stream = "open"
       THEN slots' = Offered(Changed(seq')) /\ trouble' = Reported
       ELSE UNCHANGED << slots, trouble >>
    /\ UNCHANGED << stream, asked, after, pipe, seen, failures >>

(* The watcher asks for what comes after the last number it has seen.      *)
Ask ==
    /\ stream = "closed"
    /\ stream' = "asked" /\ asked' = seen
    /\ UNCHANGED << seq, slots, trouble, after, pipe, seen, failures >>

(* Mutant of Replay: off by one.                                           *)
Replay_skipsNext(from) == IF seq > from + 1 THEN << Heartbeat(seq) >> ELSE << >>

(* One heartbeat stands for everything that was missed.                    *)
Replay(from) == IF seq > from THEN << Heartbeat(seq) >> ELSE << >>

(* Client.Watch, under the lock that Commit takes.                         *)
Watch ==
    /\ stream = "asked"
    /\ stream' = "open" /\ after' = asked /\ pipe' = << >>
    /\ \/ /\ slots' = Replay(asked) /\ trouble' = FALSE
          /\ UNCHANGED failures
       \/ /\ failures < MaxFailures /\ failures' = failures + 1
          /\ slots' = << >> /\ trouble' = TRUE
    /\ UNCHANGED << seq, asked, seen >>

-----------------------------------------------------------------------------
(* Server.watch: the select takes any case that is ready.                  *)
Forward ==
    /\ stream = "open" /\ slots # << >> /\ Len(pipe) < Pipe
    /\ pipe' = Append(pipe, Head(slots))
    /\ after' = Head(slots).seq
    /\ slots' = Tail(slots)
    /\ UNCHANGED << seq, stream, asked, trouble, seen, failures >>

GiveUp ==
    /\ stream = "open" /\ trouble /\ Len(pipe) < Pipe
    /\ pipe' = Append(pipe, StreamError)
    /\ stream' = "ended"
    /\ slots' = << >> /\ trouble' = FALSE
    /\ UNCHANGED << seq, asked, after, seen, failures >>

(* Every 15 s, which is longer than it takes to forward what waits when    *)
(* the watcher keeps up; the bound is one of them on its way.              *)
KeepAlive ==
    /\ stream = "open" /\ Len(pipe) < Pipe
    /\ slots = << >> \/ pipe # << >>
    /\ \A i \in DOMAIN pipe : pipe[i].kind # "heartbeat"
    /\ pipe' = Append(pipe, Heartbeat(Max({after, 1})))
    /\ UNCHANGED << seq, stream, asked, slots, trouble, after, seen, failures >>

(* The daemon ends, or the connection does.                                *)
Break ==
    /\ stream \in {"open", "asked"} /\ failures < MaxFailures
    /\ failures' = failures + 1
    /\ stream' = "ended" /\ slots' = << >> /\ trouble' = FALSE
    /\ UNCHANGED << seq, asked, after, pipe, seen >>

-----------------------------------------------------------------------------
Leave ==
    /\ stream' = "closed" /\ pipe' = << >>
    /\ slots' = << >> /\ trouble' = FALSE

(* An event that does not validate ends the stream; after any other one    *)
(* the watcher stays, or leaves as the root does, whatever is on its way.  *)
Receive ==
    /\ pipe # << >>
    /\ IF Head(pipe).kind = "invalid"
       THEN Leave /\ UNCHANGED seen
       ELSE /\ seen' = Max({seen, Head(pipe).seq})
            /\ \/ Leave
               \/ pipe' = Tail(pipe) /\ UNCHANGED << stream, slots, trouble >>
    /\ UNCHANGED << seq, asked, after, failures >>

EndOfStream ==
    /\ stream = "ended" /\ pipe = << >>
    /\ Leave
    /\ UNCHANGED << seq, asked, after, seen, failures >>

Next ==
    \/ Commit \/ Ask \/ Watch
    \/ Forward \/ GiveUp \/ KeepAlive \/ Break
    \/ Receive \/ EndOfStream

(* The handler, the hub and the watcher run on; a select that finds two    *)
(* cases ready picks one at random.                                        *)
Serving == Watch \/ Forward \/ GiveUp
Watching == Ask \/ Receive \/ EndOfStream
Fairness == WF_vars(Serving) /\ WF_vars(Watching)
Spec == Init /\ [][Next]_vars /\ Fairness

-----------------------------------------------------------------------------
(* A stream on which nothing more is to come has told everything: what was *)
(* dropped, in the slots or between two streams, never goes unnoticed.     *)
NothingSkipped ==
    stream = "open" /\ slots = << >> /\ pipe = << >> /\ ~trouble => seen = seq

(* A watcher that comes back is told of every commit.                      *)
Informed == \A n \in 1..MaxSeq : (seq >= n) ~> (seen >= n)
=============================================================================
