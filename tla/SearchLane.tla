----------------------------- MODULE SearchLane -----------------------------
(***************************************************************************)
(* Live search in tmh-next: the search page asks for a query on every key, *)
(* the root runs the queries beside one another and shows the results of   *)
(* the latest one, once more if they are of another revision than the      *)
(* catalog shown.                                                          *)
(*                                                                         *)
(* A request is a command too: it reads the input when its goroutine runs, *)
(* and its message may be overtaken (see TuiRoot for tasks).               *)
(***************************************************************************)
EXTENDS Integers, FiniteSets

CONSTANTS
    Queries,      \* texts to search for
    NoQuery,      \* the empty input
    MaxRevision,  \* the backend commits below this revision only
    MaxSeq,       \* searches run below this sequence number only
    MaxTasks      \* the user types while fewer tasks are under way

(* Assumed of the constants, where they get their values.                   *)
QueriesAssumption == NoQuery \notin Queries
BoundsAssumption ==
    MaxRevision \in Nat \ {0} /\ MaxSeq \in Nat /\ MaxTasks \in Nat

VARIABLES
    rev,        \* the backend's revision
    cat,        \* Root.cat.Revision
    input,      \* searchPage.input
    page,       \* the results the page shows: their sequence number and text
    searchSeq,  \* Root.searchSeq
    searchText, \* Root.searchText
    retried,    \* Root.searchRetried
    tasks,      \* requests and searches under way
    failed      \* the searches that ended in an error notification

vars == << rev, cat, input, page, searchSeq, searchText, retried, tasks,
           failed >>
rootVars == << page, searchSeq, searchText, retried, failed >>

FreshId(T) == CHOOSE n \in 0 .. Cardinality(T) : \A t \in T : t.id # n

(* A task: a request for a text (at "read" before the input is read), or   *)
(* the search number seq with the revision of its results.                 *)
Start(T, at, seq, text) ==
    T \cup {[id |-> FreshId(T), at |-> at, seq |-> seq, text |-> text, rev |-> 0]}

Rest(t) == tasks \ {t}

Init ==
    /\ rev = 1 /\ cat = 1
    /\ input = NoQuery /\ page = [seq |-> 0, text |-> NoQuery]
    /\ searchSeq = 0 /\ searchText = NoQuery /\ retried = {}
    /\ tasks = {} /\ failed = {}

(* A key: the input changes and a request is on its way.                   *)
Type(q) ==
    /\ Cardinality(tasks) < MaxTasks
    /\ input' = q
    /\ tasks' = Start(tasks, "read", 0, NoQuery)
    /\ UNCHANGED << rev, cat, rootVars >>

ReadInput(t) ==
    /\ t.at = "read"
    /\ tasks' = Rest(t) \cup {[t EXCEPT !.at = "ask", !.text = input]}
    /\ UNCHANGED << rev, cat, input, rootVars >>

(* SearchRequestMsg                                                        *)
SearchRequest(t) ==
    /\ t.at = "ask" /\ searchSeq < MaxSeq
    /\ searchSeq' = searchSeq + 1
    /\ searchText' = t.text
    /\ tasks' = Start(Rest(t), "search", searchSeq', t.text)
    /\ UNCHANGED << rev, cat, input, page, retried, failed >>

(* The backend's Search: a snapshot, with what it observes, and its hits.  *)
Search(t) ==
    /\ t.at = "search"
    /\ tasks' = Rest(t) \cup {[t EXCEPT !.at = "results", !.rev = rev]}
    /\ UNCHANGED << rev, cat, input, rootVars >>

SearchFailed(t) ==
    /\ t.at = "search"
    /\ tasks' = Rest(t)
    /\ failed' = failed \cup {t.seq}
    /\ UNCHANGED << rev, cat, input, page, searchSeq, searchText, retried >>

SearchResults_anySeq(t) ==
    /\ t.at = "results"
    /\ page' = [seq |-> t.seq, text |-> t.text]
    /\ tasks' = Rest(t)
    /\ UNCHANGED << rev, cat, input, searchSeq, searchText, retried, failed >>

(* SearchResultsMsg: dropped when it is not the latest, asked for again at *)
(* a revision mismatch, otherwise shown.                                   *)
SearchResults(t) ==
    /\ t.at = "results"
    /\ \/ /\ t.seq # searchSeq
          /\ tasks' = Rest(t)
          /\ UNCHANGED << page, retried >>
       \/ /\ t.seq = searchSeq /\ t.rev # cat /\ t.seq \notin retried
          /\ retried' = retried \cup {t.seq}
          /\ tasks' = Start(Rest(t), "ask", 0, searchText)
          /\ UNCHANGED page
       \/ /\ t.seq = searchSeq /\ (t.rev = cat \/ t.seq \in retried)
          /\ page' = [seq |-> t.seq, text |-> t.text]
          /\ tasks' = Rest(t)
          /\ UNCHANGED retried
    /\ UNCHANGED << rev, cat, input, searchSeq, searchText, failed >>

(* tmhd commits what it observes; the watch brings the root up to date.    *)
Observe ==
    /\ rev < MaxRevision
    /\ rev' = rev + 1
    /\ UNCHANGED << cat, input, tasks, rootVars >>

CatchUp ==
    /\ cat # rev
    /\ cat' = rev
    /\ UNCHANGED << rev, input, tasks, rootVars >>

Next ==
    \/ \E q \in Queries : Type(q)
    \/ \E t \in tasks :
        \/ ReadInput(t)
        \/ SearchRequest(t)
        \/ Search(t)
        \/ SearchFailed(t)
        \/ SearchResults(t)
    \/ Observe
    \/ CatchUp

Spec == Init /\ [][Next]_vars

-----------------------------------------------------------------------------
(***************************************************************************)
(* Properties                                                              *)
(***************************************************************************)

(* Results of a superseded query never reach the page, however the searches*)
(* overtake one another.                                                   *)
OnlyLatestShown ==
    [][page' # page => page'.text = searchText /\ page'.seq = searchSeq]_vars

(* No query is lost: when nothing is under way the page shows the results  *)
(* of the latest search or a notification said that it failed.             *)
LatestIsAnswered ==
    tasks = {} => page.seq = searchSeq \/ searchSeq \in failed
=============================================================================
