---------------------------- MODULE DaemonStart -----------------------------
(***************************************************************************)
(* Who listens on tmhd's socket: clients that find no daemon and start one *)
(* each, a daemon of the user's that runs already, crashes or is stopped,  *)
(* and the steps by which a new daemon makes sure of the socket's path.    *)
(* A path names at most one socket; a daemon whose socket has lost its     *)
(* path goes on without anybody being able to reach it.                    *)
(***************************************************************************)
EXTENDS Integers

CONSTANTS
    Clients,     \* tmh-next processes; each starts a daemon of the same name
    User,        \* the user's daemon
    Nobody       \* the path does not exist

VARIABLES
    path,        \* whose socket the path names
    daemon,      \* what each daemon does next
    client       \* what each client does

vars == << path, daemon, client >>

Daemons == Clients \cup {User}
Listening(d) == d # Nobody /\ daemon[d] \in {"protect", "close", "up"}
Serving(d) == d # Nobody /\ daemon[d] = "up"

(* The user's daemon serves, or has left its socket behind, or never ran.  *)
Init ==
    /\ \E state \in {"up", "gone"} :
        /\ daemon = [d \in Daemons |-> IF d = User THEN state ELSE "off"]
        /\ path \in IF state = "up" THEN {User} ELSE {User, Nobody}
    /\ client = [c \in Clients |-> "probe"]

At(d, step) == daemon[d] = step
To(d, step) == daemon' = [daemon EXCEPT ![d] = step]
Quits(d) == To(d, "gone")

-----------------------------------------------------------------------------
(* listenUnix, a step per system call.                                     *)
Inspect(d) ==
    /\ At(d, "inspect")
    /\ To(d, IF path = Nobody THEN "listen" ELSE "dial")
    /\ UNCHANGED << path, client >>

Dial(d) ==
    /\ At(d, "dial")
    /\ IF Listening(path) THEN Quits(d) ELSE To(d, "remove")
    /\ UNCHANGED << path, client >>

(* Mutant of AfterRemove: the path is left to bind.                        *)
AfterRemove_keeps == path

AfterRemove == Nobody

(* Whatever the path names by now is removed.                              *)
Remove(d) ==
    /\ At(d, "remove")
    /\ path' = AfterRemove
    /\ IF path = Nobody THEN Quits(d) ELSE To(d, "listen")
    /\ UNCHANGED client

Listen(d) ==
    /\ At(d, "listen")
    /\ IF path = Nobody THEN path' = d /\ To(d, "protect")
       ELSE Quits(d) /\ UNCHANGED path
    /\ UNCHANGED client

(* The chmod fails when the path is gone; if it is another's by now, it is *)
(* the other's that is protected.  The first reconciliation comes before   *)
(* the first answer.                                                       *)
Protect(d) ==
    /\ At(d, "protect")
    /\ To(d, IF path = Nobody THEN "close" ELSE "up")
    /\ UNCHANGED << path, client >>

(* A daemon that could not protect its socket closes it: whatever the path *)
(* names by then is removed with it.                                       *)
Close(d) ==
    /\ At(d, "close")
    /\ path' = Nobody
    /\ Quits(d)
    /\ UNCHANGED client

-----------------------------------------------------------------------------
Crash ==
    /\ Serving(User)
    /\ Quits(User)
    /\ UNCHANGED << path, client >>

(* SIGTERM: closing the listener removes the path; the watch streams hold  *)
(* Shutdown up, for 5 s at most, and then the path is removed once more.   *)
Stop ==
    /\ Serving(User)
    /\ To(User, "drain") /\ path' = Nobody
    /\ UNCHANGED client

Drained ==
    /\ At(User, "drain")
    /\ Quits(User) /\ path' = Nobody
    /\ UNCHANGED client

-----------------------------------------------------------------------------
(* ensureDaemon                                                            *)
Probe(c) ==
    /\ client[c] = "probe"
    /\ IF Serving(path)
       THEN client' = [client EXCEPT ![c] = "connected"] /\ UNCHANGED daemon
       ELSE /\ client' = [client EXCEPT ![c] = "waiting"]
            /\ To(c, "inspect")
    /\ UNCHANGED path

(* daemonReady is tried every 100 ms; that 50 attempts are enough is left  *)
(* to the clock.                                                           *)
Connect(c) ==
    /\ client[c] = "waiting" /\ Serving(path)
    /\ client' = [client EXCEPT ![c] = "connected"]
    /\ UNCHANGED << path, daemon >>

Start(d) ==
    Inspect(d) \/ Dial(d) \/ Remove(d) \/ Listen(d) \/ Protect(d) \/ Close(d)

Next ==
    \/ \E d \in Clients : Start(d)
    \/ Crash \/ Stop \/ Drained
    \/ \E c \in Clients : Probe(c) \/ Connect(c)

Fairness ==
    /\ \A d \in Clients : WF_vars(Start(d))
    /\ \A c \in Clients : WF_vars(Probe(c)) /\ WF_vars(Connect(c))
    /\ WF_vars(Drained)

Spec == Init /\ [][Next]_vars /\ Fairness

-----------------------------------------------------------------------------
(* However the starts race each other and a crash, every client ends up    *)
(* with a daemon that answers ...                                          *)
EveryClientConnects == \A c \in Clients : <>(client[c] = "connected")

(* ... unless the daemon that is there is stopped meanwhile, or one whose  *)
(* socket was removed is about to close it when the path is another's.     *)
Undisturbed ==
    /\ daemon[User] # "drain"
    /\ \A d \in Clients : At(d, "close") => path = Nobody

ClientsConnect == []Undisturbed => EveryClientConnects
=============================================================================
