------------------------------- MODULE Servers -------------------------------
(* The forward WebSocket server (server/websocket.go) and the HTTP server    *)
(* with its reporter (server/http.go): events go through a filter to every   *)
(* client that is connected and to an address, while clients come, stop      *)
(* reading, go, and call actions, one of which reads the filter anew.        *)
EXTENDS Naturals, FiniteSets, Sequences, SequencesExt

CONSTANTS
    Clients,        \* clients of the WebSocket server
    KindOf(_),      \* the address a client connects to: "event" or "any"
    Events,         \* events that come
    Files,          \* what may be in the filter file: rules, or what is none
    Readable,       \* the rules: those of them that module Filter can read
    Lets(_, _),     \* whether such a rule lets an event through
    Reloads,        \* bound: the files an action may find there later
    Reported,       \* bound: the events that are looked at on their way to
                    \* the address
    MaxAttempts,    \* 6 in the code: how often a report is tried
    MaxRequests     \* bound: how many actions are called

ASSUME MutexIsFree == "free" \notin Events
ASSUME SomeAreReported == Reported \subseteq Events
ASSUME AttemptsCounted == MaxAttempts \in Nat

VARIABLES
    rule,           \* what is in the filter file as it was last read
    conn,           \* [client -> its connection]
    peer,           \* [client -> what it does]
    eventConn,      \* the clients that get events
    mu,             \* who holds s.mu
    push,           \* [event -> where onBotPushEvent of the server is with it]
    sent,           \* [client -> what has been written to it]
    report,         \* [event -> where the reporter is with it]
    handled,        \* [event -> how often the address has got it as a whole]
    requests,       \* how many actions have been called
    order, since    \* history: the events in the order of the lock, and where
                    \* in it a client came

vars == <<rule, conn, peer, eventConn, mu, push, sent, report, handled, requests, order, since>>
wsVars == <<conn, peer, eventConn, mu, push, sent, order, since>>

----------------------------------------------------------------------------
(* The filter: a rule that cannot be read leaves the one there is. *)

Add(f) == rule' = IF f \in Readable THEN <<f>> ELSE rule
Find == rule
Passes(e) == Find = <<>> \/ Lets(Find[1], e)

----------------------------------------------------------------------------
(* Clients. *)

Connect(c) ==
    /\ conn[c] = "none"
    /\ conn' = [conn EXCEPT ![c] = "accepted"]
    /\ UNCHANGED <<rule, peer, eventConn, mu, push, sent, report, handled, requests, order, since>>

\* The handshake goes out before the client is among those that get events.
Greet(c) ==
    /\ conn[c] = "accepted"
    /\ \/ peer[c] = "reads" /\ conn' = [conn EXCEPT ![c] = "greeted"]
       \/ peer[c] = "gone" /\ conn' = [conn EXCEPT ![c] = "closed"]
    /\ UNCHANGED <<rule, peer, eventConn, mu, push, sent, report, handled, requests, order, since>>

List(c) ==
    /\ conn[c] = "greeted" /\ mu = "free"
    /\ eventConn' = Append(eventConn, c)
    /\ conn' = [conn EXCEPT ![c] = "open"]
    /\ since' = [since EXCEPT ![c] = Len(order)]
    /\ UNCHANGED <<rule, peer, mu, push, sent, report, handled, requests, order>>

\* listenAPI: the connection of a client that is gone is closed, not taken out.
ListenEnds(c) ==
    /\ KindOf(c) = "any" /\ conn[c] = "open" /\ peer[c] = "gone"
    /\ conn' = [conn EXCEPT ![c] = "closed"]
    /\ UNCHANGED <<rule, peer, eventConn, mu, push, sent, report, handled, requests, order, since>>

\* handleRequest: an action that panics closes the connection it came by.
handleRequest(c) ==
    /\ KindOf(c) = "any" /\ conn[c] = "open" /\ peer[c] = "reads"
    /\ requests < MaxRequests
    /\ requests' = requests + 1
    /\ \/ \E f \in Reloads : Add(f) /\ UNCHANGED conn
       \/ conn' = [conn EXCEPT ![c] = "closed"] /\ UNCHANGED rule
    /\ UNCHANGED <<peer, eventConn, mu, push, sent, report, handled, order, since>>

\* Clients may stop reading, go on, and go away.
StopReading(c) == peer[c] = "reads" /\ peer' = [peer EXCEPT ![c] = "stuck"]
ReadOn(c) == peer[c] = "stuck" /\ peer' = [peer EXCEPT ![c] = "reads"]
GoAway(c) == peer[c] # "gone" /\ peer' = [peer EXCEPT ![c] = "gone"]
Peer(c) ==
    /\ conn[c] # "none"
    /\ StopReading(c) \/ ReadOn(c) \/ GoAway(c)
    /\ UNCHANGED <<rule, conn, eventConn, mu, push, sent, report, handled, requests, order, since>>

----------------------------------------------------------------------------
(* onBotPushEvent of the WebSocket server. *)

Push(at, i, j) == [at |-> at, i |-> i, j |-> j]

Filtered(e) ==
    /\ push[e].at = "new"
    /\ push' = [push EXCEPT ![e] = Push(IF Passes(e) THEN "waits" ELSE "filtered", 1, 1)]
    /\ UNCHANGED <<rule, conn, peer, eventConn, mu, sent, report, handled, requests, order, since>>

\* A slip of Lock: s.mu is taken as a lock for readers.
LockShared(e) ==
    /\ push[e].at = "waits"
    /\ mu' = e
    /\ push' = [push EXCEPT ![e].at = "writes"]
    /\ order' = Append(order, e)
    /\ UNCHANGED <<rule, conn, peer, eventConn, sent, report, handled, requests, since>>

Lock(e) ==
    /\ push[e].at = "waits" /\ mu = "free"
    /\ mu' = e
    /\ push' = [push EXCEPT ![e].at = "writes"]
    /\ order' = Append(order, e)
    /\ UNCHANGED <<rule, conn, peer, eventConn, sent, report, handled, requests, since>>

\* A slip of Written: a client behind one that failed is not moved up.
WrittenInPlace(e, c) ==
    /\ conn[c] = "open" /\ peer[c] # "stuck"
    /\ sent' = [sent EXCEPT ![c] = Append(@, e)]
    /\ push' = [push EXCEPT ![e].i = @ + 1, ![e].j = @ + 1]
    /\ UNCHANGED <<conn, eventConn>>

\* The next client, while it reads or is gone; one that does not read holds
\* the loop up.  A client that fails makes those behind it move up.
Written(e, c) ==
    /\ conn[c] = "open" /\ peer[c] # "stuck"
    /\ sent' = [sent EXCEPT ![c] = Append(@, e)]
    /\ eventConn' = [eventConn EXCEPT ![push[e].j] = c]
    /\ push' = [push EXCEPT ![e].i = @ + 1, ![e].j = @ + 1]
    /\ UNCHANGED conn

Failed(e, c) ==
    /\ conn[c] = "closed" \/ peer[c] = "gone"
    /\ conn' = [conn EXCEPT ![c] = "closed"]
    /\ push' = [push EXCEPT ![e].i = @ + 1]
    /\ UNCHANGED <<sent, eventConn>>

WriteNext(e) ==
    /\ push[e].at = "writes" /\ push[e].i <= Len(eventConn)
    /\ LET c == eventConn[push[e].i] IN Written(e, c) \/ Failed(e, c)
    /\ UNCHANGED <<rule, peer, mu, report, handled, requests, order, since>>

\* A slip of Unlock: a push that has lost a client leaves s.mu locked.
UnlockAfterSuccess(e) ==
    /\ push[e].at = "writes" /\ push[e].i > Len(eventConn)
    /\ eventConn' = SubSeq(eventConn, 1, push[e].j - 1)
    /\ mu' = IF push[e].j = push[e].i THEN "free" ELSE mu
    /\ push' = [push EXCEPT ![e].at = "done"]
    /\ UNCHANGED <<rule, conn, peer, sent, report, handled, requests, order, since>>

Unlock(e) ==
    /\ push[e].at = "writes" /\ push[e].i > Len(eventConn)
    /\ eventConn' = SubSeq(eventConn, 1, push[e].j - 1)
    /\ mu' = "free"
    /\ push' = [push EXCEPT ![e].at = "done"]
    /\ UNCHANGED <<rule, conn, peer, sent, report, handled, requests, order, since>>

----------------------------------------------------------------------------
(* onBotPushEvent of the reporter: one http.Request for all attempts, whose  *)
(* body is read once.                                                        *)

Report(at, tries, read) == [at |-> at, tries |-> tries, read |-> read]

BeginReport(e) ==
    /\ report[e].at = "new"
    /\ report' = [report EXCEPT ![e].at = IF Passes(e) THEN "tries" ELSE "filtered"]
    /\ UNCHANGED <<rule, wsVars, handled, requests>>

Attempted(e, read) ==
    report' = [report EXCEPT ![e] =
        Report(IF @.tries + 1 = MaxAttempts THEN "lost" ELSE "tries", @.tries + 1, read)]

\* Nobody is there, or the connection ends before the body is through.
Refused(e) ==
    /\ \E read \in {report[e].read, TRUE} : Attempted(e, read)
    /\ UNCHANGED handled

\* A slip of Through: every attempt has a body of its own.
ThroughAgain(e) ==
    /\ handled' = [handled EXCEPT ![e] = @ + 1]
    /\ \/ report' = [report EXCEPT ![e].at = "answered"]
       \/ Attempted(e, FALSE)

\* The body is through, and the answer comes or is late.
Through(e) ==
    /\ ~report[e].read
    /\ handled' = [handled EXCEPT ![e] = @ + 1]
    /\ \/ report' = [report EXCEPT ![e].at = "answered"]
       \/ Attempted(e, TRUE)

Attempt(e) ==
    /\ report[e].at = "tries"
    /\ Refused(e) \/ Through(e)
    /\ UNCHANGED <<rule, wsVars, requests>>

\* The answer may hold a quick operation, unless it breaks off.
ReadAnswer(e) ==
    /\ report[e].at = "answered"
    /\ \E how \in {"operated", "broken"} : report' = [report EXCEPT ![e].at = how]
    /\ UNCHANGED <<rule, wsVars, handled, requests>>

----------------------------------------------------------------------------
(* The HTTP server. *)

Methods == {"json", "bad json", "form", "bad form", "query", "other"}

\* A form that cannot be parsed is refused, and its action called all the same.
ServeHTTP(method, authorized) ==
    /\ requests < MaxRequests
    /\ requests' = requests + 1
    /\ method \notin {"bad json", "other"} /\ authorized
    /\ \E f \in Reloads : Add(f)
    /\ UNCHANGED <<wsVars, report, handled>>

----------------------------------------------------------------------------

Init ==
    /\ \E f \in Files : rule = IF f \in Readable THEN <<f>> ELSE <<>>
    /\ conn = [c \in Clients |-> "none"] /\ peer = [c \in Clients |-> "reads"]
    /\ eventConn = <<>> /\ mu = "free"
    /\ push = [e \in Events |-> Push("new", 1, 1)]
    /\ sent = [c \in Clients |-> <<>>]
    /\ report = [e \in Events |-> Report("new", 0, FALSE)]
    /\ handled = [e \in Events |-> 0]
    /\ requests = 0
    /\ order = <<>> /\ since = [c \in Clients |-> 0]

Client(c) == Connect(c) \/ Greet(c) \/ List(c) \/ ListenEnds(c) \/ handleRequest(c) \/ Peer(c)
Pushing(e) == Filtered(e) \/ Lock(e) \/ WriteNext(e) \/ Unlock(e)
Reporting(e) == BeginReport(e) \/ Attempt(e) \/ ReadAnswer(e)

Next ==
    \/ \E c \in Clients : Client(c)
    \/ \E e \in Events : Pushing(e)
    \/ \E e \in Reported : Reporting(e)
    \/ \E method \in Methods, authorized \in BOOLEAN : ServeHTTP(method, authorized)

\* The mutex is fair, and a write goes on whenever its client reads.
Fairness == \A e \in Events : SF_vars(Pushing(e))

Spec == Init /\ [][Next]_vars /\ Fairness

----------------------------------------------------------------------------

Hearers == INSTANCE Broadcast WITH
    Members <- Clients,
    Messages <- Events,
    joined <- {c \in Clients : conn[c] = "open"},
    heard <- sent

(* The servers broadcast (module Broadcast): however clients come, fail and  *)
(* are closed by a panic while pushes wait for s.mu, the next event is not   *)
(* written to anyone before all that are open have got the one before.       *)
ImplementsBroadcast == Hearers!BroadcastSpec

Listed == {eventConn[i] : i \in DOMAIN eventConn}
Due(c) == SubSeq(order, since[c] + 1, Len(order))

(* Every client gets, from the moment it is listed, each event the filter    *)
(* lets through, once, and all in one order, until it fails; and a client    *)
(* that has not failed stays listed, once.                                   *)
EachHearsAll ==
    /\ \A c \in Clients :
          /\ IsPrefix(sent[c], Due(c))
          /\ mu = "free" /\ conn[c] = "open" => sent[c] = Due(c) /\ c \in Listed
    /\ mu = "free" => Cardinality(Listed) = Len(eventConn)

(* A report is tried again after attempts that failed or timed out, and yet  *)
(* its receiver never gets it twice.                                         *)
HandledOnce == \A e \in Events : handled[e] <= 1



(* Every push comes to its end, whichever clients fail or are slow meanwhile, *)
(* as long as none stays connected and never reads again.                    *)
PushesReturn ==
    (\A c \in Clients : []<>(peer[c] # "stuck"))
        => \A e \in Events : push[e].at # "new" ~> push[e].at \in {"filtered", "done"}

=============================================================================
