------------------------------ MODULE WsClient ------------------------------
(***************************************************************************)
(* The reverse WebSocket client of server/websocket.go: one entry of       *)
(* ws-reverse.  runWSClient connects the configured roles one after the    *)
(* other and registers onBotPushEvent, which the event bus then calls in a *)
(* goroutine per event.  A push that fails closes the connection and       *)
(* connects again, with c.mu held; the listener of the API role reconnects *)
(* for itself; the listener of the universal role leaves that to the next  *)
(* push.                                                                   *)
(*                                                                         *)
(* Sleeping for reconnect-interval ends with the next dial, and a dial     *)
(* that fails sleeps again: one state stands for the whole recursion.      *)
(***************************************************************************)
EXTENDS Naturals, FiniteSets

CONSTANTS
    Events,     \* the events that may be under way at a time
    MaxConns,   \* bound: connections made
    MaxFaults   \* bound: faults of the network and of the remote

Conns == 1 .. MaxConns
None == 0

ASSUME WsAssumption ==
    /\ MaxConns \in Nat
    /\ MaxFaults \in Nat
    /\ None \notin Events

\* conf.Universal excludes the two other addresses.
Roles == {"API", "Event", "Universal"}
Setups == {{"Universal"}, {"API"}, {"Event"}, {"API", "Event"}}

VARIABLES
    conf,      \* the roles configured, and whether reconnect-interval is set
    start,     \* the roles runWSClient has yet to connect
    ready,     \* OnEventPush was called
    remote,    \* the remote server accepts connections
    faults,    \* faults so far
    role,      \* role[c]: the X-Client-Role connection c was made with
    link,      \* link[c]: what became of connection c
    greeted,   \* the connections whose remote got the handshake
    carried,   \* the connections that carried an event
    reader,    \* reader[c]: the goroutine of listenAPI for c
    conn,      \* c.event or c.universal, whichever is configured
    mu,        \* c.mu: the event whose handler holds it
    push,      \* push[e]: where onBotPushEvent(e) is
    copies     \* copies[e]: how often the remote got e

net == <<remote, faults>>
links == <<role, link, greeted, carried, reader>>
vars == <<conf, start, ready, net, links, conn, mu, push, copies>>

Init ==
    /\ conf \in [roles : Setups, retry : BOOLEAN]
    /\ start = conf.roles
    /\ ready = FALSE
    /\ remote \in BOOLEAN
    /\ faults = 0
    /\ role = [c \in Conns |-> "none"]
    /\ link = [c \in Conns |-> "unused"]
    /\ greeted = {}
    /\ carried = {}
    /\ reader = [c \in Conns |-> "none"]
    /\ conn = None
    /\ mu = None
    /\ push = [e \in Events |-> "idle"]
    /\ copies = [e \in Events |-> 0]

-----------------------------------------------------------------------------
Fault == faults < MaxFaults /\ faults' = faults + 1

\* The switch on typ before the handshake.
Greets(r) == r \in {"Event", "Universal"}

\* The switch on typ that starts listenAPI.
Listens(r) == r \in {"API", "Universal"}

\* A dial that succeeds, as connection c.  The handshake may fail: that is
\* logged, the broken connection is kept.
Connect(r, c) ==
    /\ remote
    /\ link[c] = "unused"
    /\ \A d \in Conns : d < c => link[d] # "unused"
    /\ role' = [role EXCEPT ![c] = r]
    /\ \/ /\ link' = [link EXCEPT ![c] = "up"]
          /\ greeted' = IF Greets(r) THEN greeted \cup {c} ELSE greeted
          /\ UNCHANGED net
       \/ /\ Greets(r) /\ Fault
          /\ link' = [link EXCEPT ![c] = "broken"]
          /\ UNCHANGED <<greeted, remote>>
    /\ UNCHANGED carried

\* The goroutine of listenAPI, if connection c of role r gets one.
Listener(r) == IF Listens(r) THEN "reading" ELSE "none"

\* runWSClient connects the API role before the event role.
StartUp(r, c) ==
    /\ r \in start
    /\ r = "Event" => "API" \notin start
    /\ Connect(r, c)
    /\ reader' = [reader EXCEPT ![c] = Listener(r)]
    /\ conn' = IF r = "API" THEN conn ELSE c
    /\ start' = start \ {r}
    /\ UNCHANGED <<conf, ready, mu, push, copies>>

\* Without a reconnect interval a dial that fails is not repeated.
StartWithout(r) ==
    /\ r \in start
    /\ r = "Event" => "API" \notin start
    /\ ~remote /\ ~conf.retry
    /\ start' = start \ {r}
    /\ UNCHANGED <<conf, ready, net, links, conn, mu, push, copies>>

\* The last line of runWSClient.
Register ==
    /\ start = {}
    /\ ~ready
    /\ ready' = TRUE
    /\ UNCHANGED <<conf, start, net, links, conn, mu, push, copies>>

\* The bus calls onBotPushEvent for an event the filter lets pass.
Begin(e) ==
    /\ ready
    /\ push[e] = "idle"
    /\ push' = [push EXCEPT ![e] = "waiting"]
    /\ copies' = [copies EXCEPT ![e] = 0]
    /\ UNCHANGED <<conf, start, ready, net, links, conn, mu>>

\* c.mu.Lock; with no connection to push to it is given back at once.
Acquire(e) ==
    /\ push[e] = "waiting"
    /\ mu = None
    /\ IF conn = None
       THEN push' = [push EXCEPT ![e] = "idle"] /\ UNCHANGED mu
       ELSE push' = [push EXCEPT ![e] = "writing"] /\ mu' = e
    /\ UNCHANGED <<conf, start, ready, net, links, conn, copies>>

\* conn.Write returns nil.  A link that broke may swallow what is written.
Written(e) ==
    /\ push[e] = "writing"
    /\ \/ /\ link[conn] = "up"
          /\ copies' = [copies EXCEPT ![e] = @ + 1]
          /\ carried' = carried \cup {conn}
          /\ UNCHANGED net
       \/ /\ link[conn] = "broken" /\ Fault
          /\ UNCHANGED <<remote, copies, carried>>
    /\ push' = [push EXCEPT ![e] = "idle"]
    /\ mu' = None
    /\ UNCHANGED <<conf, start, ready, role, link, greeted, reader, conn>>

\* A slip of Failed: c.mu is only unlocked after a reconnect.
FailedLocked(e) ==
    /\ push[e] = "writing"
    /\ link[conn] # "up"
    /\ link' = [link EXCEPT ![conn] = "closed"]
    /\ push' = [push EXCEPT ![e] = IF conf.retry THEN "dialing" ELSE "idle"]
    /\ UNCHANGED <<conf, start, ready, net, role, greeted, carried, reader, conn,
                   mu, copies>>

\* conn.Write fails, or its 15 seconds are over, which says nothing of what
\* the remote got: the connection is closed and, if configured, made anew.
Failed(e) ==
    /\ push[e] = "writing"
    /\ \/ link[conn] # "up" /\ UNCHANGED <<net, copies, carried>>
       \/ /\ link[conn] = "up" /\ Fault
          /\ \E n \in {0, 1} : copies' = [copies EXCEPT ![e] = @ + n]
          /\ carried' \in {carried, carried \cup {conn}}
          /\ UNCHANGED remote
    /\ link' = [link EXCEPT ![conn] = "closed"]
    /\ IF conf.retry
       THEN push' = [push EXCEPT ![e] = "dialing"] /\ UNCHANGED mu
       ELSE push' = [push EXCEPT ![e] = "idle"] /\ mu' = None
    /\ UNCHANGED <<conf, start, ready, role, greeted, reader, conn>>

\* A slip of Redial: the event whose push failed is pushed again.
RedialAndResend(e, c) ==
    /\ push[e] = "dialing"
    /\ Connect(role[conn], c)
    /\ reader' = [reader EXCEPT ![c] = Listener(role[conn])]
    /\ conn' = c
    /\ push' = [push EXCEPT ![e] = "writing"]
    /\ UNCHANGED <<conf, start, ready, mu, copies>>

\* reconnect() comes through, and c.mu is unlocked.  The event is not pushed
\* again.
Redial(e, c) ==
    /\ push[e] = "dialing"
    /\ Connect(role[conn], c)
    /\ reader' = [reader EXCEPT ![c] = Listener(role[conn])]
    /\ conn' = c
    /\ push' = [push EXCEPT ![e] = "idle"]
    /\ mu' = None
    /\ UNCHANGED <<conf, start, ready, copies>>

\* The roles whose listener connects again (u = false), with a slip and
\* without.
ReopensAny(r) == conf.retry
ReopensNone(r) == FALSE
Reopens(r) == conf.retry /\ r = "API"

\* listenAPI: reading fails, and the connection is closed.
HangUp(c) ==
    /\ reader[c] = "reading"
    /\ link[c] # "up"
    /\ reader' = [reader EXCEPT ![c] =
                    IF Reopens(role[c]) THEN "dialing" ELSE "ended"]
    /\ link' = [link EXCEPT ![c] = "closed"]
    /\ UNCHANGED <<conf, start, ready, net, role, greeted, carried, conn, mu,
                   push, copies>>

\* go c.connect("API", ...), started by the listener of c, comes through.
Reopen(c, d) ==
    /\ reader[c] = "dialing"
    /\ Connect(role[c], d)
    /\ reader' = [reader EXCEPT ![c] = "ended", ![d] = Listener(role[c])]
    /\ UNCHANGED <<conf, start, ready, conn, mu, push, copies>>

-----------------------------------------------------------------------------
\* The world outside: a link breaks, the remote goes down and comes back.
Break(c) ==
    /\ link[c] = "up"
    /\ Fault
    /\ link' = [link EXCEPT ![c] = "broken"]
    /\ UNCHANGED <<conf, start, ready, remote, role, greeted, carried, reader,
                   conn, mu, push, copies>>

RemoteDown ==
    /\ remote
    /\ Fault
    /\ remote' = FALSE
    /\ link' = [c \in Conns |-> IF link[c] = "up" THEN "broken" ELSE link[c]]
    /\ UNCHANGED <<conf, start, ready, role, greeted, carried, reader, conn, mu,
                   push, copies>>

RemoteUp ==
    /\ ~remote
    /\ remote' = TRUE
    /\ UNCHANGED <<conf, start, ready, faults, links, conn, mu, push, copies>>

Next ==
    \/ \E r \in Roles, c \in Conns : StartUp(r, c)
    \/ \E r \in Roles : StartWithout(r)
    \/ Register
    \/ \E e \in Events : Begin(e) \/ Acquire(e) \/ Written(e) \/ Failed(e)
    \/ \E e \in Events, c \in Conns : Redial(e, c)
    \/ \E c \in Conns : HangUp(c) \/ Break(c)
    \/ \E c, d \in Conns : Reopen(c, d)
    \/ RemoteDown \/ RemoteUp

Spec == Init /\ [][Next]_vars

(***************************************************************************)
(* The remote comes back in the end and faults are bounded; a goroutine    *)
(* that can go on does.  A Go mutex hands the lock to the goroutine that   *)
(* waited longest.  Events do not end: there is a heartbeat.               *)
(***************************************************************************)
Fairness ==
    /\ WF_vars(RemoteUp)
    /\ WF_vars(Register)
    /\ WF_vars(\E r \in Roles, c \in Conns : StartUp(r, c))
    /\ WF_vars(\E r \in Roles : StartWithout(r))
    /\ \A e \in Events :
         /\ WF_vars(Begin(e))
         /\ SF_vars(Acquire(e))
         /\ WF_vars(Written(e) \/ Failed(e))
         /\ WF_vars(\E c \in Conns : Redial(e, c))
    /\ \A c \in Conns :
         /\ WF_vars(HangUp(c))
         /\ WF_vars(\E d \in Conns : Reopen(c, d))

FairSpec == Spec /\ Fairness

-----------------------------------------------------------------------------
\* The remote gets an event at most once, also when the push that carried it
\* was reported as failed and the client reconnected.
NoDuplicate == \A e \in Events : copies[e] <= 1

\* However pushes, listeners and reconnects overlap, the remote never has two
\* connections of one role open: it would get API answers or events on one and
\* believe in the other.  On each, also when a failed push has made it, the
\* handshake is heard first, and the API can be called on those that are for it.
LinksAreSound ==
    /\ \A r \in Roles : Cardinality({c \in Conns : role[c] = r /\ link[c] = "up"}) <= 1
    /\ carried \subseteq greeted
    /\ \A c \in Conns : link[c] = "up" /\ role[c] # "Event" => reader[c] = "reading"

\* A handler does not keep the event bus waiting for ever: it gets through
\* c.mu, its write and the reconnect.
HandlersReturn == \A e \in Events : push[e] = "waiting" ~> push[e] = "idle"

\* With a reconnect interval and a heartbeat, whatever breaks, the client is in
\* the end connected in every role, though only a push notices that the event
\* connection is gone.
Reattached ==
    conf.retry =>
        \A r \in Roles :
            r \in conf.roles =>
                <>[](\E c \in Conns : role[c] = r /\ link[c] = "up")
=============================================================================
