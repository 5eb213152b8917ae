----------------------------- MODULE UpdateFeed -----------------------------
(***************************************************************************)
(* What the long-polling extension promises its HTTP clients, without its  *)
(* mutex, condition variable, goroutines and timers: events are numbered   *)
(* in the order the bot pushes them, a cursor separates the events that    *)
(* left the feed from those still in it, a pending request is handed the   *)
(* next consecutive events past the cursor, at most once, and its answer   *)
(* is what it was handed or, when it gave up, nothing.                     *)
(***************************************************************************)
EXTENDS Naturals

CONSTANT Requests

VARIABLES
    latest,    \* number of the newest event
    cursor,    \* every event up to this number has left the feed
    handed,    \* handed[r]: the events set aside for request r
    answered,  \* the requests that were answered
    answer     \* answer[r]: the events r's client was sent

feedVars == <<latest, cursor, handed, answered, answer>>

FeedInit ==
    /\ latest = 0
    /\ cursor = 0
    /\ handed = [r \in Requests |-> {}]
    /\ answered = {}
    /\ answer = [r \in Requests |-> {}]

\* A new event; the oldest ones may leave the feed unseen.
Publish ==
    /\ latest' = latest + 1
    /\ cursor' \in cursor .. latest'
    /\ UNCHANGED <<handed, answered, answer>>

\* The next events are set aside for one request that still waits for them.
Hand(r) ==
    /\ handed[r] = {}
    /\ r \notin answered
    /\ cursor' \in cursor .. latest
    /\ handed' = [handed EXCEPT ![r] = (cursor + 1) .. cursor']
    /\ UNCHANGED <<latest, answered, answer>>

\* The request is answered once, with what was set aside or with nothing.
Answer(r) ==
    /\ r \notin answered
    /\ answered' = answered \cup {r}
    /\ \E a \in {handed[r], {}} : answer' = [answer EXCEPT ![r] = a]
    /\ UNCHANGED <<latest, cursor, handed>>

FeedNext == Publish \/ \E r \in Requests : Hand(r) \/ Answer(r)

FeedSpec == FeedInit /\ [][FeedNext]_feedVars
=============================================================================
