---------------------------- MODULE LongPolling -----------------------------
(***************************************************************************)
(* The long-polling extension of the HTTP server, server/middlewares.go.   *)
(* One queue, one mutex and one condition variable are shared by the       *)
(* event-push handler and by every get_updates request.  A request is two  *)
(* goroutines: the HTTP handler, which waits for a timer or for a channel, *)
(* and a fetcher, which waits for the queue and fills the channel.  A      *)
(* sync.Once decides which of them speaks for the request.                 *)
(*                                                                         *)
(* Every critical section of the mutex runs no blocking call besides       *)
(* cond.Wait, so one section is one step: Push, FetchFirst, FetchWoken.    *)
(* Events are their push numbers.                                          *)
(***************************************************************************)
EXTENDS Naturals, Sequences, Functions, FiniteSets

CONSTANTS
    Requests,     \* the get_updates calls, each made at most once
    MaxSize,      \* max-queue-size of the configuration; 0 means no bound
    Limits,       \* the values of the "limit" parameter callers use
    Timeouts,     \* subset of BOOLEAN: may a caller set "timeout" # 0, = 0
    MaxEvents     \* bound on the events pushed

ASSUME PollingAssumption ==
    /\ MaxSize \in Nat
    /\ Limits \subseteq Nat
    /\ Timeouts \subseteq BOOLEAN
    /\ MaxEvents \in Nat

VARIABLES
    pushed,   \* number of events pushed so far
    queue,    \* queue: the list of events
    waiters,  \* the requests whose fetcher is in cond.Wait, oldest first
    handler,  \* handler[r]: where the HTTP handler of r is
    fetcher,  \* fetcher[r]: where the goroutine spawned by r is
    timed,    \* timed[r]: r passed a timeout
    limit,    \* limit[r]: the "limit" parameter of r
    once,     \* once[r]: the sync.Once of r was used
    ch,       \* ch[r]: what the channel of capacity 1 holds
    closed,   \* closed[r]: the deferred close(ch) ran
    taken,    \* taken[r]: what the fetcher of r removed from the queue
    reply     \* reply[r]: the data of the answer of r

vars == <<pushed, queue, waiters, handler, fetcher, timed, limit, once, ch,
          closed, taken, reply>>

Init ==
    /\ pushed = 0
    /\ queue = <<>>
    /\ waiters = <<>>
    /\ handler = [r \in Requests |-> "idle"]
    /\ fetcher = [r \in Requests |-> "none"]
    /\ timed = [r \in Requests |-> FALSE]
    /\ limit = [r \in Requests |-> 0]
    /\ once = [r \in Requests |-> FALSE]
    /\ ch = [r \in Requests |-> <<>>]
    /\ closed = [r \in Requests |-> FALSE]
    /\ taken = [r \in Requests |-> <<>>]
    /\ reply = [r \in Requests |-> <<>>]

-----------------------------------------------------------------------------
\* A slip of Trim: one event too many is kept.
TrimOneTooMany(q) ==
    IF MaxSize # 0 /\ Len(q) > MaxSize + 1 THEN Tail(q) ELSE q

\* "for maxSize != 0 && queue.Len() > maxSize": the oldest events go.
Trim(q) ==
    IF MaxSize # 0 /\ Len(q) > MaxSize
    THEN SubSeq(q, Len(q) - MaxSize + 1, Len(q))
    ELSE q

\* A slip of Signal: only a push onto the empty queue wakes somebody.
SignalIfEmpty ==
    IF waiters = <<>> \/ queue # <<>>
    THEN UNCHANGED <<waiters, fetcher>>
    ELSE /\ waiters' = Tail(waiters)
         /\ fetcher' = [fetcher EXCEPT ![Head(waiters)] = "woken"]

\* cond.Signal: the longest waiting fetcher, if there is one, may go on.
Signal ==
    IF waiters = <<>>
    THEN UNCHANGED <<waiters, fetcher>>
    ELSE /\ waiters' = Tail(waiters)
         /\ fetcher' = [fetcher EXCEPT ![Head(waiters)] = "woken"]

\* The handler registered with OnEventPush.
Push ==
    /\ pushed < MaxEvents
    /\ pushed' = pushed + 1
    /\ queue' = Trim(Append(queue, pushed + 1))
    /\ Signal
    /\ UNCHANGED <<handler, timed, limit, once, ch, closed, taken, reply>>

\* A client calls get_updates: the fetcher is spawned, the handler selects.
Call(r) ==
    /\ handler[r] = "idle"
    /\ handler' = [handler EXCEPT ![r] = "select"]
    /\ fetcher' = [fetcher EXCEPT ![r] = "start"]
    /\ \E t \in Timeouts : timed' = [timed EXCEPT ![r] = t]
    /\ \E l \in Limits : limit' = [limit EXCEPT ![r] = l]
    /\ UNCHANGED <<pushed, queue, waiters, once, ch, closed, taken, reply>>

\* limit <= 0 or more than there is: the whole queue.
BatchSize(r) ==
    IF limit[r] = 0 \/ Len(queue) < limit[r] THEN Len(queue) ELSE limit[r]

\* Slips of Fetch: the batch is read but stays queued; it is taken from the
\* wrong end of the list.
FetchWithoutRemove(r) ==
    /\ fetcher' = [fetcher EXCEPT ![r] = "done"]
    /\ IF once[r]
       THEN UNCHANGED <<once, ch, taken>>
       ELSE /\ once' = [once EXCEPT ![r] = TRUE]
            /\ taken' = [taken EXCEPT ![r] = SubSeq(queue, 1, BatchSize(r))]
            /\ ch' = [ch EXCEPT ![r] = Append(@, taken'[r])]
    /\ UNCHANGED <<pushed, queue, waiters, handler, timed, limit, closed,
                   reply>>

FetchFromBack(r) ==
    LET rest == Len(queue) - BatchSize(r) IN
    /\ fetcher' = [fetcher EXCEPT ![r] = "done"]
    /\ IF once[r]
       THEN UNCHANGED <<queue, once, ch, taken>>
       ELSE /\ once' = [once EXCEPT ![r] = TRUE]
            /\ taken' = [taken EXCEPT
                           ![r] = SubSeq(queue, rest + 1, Len(queue))]
            /\ queue' = SubSeq(queue, 1, rest)
            /\ ch' = [ch EXCEPT ![r] = Append(@, taken'[r])]
    /\ UNCHANGED <<pushed, waiters, handler, timed, limit, closed, reply>>

\* The body of once.Do in the fetcher, then its end.
Fetch(r) ==
    /\ fetcher' = [fetcher EXCEPT ![r] = "done"]
    /\ IF once[r]
       THEN UNCHANGED <<queue, once, ch, taken>>
       ELSE /\ once' = [once EXCEPT ![r] = TRUE]
            /\ taken' = [taken EXCEPT ![r] = SubSeq(queue, 1, BatchSize(r))]
            /\ queue' = SubSeq(queue, BatchSize(r) + 1, Len(queue))
            /\ ch' = [ch EXCEPT ![r] = Append(@, taken'[r])]
    /\ UNCHANGED <<pushed, waiters, handler, timed, limit, closed, reply>>

\* The fetcher locks for the first time and finds events.
FetchFirst(r) ==
    /\ fetcher[r] = "start"
    /\ queue # <<>>
    /\ Fetch(r)

\* The fetcher locks for the first time, finds none and waits.
Wait(r) ==
    /\ fetcher[r] = "start"
    /\ queue = <<>>
    /\ fetcher' = [fetcher EXCEPT ![r] = "wait"]
    /\ waiters' = Append(waiters, r)
    /\ UNCHANGED <<pushed, queue, handler, timed, limit, once, ch, closed,
                   taken, reply>>

\* cond.Wait returned with the mutex held; the queue is not looked at again.
FetchWoken(r) ==
    /\ fetcher[r] = "woken"
    /\ Fetch(r)

\* A slip of Expire: the timer runs for timeout = 0 too.
ExpireAlways(r) ==
    /\ handler[r] = "select"
    /\ handler' = [handler EXCEPT ![r] = "expired"]
    /\ UNCHANGED <<pushed, queue, waiters, fetcher, timed, limit, once, ch,
                   closed, taken, reply>>

\* select takes the branch of time.After, which it may do with ch ready.
Expire(r) ==
    /\ handler[r] = "select"
    /\ timed[r]
    /\ handler' = [handler EXCEPT ![r] = "expired"]
    /\ UNCHANGED <<pushed, queue, waiters, fetcher, timed, limit, once, ch,
                   closed, taken, reply>>

\* A slip of GiveUp: the once is not used up.
GiveUpWithoutOnce(r) ==
    /\ handler[r] = "expired"
    /\ handler' = [handler EXCEPT ![r] = "returned"]
    /\ closed' = [closed EXCEPT ![r] = TRUE]
    /\ UNCHANGED <<pushed, queue, waiters, fetcher, timed, limit, once, ch,
                   taken, reply>>

\* once.Do(func() {}), the empty answer and the deferred close.
GiveUp(r) ==
    /\ handler[r] = "expired"
    /\ handler' = [handler EXCEPT ![r] = "returned"]
    /\ once' = [once EXCEPT ![r] = TRUE]
    /\ closed' = [closed EXCEPT ![r] = TRUE]
    /\ UNCHANGED <<pushed, queue, waiters, fetcher, timed, limit, ch, taken,
                   reply>>

\* The channel is read: in the select, or alone when there is no timeout.
Receive(r) ==
    /\ handler[r] = "select"
    /\ ch[r] # <<>>
    /\ handler' = [handler EXCEPT ![r] = "returned"]
    /\ reply' = [reply EXCEPT ![r] = Head(ch[r])]
    /\ ch' = [ch EXCEPT ![r] = Tail(@)]
    /\ closed' = [closed EXCEPT ![r] = TRUE]
    /\ UNCHANGED <<pushed, queue, waiters, fetcher, timed, limit, once, taken>>

Serve(r) ==
    \/ FetchFirst(r) \/ Wait(r) \/ FetchWoken(r)
    \/ Expire(r) \/ GiveUp(r) \/ Receive(r)

Next ==
    \/ Push
    \/ \E r \in Requests : Call(r) \/ Serve(r)

Spec == Init /\ [][Next]_vars

(***************************************************************************)
(* The runtime schedules every goroutine that can run, gives the mutex to  *)
(* those that ask for it and fires every timer; nobody has to push or call.*)
(***************************************************************************)
Fairness ==
    \A r \in Requests :
        /\ WF_vars(FetchFirst(r) \/ Wait(r) \/ FetchWoken(r))
        /\ WF_vars(Expire(r) \/ Receive(r))
        /\ WF_vars(GiveUp(r))

FairSpec == Spec /\ Fairness
-----------------------------------------------------------------------------
Batch == Seq(1 .. MaxEvents)

TypeOK ==
    /\ pushed \in 0 .. MaxEvents
    /\ queue \in Batch
    /\ MaxSize # 0 => Len(queue) <= MaxSize
    /\ waiters \in Seq(Requests)
    /\ handler \in [Requests -> {"idle", "select", "expired", "returned"}]
    /\ fetcher \in [Requests -> {"none", "start", "wait", "woken", "done"}]
    /\ timed \in [Requests -> BOOLEAN]
    /\ limit \in [Requests -> Limits \cup {0}]
    /\ once \in [Requests -> BOOLEAN]
    /\ ch \in [Requests -> Seq(Batch)]
    /\ closed \in [Requests -> BOOLEAN]
    /\ taken \in [Requests -> Batch]
    /\ reply \in [Requests -> Batch]

\* The queue holds the newest events, in order and without a gap: overflow
\* drops the oldest ones, and a batch is cut off at the front.
QueueIsNewest ==
    queue = [i \in 1 .. Len(queue) |-> pushed - Len(queue) + i]

\* No event is handed to two requests, and none that was handed out is still
\* queued: get_updates delivers at most once.
AtMostOnce ==
    /\ \A r, s \in Requests :
         r # s => Range(taken[r]) \cap Range(taken[s]) = {}
    /\ \A r \in Requests : Range(taken[r]) \cap Range(queue) = {}

\* close(ch) runs in a deferred call while the fetcher may still be alive: a
\* send on the closed channel would panic outside any recover and end the
\* process.  The once makes sure that a fetcher that may send finds it open.
NoSendOnClosed ==
    \A r \in Requests :
        fetcher[r] \in {"start", "wait", "woken"} /\ ~once[r] => ~closed[r]

\* Every event that a fetcher took reaches the client, unless the request had
\* a timeout: then the timer may win the select although the batch is ready.
LostOnlyByTimeout ==
    \A r \in Requests :
        handler[r] = "returned" /\ reply[r] # taken[r] =>
            timed[r] /\ reply[r] = <<>>

\* Where no caller ever uses a timeout no wake-up is lost: a call that waits
\* while events are queued is answered or loses these events to another call.
WaitingServed ==
    [](\A r \in Requests : ~timed[r]) =>
        \A r \in Requests :
            fetcher[r] = "wait" /\ queue # <<>> ~>
                handler[r] = "returned" \/ queue = <<>>
-----------------------------------------------------------------------------
Feed == INSTANCE UpdateFeed WITH
    latest   <- pushed,
    cursor   <- pushed - Len(queue),
    handed   <- [r \in Requests |-> Range(taken[r])],
    answered <- {r \in Requests : handler[r] = "returned"},
    answer   <- [r \in Requests |-> Range(reply[r])]

\* The extension implements the feed: consecutive events, in order, to one
\* pending request each, answered once with all of them or with none.
ImplementsFeed == Feed!FeedSpec
=============================================================================
