---------------------------- MODULE EventProofs -----------------------------
(***************************************************************************)
(* TLAPS proofs about the way of an event through the bot.  First the bus  *)
(* that hands it to the servers, EventBus, for every set of events and     *)
(* handlers and every number of buffers.  Then the longest way behind it,  *)
(* the queue that get_updates asks, LongPolling, for every set of          *)
(* requests, queue size, limits and number of events.                      *)
(***************************************************************************)
EXTENDS EventBus, LongPolling, SequenceTheorems, TLAPS

\* A dispatch spawns one goroutine per target, and none before it runs.
Spawned ==
    \A e \in Events :
        /\ phase[e] \in {"new", "waiting"} =>
              \A h \in Handlers : run[e][h] = "none"
        /\ phase[e] \in {"running", "done"} => known[e] \subseteq targets[e]
        /\ phase[e] = "waiting" => known[e] \subseteq events
        /\ phase[e] = "done" => \A h \in targets[e] : run[e][h] = "ended"
        /\ \A h \in Handlers : run[e][h] # "none" => h \in targets[e]

\* A running event that has a buffer has it for itself.
Owned ==
    \A e \in Events :
        /\ phase[e] \in {"new", "waiting"} => buffer[e] = None
        /\ phase[e] = "running" /\ buffer[e] # None =>
              content[buffer[e]] = e /\ buffer[e] \in inUse
        /\ \A h \in Handlers : run[e][h] = "using" => buffer[e] # None

BusIInv == BusTypeOK /\ Spawned /\ Owned /\ BuffersReturned

\* The inductive invariant holds at the start.
LEMMA BusInitially == BusInit => BusIInv
<1> SUFFICES ASSUME BusInit PROVE BusIInv
  OBVIOUS
<1>1. BusTypeOK
  BY DEF BusInit, BusTypeOK
<1>2. Spawned /\ Owned
  BY DEF BusInit, Spawned, Owned
<1>3. BuffersReturned
  BY BusAssumption DEF BusInit, BuffersReturned, Readers, LargeDone
<1>4. QED
  BY <1>1, <1>2, <1>3 DEF BusIInv

\* No two running events share a buffer.
LEMMA OwnBuffers ==
    ASSUME BusIInv, NEW e \in Events, NEW f \in Events, e # f,
           phase[e] = "running", phase[f] = "running", buffer[e] # None
    PROVE  buffer[e] # buffer[f]
  BY DEF BusIInv, Owned

\* A handler that has the JSON belongs to an event that is still running.
LEMMA UsersRun ==
    ASSUME BusIInv, NEW e \in Events, NEW h \in Handlers, run[e][h] = "using"
    PROVE  phase[e] = "running" /\ buffer[e] \in Buffers
<1>1. phase[e] \in {"new", "waiting", "running", "done"}
  BY DEF BusIInv, BusTypeOK
<1>2. phase[e] \notin {"new", "waiting"}
  BY DEF BusIInv, Spawned
<1>3. phase[e] # "done"
  BY DEF BusIInv, Spawned
<1>4. buffer[e] \in Buffers
  BY DEF BusIInv, Owned, BusTypeOK
<1>5. QED
  BY <1>1, <1>2, <1>3, <1>4

\* Spawning goroutines for events that have none keeps the invariant's first
\* two parts, if the handlers known to those events are among the targets.
LEMMA SpawnKeeps ==
    ASSUME BusIInv, NEW es \in SUBSET Events, NEW hs \in SUBSET Handlers,
           Spawn(es, hs), known' \in [Events -> SUBSET Handlers],
           \A e \in Events \ es : known'[e] = known[e],
           \A e \in es : /\ phase[e] \in {"new", "waiting"}
                         /\ known'[e] \subseteq hs,
           events \subseteq events', events' \subseteq Handlers,
           adding' \in [Handlers -> {"idle", "locking", "added"}],
           UNCHANGED <<buffer, inUse, dropped, content>>
    PROVE  BusIInv'
<1>1. BusTypeOK'
  BY DEF BusIInv, BusTypeOK, Spawn
<1>2. \A e \in es : /\ phase'[e] = "running" /\ targets'[e] = hs
                    /\ \A h \in Handlers : run'[e][h] =
                         IF h \in hs THEN "begin" ELSE "none"
                    /\ buffer'[e] = None
  BY DEF BusIInv, Owned, Spawn
<1>3. \A e \in Events \ es : /\ phase'[e] = phase[e]
                             /\ targets'[e] = targets[e]
                             /\ run'[e] = run[e]
                             /\ buffer'[e] = buffer[e]
  BY DEF Spawn
<1>4. Spawned'
  BY <1>2, <1>3 DEF BusIInv, Spawned
<1>5. Owned'
  BY <1>2, <1>3 DEF BusIInv, Owned
<1>6. BuffersReturned'
  <2>1. \A e \in Events : buffer[e] # None => (e \in Readers' <=> e \in Readers)
    BY <1>2, <1>3 DEF Readers
  <2>2. {buffer[e] : e \in Readers'} \ {None}
           = {buffer[e] : e \in Readers} \ {None}
    BY <2>1 DEF Readers
  <2>3. LargeDone' = LargeDone
    BY <1>2, <1>3, BusAssumption DEF LargeDone
  <2>4. {buffer'[e] : e \in Readers'} = {buffer[e] : e \in Readers'}
    OBVIOUS
  <2>5. QED
    BY <2>2, <2>3, <2>4 DEF BusIInv, BuffersReturned
<1>7. QED
  BY <1>1, <1>4, <1>5, <1>6 DEF BusIInv

\* Every step of the bus keeps the inductive invariant.
LEMMA BusPreserved == BusIInv /\ [BusNext]_busVars => BusIInv'
<1> SUFFICES ASSUME BusIInv, [BusNext]_busVars PROVE BusIInv'
  OBVIOUS
<1> USE BusAssumption
<1>1. ASSUME NEW e \in Events, Dispatch(e) PROVE BusIInv'
  <2>1. known' = [known EXCEPT ![e] = events]
    BY <1>1 DEF Dispatch
  <2>2. CASE WriterPending
    <3>1. phase' = [phase EXCEPT ![e] = "waiting"] /\ phase[e] = "new"
      BY <1>1, <2>2 DEF Dispatch
    <3>2. UNCHANGED <<targets, run, adding, events, buffer, inUse, dropped,
                     content>>
      BY <1>1, <2>2 DEF Dispatch
    <3>3. BusTypeOK'
      BY <2>1, <3>1, <3>2 DEF BusIInv, BusTypeOK
    <3>4. Spawned'
      BY <2>1, <3>1, <3>2 DEF BusIInv, BusTypeOK, Spawned
    <3>5. Owned'
      BY <3>1, <3>2 DEF BusIInv, BusTypeOK, Owned
    <3>6. BuffersReturned'
      <4>1. Readers' = Readers /\ LargeDone' = LargeDone
        BY <3>1 DEF Readers, LargeDone, BusIInv, BusTypeOK
      <4>2. QED
        BY <3>2, <4>1 DEF BusIInv, BuffersReturned
    <3>7. QED
      BY <3>3, <3>4, <3>5, <3>6 DEF BusIInv
  <2>3. CASE ~WriterPending
    <3>1. Spawn({e}, events) /\ phase[e] = "new"
      BY <1>1, <2>3 DEF Dispatch
    <3>2. UNCHANGED <<adding, events, buffer, inUse, dropped, content>>
      BY <1>1 DEF Dispatch
    <3>3. known' \in [Events -> SUBSET Handlers] /\ known'[e] = events
      BY <2>1 DEF BusIInv, BusTypeOK
    <3>4. \A f \in Events \ {e} : known'[f] = known[f]
      BY <2>1 DEF BusIInv, BusTypeOK
    <3>5. events \in SUBSET Handlers
          /\ adding' \in [Handlers -> {"idle", "locking", "added"}]
      BY <3>2 DEF BusIInv, BusTypeOK
    <3>6. QED
      BY <3>1, <3>2, <3>3, <3>4, <3>5, SpawnKeeps
  <2>4. QED
    BY <2>2, <2>3
<1>2. ASSUME NEW h \in Handlers, Lock(h) PROVE BusIInv'
  <2>1. BusTypeOK'
    BY <1>2 DEF Lock, BusIInv, BusTypeOK
  <2>2. Spawned' /\ Owned'
    BY <1>2 DEF Lock, BusIInv, Spawned, Owned
  <2>3. BuffersReturned'
    BY <1>2 DEF Lock, BusIInv, BuffersReturned, Readers, LargeDone
  <2>4. QED
    BY <2>1, <2>2, <2>3 DEF BusIInv
<1>3. ASSUME NEW h \in Handlers, Register(h) PROVE BusIInv'
  <2> DEFINE es == {e \in Events : phase[e] = "waiting"}
  <2>1. /\ Spawn(es, events')
        /\ events' = events \cup {h}
        /\ adding' = [adding EXCEPT ![h] = "added"]
        /\ UNCHANGED <<known, buffer, inUse, dropped, content>>
    BY <1>3 DEF Register
  <2>2. \A e \in es : phase[e] \in {"new", "waiting"} /\ known'[e] \subseteq events'
    BY <2>1 DEF BusIInv, Spawned
  <2>3. /\ known' \in [Events -> SUBSET Handlers]
        /\ events' \in SUBSET Handlers
        /\ adding' \in [Handlers -> {"idle", "locking", "added"}]
    BY <2>1 DEF BusIInv, BusTypeOK
  <2>4. \A e \in Events \ es : known'[e] = known[e]
    BY <2>1
  <2>5. es \in SUBSET Events
    OBVIOUS
  <2>6. QED
    BY <2>1, <2>2, <2>3, <2>4, <2>5, SpawnKeeps
<1>4. ASSUME NEW e \in Events, NEW h \in Handlers, AskForJSON(e, h)
      PROVE  BusIInv'
  <2>1. /\ run[e][h] = "begin"
        /\ run' = [run EXCEPT ![e][h] = "using"]
        /\ UNCHANGED <<phase, targets, known, adding, events, dropped>>
    BY <1>4 DEF AskForJSON
  <2>2. phase[e] = "running"
    BY <2>1 DEF BusIInv, BusTypeOK, Spawned
  <2>3. \A f \in Events, g \in Handlers :
          run'[f][g] = IF f = e /\ g = h THEN "using" ELSE run[f][g]
    BY <2>1 DEF BusIInv, BusTypeOK
  <2>4. run' \in [Events -> [Handlers -> {"none", "begin", "using", "ended"}]]
    BY <2>1 DEF BusIInv, BusTypeOK
  <2>5. Spawned'
    BY <2>1, <2>2, <2>3 DEF BusIInv, Spawned
  <2>6. CASE buffer[e] # None
    <3>1. UNCHANGED <<buffer, inUse, content>>
      BY <1>4, <2>6 DEF AskForJSON
    <3>2. BusTypeOK'
      BY <2>1, <2>4, <3>1 DEF BusIInv, BusTypeOK
    <3>3. Owned'
      BY <2>1, <2>3, <2>6, <3>1 DEF BusIInv, Owned
    <3>4. BuffersReturned'
      BY <2>1, <3>1 DEF BusIInv, BuffersReturned, Readers, LargeDone
    <3>5. QED
      BY <2>5, <3>2, <3>3, <3>4 DEF BusIInv
  <2>7. CASE buffer[e] = None
    <3>1. PICK b \in Buffers \ (inUse \cup dropped) :
            /\ buffer' = [buffer EXCEPT ![e] = b]
            /\ inUse' = inUse \cup {b}
            /\ content' = [content EXCEPT ![b] = e]
      BY <1>4, <2>7 DEF AskForJSON
    <3>2. BusTypeOK'
      BY <2>1, <2>4, <3>1 DEF BusIInv, BusTypeOK
    <3>3. /\ buffer'[e] = b /\ b # None /\ content'[b] = e /\ b \in inUse'
          /\ \A f \in Events \ {e} : buffer'[f] = buffer[f]
          /\ \A c \in Buffers \ {b} : content'[c] = content[c]
      BY <3>1 DEF BusIInv, BusTypeOK
    <3>4. Owned'
      <4>1. ASSUME NEW f \in Events, f # e, phase[f] = "running",
                   buffer[f] # None
            PROVE  content'[buffer'[f]] = f /\ buffer'[f] \in inUse'
        <5>1. content[buffer[f]] = f /\ buffer[f] \in inUse
          BY <4>1 DEF BusIInv, Owned
        <5>2. buffer[f] # b /\ buffer[f] \in Buffers
          BY <4>1, <5>1 DEF BusIInv, BusTypeOK
        <5>3. QED
          BY <3>1, <3>3, <4>1, <5>1, <5>2
      <4>2. QED
        BY <2>1, <2>2, <2>3, <3>3, <4>1 DEF BusIInv, Owned
    <3>5. BuffersReturned'
      <4>1. Readers' = Readers /\ e \in Readers
        BY <2>1, <2>2 DEF Readers
      <4>2. {buffer'[f] : f \in Readers} \ {None}
              = ({buffer[f] : f \in Readers} \ {None}) \cup {b}
        BY <2>7, <3>3, <4>1 DEF Readers
      <4>3. LargeDone' = LargeDone /\ e \notin LargeDone
        BY <2>1, <2>2 DEF LargeDone
      <4>4. {buffer'[f] : f \in LargeDone'} = {buffer[f] : f \in LargeDone}
        BY <3>3, <4>3 DEF LargeDone
      <4>5. QED
        BY <2>1, <3>1, <4>1, <4>2, <4>4 DEF BusIInv, BuffersReturned
    <3>6. QED
      BY <2>5, <3>2, <3>4, <3>5 DEF BusIInv
  <2>8. QED
    BY <2>6, <2>7
<1>5. ASSUME NEW e \in Events, NEW h \in Handlers, Leave(e, h) PROVE BusIInv'
  <2>1. /\ run[e][h] \in {"begin", "using"}
        /\ run' = [run EXCEPT ![e][h] = "ended"]
        /\ UNCHANGED <<phase, targets, known, adding, events, buffer, inUse,
                       dropped, content>>
    BY <1>5 DEF Leave
  <2>2. \A f \in Events, g \in Handlers :
          run'[f][g] = IF f = e /\ g = h THEN "ended" ELSE run[f][g]
    BY <2>1 DEF BusIInv, BusTypeOK
  <2>3. BusTypeOK'
    BY <2>1 DEF BusIInv, BusTypeOK
  <2>4. Spawned'
    BY <2>1, <2>2 DEF BusIInv, Spawned
  <2>5. Owned'
    BY <2>1, <2>2 DEF BusIInv, Owned
  <2>6. BuffersReturned'
    BY <2>1 DEF BusIInv, BuffersReturned, Readers, LargeDone
  <2>7. QED
    BY <2>3, <2>4, <2>5, <2>6 DEF BusIInv
<1>6. ASSUME NEW e \in Events, Return(e) PROVE BusIInv'
  <2>1. /\ phase[e] = "running"
        /\ \A h \in targets[e] : run[e][h] = "ended"
        /\ phase' = [phase EXCEPT ![e] = "done"]
        /\ inUse' = inUse \ {buffer[e]}
        /\ dropped' = IF e \in Large THEN dropped \cup ({buffer[e]} \ {None})
                      ELSE dropped
        /\ content' = [b \in Buffers |->
                         IF b = buffer[e] THEN None ELSE content[b]]
        /\ UNCHANGED <<targets, known, adding, events, run, buffer>>
    BY <1>6 DEF Return, PutBuffer
  <2>2. BusTypeOK'
    BY <2>1 DEF BusIInv, BusTypeOK
  <2>3. phase'[e] = "done" /\ \A f \in Events \ {e} : phase'[f] = phase[f]
    BY <2>1 DEF BusIInv, BusTypeOK
  <2>4. Spawned'
    BY <2>1, <2>3 DEF BusIInv, Spawned
  <2>5. \A f \in Events \ {e} :
          phase[f] = "running" /\ buffer[f] # None => buffer[f] # buffer[e]
    BY <2>1, OwnBuffers
  <2>6. Owned'
    <3>1. ASSUME NEW f \in Events, f # e, phase[f] = "running",
                 buffer[f] # None
          PROVE  content'[buffer[f]] = f /\ buffer[f] \in inUse'
      <4>1. buffer[f] \in Buffers /\ buffer[f] # buffer[e]
        BY <2>5, <3>1 DEF BusIInv, BusTypeOK
      <4>2. content[buffer[f]] = f /\ buffer[f] \in inUse
        BY <3>1 DEF BusIInv, Owned
      <4>3. QED
        BY <2>1, <4>1, <4>2
    <3>2. QED
      BY <2>1, <2>3, <3>1 DEF BusIInv, Owned
  <2>7. BuffersReturned'
    <3>1. Readers' = Readers \ {e}
      BY <2>3 DEF Readers
    <3>2. {buffer[f] : f \in Readers \ {e}} \ {None}
            = ({buffer[f] : f \in Readers} \ {None}) \ {buffer[e]}
      BY <2>5 DEF Readers
    <3>3. LargeDone' = IF e \in Large THEN LargeDone \cup {e} ELSE LargeDone
      BY <2>1, <2>3 DEF LargeDone
    <3>4. {buffer[f] : f \in LargeDone'} \ {None} = dropped'
      BY <2>1, <3>3 DEF BusIInv, BuffersReturned
    <3>5. inUse' \cap dropped' = {}
      BY <2>1 DEF BusIInv, BuffersReturned
    <3>6. QED
      BY <2>1, <3>1, <3>2, <3>4, <3>5 DEF BusIInv, BuffersReturned
  <2>8. QED
    BY <2>2, <2>4, <2>6, <2>7 DEF BusIInv
<1>7. CASE UNCHANGED busVars
  <2>1. BusTypeOK'
    BY <1>7 DEF busVars, BusIInv, BusTypeOK
  <2>2. Spawned' /\ Owned'
    BY <1>7 DEF busVars, BusIInv, Spawned, Owned
  <2>3. BuffersReturned'
    BY <1>7 DEF busVars, BusIInv, BuffersReturned, Readers, LargeDone
  <2>4. QED
    BY <2>1, <2>2, <2>3 DEF BusIInv
<1>8. QED
  BY <1>1, <1>2, <1>3, <1>4, <1>5, <1>6, <1>7 DEF BusNext, HandlerStep

\* The inductive invariant holds in every state.
LEMMA BusInvariance == BusSpec => []BusIInv
<1>1. QED
  BY BusInitially, BusPreserved, PTL DEF BusSpec

\* Every variable of the bus keeps its type.
THEOREM BusTypeCorrect == BusSpec => []BusTypeOK
<1>1. BusIInv => BusTypeOK
  BY DEF BusIInv
<1>2. QED
  BY <1>1, BusInvariance, PTL

\* dispatchEventMessage returns a buffer only when no handler is at it: the
\* JSON a handler reads is that of its own event.
THEOREM JSONBelongs == BusSpec => []BufferBelongs
<1>1. BusIInv => BufferBelongs
  <2> SUFFICES ASSUME BusIInv, NEW e \in Events, NEW h \in Handlers,
                      run[e][h] = "using"
               PROVE  content[buffer[e]] = e
    BY DEF BufferBelongs
  <2>1. phase[e] = "running" /\ buffer[e] # None
    BY UsersRun, BusAssumption
  <2>2. QED
    BY <2>1 DEF BusIInv, Owned
<1>2. QED
  BY <1>1, BusInvariance, PTL

\* The buffers out of the pool are those of the events being dispatched and
\* those PutBuffer found too big to keep, and no buffer is both.
THEOREM PoolBalanced == BusSpec => []BuffersReturned
<1>1. BusIInv => BuffersReturned
  BY DEF BusIInv
<1>2. QED
  BY <1>1, BusInvariance, PTL

\* An event that was dispatched went through every handler that had been
\* registered when it came.
THEOREM AllHandlersRan == BusSpec => []NoHandlerSkipped
<1>1. BusIInv => NoHandlerSkipped
  BY DEF BusIInv, Spawned, NoHandlerSkipped
<1>2. QED
  BY <1>1, BusInvariance, PTL
-----------------------------------------------------------------------------
\* What Trim keeps: a suffix, short enough.
LEMMA TrimProperties ==
    ASSUME NEW q \in Batch
    PROVE  /\ Trim(q) \in Batch
           /\ Len(Trim(q)) \in 0 .. Len(q)
           /\ MaxSize # 0 => Len(Trim(q)) <= MaxSize
           /\ \A i \in 1 .. Len(Trim(q)) :
                Trim(q)[i] = q[Len(q) - Len(Trim(q)) + i]
<1> DEFINE low == Len(q) - MaxSize + 1
           keep == SubSeq(q, low, Len(q))
<1>1. /\ Len(q) \in Nat
      /\ MaxSize \in Nat
      /\ \A i \in 1 .. Len(q) : q[i] \in 1 .. MaxEvents
  BY ElementOfSeq, LenProperties, PollingAssumption DEF Batch
<1>2. CASE MaxSize # 0 /\ Len(q) > MaxSize
  <2>1. Trim(q) = keep
    BY <1>2 DEF Trim
  <2>2. low \in Int /\ \A i \in low .. Len(q) : q[i] \in 1 .. MaxEvents
    BY <1>1, <1>2
  <2>3. /\ keep \in Batch
        /\ Len(keep) = MaxSize
        /\ \A i \in 1 .. MaxSize : keep[i] = q[low + i - 1]
    BY <1>1, <1>2, <2>2, SubSeqProperties DEF Batch
  <2>4. \A i \in 1 .. MaxSize : low + i - 1 = Len(q) - MaxSize + i
    BY <1>1
  <2> HIDE DEF low, keep
  <2>5. \A i \in 1 .. MaxSize : keep[i] = q[Len(q) - MaxSize + i]
    BY <2>3, <2>4
  <2>6. QED
    BY <1>1, <1>2, <2>1, <2>3, <2>5
<1>3. CASE ~(MaxSize # 0 /\ Len(q) > MaxSize)
  <2>1. Trim(q) = q
    BY <1>3 DEF Trim
  <2>2. QED
    BY <1>1, <1>3, <2>1
<1>4. QED
  BY <1>2, <1>3

\* A fetcher never asks for more than the queue holds.
LEMMA BatchSizeType ==
    ASSUME TypeOK, NEW r \in Requests
    PROVE  BatchSize(r) \in 0 .. Len(queue)
<1>1. Len(queue) \in Nat
  BY LenProperties DEF TypeOK, Batch
<1>2. limit[r] \in Nat
  <2>1. limit[r] \in Limits \cup {0}
    BY DEF TypeOK
  <2>2. \A l \in Limits \cup {0} : l \in Nat
    BY PollingAssumption
  <2>3. QED
    BY <2>1, <2>2
<1>3. QED
  BY <1>1, <1>2 DEF BatchSize

\* A fetcher splits the queue: what it takes and what it leaves.
LEMMA SplitQueue ==
    ASSUME TypeOK, NEW n \in 0 .. Len(queue)
    PROVE  /\ SubSeq(queue, 1, n) \in Batch
           /\ SubSeq(queue, n + 1, Len(queue)) \in Batch
           /\ Len(SubSeq(queue, 1, n)) = n
           /\ Len(SubSeq(queue, n + 1, Len(queue))) = Len(queue) - n
           /\ \A i \in 1 .. n : SubSeq(queue, 1, n)[i] = queue[i]
           /\ \A i \in 1 .. Len(queue) - n :
                SubSeq(queue, n + 1, Len(queue))[i] = queue[n + i]
<1>1. Len(queue) \in Nat /\ \A i \in 1 .. Len(queue) : queue[i] \in 1 .. MaxEvents
  BY ElementOfSeq, LenProperties DEF TypeOK, Batch
<1>2. /\ SubSeq(queue, 1, n) \in Batch
      /\ Len(SubSeq(queue, 1, n)) = n
      /\ \A i \in 1 .. n : SubSeq(queue, 1, n)[i] = queue[i]
  <2>1. \A i \in 1 .. n : queue[i] \in 1 .. MaxEvents
    BY <1>1
  <2>2. /\ SubSeq(queue, 1, n) \in Batch
        /\ Len(SubSeq(queue, 1, n)) = IF 1 <= n THEN n - 1 + 1 ELSE 0
        /\ \A i \in 1 .. n - 1 + 1 : SubSeq(queue, 1, n)[i] = queue[1 + i - 1]
    BY <1>1, <2>1, SubSeqProperties DEF Batch
  <2>3. QED
    BY <1>1, <2>2
<1>3. /\ SubSeq(queue, n + 1, Len(queue)) \in Batch
      /\ Len(SubSeq(queue, n + 1, Len(queue))) = Len(queue) - n
      /\ \A i \in 1 .. Len(queue) - n :
           SubSeq(queue, n + 1, Len(queue))[i] = queue[n + i]
  BY <1>1, SubSeqProperties DEF Batch
<1>4. QED
  BY <1>2, <1>3
-----------------------------------------------------------------------------
\* TypeOK is inductive: a batch and what is left of the queue stay sequences
\* of event numbers, and the queue never outgrows max-queue-size.
LEMMA TypeInductive == TypeOK /\ [Next]_vars => TypeOK'
<1> SUFFICES ASSUME TypeOK, [Next]_vars
             PROVE  TypeOK'
  OBVIOUS
<1> USE DEF TypeOK
<1>1. CASE Push
  <2>1. pushed + 1 \in 1 .. MaxEvents
    BY <1>1, PollingAssumption DEF Push
  <2>2. Append(queue, pushed + 1) \in Batch
    BY <2>1, AppendProperties DEF Batch
  <2>3. queue' \in Batch /\ (MaxSize # 0 => Len(queue') <= MaxSize)
    BY <1>1, <2>2, TrimProperties DEF Push
  <2>4. /\ waiters' \in Seq(Requests)
        /\ fetcher' \in [Requests -> {"none", "start", "wait", "woken", "done"}]
    <3>1. CASE waiters = <<>>
      BY <1>1, <3>1 DEF Push, Signal
    <3>2. CASE waiters # <<>>
      <4>1. Head(waiters) \in Requests /\ Tail(waiters) \in Seq(Requests)
        BY <3>2, HeadTailProperties
      <4>2. QED
        BY <1>1, <3>2, <4>1 DEF Push, Signal
    <3>3. QED
      BY <3>1, <3>2
  <2>5. QED
    BY <1>1, <2>1, <2>3, <2>4 DEF Push
<1>2. ASSUME NEW r \in Requests, Call(r)
      PROVE  TypeOK'
  <2>1. timed' \in [Requests -> BOOLEAN]
    BY <1>2, PollingAssumption DEF Call
  <2>2. limit' \in [Requests -> Limits \cup {0}]
    BY <1>2 DEF Call
  <2>3. QED
    BY <1>2, <2>1, <2>2 DEF Call
<1>3. ASSUME NEW r \in Requests, Fetch(r)
      PROVE  TypeOK'
  <2> DEFINE n == BatchSize(r)
  <2>1. n \in 0 .. Len(queue)
    BY BatchSizeType
  <2>2. Len(queue) \in Nat
    BY LenProperties DEF Batch
  <2>3. /\ SubSeq(queue, 1, n) \in Batch
        /\ SubSeq(queue, n + 1, Len(queue)) \in Batch
        /\ Len(SubSeq(queue, n + 1, Len(queue))) \in 0 .. Len(queue)
    BY <2>1, <2>2, SplitQueue
  <2>4. CASE once[r]
    BY <1>3, <2>4 DEF Fetch
  <2>5. CASE ~once[r]
    <3>1. taken' = [taken EXCEPT ![r] = SubSeq(queue, 1, n)]
      BY <1>3, <2>5 DEF Fetch
    <3>2. taken'[r] \in Batch
      BY <2>3, <3>1
    <3>3. Append(ch[r], taken'[r]) \in Seq(Batch)
      BY <3>2, AppendProperties
    <3>4. taken' \in [Requests -> Batch]
      BY <2>3, <3>1
    <3>5. ch' \in [Requests -> Seq(Batch)]
      BY <1>3, <2>5, <3>3 DEF Fetch
    <3>6. queue' \in Batch /\ (MaxSize # 0 => Len(queue') <= MaxSize)
      <4>1. queue' = SubSeq(queue, n + 1, Len(queue))
        BY <1>3, <2>5 DEF Fetch
      <4>2. queue' \in Batch /\ Len(queue') \in 0 .. Len(queue)
        BY <2>3, <4>1
      <4>3. QED
        BY <2>2, <4>2, PollingAssumption
    <3>7. QED
      BY <1>3, <2>5, <3>4, <3>5, <3>6 DEF Fetch
  <2>6. QED
    BY <2>4, <2>5
<1>4. ASSUME NEW r \in Requests, Wait(r)
      PROVE  TypeOK'
  <2>1. waiters' \in Seq(Requests)
    BY <1>4, AppendProperties DEF Wait
  <2>2. QED
    BY <1>4, <2>1 DEF Wait
<1>5. ASSUME NEW r \in Requests, Expire(r) \/ GiveUp(r)
      PROVE  TypeOK'
  BY <1>5 DEF Expire, GiveUp
<1>6. ASSUME NEW r \in Requests, Receive(r)
      PROVE  TypeOK'
  <2>1. Head(ch[r]) \in Batch /\ Tail(ch[r]) \in Seq(Batch)
    BY <1>6, HeadTailProperties DEF Receive
  <2>2. QED
    BY <1>6, <2>1 DEF Receive
<1>7. CASE UNCHANGED vars
  BY <1>7 DEF vars
<1>8. QED
  BY <1>1, <1>2, <1>3, <1>4, <1>5, <1>6, <1>7
  DEF Next, Serve, FetchFirst, FetchWoken

\* Type correctness of the extension.
THEOREM TypeCorrect == Spec => []TypeOK
<1>1. Init => TypeOK
  <2>1. <<>> \in Batch /\ <<>> \in Seq(Batch) /\ <<>> \in Seq(Requests)
        /\ Len(<<>>) = 0
    BY EmptySeq DEF Batch
  <2>2. QED
    BY <2>1, PollingAssumption DEF Init, TypeOK
<1>2. QED
  BY <1>1, TypeInductive, PTL DEF Spec
-----------------------------------------------------------------------------
(***************************************************************************)
(* The inductive invariant.  Protocol relates, for one request, its two    *)
(* goroutines, its once and its channel; Asleep says who is in cond.Wait;  *)
(* Delivered says that what was handed out has left the queue.             *)
(***************************************************************************)
Protocol(r) ==
    /\ handler[r] = "idle" => fetcher[r] = "none" /\ ~once[r]
    /\ closed[r] <=> handler[r] = "returned"
    /\ closed[r] => once[r]
    /\ ~once[r] => taken[r] = <<>> /\ ch[r] = <<>>
    /\ fetcher[r] # "done" => taken[r] = <<>> /\ ch[r] = <<>>
    /\ ch[r] # <<>> => ch[r] = <<taken[r]>>
    /\ handler[r] = "expired" => timed[r]
    /\ handler[r] # "returned" => reply[r] = <<>>
    /\ reply[r] = taken[r] \/ reply[r] = <<>>
    /\ handler[r] = "returned" /\ reply[r] # taken[r] => timed[r]

Asleep ==
    /\ \A i \in 1 .. Len(waiters) : fetcher[waiters[i]] = "wait"
    /\ \A i, j \in 1 .. Len(waiters) : waiters[i] = waiters[j] => i = j

\* The newest event that has left the queue.
Cursor == pushed - Len(queue)

Delivered ==
    /\ \A r \in Requests : Range(taken[r]) \subseteq 1 .. Cursor
    /\ \A r, s \in Requests :
         r # s => Range(taken[r]) \cap Range(taken[s]) = {}

IInv ==
    /\ TypeOK
    /\ Len(queue) <= pushed
    /\ QueueIsNewest
    /\ \A r \in Requests : Protocol(r)
    /\ Asleep
    /\ Delivered

\* A sequence in Batch that is made of consecutive numbers has them as range.
LEMMA RangeOfRun ==
    ASSUME NEW q, NEW k \in Nat, NEW n \in Nat, DOMAIN q = 1 .. n,
           \A i \in 1 .. n : q[i] = k + i
    PROVE  Range(q) = (k + 1) .. (k + n)
<1>1. \A x \in Range(q) : x \in (k + 1) .. (k + n)
  BY DEF Range
<1>2. \A x \in (k + 1) .. (k + n) : x - k \in 1 .. n /\ q[x - k] = x
  OBVIOUS
<1>3. QED
  BY <1>1, <1>2 DEF Range

\* What the step of a fetcher that owns its once does to queue and cursor: the
\* batch is the next run of events, and the queue keeps the newer ones.
LEMMA FetchEffect ==
    ASSUME TypeOK, Len(queue) <= pushed, QueueIsNewest,
           NEW r \in Requests, Fetch(r), ~once[r]
    PROVE  /\ taken' = [taken EXCEPT ![r] = taken'[r]]
           /\ ch' = [ch EXCEPT ![r] = Append(ch[r], taken'[r])]
           /\ taken'[r] \in Batch
           /\ Range(taken'[r]) = (Cursor + 1) .. Cursor'
           /\ Cursor \in Nat /\ Cursor' \in Cursor .. pushed
           /\ Len(queue') <= pushed'
           /\ QueueIsNewest'
<1> DEFINE n == BatchSize(r)
           head == SubSeq(queue, 1, n)
           rest == SubSeq(queue, n + 1, Len(queue))
<1>1. n \in 0 .. Len(queue) /\ Len(queue) \in Nat /\ pushed \in Nat
  BY BatchSizeType, LenProperties, PollingAssumption DEF TypeOK, Batch
<1>2. /\ head \in Batch /\ rest \in Batch
      /\ Len(head) = n /\ Len(rest) = Len(queue) - n
      /\ \A i \in 1 .. n : head[i] = queue[i]
      /\ \A i \in 1 .. Len(queue) - n : rest[i] = queue[n + i]
  BY <1>1, SplitQueue
<1>3. /\ taken' = [taken EXCEPT ![r] = head]
      /\ ch' = [ch EXCEPT ![r] = Append(ch[r], taken'[r])]
      /\ queue' = rest
      /\ pushed' = pushed
  BY DEF Fetch, TypeOK
<1> HIDE DEF n, head, rest
<1>4. taken'[r] = head
  BY <1>3 DEF TypeOK
<1>5. DOMAIN head = 1 .. n /\ DOMAIN rest = 1 .. Len(queue) - n
  BY <1>1, <1>2, LenProperties DEF Batch
<1>6. /\ Cursor \in Nat /\ Cursor' = Cursor + n
      /\ Cursor' \in Cursor .. pushed /\ Len(queue') <= pushed'
  <2>1. /\ Cursor = pushed - Len(queue)
        /\ Cursor' = pushed - Len(rest) /\ Len(queue') = Len(rest)
    BY <1>3 DEF Cursor
  <2>2. Len(rest) = Len(queue) - n
    BY <1>2
  <2>3. QED
    BY <1>1, <1>3, <2>1, <2>2
<1>7. \A i \in 1 .. Len(queue) : queue[i] = Cursor + i
  BY <1>1 DEF QueueIsNewest, Cursor
<1>8. Range(head) = (Cursor + 1) .. Cursor'
  <2>1. \A i \in 1 .. n : head[i] = Cursor + i
    BY <1>1, <1>2, <1>7
  <2>2. QED
    BY <1>1, <1>5, <1>6, <2>1, RangeOfRun
<1>9. QueueIsNewest'
  <2>1. \A i \in 1 .. Len(queue) - n : rest[i] = Cursor' + i
    BY <1>1, <1>2, <1>6, <1>7
  <2>2. rest = [i \in 1 .. Len(rest) |-> rest[i]]
    BY <1>2, LenProperties DEF Batch
  <2>3. \A i \in 1 .. Len(rest) : rest[i] = pushed - Len(rest) + i
    BY <1>1, <1>2, <1>3, <2>1 DEF Cursor
  <2>4. QED
    BY <1>2, <1>3, <2>2, <2>3 DEF QueueIsNewest
<1>10. QED
  BY <1>2, <1>3, <1>4, <1>6, <1>8, <1>9

\* A push appends the next number and drops from the front only.
LEMMA PushEffect ==
    ASSUME TypeOK, Len(queue) <= pushed, QueueIsNewest, Push
    PROVE  /\ Cursor \in Nat /\ Cursor' \in Cursor .. pushed'
           /\ Len(queue') <= pushed'
           /\ QueueIsNewest'
<1> DEFINE q == Append(queue, pushed + 1)
           t == Trim(q)
<1>1. pushed \in Nat /\ pushed + 1 \in 1 .. MaxEvents /\ Len(queue) \in Nat
  BY LenProperties, PollingAssumption DEF TypeOK, Batch, Push
<1>2. /\ q \in Batch /\ Len(q) = Len(queue) + 1
      /\ \A i \in 1 .. Len(queue) : q[i] = queue[i]
      /\ q[Len(queue) + 1] = pushed + 1
  BY <1>1, AppendProperties DEF Batch, TypeOK
<1>3. queue' = t /\ pushed' = pushed + 1
  BY DEF Push
<1> HIDE DEF q
<1>4. /\ t \in Batch /\ Len(t) \in 0 .. Len(q)
      /\ \A i \in 1 .. Len(t) : t[i] = q[Len(q) - Len(t) + i]
  BY <1>2, TrimProperties
<1>5. Len(t) >= Len(q) - Len(queue)
  <2>1. MaxSize \in Nat /\ (MaxSize # 0 => MaxSize >= 1)
    BY PollingAssumption
  <2>2. CASE MaxSize # 0 /\ Len(q) > MaxSize
    <3>1. Len(t) = MaxSize
      BY <1>1, <1>2, <2>1, <2>2, SubSeqProperties, ElementOfSeq DEF Trim, Batch
    <3>2. QED
      BY <1>1, <1>2, <2>1, <2>2, <3>1
  <2>3. CASE ~(MaxSize # 0 /\ Len(q) > MaxSize)
    BY <1>1, <1>2, <2>3 DEF Trim
  <2>4. QED
    BY <2>2, <2>3
<1> HIDE DEF t
<1>6. /\ Cursor \in Nat /\ Cursor' \in Cursor .. pushed'
      /\ Len(queue') <= pushed'
  BY <1>1, <1>2, <1>3, <1>4, <1>5 DEF Cursor
<1>7. \A i \in 1 .. Len(q) : q[i] = pushed + 1 - Len(q) + i
  <2>1. \A i \in 1 .. Len(queue) : queue[i] = pushed - Len(queue) + i
    BY <1>1 DEF QueueIsNewest
  <2>2. \A i \in 1 .. Len(q) : i \in 1 .. Len(queue) \/ i = Len(queue) + 1
    BY <1>1, <1>2
  <2>3. QED
    BY <1>1, <1>2, <2>1, <2>2
<1>8. \A i \in 1 .. Len(t) : t[i] = pushed' - Len(t) + i
  <2> TAKE i \in 1 .. Len(t)
  <2> DEFINE j == Len(q) - Len(t) + i
  <2>1. j \in 1 .. Len(q) /\ t[i] = q[j]
    BY <1>1, <1>2, <1>4
  <2>2. q[j] = pushed + 1 - Len(q) + j
    BY <1>7, <2>1
  <2>3. pushed + 1 - Len(q) + j = pushed' - Len(t) + i
    BY <1>1, <1>2, <1>3, <1>4
  <2>4. QED
    BY <2>1, <2>2, <2>3
<1>9. t = [i \in 1 .. Len(t) |-> t[i]]
  BY <1>4, LenProperties DEF Batch
<1>10. QED
  BY <1>3, <1>6, <1>8, <1>9 DEF QueueIsNewest
-----------------------------------------------------------------------------
\* The two goroutines of a request: who may still touch its once and channel.
LEMMA ProtocolInductive ==
    ASSUME TypeOK, Asleep, \A r \in Requests : Protocol(r), [Next]_vars
    PROVE  Asleep' /\ \A r \in Requests : Protocol(r)'
<1> USE DEF Protocol, TypeOK
<1>0. Len(waiters) \in Nat /\ \A i \in 1 .. Len(waiters) : waiters[i] \in Requests
  BY ElementOfSeq, LenProperties
<1>1. CASE Push
  <2>1. CASE waiters = <<>>
    BY <1>1, <2>1 DEF Push, Signal, Asleep
  <2>2. CASE waiters # <<>>
    <3> DEFINE h == waiters[1]
    <3>1. /\ 1 \in 1 .. Len(waiters)
          /\ Len(Tail(waiters)) = Len(waiters) - 1
          /\ \A i \in 1 .. Len(Tail(waiters)) : Tail(waiters)[i] = waiters[i + 1]
      BY <1>0, <2>2, HeadTailProperties, EmptySeq
    <3>2. Head(waiters) = h /\ h \in Requests /\ fetcher[h] = "wait"
      BY <1>0, <2>2, <3>1 DEF Asleep
    <3>3. waiters' = Tail(waiters) /\ fetcher' = [fetcher EXCEPT ![h] = "woken"]
      BY <1>1, <2>2, <3>2 DEF Push, Signal
    <3>4. Asleep'
      <4>1. \A i \in 1 .. Len(waiters') :
              /\ i + 1 \in 1 .. Len(waiters)
              /\ waiters'[i] = waiters[i + 1]
              /\ waiters'[i] \in Requests
        BY <1>0, <3>1, <3>3
      <4>2. \A i \in 1 .. Len(waiters') : waiters'[i] # h
        BY <1>0, <3>1, <4>1 DEF Asleep
      <4>3. \A i \in 1 .. Len(waiters') : fetcher'[waiters'[i]] = "wait"
        BY <3>3, <4>1, <4>2 DEF Asleep
      <4>4. \A i, j \in 1 .. Len(waiters') : waiters'[i] = waiters'[j] => i = j
        <5> SUFFICES ASSUME NEW i \in 1 .. Len(waiters'),
                            NEW j \in 1 .. Len(waiters'),
                            waiters'[i] = waiters'[j]
                     PROVE  i = j
          OBVIOUS
        <5>1. i + 1 = j + 1
          BY <4>1 DEF Asleep
        <5>2. QED
          BY <1>0, <3>1, <3>3, <5>1
      <4>5. QED
        BY <4>3, <4>4 DEF Asleep
    <3>5. \A r \in Requests : Protocol(r)'
      BY <1>1, <3>2, <3>3 DEF Push
    <3>6. QED
      BY <3>4, <3>5
  <2>3. QED
    BY <2>1, <2>2
<1>2. ASSUME NEW r \in Requests, Call(r)
      PROVE  Asleep' /\ \A s \in Requests : Protocol(s)'
  <2>1. fetcher[r] = "none"
    BY <1>2 DEF Call
  <2>2. \A i \in 1 .. Len(waiters) : waiters[i] # r
    BY <2>1 DEF Asleep
  <2>3. Asleep'
    BY <1>0, <1>2, <2>2 DEF Call, Asleep
  <2>4. QED
    BY <1>2, <2>1, <2>3 DEF Call
<1>3. ASSUME NEW r \in Requests, FetchFirst(r) \/ FetchWoken(r)
      PROVE  Asleep' /\ \A s \in Requests : Protocol(s)'
  <2>1. fetcher[r] \in {"start", "woken"} /\ Fetch(r)
    BY <1>3 DEF FetchFirst, FetchWoken
  <2>2. \A i \in 1 .. Len(waiters) : waiters[i] # r
    BY <2>1 DEF Asleep
  <2>3. Asleep'
    BY <1>0, <2>1, <2>2 DEF Fetch, Asleep
  <2>4. CASE once[r]
    BY <2>1, <2>3, <2>4 DEF Fetch
  <2>5. CASE ~once[r]
    <3>1. /\ ch[r] = <<>>
          /\ handler[r] \in {"select", "expired"} /\ ~closed[r]
      BY <2>1, <2>5
    <3>2. ch'[r] = <<taken'[r]>>
      BY <2>1, <2>5, <3>1 DEF Fetch
    <3>3. Protocol(r)'
      BY <2>1, <2>5, <3>1, <3>2 DEF Fetch
    <3>4. \A s \in Requests \ {r} : Protocol(s)'
      BY <2>1, <2>5 DEF Fetch
    <3>5. QED
      BY <2>3, <3>3, <3>4
  <2>6. QED
    BY <2>4, <2>5
<1>4. ASSUME NEW r \in Requests, Wait(r)
      PROVE  Asleep' /\ \A s \in Requests : Protocol(s)'
  <2>1. \A i \in 1 .. Len(waiters) : waiters[i] # r
    BY <1>4 DEF Wait, Asleep
  <2>2. /\ Len(waiters') = Len(waiters) + 1
        /\ \A i \in 1 .. Len(waiters) : waiters'[i] = waiters[i]
        /\ waiters'[Len(waiters) + 1] = r
    BY <1>4, AppendProperties DEF Wait
  <2>3. \A i \in 1 .. Len(waiters') : i \in 1 .. Len(waiters) \/ i = Len(waiters) + 1
    BY <1>0, <2>2
  <2>4. Asleep'
    <3> DEFINE last == Len(waiters) + 1
    <3>0. /\ \A i \in 1 .. Len(waiters') : i \in 1 .. Len(waiters) \/ i = last
          /\ \A i \in 1 .. Len(waiters) : waiters'[i] = waiters[i]
          /\ waiters'[last] = r
      BY <2>2, <2>3
    <3> HIDE DEF last
    <3>1. \A i \in 1 .. Len(waiters') : fetcher'[waiters'[i]] = "wait"
      <4>1. fetcher' = [fetcher EXCEPT ![r] = "wait"]
        BY <1>4 DEF Wait
      <4>2. \A i \in 1 .. Len(waiters) : fetcher'[waiters[i]] = "wait"
        BY <1>0, <4>1 DEF Asleep
      <4>3. fetcher'[r] = "wait"
        BY <4>1
      <4>4. QED
        BY <3>0, <4>2, <4>3
    <3>2. \A i, j \in 1 .. Len(waiters') : waiters'[i] = waiters'[j] => i = j
      <4> SUFFICES ASSUME NEW i \in 1 .. Len(waiters'),
                          NEW j \in 1 .. Len(waiters'),
                          waiters'[i] = waiters'[j]
                   PROVE  i = j
        OBVIOUS
      <4>1. CASE i \in 1 .. Len(waiters) /\ j \in 1 .. Len(waiters)
        <5>1. waiters[i] = waiters[j]
          BY <3>0, <4>1
        <5>2. QED
          BY <4>1, <5>1 DEF Asleep
      <4>2. CASE i \in 1 .. Len(waiters) /\ j = last
        BY <2>1, <3>0, <4>2
      <4>3. CASE i = last /\ j \in 1 .. Len(waiters)
        BY <2>1, <3>0, <4>3
      <4>4. CASE i = last /\ j = last
        BY <4>4
      <4>5. QED
        BY <3>0, <4>1, <4>2, <4>3, <4>4
    <3>3. QED
      BY <3>1, <3>2 DEF Asleep
  <2>5. QED
    BY <1>4, <2>4 DEF Wait
<1>5. ASSUME NEW r \in Requests, Expire(r)
      PROVE  Asleep' /\ \A s \in Requests : Protocol(s)'
  BY <1>5 DEF Expire, Asleep
<1>6. ASSUME NEW r \in Requests, GiveUp(r)
      PROVE  Asleep' /\ \A s \in Requests : Protocol(s)'
  BY <1>6 DEF GiveUp, Asleep
<1>7. ASSUME NEW r \in Requests, Receive(r)
      PROVE  Asleep' /\ \A s \in Requests : Protocol(s)'
  <2>1. ch[r] = <<taken[r]>>
    BY <1>7 DEF Receive
  <2>2. Head(ch[r]) = taken[r] /\ Tail(ch[r]) = <<>>
    BY <2>1
  <2>3. Asleep'
    BY <1>7 DEF Receive, Asleep
  <2>4. ASSUME NEW s \in Requests PROVE Protocol(s)'
    <3>1. CASE s = r
      BY <1>7, <2>1, <2>2, <3>1 DEF Receive
    <3>2. CASE s # r
      BY <1>7, <3>2 DEF Receive
    <3>3. QED
      BY <3>1, <3>2
  <2>5. QED
    BY <2>3, <2>4
<1>8. CASE UNCHANGED vars
  BY <1>8 DEF vars, Asleep
<1>9. QED
  BY <1>1, <1>2, <1>3, <1>4, <1>5, <1>6, <1>7, <1>8 DEF Next, Serve

\* What lies below a cursor lies below a later one.
LEMMA RunsGrow ==
    ASSUME NEW a \in Nat, NEW b \in Nat, a <= b, NEW S, S \subseteq 1 .. a
    PROVE  S \subseteq 1 .. b
<1>1. 1 .. a \subseteq 1 .. b
  OBVIOUS
<1>2. QED
  BY <1>1

\* Steps only move the cursor forward, and the queue stays the newest run.
LEMMA CursorMoves ==
    ASSUME IInv, [Next]_vars
    PROVE  /\ Cursor \in Nat
           /\ Cursor' \in Nat
           /\ Cursor <= Cursor'
           /\ Len(queue') <= pushed'
           /\ QueueIsNewest'
           /\ Delivered'
<1> USE DEF IInv
<1>0. Cursor \in Nat
  BY LenProperties, PollingAssumption DEF TypeOK, Batch, Cursor
<1>1. CASE Push
  <2>1. /\ Cursor' \in Cursor .. pushed' /\ pushed' \in Nat
        /\ Len(queue') <= pushed' /\ QueueIsNewest'
    BY <1>1, PushEffect, PollingAssumption DEF Push, TypeOK
  <2>2. taken' = taken
    BY <1>1 DEF Push
  <2>3. Cursor' \in Nat /\ Cursor <= Cursor'
    BY <1>0, <2>1
  <2>4. \A r \in Requests : Range(taken'[r]) \subseteq 1 .. Cursor'
    BY <1>0, <2>2, <2>3, RunsGrow DEF Delivered
  <2>5. Delivered'
    BY <2>2, <2>4 DEF Delivered
  <2>6. QED
    BY <1>0, <2>1, <2>3, <2>5
<1>2. ASSUME NEW r \in Requests, Fetch(r), ~once[r], taken[r] = <<>>
      PROVE  /\ Cursor' \in Nat /\ Cursor <= Cursor'
             /\ Len(queue') <= pushed' /\ QueueIsNewest' /\ Delivered'
  <2>1. /\ taken' = [taken EXCEPT ![r] = taken'[r]]
        /\ Range(taken'[r]) = (Cursor + 1) .. Cursor'
        /\ Cursor' \in Cursor .. pushed
        /\ Len(queue') <= pushed' /\ QueueIsNewest'
    BY <1>2, FetchEffect
  <2>2. pushed \in Nat
    BY PollingAssumption DEF TypeOK
  <2>3. \A s \in Requests \ {r} : taken'[s] = taken[s]
    BY <2>1 DEF TypeOK
  <2>4. \A s \in Requests \ {r} : Range(taken'[s]) \subseteq 1 .. Cursor
    BY <2>3 DEF Delivered
  <2>n. Cursor' \in Nat /\ Cursor <= Cursor'
    BY <1>0, <2>1, <2>2
  <2>5. \A s \in Requests : Range(taken'[s]) \subseteq 1 .. Cursor'
    <3>1. (Cursor + 1) .. Cursor' \subseteq 1 .. Cursor'
      BY <1>0, <2>n
    <3>2. \A s \in Requests \ {r} : Range(taken'[s]) \subseteq 1 .. Cursor'
      BY <1>0, <2>n, <2>4, RunsGrow
    <3>3. QED
      BY <2>1, <3>1, <3>2
  <2>6. \A s, u \in Requests :
          s # u => Range(taken'[s]) \cap Range(taken'[u]) = {}
    <3> SUFFICES ASSUME NEW s \in Requests, NEW u \in Requests, s # u
                 PROVE  Range(taken'[s]) \cap Range(taken'[u]) = {}
      OBVIOUS
    <3>0. 1 .. Cursor \cap ((Cursor + 1) .. Cursor') = {}
      BY <1>0, <2>n
    <3>1. CASE s # r /\ u # r
      <4>1. taken'[s] = taken[s] /\ taken'[u] = taken[u]
        BY <2>3, <3>1
      <4>2. Range(taken[s]) \cap Range(taken[u]) = {}
        BY DEF Delivered
      <4>3. QED
        BY <4>1, <4>2
    <3>2. CASE s = r
      BY <2>1, <2>4, <3>0, <3>2
    <3>3. CASE u = r
      BY <2>1, <2>4, <3>0, <3>3
    <3>4. QED
      BY <3>1, <3>2, <3>3
  <2>7. QED
    BY <2>1, <2>n, <2>5, <2>6 DEF Delivered
<1>3. ASSUME UNCHANGED <<pushed, queue, taken>>
      PROVE  /\ Cursor' \in Nat /\ Cursor <= Cursor'
             /\ Len(queue') <= pushed' /\ QueueIsNewest' /\ Delivered'
  <2>1. Cursor' = Cursor
    BY <1>3 DEF Cursor
  <2>2. Len(queue') <= pushed' /\ QueueIsNewest'
    BY <1>3 DEF QueueIsNewest
  <2>3. Delivered'
    BY <1>3, <2>1 DEF Delivered
  <2>4. QED
    BY <1>0, <2>1, <2>2, <2>3
<1>4. ASSUME NEW r \in Requests, FetchFirst(r) \/ FetchWoken(r)
      PROVE  /\ Cursor' \in Nat /\ Cursor <= Cursor'
             /\ Len(queue') <= pushed' /\ QueueIsNewest' /\ Delivered'
  <2>1. Fetch(r) /\ fetcher[r] # "done" /\ taken[r] = <<>>
    BY <1>4 DEF FetchFirst, FetchWoken, Protocol
  <2>2. CASE once[r]
    BY <1>3, <2>1, <2>2 DEF Fetch
  <2>3. CASE ~once[r]
    BY <1>2, <2>1, <2>3
  <2>4. QED
    BY <2>2, <2>3
<1>5. ASSUME NEW r \in Requests,
             Call(r) \/ Wait(r) \/ Expire(r) \/ GiveUp(r) \/ Receive(r)
      PROVE  UNCHANGED <<pushed, queue, taken>>
  BY <1>5 DEF Call, Wait, Expire, GiveUp, Receive
<1>6. CASE UNCHANGED vars
  BY <1>0, <1>3, <1>6 DEF vars
<1>7. QED
  <2> DEFINE Goal == /\ Cursor' \in Nat /\ Cursor <= Cursor'
                     /\ Len(queue') <= pushed' /\ QueueIsNewest' /\ Delivered'
  <2>1. CASE Push
    BY <1>1, <2>1
  <2>2. ASSUME NEW r \in Requests, Call(r) \/ Serve(r)
        PROVE  Goal
    <3>1. CASE FetchFirst(r) \/ FetchWoken(r)
      BY <1>4, <3>1
    <3>2. CASE Call(r) \/ Wait(r) \/ Expire(r) \/ GiveUp(r) \/ Receive(r)
      BY <1>3, <1>5, <3>2
    <3>3. QED
      BY <2>2, <3>1, <3>2 DEF Serve
  <2>3. CASE UNCHANGED vars
    BY <1>6, <2>3
  <2>4. Goal
    <3> HIDE DEF Goal
    <3>1. Push => Goal
      BY <2>1 DEF Goal
    <3>2. (UNCHANGED vars) => Goal
      BY <2>3 DEF Goal
    <3>3. QED
      BY <2>2, <3>1, <3>2 DEF Next
  <2>5. QED
    BY <1>0, <2>4

\* IInv is inductive.
LEMMA Invariance == Spec => []IInv
<1>1. Init => IInv
  <2> SUFFICES ASSUME Init
               PROVE  IInv
    OBVIOUS
  <2>1. TypeOK
    <3>1. /\ <<>> \in Batch /\ <<>> \in Seq(Batch) /\ <<>> \in Seq(Requests)
          /\ Len(<<>>) = 0
      BY EmptySeq DEF Batch
    <3>2. QED
      BY <3>1, PollingAssumption DEF Init, TypeOK
  <2>2. QueueIsNewest /\ Len(queue) <= pushed
    BY DEF Init, QueueIsNewest
  <2>3. (\A r \in Requests : Protocol(r)) /\ Asleep
    BY DEF Init, Protocol, Asleep
  <2>4. Delivered
    BY DEF Init, Delivered, Range
  <2>5. QED
    BY <2>1, <2>2, <2>3, <2>4 DEF IInv
<1>2. IInv /\ [Next]_vars => IInv'
  <2> SUFFICES ASSUME IInv, [Next]_vars
               PROVE  IInv'
    OBVIOUS
  <2>1. TypeOK'
    BY TypeInductive DEF IInv
  <2>2. Asleep' /\ \A r \in Requests : Protocol(r)'
    BY ProtocolInductive DEF IInv
  <2>3. Len(queue') <= pushed' /\ QueueIsNewest' /\ Delivered'
    BY CursorMoves
  <2>4. QED
    BY <2>1, <2>2, <2>3 DEF IInv
<1>3. QED
  BY <1>1, <1>2, PTL DEF Spec

\* The queue is always the newest run of events, in push order.
THEOREM NewestQueued == Spec => []QueueIsNewest
<1>1. IInv => QueueIsNewest
  BY DEF IInv
<1>2. QED
  BY <1>1, Invariance, PTL

\* get_updates hands no event out twice, whatever the interleaving.
THEOREM DeliveredOnce == Spec => []AtMostOnce
<1>1. IInv => AtMostOnce
  <2> SUFFICES ASSUME IInv
               PROVE  AtMostOnce
    OBVIOUS
  <2>1. /\ Len(queue) \in Nat /\ pushed \in Nat /\ DOMAIN queue = 1 .. Len(queue)
        /\ Len(queue) <= pushed
    BY LenProperties, PollingAssumption DEF IInv, TypeOK, Batch
  <2>2. \A i \in DOMAIN queue : queue[i] > Cursor
    BY <2>1 DEF IInv, QueueIsNewest, Cursor
  <2>3. \A r \in Requests : Range(taken[r]) \cap Range(queue) = {}
    <3> SUFFICES ASSUME NEW r \in Requests, NEW x \in Range(taken[r]),
                        x \in Range(queue)
                 PROVE  FALSE
      OBVIOUS
    <3>1. x \in 1 .. Cursor
      BY DEF IInv, Delivered
    <3>2. x > Cursor
      BY <2>2 DEF Range
    <3>3. QED
      BY <2>1, <3>1, <3>2 DEF Cursor
  <2>4. QED
    BY <2>3 DEF IInv, Delivered, AtMostOnce
<1>2. QED
  BY <1>1, Invariance, PTL

\* The once protects the deferred close: no fetcher can send on a closed
\* channel.
THEOREM SendsFindChannelOpen == Spec => []NoSendOnClosed
<1>1. IInv => NoSendOnClosed
  BY DEF IInv, Protocol, NoSendOnClosed
<1>2. QED
  BY <1>1, Invariance, PTL

\* A batch that was taken is only ever lost by a call with a timeout.
THEOREM LossNeedsTimeout == Spec => []LostOnlyByTimeout
<1>1. IInv => LostOnlyByTimeout
  BY DEF IInv, Protocol, LostOnlyByTimeout
<1>2. QED
  BY <1>1, Invariance, PTL
-----------------------------------------------------------------------------
\* Every step of the extension is a step of the feed or leaves it unchanged.
THEOREM FeedImplemented == Spec => ImplementsFeed
<1> DEFINE handed == [r \in Requests |-> Range(taken[r])]
           answered == {r \in Requests : handler[r] = "returned"}
           answer == [r \in Requests |-> Range(reply[r])]
<1>1. Init => Feed!FeedInit
  <2>1. Len(<<>>) = 0 /\ Range(<<>>) = {}
    BY DEF Range
  <2>2. ASSUME Init
        PROVE  /\ pushed = 0 /\ pushed - Len(queue) = 0
               /\ handed = [r \in Requests |-> {}] /\ answered = {}
               /\ answer = [r \in Requests |-> {}]
    <3>1. pushed - Len(queue) = 0
      <4>1. pushed = 0 /\ queue = <<>>
        BY <2>2 DEF Init
      <4>2. pushed = 0 /\ Len(queue) = 0
        BY <2>1, <4>1
      <4>3. QED
        BY <4>2
    <3>2. \A r \in Requests :
            Range(taken[r]) = {} /\ Range(reply[r]) = {} /\ handler[r] = "idle"
      BY <2>1, <2>2 DEF Init
    <3>3. pushed = 0
      BY <2>2 DEF Init
    <3>4. QED
      BY <3>1, <3>2, <3>3
  <2>3. QED
    BY <2>2 DEF Feed!FeedInit
<1>2. IInv /\ [Next]_vars => [Feed!FeedNext]_(Feed!feedVars)
  <2> SUFFICES ASSUME IInv, [Next]_vars
               PROVE  Feed!FeedNext \/ UNCHANGED Feed!feedVars
    OBVIOUS
  <2> USE DEF IInv
  <2>0. /\ Cursor \in Nat /\ Cursor' \in Nat /\ Cursor <= Cursor'
        /\ Cursor' <= pushed' /\ pushed \in Nat
    <3>1. pushed' \in Nat /\ Len(queue') \in Nat
      BY TypeInductive, LenProperties, PollingAssumption DEF TypeOK, Batch
    <3>2. QED
      BY <3>1, CursorMoves, PollingAssumption DEF TypeOK, Cursor
  <2>1. CASE Push
    <3>1. UNCHANGED <<handed, answered, answer>> /\ pushed' = pushed + 1
      BY <2>1 DEF Push
    <3>2. (pushed - Len(queue))' \in (pushed - Len(queue)) .. pushed'
      BY <2>0, <3>1 DEF Cursor
    <3>3. Feed!Publish
      BY <3>1, <3>2 DEF Feed!Publish
    <3>4. QED
      BY <3>3 DEF Feed!FeedNext
  <2>2. ASSUME NEW r \in Requests, FetchFirst(r) \/ FetchWoken(r)
        PROVE  Feed!FeedNext \/ UNCHANGED Feed!feedVars
    <3>1. Fetch(r) /\ fetcher[r] # "done" /\ taken[r] = <<>>
      BY <2>2 DEF FetchFirst, FetchWoken, Protocol
    <3>2. UNCHANGED <<pushed, answered, answer>>
      BY <3>1 DEF Fetch
    <3>3. CASE once[r]
      <4>1. UNCHANGED <<handed, queue>>
        BY <3>1, <3>3 DEF Fetch
      <4>2. QED
        BY <3>2, <4>1 DEF Feed!feedVars
    <3>4. CASE ~once[r]
      <4>1. /\ taken' = [taken EXCEPT ![r] = taken'[r]]
            /\ Range(taken'[r]) = (Cursor + 1) .. Cursor'
        BY <3>1, <3>4, FetchEffect
      <4>2. handed[r] = {}
        BY <3>1 DEF Range
      <4>3. r \notin answered
        BY <3>4 DEF Protocol
      <4>4. handed' = [handed EXCEPT ![r] = (Cursor + 1) .. Cursor']
        BY <4>1 DEF TypeOK
      <4>5. (pushed - Len(queue))' \in (pushed - Len(queue)) .. pushed
        BY <2>0, <3>2 DEF Cursor
      <4>6. Feed!Hand(r)
        BY <3>2, <4>2, <4>3, <4>4, <4>5 DEF Feed!Hand, Cursor
      <4>7. QED
        BY <4>6 DEF Feed!FeedNext
    <3>5. QED
      BY <3>3, <3>4
  <2>3. ASSUME NEW r \in Requests, GiveUp(r) \/ Receive(r)
        PROVE  Feed!FeedNext \/ UNCHANGED Feed!feedVars
    <3>1. r \notin answered /\ answered' = answered \cup {r}
      BY <2>3 DEF GiveUp, Receive, TypeOK
    <3>2. UNCHANGED <<pushed, queue, handed>>
      BY <2>3 DEF GiveUp, Receive
    <3>3. \E a \in {handed[r], {}} : answer' = [answer EXCEPT ![r] = a]
      <4>1. CASE GiveUp(r)
        <5>1. reply[r] = <<>> /\ reply' = reply
          BY <4>1 DEF GiveUp, Protocol
        <5>2. answer[r] = {} /\ answer' = answer
          BY <5>1 DEF Range
        <5>3. answer' = [answer EXCEPT ![r] = {}]
          BY <5>2
        <5>4. QED
          BY <5>3
      <4>2. CASE Receive(r)
        <5>1. Head(ch[r]) = taken[r]
          BY <4>2 DEF Receive, Protocol
        <5>2. reply' = [reply EXCEPT ![r] = taken[r]]
          BY <4>2, <5>1 DEF Receive
        <5>3. answer' = [answer EXCEPT ![r] = handed[r]]
          BY <5>2 DEF TypeOK
        <5>4. QED
          BY <5>3
      <4>3. QED
        BY <2>3, <4>1, <4>2
    <3>4. Feed!Answer(r)
      BY <3>1, <3>2, <3>3 DEF Feed!Answer
    <3>5. QED
      BY <3>4 DEF Feed!FeedNext
  <2>4. ASSUME NEW r \in Requests, Call(r) \/ Wait(r) \/ Expire(r)
        PROVE  UNCHANGED Feed!feedVars
    <3>1. UNCHANGED <<pushed, queue, taken, reply>>
      BY <2>4 DEF Call, Wait, Expire
    <3>2. answered' = answered
      BY <2>4 DEF Call, Wait, Expire, TypeOK
    <3>3. QED
      BY <3>1, <3>2 DEF Feed!feedVars
  <2>5. CASE UNCHANGED vars
    BY <2>5 DEF vars, Feed!feedVars
  <2>6. QED
    BY <2>1, <2>2, <2>3, <2>4, <2>5 DEF Next, Serve
<1>3. QED
  BY <1>1, <1>2, Invariance, PTL DEF Spec, ImplementsFeed, Feed!FeedSpec
=============================================================================
