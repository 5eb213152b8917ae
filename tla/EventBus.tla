------------------------------ MODULE EventBus ------------------------------
(***************************************************************************)
(* The event bus of coolq/bot.go.  dispatchEventMessage runs all handlers  *)
(* of an event in parallel under the read side of a RWMutex and waits for  *)
(* them; OnEventPush adds a handler under the write side.  The JSON of an  *)
(* event is made once, by the handler that first asks for it, in a buffer  *)
(* of global/buffer.go that goes back to the pool when all are through.    *)
(*                                                                         *)
(* Events come from the client's packet goroutines and from the heartbeat, *)
(* each in a goroutine of its own.  Handlers are added by the servers,     *)
(* which start in goroutines of their own, some of them long after the     *)
(* first event.                                                            *)
(***************************************************************************)
EXTENDS FiniteSets

CONSTANTS
    Events,     \* the events dispatched
    Handlers,   \* the functions given to OnEventPush
    Raw,        \* the handlers that use RawMsg and never ask for JSON
    Large,      \* the events whose JSON makes a buffer of maxSize bytes or more
    Buffers,    \* the buffers that bufferPool.New may make
    None        \* no buffer, no content

ASSUME BusAssumption ==
    /\ IsFiniteSet(Events)
    /\ None \notin Buffers
    /\ None \notin Events
    /\ Large \subseteq Events

VARIABLES
    phase,     \* phase[e]: where dispatchEventMessage is
    targets,   \* targets[e]: bot.events as seen under the read lock
    known,     \* history: the handlers registered when e was dispatched
    adding,    \* adding[h]: where OnEventPush(h) is
    events,    \* bot.events
    run,       \* run[e][h]: where the goroutine of h for e is
    buffer,    \* buffer[e]: e.buffer
    inUse,     \* the buffers taken from the pool
    dropped,   \* the buffers that PutBuffer left to the garbage collector
    content    \* content[b]: the event whose JSON b holds

busVars ==
    <<phase, targets, known, adding, events, run, buffer, inUse, dropped,
      content>>

BusInit ==
    /\ phase = [e \in Events |-> "new"]
    /\ targets = [e \in Events |-> {}]
    /\ known = [e \in Events |-> {}]
    /\ adding = [h \in Handlers |-> "idle"]
    /\ events = {}
    /\ run = [e \in Events |-> [h \in Handlers |-> "none"]]
    /\ buffer = [e \in Events |-> None]
    /\ inUse = {}
    /\ dropped = {}
    /\ content = [b \in Buffers |-> None]

-----------------------------------------------------------------------------
\* A goroutine is in Lock: it holds off new readers and waits for the old.
WriterPending == \E h \in Handlers : adding[h] = "locking"

Readers == {e \in Events : phase[e] = "running"}

LargeDone == {e \in Large : phase[e] = "done"}

\* The goroutines of the handlers are spawned with the read lock held.
Spawn(es, hs) ==
    /\ phase' = [e \in Events |-> IF e \in es THEN "running" ELSE phase[e]]
    /\ targets' = [e \in Events |-> IF e \in es THEN hs ELSE targets[e]]
    /\ run' = [e \in Events |->
                 IF e \in es
                 THEN [h \in Handlers |-> IF h \in hs THEN "begin" ELSE "none"]
                 ELSE run[e]]

\* dispatchEventMessage: RLock at once, or behind a waiting writer.
Dispatch(e) ==
    /\ phase[e] = "new"
    /\ known' = [known EXCEPT ![e] = events]
    /\ IF WriterPending
       THEN /\ phase' = [phase EXCEPT ![e] = "waiting"]
            /\ UNCHANGED <<targets, run>>
       ELSE Spawn({e}, events)
    /\ UNCHANGED <<adding, events, buffer, inUse, dropped, content>>

\* OnEventPush: Lock, one writer at a time.
Lock(h) ==
    /\ adding[h] = "idle"
    /\ ~WriterPending
    /\ adding' = [adding EXCEPT ![h] = "locking"]
    /\ UNCHANGED <<phase, targets, known, events, run, buffer, inUse, dropped,
                   content>>

\* A slip of Register: the new list has the new handler only.
RegisterForgets(h) ==
    /\ adding[h] = "locking"
    /\ Readers = {}
    /\ adding' = [adding EXCEPT ![h] = "added"]
    /\ events' = {h}
    /\ Spawn({e \in Events : phase[e] = "waiting"}, events')
    /\ UNCHANGED <<known, buffer, inUse, dropped, content>>

\* The last reader is gone: the handler is added, and Unlock lets in all the
\* readers that had to wait.
Register(h) ==
    /\ adding[h] = "locking"
    /\ Readers = {}
    /\ adding' = [adding EXCEPT ![h] = "added"]
    /\ events' = events \cup {h}
    /\ Spawn({e \in Events : phase[e] = "waiting"}, events')
    /\ UNCHANGED <<known, buffer, inUse, dropped, content>>

\* JSONBytes or JSONString: once.Do marshals into a buffer of the pool.
AskForJSON(e, h) ==
    /\ run[e][h] = "begin"
    /\ h \notin Raw
    /\ IF buffer[e] = None
       THEN \E b \in Buffers \ (inUse \cup dropped) :
              /\ buffer' = [buffer EXCEPT ![e] = b]
              /\ inUse' = inUse \cup {b}
              /\ content' = [content EXCEPT ![b] = e]
       ELSE UNCHANGED <<buffer, inUse, content>>
    /\ run' = [run EXCEPT ![e][h] = "using"]
    /\ UNCHANGED <<phase, targets, known, adding, events, dropped>>

\* A slip of Leave: Done is not deferred, and a panic skips it.
LeaveUnlessPanic(e, h) ==
    /\ run[e][h] \in {"begin", "using"}
    /\ \E panic \in BOOLEAN :
         run' = [run EXCEPT ![e][h] = IF panic THEN "stuck" ELSE "ended"]
    /\ UNCHANGED <<phase, targets, known, adding, events, buffer, inUse,
                   dropped, content>>

\* The handler returns, filtered the event out or panics: Done is deferred.
Leave(e, h) ==
    /\ run[e][h] \in {"begin", "using"}
    /\ run' = [run EXCEPT ![e][h] = "ended"]
    /\ UNCHANGED <<phase, targets, known, adding, events, buffer, inUse,
                   dropped, content>>

\* A slip of PutBuffer: the size is not looked at.
PutBufferOfAnySize(e) ==
    /\ inUse' = inUse \ {buffer[e]}
    /\ content' = [b \in Buffers |->
                     IF b = buffer[e] THEN None ELSE content[b]]
    /\ UNCHANGED dropped

\* PutBuffer: a buffer goes back to the pool, empty, unless it has grown large.
PutBuffer(e) ==
    /\ inUse' = inUse \ {buffer[e]}
    /\ dropped' = IF e \in Large THEN dropped \cup ({buffer[e]} \ {None})
                  ELSE dropped
    /\ content' = [b \in Buffers |->
                     IF b = buffer[e] THEN None ELSE content[b]]

\* A slip of Return: it does not wait for the handlers.
ReturnEarly(e) ==
    /\ phase[e] = "running"
    /\ phase' = [phase EXCEPT ![e] = "done"]
    /\ PutBuffer(e)
    /\ UNCHANGED <<targets, known, adding, events, run, buffer>>

\* wg.Wait, PutBuffer and the deferred RUnlock.
Return(e) ==
    /\ phase[e] = "running"
    /\ \A h \in targets[e] : run[e][h] = "ended"
    /\ phase' = [phase EXCEPT ![e] = "done"]
    /\ PutBuffer(e)
    /\ UNCHANGED <<targets, known, adding, events, run, buffer>>

HandlerStep(e, h) == AskForJSON(e, h) \/ Leave(e, h)

BusNext ==
    \/ \E e \in Events : Dispatch(e) \/ Return(e)
    \/ \E h \in Handlers : Lock(h) \/ Register(h)
    \/ \E e \in Events, h \in Handlers : HandlerStep(e, h)

BusSpec == BusInit /\ [][BusNext]_busVars

(***************************************************************************)
(* Every handler that was called returns in the end: its remote answers or *)
(* its timeout fires.  The lock goes to a waiting writer once the readers  *)
(* are gone.  Nobody has to add a handler or to cause an event.            *)
(***************************************************************************)
BusFairness ==
    /\ \A e \in Events : WF_busVars(Return(e))
    /\ \A h \in Handlers : WF_busVars(Register(h))
    /\ \A e \in Events, h \in Handlers : WF_busVars(Leave(e, h))

BusFairSpec == BusSpec /\ BusFairness
-----------------------------------------------------------------------------
BusTypeOK ==
    /\ phase \in [Events -> {"new", "waiting", "running", "done"}]
    /\ targets \in [Events -> SUBSET Handlers]
    /\ known \in [Events -> SUBSET Handlers]
    /\ adding \in [Handlers -> {"idle", "locking", "added"}]
    /\ events \subseteq Handlers
    /\ run \in [Events -> [Handlers -> {"none", "begin", "using", "ended"}]]
    /\ buffer \in [Events -> Buffers \cup {None}]
    /\ inUse \subseteq Buffers
    /\ dropped \subseteq Buffers
    /\ content \in [Buffers -> Events \cup {None}]

\* A handler that looks at the JSON of an event sees that event: its buffer
\* was not recycled for another one while some handler was still at it.
BufferBelongs ==
    \A e \in Events, h \in Handlers :
        run[e][h] = "using" => content[buffer[e]] = e

\* Whatever the handlers do, a buffer that no running event has is in the pool,
\* unless a large event made it too big to keep: then no event gets it again.
BuffersReturned ==
    /\ inUse = {buffer[e] : e \in Readers} \ {None}
    /\ dropped = {buffer[e] : e \in LargeDone} \ {None}
    /\ inUse \cap dropped = {}

\* Every event reaches every handler that was registered when it came, even
\* where the dispatch waits for a registration and the list changes meanwhile.
NoHandlerSkipped ==
    \A e \in Events :
        phase[e] = "done" =>
            /\ known[e] \subseteq targets[e]
            /\ \A h \in targets[e] : run[e][h] = "ended"

\* As long as handlers return every event is dispatched and every handler gets
\* registered: readers and writers do not wait for each other in a ring.
Dispatched ==
    /\ \A e \in Events : phase[e] = "waiting" ~> phase[e] = "done"
    /\ \A h \in Handlers : adding[h] = "locking" ~> adding[h] = "added"
=============================================================================
