---------------------------- MODULE ServersProofs ----------------------------
(* Proofs about the servers that push events: every client that lives hears  *)
(* all of them in one order, and a report is handled at most once, for any   *)
(* clients, events, filters and numbers of attempts.  The heart of it is the *)
(* loop under s.mu, which writes to the clients of eventConn and moves those *)
(* that live to its front: the places before j have the event, the places    *)
(* from i on wait for it, and what is between them is left over.             *)
EXTENDS Servers, FiniteSetTheorems, FunctionTheorems, SequenceTheorems, TLAPS

WsTypes ==
    /\ conn \in [Clients -> {"none", "accepted", "greeted", "open", "closed"}]
    /\ peer \in [Clients -> {"reads", "stuck", "gone"}]
    /\ eventConn \in Seq(Clients)
    /\ mu \in Events \cup {"free"}
    /\ push \in [Events -> [at : {"new", "waits", "filtered", "writes", "done"}, i : Nat, j : Nat]]
    /\ sent \in [Clients -> Seq(Events)]
    /\ order \in Seq(Events)
    /\ since \in [Clients -> Nat]

\* The places of eventConn whose clients have all events, that of the push
\* which holds the mutex included; and those that wait for it.
Done == IF mu = "free" THEN 1..Len(eventConn) ELSE 1..(push[mu].j - 1)
Todo == IF mu = "free" THEN {} ELSE push[mu].i..Len(eventConn)
Live == Done \cup Todo

\* One push writes, and its event is the last one of the order.
Locked ==
    /\ \A e \in Events : push[e].at = "writes" <=> mu = e
    /\ \A e \in Events : push[e].at \in {"new", "waits"} => push[e].i = 1 /\ push[e].j = 1
    /\ mu # "free" => /\ 1 <= push[mu].j /\ push[mu].j <= push[mu].i
                      /\ push[mu].i <= Len(eventConn) + 1
                      /\ Len(order) > 0 /\ order[Len(order)] = mu

\* A client is listed in one place, from when it is open until it has failed.
ListedOnce ==
    /\ \A k, l \in Live : eventConn[k] = eventConn[l] => k = l
    /\ \A k \in Live : conn[eventConn[k]] \in {"open", "closed"}
    /\ \A c \in Clients : conn[c] = "open" => \E k \in Live : eventConn[k] = c

\* How many events of the order a client has seen or need not see.
Heard(c) == since[c] + Len(sent[c])

InOrder ==
    \A c \in Clients :
      /\ conn[c] \in {"none", "accepted", "greeted"} => sent[c] = <<>>
      /\ Heard(c) <= Len(order)
      /\ \A n \in 1..Len(sent[c]) : sent[c][n] = order[since[c] + n]

UpToDate ==
    /\ \A k \in Done : conn[eventConn[k]] = "open" => Heard(eventConn[k]) = Len(order)
    /\ \A k \in Todo : conn[eventConn[k]] = "open" => Heard(eventConn[k]) = Len(order) - 1

WsInv == WsTypes /\ Locked /\ ListedOnce /\ InOrder /\ UpToDate

ReportTypes ==
    /\ report \in [Events -> [at : {"new", "filtered", "tries", "lost", "answered", "operated", "broken"},
                              tries : Nat, read : BOOLEAN]]
    /\ handled \in [Events -> Nat]

\* A body that can still be sent has not been handled.
BodyOnce ==
    \A e \in Events :
      /\ handled[e] <= 1
      /\ report[e].at \in {"new", "tries"} /\ ~report[e].read => handled[e] = 0

ReportInv == ReportTypes /\ BodyOnce

----------------------------------------------------------------------------
(* Steps outside the loop. *)

\* What is done and what is to do are places of the list.
LEMMA Places ==
    ASSUME WsTypes, Locked
    PROVE  /\ Done \subseteq 1..Len(eventConn) /\ Todo \subseteq 1..Len(eventConn)
           /\ \A k \in Live : eventConn[k] \in Clients
<1>1. /\ Len(eventConn) \in Nat /\ \A k \in 1..Len(eventConn) : eventConn[k] \in Clients
      /\ mu # "free" => push[mu].i \in Nat /\ push[mu].j \in Nat
  BY DEF WsTypes
<1>2. Done \subseteq 1..Len(eventConn)
  BY <1>1 DEF Done, Locked
<1>3. Todo \subseteq 1..Len(eventConn)
  BY <1>1 DEF Todo, Locked
<1>4. QED
  BY <1>1, <1>2, <1>3 DEF Live

\* What a client has heard of is a number.
LEMMA HeardIsNat ==
    ASSUME WsTypes, NEW c \in Clients
    PROVE  /\ since[c] \in Nat /\ sent[c] \in Seq(Events) /\ Len(sent[c]) \in Nat
           /\ Heard(c) \in Nat /\ Len(order) \in Nat
BY DEF WsTypes, Heard

\* Nothing but reports, requests or rules changes.
LEMMA WsSame ==
    ASSUME WsInv, UNCHANGED wsVars
    PROVE  WsInv'
<1>1. WsTypes' /\ Locked'
  BY DEF WsInv, wsVars, WsTypes, Locked
<1>2. ListedOnce' /\ UpToDate'
  BY DEF WsInv, wsVars, ListedOnce, UpToDate, Live, Done, Todo, Heard
<1>3. InOrder'
  BY DEF WsInv, wsVars, InOrder, Heard
<1>4. QED
  BY <1>1, <1>2, <1>3 DEF WsInv

\* Connections come so far, or fail; a client that is open stays so or closes.
LEMMA ConnKeeps ==
    ASSUME WsInv, UNCHANGED <<eventConn, mu, push, sent, order, since>>,
           peer' \in [Clients -> {"reads", "stuck", "gone"}],
           conn' \in [Clients -> {"none", "accepted", "greeted", "open", "closed"}],
           \A c \in Clients :
             \/ conn'[c] = conn[c]
             \/ conn[c] \in {"none", "accepted"} /\ conn'[c] # "open"
             \/ conn[c] = "open" /\ conn'[c] = "closed"
    PROVE  WsInv'
<1>1. WsTypes' /\ Locked'
  BY DEF WsInv, WsTypes, Locked
<1>2. Done' = Done /\ Todo' = Todo /\ Live' = Live
  BY DEF Done, Todo, Live
<1>3. \A k \in Live : eventConn[k] \in Clients
  BY Places DEF WsInv
<1>4. ListedOnce'
  BY <1>2, <1>3 DEF WsInv, ListedOnce
<1>5. InOrder'
  BY DEF WsInv, InOrder, Heard, WsTypes
<1>6. \A k \in Live : conn'[eventConn[k]] = "open" => conn[eventConn[k]] = "open"
  BY <1>3 DEF WsInv, ListedOnce
<1>7. UpToDate'
  BY <1>2, <1>6 DEF WsInv, UpToDate, Heard, Live
<1>8. QED
  BY <1>1, <1>4, <1>5, <1>7 DEF WsInv

\* What clients do outside the list keeps the invariant of the list.
LEMMA ClientKeeps ==
    ASSUME WsInv, NEW c \in Clients,
           Connect(c) \/ Greet(c) \/ ListenEnds(c) \/ handleRequest(c) \/ Peer(c)
    PROVE  WsInv'
<1>1. WsTypes
  BY DEF WsInv
<1>2. UNCHANGED <<eventConn, mu, push, sent, order, since>>
  BY DEF Connect, Greet, ListenEnds, handleRequest, Peer
<1>3. CASE Connect(c) \/ Greet(c) \/ ListenEnds(c) \/ handleRequest(c)
  <2>1. /\ UNCHANGED peer
        /\ \/ conn' = conn
           \/ conn[c] = "none" /\ conn' = [conn EXCEPT ![c] = "accepted"]
           \/ conn[c] = "accepted" /\ conn' = [conn EXCEPT ![c] = "greeted"]
           \/ conn[c] = "accepted" /\ conn' = [conn EXCEPT ![c] = "closed"]
           \/ conn[c] = "open" /\ conn' = [conn EXCEPT ![c] = "closed"]
    BY <1>3 DEF Connect, Greet, ListenEnds, handleRequest
  <2>2. QED
    BY <1>1, <1>2, <2>1, ConnKeeps DEF WsTypes
<1>4. CASE Peer(c)
  <2>1. conn' = conn /\ peer' \in [Clients -> {"reads", "stuck", "gone"}]
    BY <1>1, <1>4 DEF Peer, StopReading, ReadOn, GoAway, WsTypes
  <2>2. QED
    BY <1>1, <1>2, <2>1, ConnKeeps DEF WsTypes
<1>5. QED
  BY <1>3, <1>4

\* A client is listed while no push writes, and has nothing to catch up with.
LEMMA ListKeeps ==
    ASSUME WsInv, NEW c \in Clients, List(c)
    PROVE  WsInv'
<1>1. /\ conn[c] = "greeted" /\ mu = "free" /\ mu' = "free"
      /\ eventConn' = Append(eventConn, c)
      /\ conn' = [conn EXCEPT ![c] = "open"]
      /\ since' = [since EXCEPT ![c] = Len(order)]
      /\ UNCHANGED <<peer, push, sent, order>>
  BY DEF List
<1>2. WsTypes /\ Locked /\ ListedOnce /\ InOrder /\ UpToDate
  BY DEF WsInv
<1>3. /\ eventConn \in Seq(Clients) /\ Len(eventConn) \in Nat
      /\ eventConn' \in Seq(Clients) /\ Len(eventConn') = Len(eventConn) + 1
      /\ \A k \in 1..Len(eventConn) : eventConn'[k] = eventConn[k]
      /\ eventConn'[Len(eventConn) + 1] = c
  BY <1>1, <1>2 DEF WsTypes
<1>4. WsTypes'
  BY <1>1, <1>2, <1>3 DEF WsTypes
<1>5. Locked'
  BY <1>1, <1>2 DEF Locked
<1>6. /\ Live = 1..Len(eventConn) /\ Done = Live /\ Todo = {}
      /\ Live' = 1..(Len(eventConn) + 1) /\ Done' = Live' /\ Todo' = {}
  BY <1>1, <1>3 DEF Live, Done, Todo
<1>7. \A k \in Live : eventConn[k] \in Clients /\ eventConn[k] # c
  BY <1>1, <1>2, <1>3, <1>6 DEF ListedOnce
<1>8. \A d \in Clients : d # c => conn'[d] = conn[d] /\ since'[d] = since[d]
  BY <1>1, <1>2 DEF WsTypes
<1>9. conn'[c] = "open" /\ since'[c] = Len(order) /\ sent[c] = <<>>
  BY <1>1, <1>2 DEF WsTypes, InOrder
<1>10. ListedOnce'
  <2>1. ASSUME NEW k \in Live', NEW l \in Live', eventConn'[k] = eventConn'[l] PROVE k = l
    BY <1>2, <1>3, <1>6, <1>7, <2>1 DEF ListedOnce
  <2>2. ASSUME NEW k \in Live' PROVE conn'[eventConn'[k]] \in {"open", "closed"}
    BY <1>2, <1>3, <1>6, <1>7, <1>8, <1>9 DEF ListedOnce
  <2>3. ASSUME NEW d \in Clients, conn'[d] = "open" PROVE \E k \in Live' : eventConn'[k] = d
    <3>1. CASE d = c
      BY <1>3, <1>6, <3>1
    <3>2. CASE d # c
      <4>1. PICK k \in Live : eventConn[k] = d
        BY <1>2, <1>8, <2>3, <3>2 DEF ListedOnce
      <4>2. QED
        BY <1>3, <1>6, <4>1
    <3>3. QED
      BY <3>1, <3>2
  <2>4. QED
    BY <2>1, <2>2, <2>3 DEF ListedOnce
<1>11. InOrder'
  BY <1>1, <1>2, <1>8, <1>9, HeardIsNat DEF InOrder, Heard
<1>12. UpToDate'
  <2>0. Len(order) \in Nat /\ Len(<<>>) = 0 /\ sent' = sent /\ order' = order
    BY <1>1, <1>2 DEF WsTypes
  <2>1. ASSUME NEW k \in Live', conn'[eventConn'[k]] = "open"
        PROVE  since'[eventConn'[k]] + Len(sent'[eventConn'[k]]) = Len(order')
    <3>1. CASE k = Len(eventConn) + 1
      BY <1>3, <1>9, <2>0, <3>1
    <3>2. CASE k \in 1..Len(eventConn)
      <4>1. eventConn'[k] = eventConn[k] /\ eventConn[k] \in Clients /\ eventConn[k] # c /\ k \in Done
        BY <1>3, <1>6, <1>7, <3>2
      <4>2. conn[eventConn[k]] = "open" /\ since'[eventConn[k]] = since[eventConn[k]]
        BY <1>8, <2>1, <4>1
      <4>3. since[eventConn[k]] + Len(sent[eventConn[k]]) = Len(order)
        BY <1>2, <4>1, <4>2 DEF UpToDate, Heard
      <4>4. QED
        BY <2>0, <4>1, <4>2, <4>3
    <3>3. QED
      BY <1>3, <1>6, <3>1, <3>2
  <2>2. QED
    BY <1>6, <2>1 DEF UpToDate, Heard
<1>13. QED
  BY <1>4, <1>5, <1>10, <1>11, <1>12 DEF WsInv

----------------------------------------------------------------------------
(* The loop under the mutex. *)

\* The filter's step keeps it.
LEMMA FilteredKeeps ==
    ASSUME WsInv, NEW e \in Events, Filtered(e)
    PROVE  WsInv'
<1>1. PICK at \in {"waits", "filtered"} : push' = [push EXCEPT ![e] = Push(at, 1, 1)]
  BY DEF Filtered
<1>2. push[e].at = "new" /\ UNCHANGED <<conn, peer, eventConn, mu, sent, order, since>>
  BY DEF Filtered
<1>3. WsTypes /\ Locked
  BY DEF WsInv
<1>4. /\ push'[e].at = at /\ push'[e].i = 1 /\ push'[e].j = 1
      /\ \A f \in Events : f # e => push'[f] = push[f]
  BY <1>1, <1>3 DEF WsTypes, Push
<1>5. WsTypes'
  BY <1>1, <1>2, <1>3 DEF WsTypes, Push
<1>6. mu # e /\ (mu # "free" => push'[mu] = push[mu])
  BY <1>2, <1>3, <1>4 DEF Locked, WsTypes
<1>7. Locked'
  <2>1. ASSUME NEW f \in Events PROVE push'[f].at = "writes" <=> mu' = f
    BY <1>2, <1>3, <1>4, <1>6 DEF Locked
  <2>2. ASSUME NEW f \in Events, push'[f].at \in {"new", "waits"} PROVE push'[f].i = 1 /\ push'[f].j = 1
    BY <1>3, <1>4, <2>2 DEF Locked
  <2>3. QED
    BY <1>2, <1>3, <1>6, <2>1, <2>2 DEF Locked
<1>8. Done' = Done /\ Todo' = Todo /\ Live' = Live
  BY <1>2, <1>6 DEF Done, Todo, Live
<1>9. ListedOnce' /\ InOrder' /\ UpToDate'
  BY <1>2, <1>8 DEF WsInv, ListedOnce, InOrder, UpToDate, Heard
<1>10. QED
  BY <1>5, <1>7, <1>9 DEF WsInv

\* With the mutex a push is the next event, which all that are listed wait for.
LEMMA LockKeeps ==
    ASSUME WsInv, NEW e \in Events, Lock(e)
    PROVE  WsInv'
<1>1. /\ push[e].at = "waits" /\ mu = "free" /\ mu' = e
      /\ push' = [push EXCEPT ![e].at = "writes"]
      /\ order' = Append(order, e)
      /\ UNCHANGED <<conn, peer, eventConn, sent, since>>
  BY DEF Lock
<1>2. WsTypes /\ Locked /\ ListedOnce /\ InOrder /\ UpToDate
  BY DEF WsInv
<1>3. /\ Len(order) \in Nat /\ Len(order') = Len(order) + 1 /\ order' \in Seq(Events)
      /\ \A n \in 1..Len(order) : order'[n] = order[n]
      /\ order'[Len(order')] = e
  BY <1>1, <1>2 DEF WsTypes
<1>4. /\ push'[e].at = "writes" /\ push'[e].i = 1 /\ push'[e].j = 1
      /\ \A f \in Events : f # e => push'[f] = push[f]
  BY <1>1, <1>2 DEF WsTypes, Locked
<1>5. Len(eventConn) \in Nat /\ mu' # "free"
  BY <1>1, <1>2, MutexIsFree DEF WsTypes
<1>6. WsTypes'
  BY <1>1, <1>2, <1>3 DEF WsTypes
<1>7. Locked'
  <2>1. ASSUME NEW f \in Events PROVE push'[f].at = "writes" <=> mu' = f
    BY <1>1, <1>2, <1>4, MutexIsFree DEF Locked
  <2>2. ASSUME NEW f \in Events, push'[f].at \in {"new", "waits"} PROVE push'[f].i = 1 /\ push'[f].j = 1
    BY <1>2, <1>4, <2>2 DEF Locked
  <2>3. QED
    BY <1>1, <1>3, <1>4, <1>5, <2>1, <2>2 DEF Locked
<1>8. /\ Done = 1..Len(eventConn) /\ Todo = {} /\ Live = 1..Len(eventConn)
      /\ Done' = {} /\ Todo' = 1..Len(eventConn) /\ Live' = Live
  BY <1>1, <1>4, <1>5 DEF Done, Todo, Live
<1>9. ListedOnce'
  BY <1>1, <1>2, <1>8 DEF ListedOnce
<1>10. InOrder'
  <2>1. ASSUME NEW c \in Clients
        PROVE  /\ conn[c] \in {"none", "accepted", "greeted"} => sent[c] = <<>>
               /\ since[c] + Len(sent[c]) <= Len(order')
               /\ \A n \in 1..Len(sent[c]) : sent[c][n] = order'[since[c] + n]
    <3>1. /\ since[c] \in Nat /\ Len(sent[c]) \in Nat
          /\ conn[c] \in {"none", "accepted", "greeted"} => sent[c] = <<>>
          /\ since[c] + Len(sent[c]) <= Len(order)
          /\ \A n \in 1..Len(sent[c]) : sent[c][n] = order[since[c] + n]
      BY <1>2, HeardIsNat DEF InOrder, Heard
    <3>2. \A n \in 1..Len(sent[c]) : since[c] + n \in 1..Len(order)
      BY <1>3, <3>1
    <3>3. QED
      BY <1>3, <3>1, <3>2
  <2>2. QED
    BY <1>1, <2>1 DEF InOrder, Heard
<1>11. UpToDate'
  <2>1. ASSUME NEW k \in 1..Len(eventConn), conn[eventConn[k]] = "open"
        PROVE  since[eventConn[k]] + Len(sent[eventConn[k]]) = Len(order') - 1
    BY <1>2, <1>3, <1>8, <2>1 DEF UpToDate, Heard
  <2>2. QED
    BY <1>1, <1>8, <2>1 DEF UpToDate, Heard
<1>12. QED
  BY <1>6, <1>7, <1>9, <1>10, <1>11 DEF WsInv

\* A client that fails is left behind.
LEMMA FailedKeeps ==
    ASSUME WsInv, NEW e \in Events, push[e].at = "writes", push[e].i <= Len(eventConn),
           NEW c \in Clients, c = eventConn[push[e].i], Failed(e, c),
           UNCHANGED <<peer, mu, order, since>>
    PROVE  WsInv'
<1>1. /\ conn' = [conn EXCEPT ![c] = "closed"]
      /\ push' = [push EXCEPT ![e].i = @ + 1]
      /\ UNCHANGED <<sent, eventConn>>
  BY DEF Failed
<1>2. WsTypes /\ Locked /\ ListedOnce /\ InOrder /\ UpToDate
  BY DEF WsInv
<1>3. mu = e /\ mu # "free"
  BY <1>2, MutexIsFree DEF Locked
<1> DEFINE i == push[e].i
           j == push[e].j
<1>4. /\ i \in Nat /\ j \in Nat /\ Len(eventConn) \in Nat
      /\ 1 <= j /\ j <= i /\ i <= Len(eventConn)
  BY <1>2, <1>3 DEF WsTypes, Locked
<1>5. /\ push'[e].at = "writes" /\ push'[e].i = i + 1 /\ push'[e].j = j
      /\ \A f \in Events : f # e => push'[f] = push[f]
  BY <1>1, <1>2 DEF WsTypes
<1>6. WsTypes'
  <2>1. push' \in [Events -> [at : {"new", "waits", "filtered", "writes", "done"}, i : Nat, j : Nat]]
    <3>1. push[e] \in [at : {"new", "waits", "filtered", "writes", "done"}, i : Nat, j : Nat] /\ i + 1 \in Nat
      BY <1>2, <1>4 DEF WsTypes
    <3>2. [push[e] EXCEPT !.i = i + 1] \in [at : {"new", "waits", "filtered", "writes", "done"}, i : Nat, j : Nat]
      BY <3>1
    <3>3. QED
      BY <1>1, <1>2, <3>2 DEF WsTypes
  <2>2. conn' \in [Clients -> {"none", "accepted", "greeted", "open", "closed"}]
    BY <1>1, <1>2 DEF WsTypes
  <2>3. QED
    BY <1>1, <1>2, <2>1, <2>2 DEF WsTypes
<1>7. Locked'
  <2>1. ASSUME NEW f \in Events PROVE push'[f].at = "writes" <=> mu' = f
    BY <1>2, <1>3, <1>5 DEF Locked
  <2>2. ASSUME NEW f \in Events, push'[f].at \in {"new", "waits"} PROVE push'[f].i = 1 /\ push'[f].j = 1
    BY <1>2, <1>5, <2>2 DEF Locked
  <2>3. Len(order) > 0 /\ order[Len(order)] = e
    BY <1>2, <1>3 DEF Locked
  <2>4. QED
    BY <1>1, <1>3, <1>4, <1>5, <2>1, <2>2, <2>3 DEF Locked
<1>8. /\ Done = 1..(j - 1) /\ Todo = i..Len(eventConn)
      /\ Done' = 1..(j - 1) /\ Todo' = (i + 1)..Len(eventConn)
  BY <1>1, <1>3, <1>5 DEF Done, Todo
<1>9. /\ Done' = Done /\ Todo' \subseteq Todo /\ Live' \subseteq Live
      /\ i \in Live /\ \A k \in Live : k # i => k \in Live'
  BY <1>4, <1>8 DEF Live
<1>10. \A d \in Clients : conn'[d] = IF d = c THEN "closed" ELSE conn[d]
  BY <1>1, <1>2 DEF WsTypes
<1>11. \A k \in Live : eventConn[k] \in Clients
  BY <1>2, Places
<1>12. ListedOnce'
  <2>1. \A k \in Live' : conn'[eventConn[k]] \in {"open", "closed"}
    BY <1>2, <1>9, <1>10, <1>11 DEF ListedOnce
  <2>2. ASSUME NEW d \in Clients, conn'[d] = "open" PROVE \E k \in Live' : eventConn[k] = d
    <3>1. d # c /\ conn[d] = "open"
      BY <1>10, <2>2
    <3>2. PICK k \in Live : eventConn[k] = d
      BY <1>2, <3>1 DEF ListedOnce
    <3>3. k # i
      BY <3>1, <3>2
    <3>4. QED
      BY <1>9, <3>2, <3>3
  <2>3. \A k, l \in Live' : eventConn[k] = eventConn[l] => k = l
    BY <1>2, <1>9 DEF ListedOnce
  <2>4. QED
    BY <1>1, <2>1, <2>2, <2>3 DEF ListedOnce
<1>13. InOrder'
  <2>1. \A d \in Clients : conn'[d] \in {"none", "accepted", "greeted"} => conn[d] = conn'[d]
    BY <1>10
  <2>2. QED
    BY <1>1, <1>2, <2>1 DEF InOrder, Heard
<1>14. UpToDate'
  <2>1. \A k \in Live' : conn'[eventConn[k]] = "open" => conn[eventConn[k]] = "open"
    BY <1>9, <1>10, <1>11
  <2>2. QED
    BY <1>1, <1>2, <1>9, <2>1 DEF UpToDate, Heard, Live
<1>15. QED
  BY <1>6, <1>7, <1>12, <1>13, <1>14 DEF WsInv

\* A client that is written to moves to the front, over what is left over.
LEMMA WrittenKeeps ==
    ASSUME WsInv, NEW e \in Events, push[e].at = "writes", push[e].i <= Len(eventConn),
           NEW c \in Clients, c = eventConn[push[e].i], Written(e, c),
           UNCHANGED <<peer, mu, order, since>>
    PROVE  WsInv'
<1> DEFINE i == push[e].i
           j == push[e].j
           Old(k) == IF k = j THEN i ELSE k
<1>1. /\ conn[c] = "open" /\ conn' = conn
      /\ sent' = [sent EXCEPT ![c] = Append(@, e)]
      /\ eventConn' = [eventConn EXCEPT ![j] = c]
      /\ push' = [push EXCEPT ![e].i = @ + 1, ![e].j = @ + 1]
  BY DEF Written
<1>2. WsTypes /\ Locked /\ ListedOnce /\ InOrder /\ UpToDate
  BY DEF WsInv
<1>3. mu = e /\ mu # "free"
  BY <1>2, MutexIsFree DEF Locked
<1>4. /\ i \in Nat /\ j \in Nat /\ Len(eventConn) \in Nat
      /\ 1 <= j /\ j <= i /\ i <= Len(eventConn)
  BY <1>2, <1>3 DEF WsTypes, Locked
<1>5. /\ Len(order) \in Nat /\ Len(order) > 0 /\ order[Len(order)] = e
  BY <1>2, <1>3 DEF WsTypes, Locked
<1>6. /\ push'[e].at = "writes" /\ push'[e].i = i + 1 /\ push'[e].j = j + 1
      /\ \A f \in Events : f # e => push'[f] = push[f]
  BY <1>1, <1>2 DEF WsTypes
<1>7. /\ eventConn' \in Seq(Clients) /\ Len(eventConn') = Len(eventConn)
      /\ \A k \in 1..Len(eventConn) : eventConn'[k] = eventConn[Old(k)]
  <2>1. eventConn \in Seq(Clients) /\ j \in 1..Len(eventConn)
    BY <1>2, <1>4 DEF WsTypes
  <2>2. eventConn' \in Seq(Clients) /\ Len(eventConn') = Len(eventConn)
    BY <1>1, <2>1, ExceptSeq
  <2>3. \A k \in 1..Len(eventConn) : eventConn'[k] = IF k = j THEN c ELSE eventConn[k]
    BY <1>1, <2>1, ExceptSeq
  <2>4. QED
    BY <2>2, <2>3
<1>8. /\ sent[c] \in Seq(Events) /\ Len(sent[c]) \in Nat
      /\ sent'[c] \in Seq(Events) /\ Len(sent'[c]) = Len(sent[c]) + 1
      /\ \A n \in 1..Len(sent[c]) : sent'[c][n] = sent[c][n]
      /\ sent'[c][Len(sent[c]) + 1] = e
      /\ \A d \in Clients : d # c => sent'[d] = sent[d]
  BY <1>1, <1>2 DEF WsTypes
<1>9. WsTypes'
  <2>1. push' \in [Events -> [at : {"new", "waits", "filtered", "writes", "done"}, i : Nat, j : Nat]]
    <3>1. /\ push[e] \in [at : {"new", "waits", "filtered", "writes", "done"}, i : Nat, j : Nat]
          /\ i + 1 \in Nat /\ j + 1 \in Nat
      BY <1>2, <1>4 DEF WsTypes
    <3>2. [push[e] EXCEPT !.i = i + 1, !.j = j + 1]
            \in [at : {"new", "waits", "filtered", "writes", "done"}, i : Nat, j : Nat]
      BY <3>1
    <3>3. push' = [push EXCEPT ![e] = [push[e] EXCEPT !.i = i + 1, !.j = j + 1]]
      BY <1>1, <1>2 DEF WsTypes
    <3>4. QED
      BY <1>2, <3>2, <3>3 DEF WsTypes
  <2>2. sent' \in [Clients -> Seq(Events)]
    BY <1>1, <1>2, <1>8 DEF WsTypes
  <2>3. QED
    BY <1>1, <1>2, <1>7, <2>1, <2>2 DEF WsTypes
<1>10. Locked'
  <2>1. ASSUME NEW f \in Events PROVE push'[f].at = "writes" <=> mu' = f
    BY <1>2, <1>3, <1>6 DEF Locked
  <2>2. ASSUME NEW f \in Events, push'[f].at \in {"new", "waits"} PROVE push'[f].i = 1 /\ push'[f].j = 1
    BY <1>2, <1>6, <2>2 DEF Locked
  <2>3. QED
    BY <1>3, <1>4, <1>5, <1>6, <1>7, <2>1, <2>2 DEF Locked
<1>11. /\ Done = 1..(j - 1) /\ Todo = i..Len(eventConn)
       /\ Done' = 1..j /\ Todo' = (i + 1)..Len(eventConn)
  BY <1>3, <1>4, <1>6, <1>7 DEF Done, Todo
<1>12. /\ i \in Todo /\ i \in Live /\ eventConn[i] = c
       /\ \A k \in Live' : Old(k) \in Live /\ eventConn'[k] = eventConn[Old(k)]
  BY <1>4, <1>7, <1>11 DEF Live
<1>13. \A k, l \in Live' : Old(k) = Old(l) => k = l
  BY <1>4, <1>11 DEF Live
<1>14. \A m \in Live : \E k \in Live' : Old(k) = m
  <2>1. ASSUME NEW m \in Live PROVE \E k \in Live' : Old(k) = m
    <3>1. CASE m = i
      <4>1. j \in Live' /\ Old(j) = m
        BY <1>4, <1>11, <3>1 DEF Live
      <4>2. QED
        BY <4>1
    <3>2. CASE m # i
      <4>1. m \in Live' /\ m # j
        BY <1>4, <1>11, <3>2 DEF Live
      <4>2. QED
        BY <4>1
    <3>3. QED
      BY <3>1, <3>2
  <2>2. QED
    BY <2>1
<1>15. \A k \in Live : eventConn[k] \in Clients
  BY <1>2, Places
<1> HIDE DEF Old
<1>16. ListedOnce'
  <2>1. \A k, l \in Live' : eventConn'[k] = eventConn'[l] => k = l
    BY <1>2, <1>12, <1>13 DEF ListedOnce
  <2>2. \A k \in Live' : conn[eventConn'[k]] \in {"open", "closed"}
    BY <1>2, <1>12 DEF ListedOnce
  <2>3. ASSUME NEW d \in Clients, conn[d] = "open" PROVE \E k \in Live' : eventConn'[k] = d
    <3>1. PICK m \in Live : eventConn[m] = d
      BY <1>2, <2>3 DEF ListedOnce
    <3>2. PICK k \in Live' : Old(k) = m
      BY <1>14
    <3>3. QED
      BY <1>12, <3>1, <3>2
  <2>4. QED
    BY <1>1, <2>1, <2>2, <2>3 DEF ListedOnce
<1>17. since[c] \in Nat /\ since[c] + Len(sent[c]) = Len(order) - 1
  <2>1. since[c] \in Nat
    BY <1>2 DEF WsTypes
  <2>2. Heard(c) = Len(order) - 1
    BY <1>1, <1>2, <1>12 DEF UpToDate
  <2>3. QED
    BY <2>1, <2>2 DEF Heard
<1>21. \A n \in 1..Len(sent[c]) : sent[c][n] = order[since[c] + n]
  BY <1>2 DEF InOrder
<1>22. since[c] + Len(sent'[c]) = Len(order)
  <2>1. /\ Len(sent[c]) \in Nat /\ Len(sent'[c]) = Len(sent[c]) + 1 /\ Len(order) \in Nat
    BY <1>5, <1>8
  <2>2. \A a, b, d \in Nat : a + b = d - 1 => a + (b + 1) = d
    OBVIOUS
  <2>3. since[c] \in Nat /\ Len(sent[c]) \in Nat /\ Len(order) \in Nat
    BY <1>17, <2>1
  <2>4. since[c] + Len(sent[c]) = Len(order) - 1
    BY <1>17
  <2>5. since[c] + (Len(sent[c]) + 1) = Len(order)
    BY <2>2, <2>3, <2>4
  <2>6. QED
    BY <2>1, <2>5
<1>18. InOrder'
  <2>1. ASSUME NEW d \in Clients
        PROVE  /\ conn[d] \in {"none", "accepted", "greeted"} => sent'[d] = <<>>
               /\ since[d] + Len(sent'[d]) <= Len(order)
               /\ \A n \in 1..Len(sent'[d]) : sent'[d][n] = order[since[d] + n]
    <3>1. CASE d = c
      <4>1. since[c] + Len(sent'[c]) <= Len(order)
        BY <1>5, <1>22
      <4>2. ASSUME NEW n \in 1..Len(sent'[c]) PROVE sent'[c][n] = order[since[c] + n]
        <5>1. CASE n \in 1..Len(sent[c])
          BY <1>8, <1>21, <5>1
        <5>2. CASE n = Len(sent[c]) + 1
          <6>1. n = Len(sent'[c])
            BY <1>8, <5>2
          <6>2. QED
            BY <1>5, <1>8, <1>22, <5>2, <6>1
        <5>3. n \in 1..Len(sent[c]) \/ n = Len(sent[c]) + 1
          <6>1. Len(sent[c]) \in Nat /\ n \in 1..(Len(sent[c]) + 1)
            BY <1>8
          <6>2. QED
            BY <6>1
        <5>4. QED
          BY <5>1, <5>2, <5>3
      <4>3. QED
        BY <1>1, <3>1, <4>1, <4>2
    <3>2. CASE d # c
      BY <1>2, <1>8, <3>2 DEF InOrder, Heard
    <3>3. QED
      BY <3>1, <3>2
  <2>2. QED
    BY <1>1, <2>1 DEF InOrder, Heard
<1>19. UpToDate'
  <2>1. ASSUME NEW k \in Done', conn[eventConn'[k]] = "open"
        PROVE  since[eventConn'[k]] + Len(sent'[eventConn'[k]]) = Len(order)
    <3>1. CASE k = j
      <4>1. eventConn'[k] = c
        BY <1>4, <1>7, <1>12, <3>1 DEF Old
      <4>2. QED
        BY <1>22, <4>1
    <3>2. CASE k # j
      <4>1. k \in Done /\ k \in Live /\ k # i /\ eventConn'[k] = eventConn[k]
        BY <1>4, <1>7, <1>11, <3>2 DEF Old, Live
      <4>2. eventConn[k] # c /\ eventConn[k] \in Clients
        BY <1>2, <1>12, <1>15, <4>1 DEF ListedOnce
      <4>3. since[eventConn[k]] + Len(sent[eventConn[k]]) = Len(order)
        BY <1>2, <2>1, <4>1 DEF UpToDate, Heard
      <4>4. QED
        BY <1>8, <4>1, <4>2, <4>3
    <3>3. QED
      BY <3>1, <3>2
  <2>2. ASSUME NEW k \in Todo', conn[eventConn'[k]] = "open"
        PROVE  since[eventConn'[k]] + Len(sent'[eventConn'[k]]) = Len(order) - 1
    <3>1. k \in Todo /\ k \in Live /\ k # i /\ eventConn'[k] = eventConn[k]
      BY <1>4, <1>7, <1>11 DEF Old, Live
    <3>2. eventConn[k] # c /\ eventConn[k] \in Clients
      BY <1>2, <1>12, <1>15, <3>1 DEF ListedOnce
    <3>3. since[eventConn[k]] + Len(sent[eventConn[k]]) = Len(order) - 1
      BY <1>2, <2>2, <3>1 DEF UpToDate, Heard
    <3>4. QED
      BY <1>8, <3>1, <3>2, <3>3
  <2>3. QED
    BY <1>1, <2>1, <2>2 DEF UpToDate, Heard
<1>20. QED
  BY <1>9, <1>10, <1>16, <1>18, <1>19 DEF WsInv

\* What is left over at the end of the list is cut off.
LEMMA UnlockKeeps ==
    ASSUME WsInv, NEW e \in Events, Unlock(e)
    PROVE  WsInv'
<1> DEFINE j == push[e].j
<1>1. /\ push[e].at = "writes" /\ push[e].i > Len(eventConn)
      /\ eventConn' = SubSeq(eventConn, 1, j - 1)
      /\ mu' = "free"
      /\ push' = [push EXCEPT ![e].at = "done"]
      /\ UNCHANGED <<conn, peer, sent, order, since>>
  BY DEF Unlock
<1>2. WsTypes /\ Locked /\ ListedOnce /\ InOrder /\ UpToDate
  BY DEF WsInv
<1>3. mu = e /\ mu # "free"
  BY <1>1, <1>2, MutexIsFree DEF Locked
<1>4. /\ push[e].i \in Nat /\ j \in Nat /\ Len(eventConn) \in Nat
      /\ push[e].i = Len(eventConn) + 1 /\ 1 <= j /\ j - 1 <= Len(eventConn) /\ j - 1 \in Nat
  BY <1>1, <1>2, <1>3 DEF WsTypes, Locked
<1>5. /\ eventConn' \in Seq(Clients) /\ Len(eventConn') = j - 1
      /\ \A k \in 1..(j - 1) : eventConn'[k] = eventConn[k]
  <2>1. eventConn \in Seq(Clients) /\ \A k \in 1..(j - 1) : k \in 1..Len(eventConn)
    BY <1>2, <1>4 DEF WsTypes
  <2>2. \A k \in 1..(j - 1) : eventConn[k] \in Clients
    BY <2>1
  <2>3. eventConn' = [k \in 1..(j - 1) |-> eventConn[k]]
    BY <1>1, <1>4, <2>1
  <2>4. QED
    BY <1>4, <2>2, <2>3
<1>6. /\ push'[e].at = "done"
      /\ \A f \in Events : f # e => push'[f] = push[f]
  BY <1>1, <1>2 DEF WsTypes
<1>7. WsTypes'
  BY <1>1, <1>2, <1>5 DEF WsTypes
<1>8. Locked'
  <2>1. ASSUME NEW f \in Events PROVE push'[f].at = "writes" <=> mu' = f
    BY <1>1, <1>2, <1>3, <1>6, MutexIsFree DEF Locked
  <2>2. ASSUME NEW f \in Events, push'[f].at \in {"new", "waits"} PROVE push'[f].i = 1 /\ push'[f].j = 1
    BY <1>2, <1>6, <2>2 DEF Locked
  <2>3. QED
    BY <1>1, <2>1, <2>2 DEF Locked
<1>9. /\ Done = 1..(j - 1) /\ Todo = {} /\ Live = Done
      /\ Done' = Done /\ Todo' = {} /\ Live' = Live
  <2>1. Done = 1..(j - 1) /\ Todo = {}
    BY <1>3, <1>4 DEF Done, Todo
  <2>2. Done' = 1..(j - 1) /\ Todo' = {}
    BY <1>1, <1>5 DEF Done, Todo
  <2>3. QED
    BY <2>1, <2>2 DEF Live
<1>10. \A k \in Live : eventConn'[k] = eventConn[k]
  BY <1>5, <1>9
<1>11. ListedOnce'
  <2>1. \A k, l \in Live' : eventConn'[k] = eventConn'[l] => k = l
    BY <1>2, <1>9, <1>10 DEF ListedOnce
  <2>2. \A k \in Live' : conn'[eventConn'[k]] \in {"open", "closed"}
    BY <1>1, <1>2, <1>9, <1>10 DEF ListedOnce
  <2>3. ASSUME NEW c \in Clients, conn'[c] = "open" PROVE \E k \in Live' : eventConn'[k] = c
    <3>1. PICK k \in Live : eventConn[k] = c
      BY <1>1, <1>2, <2>3 DEF ListedOnce
    <3>2. QED
      BY <1>9, <1>10, <3>1
  <2>4. QED
    BY <2>1, <2>2, <2>3 DEF ListedOnce
<1>12. InOrder'
  BY <1>1, <1>2 DEF InOrder, Heard
<1>13. UpToDate'
  BY <1>1, <1>2, <1>9, <1>10 DEF UpToDate, Heard
<1>14. QED
  BY <1>7, <1>8, <1>11, <1>12, <1>13 DEF WsInv

----------------------------------------------------------------------------
(* The invariants are inductive. *)

\* Every step of a push keeps it.
LEMMA PushingKeeps ==
    ASSUME WsInv, NEW e \in Events, Pushing(e)
    PROVE  WsInv'
<1>1. CASE Filtered(e)
  BY <1>1, FilteredKeeps
<1>2. CASE Lock(e)
  BY <1>2, LockKeeps
<1>3. CASE WriteNext(e)
  <2>1. /\ push[e].at = "writes" /\ push[e].i <= Len(eventConn)
        /\ Written(e, eventConn[push[e].i]) \/ Failed(e, eventConn[push[e].i])
        /\ UNCHANGED <<peer, mu, order, since>>
    BY <1>3 DEF WriteNext
  <2>2. WsTypes /\ Locked
    BY DEF WsInv
  <2>3. mu = e /\ mu # "free"
    BY <2>1, <2>2, MutexIsFree DEF Locked
  <2>4. push[e].i \in Nat /\ 1 <= push[e].i /\ Len(eventConn) \in Nat
    BY <2>2, <2>3 DEF WsTypes, Locked
  <2>5. eventConn[push[e].i] \in Clients
    BY <2>1, <2>2, <2>4 DEF WsTypes
  <2>6. QED
    BY <2>1, <2>5, WrittenKeeps, FailedKeeps
<1>4. CASE Unlock(e)
  BY <1>4, UnlockKeeps
<1>5. QED
  BY <1>1, <1>2, <1>3, <1>4 DEF Pushing

\* Every step of the servers keeps it.
LEMMA WsInvariance ==
    ASSUME WsInv, [Next]_vars
    PROVE  WsInv'
<1>1. CASE \E c \in Clients : Client(c)
  BY <1>1, ClientKeeps, ListKeeps DEF Client
<1>2. CASE \E e \in Events : Pushing(e)
  BY <1>2, PushingKeeps
<1>3. CASE \E e \in Reported : Reporting(e)
  BY <1>3, WsSame DEF Reporting, BeginReport, Attempt, ReadAnswer
<1>4. CASE \E method \in Methods, authorized \in BOOLEAN : ServeHTTP(method, authorized)
  BY <1>4, WsSame DEF ServeHTTP
<1>5. CASE UNCHANGED vars
  BY <1>5, WsSame DEF vars, wsVars
<1>6. QED
  BY <1>1, <1>2, <1>3, <1>4, <1>5 DEF Next

\* It holds at the start.
LEMMA WsInit ==
    ASSUME Init
    PROVE  WsInv
<1>1. WsTypes
  BY DEF Init, WsTypes, Push
<1>2. Locked
  BY MutexIsFree DEF Init, Locked, Push
<1>3. Done = {} /\ Todo = {} /\ Live = {}
  BY DEF Init, Done, Todo, Live
<1>4. ListedOnce /\ UpToDate
  BY <1>3 DEF Init, ListedOnce, UpToDate
<1>5. InOrder
  BY DEF Init, InOrder, Heard
<1>6. QED
  BY <1>1, <1>2, <1>4, <1>5 DEF WsInv

\* It holds in every state.
LEMMA WsHolds == Spec => []WsInv
<1>1. Init => WsInv
  BY WsInit
<1>2. WsInv /\ [Next]_vars => WsInv'
  BY WsInvariance
<1>3. QED
  BY <1>1, <1>2, PTL DEF Spec

\* A try takes the body along, or leaves it when it never got that far.
LEMMA AttemptKeeps ==
    ASSUME ReportInv, NEW e \in Events, Attempt(e)
    PROVE  ReportInv'
<1>1. /\ report[e] \in [at : {"new", "filtered", "tries", "lost", "answered", "operated", "broken"},
                         tries : Nat, read : BOOLEAN]
      /\ handled[e] \in Nat /\ report[e].tries + 1 \in Nat
      /\ report[e].at = "tries"
  BY DEF ReportInv, ReportTypes, Attempt
<1>2. PICK r \in [at : {"tries", "lost", "answered"}, tries : Nat, read : BOOLEAN] :
        /\ report' = [report EXCEPT ![e] = r]
        /\ \/ handled' = handled /\ (~r.read => ~report[e].read)
           \/ /\ ~report[e].read /\ handled' = [handled EXCEPT ![e] = @ + 1]
              /\ r.at = "answered" \/ r.read
  <2>1. CASE Refused(e)
    <3>1. PICK read \in {report[e].read, TRUE} : Attempted(e, read)
      BY <2>1 DEF Refused
    <3> DEFINE r == Report(IF report[e].tries + 1 = MaxAttempts THEN "lost" ELSE "tries",
                           report[e].tries + 1, read)
    <3>2. report' = [report EXCEPT ![e] = r]
      BY <3>1 DEF Attempted
    <3>3. /\ r \in [at : {"tries", "lost", "answered"}, tries : Nat, read : BOOLEAN]
          /\ r.read = read
      BY <1>1, <3>1 DEF Report
    <3>4. handled' = handled /\ (~r.read => ~report[e].read)
      BY <2>1, <3>1, <3>3 DEF Refused
    <3>5. QED
      BY <3>2, <3>3, <3>4
  <2>2. CASE Through(e) /\ report' = [report EXCEPT ![e].at = "answered"]
    <3> DEFINE r == [report[e] EXCEPT !.at = "answered"]
    <3>1. r \in [at : {"tries", "lost", "answered"}, tries : Nat, read : BOOLEAN] /\ r.at = "answered"
      BY <1>1
    <3>2. report' = [report EXCEPT ![e] = r]
      BY <2>2
    <3>3. ~report[e].read /\ handled' = [handled EXCEPT ![e] = @ + 1]
      BY <2>2 DEF Through
    <3>4. QED
      BY <3>1, <3>2, <3>3
  <2>3. CASE Through(e) /\ Attempted(e, TRUE)
    <3> DEFINE r == Report(IF report[e].tries + 1 = MaxAttempts THEN "lost" ELSE "tries",
                           report[e].tries + 1, TRUE)
    <3>1. report' = [report EXCEPT ![e] = r]
      BY <2>3 DEF Attempted
    <3>2. r \in [at : {"tries", "lost", "answered"}, tries : Nat, read : BOOLEAN] /\ r.read
      BY <1>1 DEF Report
    <3>3. ~report[e].read /\ handled' = [handled EXCEPT ![e] = @ + 1]
      BY <2>3 DEF Through
    <3>4. QED
      BY <3>1, <3>2, <3>3
  <2>4. QED
    BY <2>1, <2>2, <2>3 DEF Attempt, Through
<1>3. /\ report'[e] = r /\ \A f \in Events : f # e => report'[f] = report[f]
      /\ \A f \in Events : f # e => handled'[f] = handled[f]
      /\ handled'[e] = handled[e] \/ handled'[e] = handled[e] + 1
  BY <1>2 DEF ReportInv, ReportTypes
<1>4. ReportTypes'
  <2>1. r \in [at : {"new", "filtered", "tries", "lost", "answered", "operated", "broken"},
               tries : Nat, read : BOOLEAN]
    OBVIOUS
  <2>2. QED
    BY <1>1, <1>2, <2>1 DEF ReportInv, ReportTypes
<1>5. /\ handled'[e] <= 1
      /\ r.at \in {"new", "tries"} /\ ~r.read => handled'[e] = 0
  <2>1. handled[e] <= 1 /\ (~report[e].read => handled[e] = 0)
    BY <1>1 DEF ReportInv, BodyOnce
  <2>2. CASE handled' = handled /\ (~r.read => ~report[e].read)
    BY <2>1, <2>2
  <2>3. CASE /\ ~report[e].read /\ handled' = [handled EXCEPT ![e] = @ + 1]
             /\ r.at = "answered" \/ r.read
    <3>1. handled'[e] = 1
      BY <2>1, <2>3 DEF ReportInv, ReportTypes
    <3>2. QED
      BY <2>3, <3>1
  <2>4. QED
    BY <1>2, <2>2, <2>3
<1>6. BodyOnce'
  BY <1>3, <1>5 DEF ReportInv, BodyOnce
<1>7. QED
  BY <1>4, <1>6 DEF ReportInv

\* Every step keeps the invariant of the reports.
LEMMA ReportInvariance ==
    ASSUME ReportInv, [Next]_vars
    PROVE  ReportInv'
<1>1. CASE UNCHANGED <<report, handled>>
  BY <1>1 DEF ReportInv, ReportTypes, BodyOnce
<1>2. ASSUME NEW e \in Reported, Reporting(e) PROVE ReportInv'
  <2>0. e \in Events
    BY SomeAreReported
  <2>1. CASE Attempt(e)
    BY <2>0, <2>1, AttemptKeeps
  <2>2. ASSUME NEW at \in {"filtered", "tries", "operated", "broken"},
               report' = [report EXCEPT ![e].at = at], handled' = handled,
               at = "tries" => report[e].at = "new"
        PROVE  ReportInv'
    <3>1. /\ report'[e].at = at /\ report'[e].read = report[e].read
          /\ \A f \in Events : f # e => report'[f] = report[f]
      BY <2>0, <2>2 DEF ReportInv, ReportTypes
    <3>2. ReportTypes'
      BY <2>2 DEF ReportInv, ReportTypes
    <3>3. BodyOnce'
      BY <2>0, <2>2, <3>1 DEF ReportInv, BodyOnce
    <3>4. QED
      BY <3>2, <3>3 DEF ReportInv
  <2>3. CASE BeginReport(e)
    BY <2>2, <2>3 DEF BeginReport
  <2>4. CASE ReadAnswer(e)
    BY <2>2, <2>4 DEF ReadAnswer
  <2>5. QED
    BY <1>2, <2>1, <2>3, <2>4 DEF Reporting
<1>3. CASE \E c \in Clients : Client(c)
  BY <1>1, <1>3 DEF Client, Connect, Greet, List, ListenEnds, handleRequest, Peer
<1>4. CASE \E e \in Events : Pushing(e)
  BY <1>1, <1>4 DEF Pushing, Filtered, Lock, WriteNext, Unlock
<1>5. CASE \E method \in Methods, authorized \in BOOLEAN : ServeHTTP(method, authorized)
  BY <1>1, <1>5 DEF ServeHTTP
<1>6. CASE UNCHANGED vars
  BY <1>1, <1>6 DEF vars
<1>7. QED
  BY <1>2, <1>3, <1>4, <1>5, <1>6 DEF Next

\* It holds in every state.
LEMMA ReportHolds == Spec => []ReportInv
<1>1. Init => ReportInv
  BY DEF Init, ReportInv, ReportTypes, BodyOnce, Report
<1>2. ReportInv /\ [Next]_vars => ReportInv'
  BY ReportInvariance
<1>3. QED
  BY <1>1, <1>2, PTL DEF Spec

\* The rule that is in force is none or one that could be read.
RuleTypes ==
    /\ rule \in {<<>>} \cup {<<f>> : f \in Readable}
    /\ requests \in Nat

TypeOK == WsTypes /\ ReportTypes /\ RuleTypes

\* The rule in force is one that could be read, in every state.
LEMMA RuleHolds == Spec => []RuleTypes
<1>1. Init => RuleTypes
  BY DEF Init, RuleTypes
<1>2. ASSUME RuleTypes, [Next]_vars PROVE RuleTypes'
  <2>1. ASSUME NEW f, Add(f) PROVE rule' \in {<<>>} \cup {<<g>> : g \in Readable}
    BY <1>2, <2>1 DEF Add, RuleTypes
  <2>2. CASE \E c \in Clients : Client(c)
    <3>1. PICK c \in Clients : Client(c)
      BY <2>2
    <3>2. CASE handleRequest(c)
      BY <1>2, <2>1, <3>2 DEF handleRequest, RuleTypes
    <3>3. CASE Connect(c) \/ Greet(c) \/ List(c) \/ ListenEnds(c) \/ Peer(c)
      BY <1>2, <3>3 DEF Connect, Greet, List, ListenEnds, Peer, RuleTypes
    <3>4. QED
      BY <3>1, <3>2, <3>3 DEF Client
  <2>3. CASE \E e \in Events : Pushing(e)
    BY <1>2, <2>3 DEF Pushing, Filtered, Lock, WriteNext, Unlock, RuleTypes
  <2>4. CASE \E e \in Reported : Reporting(e)
    BY <1>2, <2>4 DEF Reporting, BeginReport, Attempt, ReadAnswer, RuleTypes
  <2>5. CASE \E method \in Methods, authorized \in BOOLEAN : ServeHTTP(method, authorized)
    <3>1. requests' = requests + 1 /\ \E f \in Reloads : Add(f)
      BY <2>5 DEF ServeHTTP
    <3>2. QED
      BY <1>2, <2>1, <3>1 DEF RuleTypes
  <2>6. CASE UNCHANGED vars
    BY <1>2, <2>6 DEF vars, RuleTypes
  <2>7. QED
    BY <1>2, <2>2, <2>3, <2>4, <2>5, <2>6 DEF Next
<1>3. QED
  BY <1>1, <1>2, PTL DEF Spec

----------------------------------------------------------------------------
(* What follows from them. *)

(* Every variable of the servers keeps its type; the rule in force is always *)
(* one that could be read, whatever files are met later (Add in              *)
(* modules/filter/middlewares.go).                                           *)
THEOREM TypeCorrect == Spec => []TypeOK
<1>1. WsInv /\ ReportInv /\ RuleTypes => TypeOK
  BY DEF WsInv, ReportInv, TypeOK
<1>2. QED
  BY <1>1, WsHolds, ReportHolds, RuleHolds, PTL

\* What has been written to a client, and what was due to it.
LEMMA SentIsDue ==
    ASSUME WsInv, NEW c \in Clients
    PROVE  /\ IsPrefix(sent[c], Due(c))
           /\ Heard(c) = Len(order) => sent[c] = Due(c)
<1>1. /\ since[c] \in Nat /\ sent[c] \in Seq(Events) /\ Len(sent[c]) \in Nat
      /\ order \in Seq(Events) /\ Len(order) \in Nat
      /\ since[c] + Len(sent[c]) <= Len(order)
      /\ \A n \in 1..Len(sent[c]) : sent[c][n] = order[since[c] + n]
  BY HeardIsNat DEF WsInv, InOrder, Heard, WsTypes
<1> DEFINE from == since[c] + 1
           n == Len(sent[c])
<1>2. /\ from \in Int /\ Len(order) \in Int /\ since[c] \in 0..Len(order)
      /\ \A k \in from..Len(order) : order[k] \in Events
  BY <1>1
<1>3. /\ Due(c) \in Seq(Events) /\ Len(Due(c)) = Len(order) - since[c]
      /\ \A k \in 1..(Len(order) - since[c]) : Due(c)[k] = order[since[c] + k]
  <2>1. /\ SubSeq(order, from, Len(order)) \in Seq(Events)
        /\ Len(SubSeq(order, from, Len(order))) = IF from <= Len(order) THEN Len(order) - from + 1 ELSE 0
        /\ \A k \in 1..(Len(order) - from + 1) : SubSeq(order, from, Len(order))[k] = order[from + k - 1]
    BY <1>2, SubSeqProperties
  <2>2. \A s, l \in Nat : /\ l - (s + 1) + 1 = l - s
                          /\ s <= l => (IF s + 1 <= l THEN l - (s + 1) + 1 ELSE 0) = l - s
                          /\ \A k \in 1..(l - s) : (s + 1) + k - 1 = s + k
    OBVIOUS
  <2>3. Len(order) - from + 1 = Len(order) - since[c]
    BY <1>1, <2>2
  <2>4. Len(SubSeq(order, from, Len(order))) = Len(order) - since[c]
    BY <1>1, <1>2, <2>1, <2>2
  <2>5. ASSUME NEW k \in 1..(Len(order) - since[c])
        PROVE  SubSeq(order, from, Len(order))[k] = order[since[c] + k]
    <3>1. from + k - 1 = since[c] + k
      BY <1>1, <2>2
    <3>2. QED
      BY <2>1, <2>3, <3>1
  <2>6. QED
    BY <2>1, <2>4, <2>5 DEF Due
<1>4. n <= Len(Due(c)) /\ \A k \in 1..n : sent[c][k] = Due(c)[k]
  <2>1. n <= Len(order) - since[c]
    BY <1>1
  <2>2. \A k \in 1..n : k \in 1..(Len(order) - since[c])
    BY <1>1, <2>1
  <2>3. QED
    BY <1>1, <1>3, <2>1, <2>2
<1>5. SubSeq(sent[c], 1, n) = SubSeq(Due(c), 1, n)
  <2>1. /\ SubSeq(sent[c], 1, n) = [k \in 1..n |-> sent[c][k]]
        /\ SubSeq(Due(c), 1, n) = [k \in 1..n |-> Due(c)[k]]
    BY <1>1, <1>3, <1>4
  <2>2. QED
    BY <1>4, <2>1
<1>6. ASSUME Heard(c) = Len(order) PROVE sent[c] = Due(c)
  <2>1. n = Len(Due(c))
    BY <1>1, <1>3, <1>6 DEF Heard
  <2>2. QED
    BY <1>1, <1>3, <1>4, <2>1, SeqEqual
<1>7. QED
  BY <1>4, <1>5, <1>6 DEF IsPrefix

\* As many clients are listed as the list is long: none is there twice.
LEMMA CountListed ==
    ASSUME eventConn \in Seq(Clients),
           \A k, l \in 1..Len(eventConn) : eventConn[k] = eventConn[l] => k = l
    PROVE  Cardinality(Listed) = Len(eventConn)
<1>1. /\ Len(eventConn) \in Nat /\ DOMAIN eventConn = 1..Len(eventConn)
      /\ eventConn = [k \in 1..Len(eventConn) |-> eventConn[k]]
  OBVIOUS
<1>2. eventConn \in [1..Len(eventConn) -> Listed]
  BY <1>1 DEF Listed
<1>3. \A d \in Listed : \E k \in 1..Len(eventConn) : eventConn[k] = d
  BY <1>1 DEF Listed
<1>4. ExistsBijection(1..Len(eventConn), Listed)
  BY <1>2, <1>3, Fun_IsBij DEF ExistsBijection
<1>5. IsFiniteSet(1..Len(eventConn)) /\ Cardinality(1..Len(eventConn)) = Len(eventConn)
  <2>1. 1 \in Int /\ Len(eventConn) \in Int /\ (1 > Len(eventConn) <=> Len(eventConn) = 0)
    BY <1>1
  <2>2. /\ IsFiniteSet(1..Len(eventConn))
        /\ Cardinality(1..Len(eventConn)) = IF 1 > Len(eventConn) THEN 0 ELSE Len(eventConn) - 1 + 1
    BY <2>1, FS_Interval
  <2>3. Len(eventConn) - 1 + 1 = Len(eventConn)
    BY <1>1
  <2>4. QED
    BY <2>1, <2>2, <2>3
<1>6. QED
  BY <1>4, <1>5, FS_Bijection

\* The invariant of the list gives EachHearsAll.
LEMMA WsInvHears ==
    ASSUME WsInv
    PROVE  EachHearsAll
<1>1. WsTypes /\ ListedOnce /\ UpToDate
  BY DEF WsInv
<1>2. mu = "free" => Live = 1..Len(eventConn) /\ Done = Live
  BY DEF Live, Done, Todo
<1>3. ASSUME NEW c \in Clients, mu = "free", conn[c] = "open"
      PROVE  sent[c] = Due(c) /\ c \in Listed
  <2>1. PICK k \in Live : eventConn[k] = c
    BY <1>1, <1>3 DEF ListedOnce
  <2>2. Heard(c) = Len(order)
    BY <1>1, <1>2, <1>3, <2>1 DEF UpToDate
  <2>3. k \in DOMAIN eventConn
    BY <1>1, <1>2, <1>3, <2>1 DEF WsTypes
  <2>4. QED
    BY <2>1, <2>2, <2>3, SentIsDue DEF Listed
<1>4. mu = "free" => Cardinality(Listed) = Len(eventConn)
  BY <1>1, <1>2, CountListed DEF WsTypes, ListedOnce
<1>5. QED
  BY <1>3, <1>4, SentIsDue DEF EachHearsAll

(* Every client that is listed gets each event the filter lets through, once *)
(* and in the one order of the lock, until it fails, and is neither lost     *)
(* from the list nor in it twice (onBotPushEvent of the WebSocket server).   *)
THEOREM EachIsHeard == Spec => []EachHearsAll
<1>1. WsInv => EachHearsAll
  BY WsInvHears
<1>2. QED
  BY <1>1, WsHolds, PTL

(* However often a report is tried, its receiver gets it as a whole at most  *)
(* once, whatever MaxAttempts is (onBotPushEvent of the reporter).           *)
THEOREM ReportedOnce == Spec => []HandledOnce
<1>1. ReportInv => HandledOnce
  BY DEF ReportInv, BodyOnce, HandledOnce
<1>2. QED
  BY <1>1, ReportHolds, PTL

----------------------------------------------------------------------------
(* The servers broadcast. *)

\* What is in the order is being written or has been: it is not new again.
OrderKnown == \A n \in 1..Len(order) : push[order[n]].at \in {"writes", "done"}

\* A step that leaves the order alone and finishes no push keeps it known.
LEMMA OrderStays ==
    ASSUME WsTypes, OrderKnown, UNCHANGED order,
           push' \in [Events -> [at : {"new", "waits", "filtered", "writes", "done"}, i : Nat, j : Nat]],
           \A e \in Events : push[e].at \in {"writes", "done"} => push'[e].at \in {"writes", "done"}
    PROVE  OrderKnown'
<1>1. \A n \in 1..Len(order) : order[n] \in Events
  BY DEF WsTypes
<1>2. QED
  BY <1>1 DEF OrderKnown

\* Every step does: Lock appends a push that was waiting.
LEMMA OrderInvariance ==
    ASSUME WsInv, OrderKnown, [Next]_vars
    PROVE  OrderKnown'
<1>1. WsTypes
  BY DEF WsInv
<1>2. CASE UNCHANGED <<order, push>>
  BY <1>2 DEF OrderKnown
<1>3. ASSUME NEW e \in Events, Pushing(e) PROVE OrderKnown'
  <2>1. CASE Lock(e)
    <3>1. /\ push' = [push EXCEPT ![e].at = "writes"]
          /\ Len(order') = Len(order) + 1 /\ order'[Len(order) + 1] = e /\ Len(order) \in Nat
          /\ \A n \in 1..Len(order) : order'[n] = order[n] /\ order[n] \in Events
      BY <1>1, <2>1 DEF Lock, WsTypes
    <3>2. push'[e].at = "writes" /\ \A f \in Events : f # e => push'[f] = push[f]
      BY <1>1, <3>1 DEF WsTypes
    <3>3. ASSUME NEW n \in 1..Len(order') PROVE push'[order'[n]].at \in {"writes", "done"}
      <4>1. CASE n = Len(order) + 1
        BY <3>1, <3>2, <4>1
      <4>2. CASE n \in 1..Len(order)
        BY <3>1, <3>2, <4>2 DEF OrderKnown
      <4>3. QED
        BY <3>1, <4>1, <4>2
    <3>4. QED
      BY <3>3 DEF OrderKnown
  <2>2. ASSUME push[e].at \in {"new", "writes"}, UNCHANGED order,
               NEW r \in [at : {"waits", "filtered", "writes", "done"}, i : Nat, j : Nat],
               push' = [push EXCEPT ![e] = r],
               push[e].at = "writes" => r.at \in {"writes", "done"}
        PROVE  OrderKnown'
    <3>1. r \in [at : {"new", "waits", "filtered", "writes", "done"}, i : Nat, j : Nat]
      OBVIOUS
    <3>2. push \in [Events -> [at : {"new", "waits", "filtered", "writes", "done"}, i : Nat, j : Nat]]
      BY <1>1 DEF WsTypes
    <3>3. push' \in [Events -> [at : {"new", "waits", "filtered", "writes", "done"}, i : Nat, j : Nat]]
      BY <2>2, <3>1, <3>2
    <3>4. push'[e] = r /\ \A f \in Events : f # e => push'[f] = push[f]
      BY <2>2, <3>2
    <3>5. QED
      BY <1>1, <2>2, <3>3, <3>4, OrderStays
  <2>3. CASE Filtered(e)
    <3>1. PICK at \in {"waits", "filtered"} : push' = [push EXCEPT ![e] = Push(at, 1, 1)]
      BY <2>3 DEF Filtered
    <3>2. Push(at, 1, 1) \in [at : {"waits", "filtered", "writes", "done"}, i : Nat, j : Nat]
      BY DEF Push
    <3>3. QED
      BY <2>2, <2>3, <3>1, <3>2 DEF Filtered
  <2>4. CASE WriteNext(e)
    <3>1. push[e] \in [at : {"new", "waits", "filtered", "writes", "done"}, i : Nat, j : Nat]
          /\ push[e].at = "writes" /\ UNCHANGED order
      BY <1>1, <2>4 DEF WriteNext, WsTypes
    <3>2. PICK j \in {push[e].j, push[e].j + 1} : push' = [push EXCEPT ![e] = [@ EXCEPT !.i = push[e].i + 1, !.j = j]]
      BY <1>1, <2>4, <3>1 DEF WriteNext, Written, Failed, WsTypes
    <3> DEFINE r == [push[e] EXCEPT !.i = push[e].i + 1, !.j = j]
    <3>3. push[e].i + 1 \in Nat /\ j \in Nat
      BY <3>1, <3>2
    <3>4. r \in [at : {"waits", "filtered", "writes", "done"}, i : Nat, j : Nat] /\ r.at = "writes"
      BY <3>1, <3>3
    <3>5. push' = [push EXCEPT ![e] = r]
      BY <3>2
    <3> HIDE DEF r
    <3>6. QED
      BY <2>2, <3>1, <3>4, <3>5
  <2>5. CASE Unlock(e)
    <3>1. push[e] \in [at : {"new", "waits", "filtered", "writes", "done"}, i : Nat, j : Nat]
      BY <1>1 DEF WsTypes
    <3>2. [push[e] EXCEPT !.at = "done"] \in [at : {"waits", "filtered", "writes", "done"}, i : Nat, j : Nat]
          /\ [push[e] EXCEPT !.at = "done"].at = "done"
      BY <3>1
    <3>3. push' = [push EXCEPT ![e] = [@ EXCEPT !.at = "done"]] /\ push[e].at = "writes" /\ UNCHANGED order
      BY <2>5 DEF Unlock
    <3>4. QED
      BY <2>2, <3>2, <3>3
  <2>6. QED
    BY <1>3, <2>1, <2>3, <2>4, <2>5 DEF Pushing
<1>4. CASE \E c \in Clients : Client(c)
  BY <1>2, <1>4 DEF Client, Connect, Greet, List, ListenEnds, handleRequest, Peer
<1>5. CASE \E e \in Reported : Reporting(e)
  BY <1>2, <1>5 DEF Reporting, BeginReport, Attempt, ReadAnswer, wsVars
<1>6. CASE \E method \in Methods, authorized \in BOOLEAN : ServeHTTP(method, authorized)
  BY <1>2, <1>6 DEF ServeHTTP, wsVars
<1>7. CASE UNCHANGED vars
  BY <1>2, <1>7 DEF vars
<1>8. QED
  BY <1>3, <1>4, <1>5, <1>6, <1>7 DEF Next

\* A client that is not listed yet has nothing to hear.
Fresh == \A c \in Clients : conn[c] \in {"none", "accepted", "greeted"} => since[c] = 0

\* Every step keeps those who are not listed yet fresh.
LEMMA FreshInvariance ==
    ASSUME WsTypes, Fresh, [Next]_vars
    PROVE  Fresh'
<1>1. ASSUME NEW c \in Clients, Client(c) PROVE Fresh'
  <2>1. CASE List(c)
    BY <2>1 DEF List, Fresh, WsTypes
  <2>2. CASE Connect(c) \/ Greet(c) \/ ListenEnds(c) \/ handleRequest(c) \/ Peer(c)
    BY <2>2 DEF Connect, Greet, ListenEnds, handleRequest, Peer, Fresh, WsTypes
  <2>3. QED
    BY <1>1, <2>1, <2>2 DEF Client
<1>2. ASSUME NEW e \in Events, Pushing(e) PROVE Fresh'
  <2>1. since' = since /\ (conn' = conn \/ \E c : conn' = [conn EXCEPT ![c] = "closed"])
    BY <1>2 DEF Pushing, Filtered, Lock, WriteNext, Written, Failed, Unlock
  <2>2. QED
    BY <2>1 DEF Fresh, WsTypes
<1>3. CASE \E e \in Reported : Reporting(e)
  BY <1>3 DEF Reporting, BeginReport, Attempt, ReadAnswer, wsVars, Fresh
<1>4. CASE \E method \in Methods, authorized \in BOOLEAN : ServeHTTP(method, authorized)
  BY <1>4 DEF ServeHTTP, wsVars, Fresh
<1>5. CASE UNCHANGED vars
  BY <1>5 DEF vars, Fresh
<1>6. QED
  BY <1>1, <1>2, <1>3, <1>4, <1>5 DEF Next

HearInv == WsInv /\ OrderKnown /\ Fresh

\* The invariant that the refinement needs holds in every state.
LEMMA HearHolds == Spec => []HearInv
<1>1. Init => HearInv
  <2>1. Init => OrderKnown /\ Fresh
    BY DEF Init, OrderKnown, Fresh
  <2>2. QED
    BY <2>1, WsInit DEF HearInv
<1>2. HearInv /\ [Next]_vars => HearInv'
  BY WsInvariance, OrderInvariance, FreshInvariance DEF HearInv, WsInv
<1>3. QED
  BY <1>1, <1>2, PTL DEF Spec

Opened == {c \in Clients : conn[c] = "open"}

\* While no push writes, every client that is open is up to date.
LEMMA AllHaveHeard ==
    ASSUME WsInv, mu = "free", NEW c \in Opened
    PROVE  Heard(c) = Len(order)
<1>1. PICK k \in Live : eventConn[k] = c
  BY DEF WsInv, ListedOnce, Opened
<1>2. k \in Done
  BY DEF Live, Done, Todo
<1>3. QED
  BY <1>1, <1>2 DEF WsInv, UpToDate, Opened

\* List is Join: what is published from now on is for this client.
LEMMA ListJoins ==
    ASSUME HearInv, NEW c \in Clients, List(c)
    PROVE  Hearers!Join(c)
<1>1. /\ conn[c] = "greeted" /\ conn' = [conn EXCEPT ![c] = "open"]
      /\ since' = [since EXCEPT ![c] = Len(order)] /\ UNCHANGED <<order, sent>>
  BY DEF List
<1>2. since[c] = 0 /\ sent[c] = <<>>
  BY <1>1 DEF HearInv, WsInv, InOrder, Fresh
<1>3. c \notin Opened /\ Opened' = Opened \cup {c}
  BY <1>1 DEF HearInv, WsInv, WsTypes, Opened
<1>4. QED
  BY <1>1, <1>2, <1>3 DEF Hearers!Join, Opened

\* A client that closes leaves, unless it was not there.
LEMMA CloseLeaves ==
    ASSUME WsTypes, NEW c \in Clients, conn' = [conn EXCEPT ![c] = "closed"], UNCHANGED <<order, since, sent>>
    PROVE  Hearers!Leave(c) \/ UNCHANGED Hearers!broadcastVars
<1>1. Opened' = Opened \ {c}
  BY DEF Opened, WsTypes
<1>2. CASE c \in Opened
  BY <1>1, <1>2 DEF Hearers!Leave, Opened
<1>3. CASE c \notin Opened
  BY <1>1, <1>3 DEF Hearers!broadcastVars, Opened
<1>4. QED
  BY <1>2, <1>3

\* Every other step of a client leaves, or is not seen.
LEMMA ClientBroadcasts ==
    ASSUME HearInv, NEW c \in Clients, Client(c)
    PROVE  [Hearers!BroadcastNext]_(Hearers!broadcastVars)
<1>1. WsTypes
  BY DEF HearInv, WsInv
<1>2. CASE List(c)
  BY <1>2, ListJoins DEF Hearers!BroadcastNext
<1>3. CASE Connect(c) \/ Greet(c) \/ ListenEnds(c) \/ handleRequest(c) \/ Peer(c)
  <2>1. UNCHANGED <<order, since, sent>>
    BY <1>3 DEF Connect, Greet, ListenEnds, handleRequest, Peer
  <2>2. CASE conn' = [conn EXCEPT ![c] = "closed"]
    BY <1>1, <2>1, <2>2, CloseLeaves DEF Hearers!BroadcastNext
  <2>3. CASE \/ conn' = conn
             \/ conn[c] = "none" /\ conn' = [conn EXCEPT ![c] = "accepted"]
             \/ conn[c] = "accepted" /\ conn' = [conn EXCEPT ![c] = "greeted"]
    <3>1. Opened' = Opened
      BY <1>1, <2>3 DEF Opened, WsTypes
    <3>2. QED
      BY <2>1, <3>1 DEF Hearers!broadcastVars, Opened
  <2>4. QED
    BY <1>3, <2>2, <2>3 DEF Connect, Greet, ListenEnds, handleRequest, Peer
<1>4. QED
  BY <1>2, <1>3 DEF Client

\* The push that gets the mutex is published; the loop under it is heard.
LEMMA LockPublishes ==
    ASSUME HearInv, NEW e \in Events, Lock(e)
    PROVE  Hearers!Publish(e)
<1>1. push[e].at = "waits" /\ mu = "free" /\ order' = Append(order, e) /\ UNCHANGED <<conn, sent, since>>
  BY DEF Lock
<1>2. \A n \in 1..Len(order) : order[n] # e
  BY <1>1 DEF HearInv, OrderKnown
<1>3. \A c \in Opened : since[c] + Len(sent[c]) = Len(order)
  BY <1>1, AllHaveHeard DEF HearInv, Heard
<1>4. Opened' = Opened
  BY <1>1 DEF Opened
<1>5. QED
  BY <1>1, <1>2, <1>3, <1>4 DEF Hearers!Publish, Hearers!Place, Opened

\* A write that succeeds is heard, one that fails makes its client leave.
LEMMA WriteIsHeard ==
    ASSUME HearInv, NEW e \in Events, WriteNext(e)
    PROVE  \E c \in Clients : Hearers!Hear(c) \/ Hearers!Leave(c) \/ UNCHANGED Hearers!broadcastVars
<1> DEFINE i == push[e].i
           c == eventConn[i]
<1>1. /\ push[e].at = "writes" /\ i <= Len(eventConn) /\ UNCHANGED <<order, since>>
      /\ Written(e, c) \/ Failed(e, c)
  BY DEF WriteNext
<1>2. WsTypes /\ Locked /\ UpToDate
  BY DEF HearInv, WsInv
<1>3. mu = e /\ mu # "free" /\ Len(order) > 0 /\ order[Len(order)] = e
  BY <1>1, <1>2, MutexIsFree DEF Locked
<1>4. i \in Nat /\ 1 <= i /\ Len(eventConn) \in Nat /\ c \in Clients
  <2>1. i \in Nat /\ 1 <= i /\ Len(eventConn) \in Nat
    BY <1>2, <1>3 DEF WsTypes, Locked
  <2>2. QED
    BY <1>1, <1>2, <2>1 DEF WsTypes
<1>5. CASE Failed(e, c)
  <2>1. conn' = [conn EXCEPT ![c] = "closed"] /\ UNCHANGED sent
    BY <1>5 DEF Failed
  <2> HIDE DEF c, i
  <2>2. QED
    BY <1>1, <1>2, <1>4, <2>1, CloseLeaves
<1>6. CASE Written(e, c)
  <2>1. conn[c] = "open" /\ sent' = [sent EXCEPT ![c] = Append(@, e)] /\ UNCHANGED conn
    BY <1>6 DEF Written
  <2>2. i \in Todo
    BY <1>1, <1>3, <1>4 DEF Todo
  <2>3. Heard(c) = Len(order) - 1
    BY <1>2, <2>1, <2>2 DEF UpToDate
  <2> HIDE DEF c, i
  <2>4. since[c] + Len(sent[c]) < Len(order) /\ since[c] + Len(sent[c]) + 1 = Len(order)
    BY <1>2, <1>4, <2>3, HeardIsNat DEF Heard
  <2>5. c \in Opened /\ Opened' = Opened
    BY <1>4, <2>1 DEF Opened
  <2>6. Hearers!Hear(c)
    BY <1>1, <1>3, <2>1, <2>4, <2>5 DEF Hearers!Hear, Hearers!Place, Opened
  <2>7. QED
    BY <1>4, <2>6
<1>7. QED
  BY <1>1, <1>5, <1>6

\* Every step of the servers is one of the broadcast, or is not seen.
LEMMA StepBroadcasts ==
    ASSUME HearInv, [Next]_vars
    PROVE  [Hearers!BroadcastNext]_(Hearers!broadcastVars)
<1>1. CASE UNCHANGED <<conn, sent, order, since>>
  BY <1>1 DEF Hearers!broadcastVars
<1>2. CASE \E c \in Clients : Client(c)
  BY <1>2, ClientBroadcasts
<1>3. ASSUME NEW e \in Events, Pushing(e) PROVE [Hearers!BroadcastNext]_(Hearers!broadcastVars)
  <2>1. CASE Lock(e)
    BY <2>1, LockPublishes DEF Hearers!BroadcastNext
  <2>2. CASE WriteNext(e)
    BY <2>2, WriteIsHeard DEF Hearers!BroadcastNext
  <2>3. CASE Filtered(e) \/ Unlock(e)
    BY <1>1, <2>3 DEF Filtered, Unlock
  <2>4. QED
    BY <1>3, <2>1, <2>2, <2>3 DEF Pushing
<1>4. CASE \E e \in Reported : Reporting(e)
  BY <1>1, <1>4 DEF Reporting, BeginReport, Attempt, ReadAnswer, wsVars
<1>5. CASE \E method \in Methods, authorized \in BOOLEAN : ServeHTTP(method, authorized)
  BY <1>1, <1>5 DEF ServeHTTP, wsVars
<1>6. CASE UNCHANGED vars
  BY <1>1, <1>6 DEF vars
<1>7. QED
  BY <1>2, <1>3, <1>4, <1>5, <1>6 DEF Next

(* The loops over the clients under s.mu, with clients that are listed, fail *)
(* and are closed at any moment, implement a broadcast: one order, heard by  *)
(* each without gaps, whose next event waits until no one lags behind        *)
(* (onBotPushEvent of the WebSocket server).                                 *)
THEOREM BroadcastImplemented == Spec => ImplementsBroadcast
<1>1. Init => Hearers!BroadcastInit
  BY DEF Init, Hearers!BroadcastInit
<1>2. HearInv /\ [Next]_vars => [Hearers!BroadcastNext]_(Hearers!broadcastVars)
  BY StepBroadcasts
<1>3. QED
  BY <1>1, <1>2, HearHolds, PTL DEF Spec, ImplementsBroadcast, Hearers!BroadcastSpec

=============================================================================
