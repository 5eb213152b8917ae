---------------------------- MODULE WsClientProofs ----------------------------
(***************************************************************************)
(* Theorems about WsClient, for any number of events, connections and      *)
(* faults.                                                                 *)
(***************************************************************************)
EXTENDS WsClient, FiniteSetTheorems, TLAPS

RoleNames == Roles \cup {"none"}
LinkStates == {"unused", "up", "broken", "closed"}
ReaderStates == {"none", "reading", "dialing", "ended"}
Stages == {"idle", "waiting", "writing", "dialing"}

\* The types of the variables.
TypeOK ==
    /\ conf \in [roles : Setups, retry : BOOLEAN]
    /\ start \subseteq conf.roles
    /\ faults \in Nat
    /\ role \in [Conns -> RoleNames]
    /\ link \in [Conns -> LinkStates]
    /\ reader \in [Conns -> ReaderStates]
    /\ conn \in Conns \cup {None}
    /\ mu \in Events \cup {None}
    /\ push \in [Events -> Stages]
    /\ copies \in [Events -> Nat]

\* A handler that writes or dials holds c.mu, has a connection and, when it
\* dials, has closed it.  An event that is yet to be written was not heard.
Pushing(e) ==
    /\ push[e] \in {"writing", "dialing"} => mu = e /\ conn # None
    /\ push[e] = "dialing" => link[conn] = "closed"
    /\ push[e] \in {"waiting", "writing"} => copies[e] = 0
    /\ copies[e] <= 1

\* A connection is of a role that was connected; one that is up was greeted
\* and is listened to as its role asks; only a listener of the API role that
\* has closed its connection dials; what the client does not push to, and is
\* for events, is closed.
Linked(c) ==
    /\ link[c] = "unused" <=> role[c] = "none"
    /\ role[c] # "none" => role[c] \in conf.roles \ start
    /\ link[c] = "up" /\ Greets(role[c]) => c \in greeted
    /\ link[c] = "up" /\ Listens(role[c]) => reader[c] = "reading"
    /\ reader[c] = "dialing" => role[c] = "API" /\ link[c] = "closed"
    /\ link[c] = "unused" => reader[c] = "none"
    /\ Greets(role[c]) /\ c # conn => link[c] = "closed"

\* The API role has at most one listener that lives or dials.
OneListener ==
    \A c, d \in Conns :
        /\ role[c] = "API" /\ reader[c] \in {"reading", "dialing"}
        /\ role[d] = "API" /\ reader[d] \in {"reading", "dialing"}
        => c = d

\* The inductive invariant.
WsInv ==
    /\ TypeOK
    /\ \A e \in Events : Pushing(e)
    /\ \A c \in Conns : Linked(c)
    /\ OneListener
    /\ conn # None => Greets(role[conn])
    /\ carried \subseteq greeted

\* Only one configured role is greeted, as the universal role excludes others.
LEMMA OneGreeted ==
    ASSUME TypeOK, NEW r \in conf.roles, NEW s \in conf.roles, Greets(r), Greets(s)
    PROVE  r = s
BY DEF TypeOK, Setups, Greets

\* What a dial that comes through does, whoever dials: a connection that was
\* unused is up or, where the handshake failed, broken.
LEMMA Connected ==
    ASSUME TypeOK, NEW r \in Roles, NEW c \in Conns, Connect(r, c)
    PROVE  /\ link[c] = "unused" /\ link'[c] \in {"up", "broken"}
           /\ link'[c] = "broken" => Greets(r)
           /\ role'[c] = r
           /\ \A d \in Conns \ {c} : link'[d] = link[d] /\ role'[d] = role[d]
           /\ greeted \subseteq greeted' /\ carried' = carried
           /\ link'[c] = "up" /\ Greets(r) => c \in greeted'
           /\ role' \in [Conns -> RoleNames]
           /\ link' \in [Conns -> LinkStates]
           /\ faults' \in Nat
<1>1. /\ link[c] = "unused" /\ role' = [role EXCEPT ![c] = r]
      /\ carried' = carried
  BY DEF Connect
<1>2. \/ /\ link' = [link EXCEPT ![c] = "up"]
         /\ greeted' = IF Greets(r) THEN greeted \cup {c} ELSE greeted
         /\ faults' = faults
      \/ /\ Greets(r) /\ faults' = faults + 1
         /\ link' = [link EXCEPT ![c] = "broken"]
         /\ greeted' = greeted
  BY DEF Connect, Fault, net
<1>3. /\ role' \in [Conns -> RoleNames] /\ role'[c] = r
      /\ \A d \in Conns \ {c} : role'[d] = role[d]
  BY <1>1 DEF TypeOK, RoleNames
<1>4. /\ link' \in [Conns -> LinkStates] /\ link'[c] \in {"up", "broken"}
      /\ link'[c] = "broken" => Greets(r)
      /\ \A d \in Conns \ {c} : link'[d] = link[d]
  BY <1>2 DEF TypeOK, LinkStates
<1>5. /\ greeted \subseteq greeted' /\ faults' \in Nat
      /\ link'[c] = "up" /\ Greets(r) => c \in greeted'
  BY <1>2, <1>4 DEF TypeOK
<1>6. QED
  BY <1>1, <1>3, <1>4, <1>5

\* The step that all dials share: connection c of role r is new, and is the one
\* to push to if it is for events; what it takes the place of is closed.
LEMMA NewConnection ==
    ASSUME WsInv, NEW r \in conf.roles, NEW c \in Conns, Connect(r, c),
           reader' \in [Conns -> ReaderStates], reader'[c] = Listener(r),
           \A d \in Conns \ {c} :
             \/ reader'[d] = reader[d]
             \/ reader'[d] = "ended" /\ link[d] = "closed",
           conn' = IF Greets(r) THEN c ELSE conn,
           conf' = conf, start' \subseteq start, r \notin start',
           Greets(r) => \A d \in Conns : role[d] = r => link[d] = "closed",
           ~Greets(r) => \A d \in Conns :
                           role[d] = r => reader'[d] \notin {"reading", "dialing"}
    PROVE  /\ \A d \in Conns : Linked(d)'
           /\ OneListener'
           /\ conn' # None => Greets(role'[conn'])
           /\ carried' \subseteq greeted'
<1>r. r \in Roles /\ r # "none"
  BY DEF WsInv, TypeOK, Setups, Roles
<1>1. /\ link[c] = "unused" /\ link'[c] \in {"up", "broken"}
      /\ link'[c] = "broken" => Greets(r)
      /\ role'[c] = r
      /\ \A d \in Conns \ {c} : link'[d] = link[d] /\ role'[d] = role[d]
      /\ greeted \subseteq greeted' /\ carried' = carried
      /\ link'[c] = "up" /\ Greets(r) => c \in greeted'
  BY <1>r, Connected DEF WsInv
<1>2. role[c] = "none"
  BY <1>1 DEF WsInv, Linked
<1>3. Linked(c)'
  <2>1. Listens(r) => reader'[c] = "reading"
    BY DEF Listener
  <2>2. reader'[c] # "dialing"
    BY DEF Listener
  <2>3. Greets(r) => c = conn'
    OBVIOUS
  <2>4. QED
    BY <1>r, <1>1, <2>1, <2>2, <2>3 DEF Linked
<1>4. ASSUME NEW d \in Conns \ {c}
      PROVE  Linked(d)'
  <2>1. Linked(d)
    BY DEF WsInv
  <2>2. link'[d] = link[d] /\ role'[d] = role[d]
    BY <1>1
  <2>3. Greets(role[d]) /\ d # conn' => link[d] = "closed"
    <3>1. CASE Greets(r) /\ Greets(role[d])
      <4>1. role[d] \in conf.roles
        BY <2>1, <3>1 DEF Linked, Greets
      <4>2. role[d] = r
        BY <3>1, <4>1, OneGreeted DEF WsInv
      <4>3. QED
        BY <3>1, <4>2
    <3>2. CASE ~Greets(r)
      BY <2>1, <3>2 DEF Linked
    <3>3. QED
      BY <3>1, <3>2
  <2>4. QED
    BY <1>1, <2>1, <2>2, <2>3 DEF Linked
<1>5. OneListener'
  <2>1. SUFFICES ASSUME NEW d \in Conns, NEW f \in Conns, d # f,
                        role'[d] = "API", reader'[d] \in {"reading", "dialing"},
                        role'[f] = "API", reader'[f] \in {"reading", "dialing"}
                 PROVE  FALSE
    BY DEF OneListener
  <2>2. CASE d # c /\ f # c
    BY <1>1, <2>1, <2>2 DEF WsInv, OneListener
  <2>3. CASE d = c
    BY <1>1, <2>1, <2>3 DEF Greets
  <2>4. CASE f = c
    BY <1>1, <2>1, <2>4 DEF Greets
  <2>5. QED
    BY <2>2, <2>3, <2>4
<1>6. conn' # None => Greets(role'[conn'])
  <2>1. CASE Greets(r)
    BY <1>1, <2>1
  <2>2. CASE ~Greets(r)
    <3>1. conn # None => conn # c
      BY <1>2 DEF WsInv, Greets
    <3>2. conn # None => role'[conn] = role[conn]
      BY <1>1, <3>1 DEF WsInv, TypeOK
    <3>3. QED
      BY <2>2, <3>2 DEF WsInv
  <2>3. QED
    BY <2>1, <2>2
<1>7. QED
  BY <1>1, <1>3, <1>4, <1>5, <1>6 DEF WsInv

\* The steps of a handler that make no connection.
LEMMA HandlerSteps ==
    ASSUME WsInv, NEW e \in Events,
           Begin(e) \/ Acquire(e) \/ Written(e) \/ Failed(e)
    PROVE  WsInv'
<1>t. /\ TypeOK /\ Pushing(e) /\ \A f \in Events : Pushing(f)
      /\ \A c \in Conns : Linked(c)
      /\ None \notin Events
  BY WsAssumption DEF WsInv
<1>1. CASE Begin(e)
  <2>1. /\ push' = [push EXCEPT ![e] = "waiting"]
        /\ copies' = [copies EXCEPT ![e] = 0]
        /\ UNCHANGED <<conf, start, faults, role, link, greeted, carried,
                       reader, conn, mu>>
    BY <1>1 DEF Begin, net, links
  <2>2. TypeOK'
    BY <1>t, <2>1 DEF TypeOK, Stages
  <2>3. \A f \in Events : Pushing(f)'
    BY <1>t, <2>1 DEF Pushing, TypeOK
  <2>4. QED
    BY <2>1, <2>2, <2>3 DEF WsInv, Linked, OneListener
<1>2. CASE Acquire(e)
  <2>1. /\ push[e] = "waiting" /\ mu = None
        /\ UNCHANGED <<conf, start, faults, role, link, greeted, carried,
                       reader, conn, copies>>
        /\ \/ push' = [push EXCEPT ![e] = "idle"] /\ mu' = mu
           \/ conn # None /\ push' = [push EXCEPT ![e] = "writing"] /\ mu' = e
    BY <1>2 DEF Acquire, net, links
  <2>2. TypeOK'
    BY <1>t, <2>1 DEF TypeOK, Stages
  <2>3. \A f \in Events : Pushing(f)'
    BY <1>t, <2>1 DEF Pushing, TypeOK
  <2>4. QED
    BY <2>1, <2>2, <2>3 DEF WsInv, Linked, OneListener
<1>3. CASE Written(e)
  <2>1. /\ push[e] = "writing" /\ mu = e /\ conn \in Conns /\ copies[e] = 0
        /\ Greets(role[conn])
    BY <1>3, <1>t DEF Written, Pushing, WsInv, TypeOK
  <2>2. /\ push' = [push EXCEPT ![e] = "idle"] /\ mu' = None
        /\ UNCHANGED <<conf, start, role, link, greeted, reader, conn>>
        /\ \/ /\ link[conn] = "up" /\ copies' = [copies EXCEPT ![e] = 1]
              /\ carried' = carried \cup {conn} /\ faults' = faults
           \/ UNCHANGED <<copies, carried>> /\ faults' = faults + 1
    BY <1>3, <2>1 DEF Written, Fault, net
  <2>3. TypeOK'
    BY <1>t, <2>2 DEF TypeOK, Stages
  <2>4. \A f \in Events : Pushing(f)'
    BY <1>t, <2>1, <2>2 DEF Pushing, TypeOK
  <2>5. carried' \subseteq greeted'
    BY <1>t, <2>1, <2>2 DEF Linked, WsInv
  <2>6. QED
    BY <2>2, <2>3, <2>4, <2>5 DEF WsInv, Linked, OneListener
<1>4. CASE Failed(e)
  <2>1. /\ push[e] = "writing" /\ mu = e /\ conn \in Conns /\ copies[e] = 0
        /\ Greets(role[conn])
    BY <1>4, <1>t DEF Failed, Pushing, WsInv, TypeOK
  <2>2. /\ UNCHANGED <<conf, start, role, greeted, reader, conn>>
        /\ link' = [link EXCEPT ![conn] = "closed"]
        /\ \/ UNCHANGED <<faults, copies, carried>>
           \/ /\ link[conn] = "up" /\ faults' = faults + 1
              /\ \E n \in {0, 1} : copies' = [copies EXCEPT ![e] = n]
              /\ carried' \subseteq carried \cup {conn}
        /\ \/ push' = [push EXCEPT ![e] = "dialing"] /\ mu' = mu
           \/ push' = [push EXCEPT ![e] = "idle"] /\ mu' = None
    BY <1>4, <2>1 DEF Failed, Fault, net
  <2>3. TypeOK'
    <3>1. link' \in [Conns -> LinkStates]
      BY <1>t, <2>2 DEF TypeOK, LinkStates
    <3>2. faults' \in Nat /\ copies' \in [Events -> Nat]
      BY <1>t, <2>2 DEF TypeOK
    <3>3. push' \in [Events -> Stages] /\ mu' \in Events \cup {None}
      BY <1>t, <2>2 DEF TypeOK, Stages
    <3>4. QED
      BY <1>t, <2>2, <3>1, <3>2, <3>3 DEF TypeOK
  <2>4. ASSUME NEW f \in Events
        PROVE  Pushing(f)'
    <3>1. CASE f = e
      BY <1>t, <2>1, <2>2, <3>1 DEF Pushing, TypeOK
    <3>2. CASE f # e
      BY <1>t, <2>1, <2>2, <3>2 DEF Pushing, TypeOK
    <3>3. QED
      BY <3>1, <3>2
  <2>5. carried' \subseteq greeted'
    BY <1>t, <2>1, <2>2 DEF Linked, WsInv
  <2>6. \A c \in Conns : link'[c] = link[c] \/ (c = conn /\ link'[c] = "closed")
    BY <1>t, <2>2 DEF TypeOK
  <2>7. ASSUME NEW c \in Conns
        PROVE  Linked(c)'
    BY <1>t, <2>1, <2>2, <2>6 DEF Linked, Greets
  <2>8. QED
    BY <2>1, <2>2, <2>3, <2>4, <2>5, <2>7 DEF WsInv, OneListener
<1>5. QED
  BY <1>1, <1>2, <1>3, <1>4

\* A dial of runWSClient.
LEMMA StartSteps ==
    ASSUME WsInv, NEW r \in Roles,
           StartWithout(r) \/ \E c \in Conns : StartUp(r, c)
    PROVE  WsInv'
<1>t. TypeOK /\ (\A f \in Events : Pushing(f)) /\ \A c \in Conns : Linked(c)
  BY DEF WsInv
<1>1. CASE StartWithout(r)
  <2>1. /\ start' = start \ {r}
        /\ UNCHANGED <<conf, faults, role, link, greeted, carried, reader, conn,
                       mu, push, copies>>
    BY <1>1 DEF StartWithout, net, links
  <2>2. \A c \in Conns : Linked(c)'
    BY <1>t, <2>1 DEF Linked
  <2>3. TypeOK'
    BY <1>t, <2>1 DEF TypeOK
  <2>4. QED
    BY <2>1, <2>2, <2>3 DEF WsInv, OneListener, Pushing
<1>2. ASSUME NEW c \in Conns, StartUp(r, c)
      PROVE  WsInv'
  <2>1. /\ r \in start /\ r \in conf.roles /\ start' = start \ {r}
        /\ Connect(r, c)
        /\ reader' = [reader EXCEPT ![c] = Listener(r)]
        /\ conn' = IF r = "API" THEN conn ELSE c
        /\ UNCHANGED <<conf, ready, mu, push, copies>>
    BY <1>2, <1>t DEF StartUp, TypeOK
  <2>2. /\ reader' \in [Conns -> ReaderStates] /\ reader'[c] = Listener(r)
        /\ \A d \in Conns \ {c} : reader'[d] = reader[d]
    BY <1>t, <2>1 DEF TypeOK, ReaderStates, Listener
  <2>3. conn' = IF Greets(r) THEN c ELSE conn
    BY <2>1 DEF Greets, Roles
  <2>4. \A d \in Conns : role[d] # r
    BY <1>t, <2>1 DEF Linked, Roles
  <2>5. /\ \A d \in Conns : Linked(d)'
        /\ OneListener'
        /\ conn' # None => Greets(role'[conn'])
        /\ carried' \subseteq greeted'
    <3>1. /\ conf' = conf /\ start' \subseteq start /\ r \notin start'
          /\ Greets(r) => \A d \in Conns : role[d] = r => link[d] = "closed"
          /\ ~Greets(r) => \A d \in Conns :
                           role[d] = r => reader'[d] \notin {"reading", "dialing"}
      BY <2>1, <2>4
    <3>2. QED
      BY <2>1, <2>2, <2>3, <3>1, NewConnection
  <2>6. TypeOK'
    BY <1>t, <2>1, <2>2, Connected DEF TypeOK
  <2>7. ASSUME NEW e \in Events
        PROVE  Pushing(e)'
    <3>1. CASE push[e] = "dialing"
      <4>1. conn \in Conns /\ link[conn] = "closed" /\ Greets(role[conn])
        BY <1>t, <3>1 DEF Pushing, WsInv, TypeOK
      <4>2. role[conn] \in conf.roles \ start
        BY <1>t, <4>1 DEF Linked, Greets
      <4>3. ~Greets(r)
        BY <1>t, <2>1, <4>1, <4>2, OneGreeted
      <4>4. conn' = conn /\ conn # c
        BY <1>t, <2>1, <2>3, <4>1, <4>3, Connected
      <4>5. link'[conn] = "closed"
        BY <1>t, <2>1, <4>1, <4>4, Connected
      <4>6. QED
        BY <1>t, <2>1, <3>1, <4>1, <4>4, <4>5 DEF Pushing
    <3>2. CASE push[e] # "dialing"
      <4>1. conn # None => conn' # None
        BY <2>3 DEF None, Conns
      <4>2. QED
        BY <1>t, <2>1, <3>2, <4>1 DEF Pushing
    <3>3. QED
      BY <3>1, <3>2
  <2>8. QED
    BY <2>5, <2>6, <2>7 DEF WsInv
<1>3. QED
  BY <1>1, <1>2

\* The reconnect of a push that failed.
LEMMA RedialStep ==
    ASSUME WsInv, NEW e \in Events, NEW c \in Conns, Redial(e, c)
    PROVE  WsInv'
<1> DEFINE r == role[conn]
<1>t. /\ TypeOK /\ (\A f \in Events : Pushing(f)) /\ \A d \in Conns : Linked(d)
      /\ None \notin Events
  BY WsAssumption DEF WsInv
<1>1. /\ push[e] = "dialing" /\ mu = e /\ conn \in Conns /\ link[conn] = "closed"
      /\ Greets(r) /\ r \in conf.roles \ start /\ r \in Roles
  <2>1. push[e] = "dialing" /\ mu = e /\ conn \in Conns /\ link[conn] = "closed"
    BY <1>t DEF Redial, Pushing, TypeOK
  <2>2. Greets(r)
    BY <2>1 DEF WsInv, None, Conns
  <2>3. r \in conf.roles \ start
    BY <1>t, <2>1, <2>2 DEF Linked, Greets
  <2>4. QED
    BY <2>1, <2>2, <2>3 DEF Greets, Roles
<1>2. /\ Connect(r, c) /\ reader' = [reader EXCEPT ![c] = Listener(r)]
      /\ conn' = c /\ push' = [push EXCEPT ![e] = "idle"] /\ mu' = None
      /\ UNCHANGED <<conf, start, copies>>
  BY DEF Redial
<1> HIDE DEF r
<1>3. /\ reader' \in [Conns -> ReaderStates] /\ reader'[c] = Listener(r)
      /\ \A d \in Conns \ {c} : reader'[d] = reader[d]
  BY <1>t, <1>2 DEF TypeOK, ReaderStates, Listener
<1>4. \A d \in Conns : role[d] = r => link[d] = "closed"
  BY <1>t, <1>1 DEF Linked
<1>5. /\ \A d \in Conns : Linked(d)'
      /\ OneListener'
      /\ conn' # None => Greets(role'[conn'])
      /\ carried' \subseteq greeted'
  <2>1. /\ conf' = conf /\ start' \subseteq start /\ r \notin start'
        /\ conn' = (IF Greets(r) THEN c ELSE conn)
    BY <1>1, <1>2
  <2>2. QED
    BY <1>1, <1>2, <1>3, <1>4, <2>1, NewConnection
<1>6. TypeOK'
  BY <1>t, <1>1, <1>2, <1>3, Connected DEF TypeOK, Stages
<1>7. \A f \in Events : Pushing(f)'
  BY <1>t, <1>1, <1>2 DEF Pushing, TypeOK
<1>8. QED
  BY <1>5, <1>6, <1>7 DEF WsInv

\* The listener of a connection finds it broken or closed.
LEMMA HangUpStep ==
    ASSUME WsInv, NEW c \in Conns, HangUp(c)
    PROVE  WsInv'
<1>t. /\ TypeOK /\ (\A f \in Events : Pushing(f)) /\ \A d \in Conns : Linked(d)
  BY DEF WsInv
<1>1. /\ reader[c] = "reading" /\ link[c] # "up"
      /\ link' = [link EXCEPT ![c] = "closed"]
      /\ UNCHANGED <<conf, start, faults, role, greeted, carried, conn, mu, push,
                     copies>>
      /\ \/ role[c] = "API" /\ reader' = [reader EXCEPT ![c] = "dialing"]
         \/ reader' = [reader EXCEPT ![c] = "ended"]
  BY DEF HangUp, Reopens, net
<1>2. /\ link'[c] = "closed" /\ reader'[c] \in {"dialing", "ended"}
      /\ reader'[c] = "dialing" => role[c] = "API"
      /\ \A d \in Conns \ {c} : link'[d] = link[d] /\ reader'[d] = reader[d]
  BY <1>t, <1>1 DEF TypeOK
<1>3. TypeOK'
  BY <1>t, <1>1 DEF TypeOK, LinkStates, ReaderStates
<1>4. \A f \in Events : Pushing(f)'
  BY <1>t, <1>1, <1>2 DEF Pushing, TypeOK
<1>5. ASSUME NEW d \in Conns
      PROVE  Linked(d)'
  <2>1. CASE d = c /\ link[c] # "unused"
    BY <1>t, <1>1, <1>2, <2>1 DEF Linked
  <2>2. CASE d = c /\ link[c] = "unused"
    BY <1>t, <1>1, <2>2 DEF Linked
  <2>3. CASE d # c
    BY <1>t, <1>1, <1>2, <2>3 DEF Linked
  <2>4. QED
    BY <2>1, <2>2, <2>3
<1>6. OneListener'
  BY <1>1, <1>2 DEF WsInv, OneListener
<1>7. QED
  BY <1>1, <1>3, <1>4, <1>5, <1>6 DEF WsInv

\* The API role connects again.
LEMMA ReopenStep ==
    ASSUME WsInv, NEW c \in Conns, NEW d \in Conns, Reopen(c, d)
    PROVE  WsInv'
<1>t. /\ TypeOK /\ (\A f \in Events : Pushing(f)) /\ \A f \in Conns : Linked(f)
  BY DEF WsInv
<1>1. /\ reader[c] = "dialing" /\ role[c] = "API" /\ link[c] = "closed"
      /\ "API" \in conf.roles \ start
      /\ Connect("API", d)
      /\ reader' = [reader EXCEPT ![c] = "ended", ![d] = "reading"]
      /\ UNCHANGED <<conf, start, conn, mu, push, copies>>
  BY <1>t DEF Reopen, Linked, Listener, Listens
<1>2. link[d] = "unused" /\ c # d /\ "API" \in Roles
  BY <1>t, <1>1, Connected DEF Roles
<1>3. /\ reader' \in [Conns -> ReaderStates] /\ reader'[d] = "reading"
      /\ reader'[c] = "ended"
      /\ \A f \in Conns \ {c, d} : reader'[f] = reader[f]
  BY <1>t, <1>1, <1>2 DEF TypeOK, ReaderStates
<1>4. ASSUME NEW f \in Conns, role[f] = "API"
      PROVE  reader'[f] \notin {"reading", "dialing"}
  <2>1. f # d
    BY <1>t, <1>2, <1>4 DEF Linked
  <2>2. f = c \/ reader[f] \notin {"reading", "dialing"}
    BY <1>1, <1>4 DEF WsInv, OneListener
  <2>3. QED
    BY <1>3, <2>1, <2>2
<1>5. /\ \A f \in Conns : Linked(f)'
      /\ OneListener'
      /\ conn' # None => Greets(role'[conn'])
      /\ carried' \subseteq greeted'
  <2>1. /\ "API" \in conf.roles /\ reader'[d] = Listener("API")
        /\ conn' = (IF Greets("API") THEN d ELSE conn)
        /\ conf' = conf /\ start' \subseteq start /\ "API" \notin start'
        /\ ~Greets("API")
    BY <1>1, <1>3 DEF Listener, Listens, Greets
  <2>2. \A f \in Conns \ {d} :
          \/ reader'[f] = reader[f]
          \/ reader'[f] = "ended" /\ link[f] = "closed"
    BY <1>1, <1>3
  <2>3. QED
    BY <1>1, <1>3, <1>4, <2>1, <2>2, NewConnection
<1>6. TypeOK'
  BY <1>t, <1>1, <1>2, <1>3, Connected DEF TypeOK
<1>7. ASSUME NEW e \in Events
      PROVE  Pushing(e)'
  <2>1. conn # d \/ link[conn] # "closed"
    BY <1>2
  <2>2. push[e] = "dialing" => link'[conn] = "closed"
    <3>1. SUFFICES ASSUME push[e] = "dialing"
                   PROVE  link'[conn] = "closed"
      OBVIOUS
    <3>2. conn \in Conns /\ conn # d /\ link[conn] = "closed"
      BY <1>t, <1>2, <3>1 DEF Pushing, TypeOK
    <3>3. QED
      BY <1>t, <1>1, <1>2, <3>2, Connected
  <2>3. QED
    BY <1>t, <1>1, <2>2 DEF Pushing
<1>8. QED
  BY <1>5, <1>6, <1>7 DEF WsInv

\* The world outside, and the end of runWSClient.
LEMMA OtherSteps ==
    ASSUME WsInv,
           \/ \E c \in Conns : Break(c)
           \/ RemoteDown \/ RemoteUp \/ Register \/ UNCHANGED vars
    PROVE  WsInv'
<1>t. /\ TypeOK /\ (\A f \in Events : Pushing(f)) /\ \A f \in Conns : Linked(f)
  BY DEF WsInv
<1>1. /\ UNCHANGED <<conf, start, role, greeted, carried, reader, conn, mu, push,
                     copies>>
      /\ faults' \in Nat /\ link' \in [Conns -> LinkStates]
      /\ \A c \in Conns : \/ link'[c] = link[c]
                          \/ link[c] = "up" /\ link'[c] = "broken"
  <2>1. ASSUME NEW c \in Conns, Break(c)
        PROVE  /\ UNCHANGED <<conf, start, role, greeted, carried, reader, conn, mu,
                              push, copies>>
               /\ faults' \in Nat /\ link' \in [Conns -> LinkStates]
               /\ \A d \in Conns : \/ link'[d] = link[d]
                                   \/ link[d] = "up" /\ link'[d] = "broken"
    BY <1>t, <2>1 DEF Break, Fault, TypeOK, LinkStates
  <2>2. CASE RemoteDown
    BY <1>t, <2>2 DEF RemoteDown, Fault, TypeOK, LinkStates
  <2>3. CASE RemoteUp \/ Register \/ UNCHANGED vars
    BY <1>t, <2>3 DEF RemoteUp, Register, vars, net, links, TypeOK
  <2>4. QED
    BY <2>1, <2>2, <2>3
<1>2. TypeOK'
  BY <1>t, <1>1 DEF TypeOK
<1>3. \A f \in Events : Pushing(f)'
  BY <1>t, <1>1 DEF Pushing, TypeOK
<1>4. ASSUME NEW c \in Conns
      PROVE  Linked(c)'
  BY <1>t, <1>1 DEF Linked
<1>5. QED
  BY <1>1, <1>2, <1>3, <1>4 DEF WsInv, OneListener

\* WsInv is inductive.
LEMMA Invariance == Spec => []WsInv
<1>1. Init => WsInv
  <2> SUFFICES ASSUME Init
               PROVE  WsInv
    OBVIOUS
  <2>1. TypeOK
    BY DEF Init, TypeOK, RoleNames, LinkStates, ReaderStates, Stages
  <2>2. \A e \in Events : Pushing(e)
    BY DEF Init, Pushing
  <2>3. \A c \in Conns : Linked(c)
    BY DEF Init, Linked, Greets
  <2>4. OneListener /\ conn = None /\ carried = {}
    BY DEF Init, OneListener
  <2>5. QED
    BY <2>1, <2>2, <2>3, <2>4 DEF WsInv
<1>2. WsInv /\ [Next]_vars => WsInv'
  <2> SUFFICES ASSUME WsInv, [Next]_vars
               PROVE  WsInv'
    OBVIOUS
  <2>1. CASE \E r \in Roles : StartWithout(r) \/ \E c \in Conns : StartUp(r, c)
    BY <2>1, StartSteps
  <2>2. CASE \E e \in Events : Begin(e) \/ Acquire(e) \/ Written(e) \/ Failed(e)
    BY <2>2, HandlerSteps
  <2>3. CASE \E e \in Events, c \in Conns : Redial(e, c)
    BY <2>3, RedialStep
  <2>4. CASE \E c \in Conns : HangUp(c)
    BY <2>4, HangUpStep
  <2>5. CASE \E c, d \in Conns : Reopen(c, d)
    BY <2>5, ReopenStep
  <2>6. CASE \/ \E c \in Conns : Break(c)
             \/ RemoteDown \/ RemoteUp \/ Register \/ UNCHANGED vars
    BY <2>6, OtherSteps
  <2>7. QED
    BY <2>1, <2>2, <2>3, <2>4, <2>5, <2>6 DEF Next
<1>3. QED
  BY <1>1, <1>2, PTL DEF Spec

\* Every variable keeps its type.
THEOREM TypeCorrect == Spec => []TypeOK
<1>1. WsInv => TypeOK
  BY DEF WsInv
<1>2. QED
  BY <1>1, Invariance, PTL

\* The remote gets an event at most once, however often its push fails and the
\* client reconnects: the reconnect does not push again.
THEOREM HeardOnce == Spec => []NoDuplicate
<1>1. WsInv => NoDuplicate
  BY DEF WsInv, Pushing, NoDuplicate
<1>2. QED
  BY <1>1, Invariance, PTL

\* One connection of a role is up at most, events only go where the handshake
\* went before, and what is up for API calls is listened to, for any number of
\* pushes, breaks and reconnects that overlap.
THEOREM SoundLinks == Spec => []LinksAreSound
<1>1. WsInv => LinksAreSound
  <2> SUFFICES ASSUME WsInv
               PROVE  LinksAreSound
    OBVIOUS
  <2>1. ASSUME NEW r \in Roles
        PROVE  Cardinality({c \in Conns : role[c] = r /\ link[c] = "up"}) <= 1
    <3> DEFINE Up == {c \in Conns : role[c] = r /\ link[c] = "up"}
    <3>1. \A c, d \in Up : c = d
      <4>1. CASE Greets(r)
        BY <4>1 DEF WsInv, Linked
      <4>2. CASE ~Greets(r)
        <5>1. r = "API"
          BY <4>2 DEF Greets, Roles
        <5>2. \A c \in Up : reader[c] = "reading"
          BY <5>1 DEF WsInv, Linked, Listens
        <5>3. QED
          BY <5>1, <5>2 DEF WsInv, OneListener
      <4>3. QED
        BY <4>1, <4>2
    <3>2. Up = {} \/ \E c \in Up : Up = {c}
      BY <3>1
    <3> HIDE DEF Up
    <3>3. Cardinality(Up) \in {0, 1}
      BY <3>2, FS_EmptySet, FS_Singleton
    <3>4. QED
      BY <3>3 DEF Up
  <2>2. ASSUME NEW c \in Conns, link[c] = "up", role[c] # "Event"
        PROVE  reader[c] = "reading"
    <3>1. role[c] \in Roles
      BY <2>2 DEF WsInv, TypeOK, Linked, RoleNames
    <3>2. QED
      BY <2>2, <3>1 DEF WsInv, Linked, Listens, Roles
  <2>3. QED
    BY <2>1, <2>2 DEF LinksAreSound, WsInv
<1>2. QED
  BY <1>1, Invariance, PTL

=============================================================================
