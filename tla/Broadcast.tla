------------------------------ MODULE Broadcast ------------------------------
(* What the forward WebSocket server promises its clients, without its list  *)
(* of connections, its mutex, its loop and its filter: there is one order of *)
(* the messages, each of them is in it once, a member hears all that come    *)
(* after it has joined, one by one and in that order, and no message is      *)
(* published while a member still has to hear the one before.                *)
EXTENDS Naturals, Sequences

CONSTANTS Members, Messages

VARIABLES
    order,      \* the messages published so far
    joined,     \* the members that are there
    since,      \* since[m]: how much of the order there was when m joined
    heard       \* heard[m]: what m has heard

broadcastVars == <<order, joined, since, heard>>

Place(m) == since[m] + Len(heard[m])

BroadcastInit ==
    /\ order = <<>>
    /\ joined = {}
    /\ since = [m \in Members |-> 0]
    /\ heard = [m \in Members |-> <<>>]

\* A member joins at the end of the order, and not again after it has left.
Join(m) ==
    /\ m \notin joined /\ since[m] = 0 /\ heard[m] = <<>>
    /\ joined' = joined \cup {m}
    /\ since' = [since EXCEPT ![m] = Len(order)]
    /\ UNCHANGED <<order, heard>>

Leave(m) ==
    /\ m \in joined
    /\ joined' = joined \ {m}
    /\ UNCHANGED <<order, since, heard>>

Publish(x) ==
    /\ \A n \in 1..Len(order) : order[n] # x
    /\ \A m \in joined : Place(m) = Len(order)
    /\ order' = Append(order, x)
    /\ UNCHANGED <<joined, since, heard>>

Hear(m) ==
    /\ m \in joined /\ Place(m) < Len(order)
    /\ heard' = [heard EXCEPT ![m] = Append(@, order[Place(m) + 1])]
    /\ UNCHANGED <<order, joined, since>>

BroadcastNext ==
    \/ \E m \in Members : Join(m) \/ Leave(m) \/ Hear(m)
    \/ \E x \in Messages : Publish(x)

BroadcastSpec == BroadcastInit /\ [][BroadcastNext]_broadcastVars
=============================================================================
