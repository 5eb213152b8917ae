------------------------------ MODULE KeyStore ------------------------------
(***************************************************************************)
(* What the media cache promises: the set of keys it can find.  An entry   *)
(* stays until it is deleted, and a deleted one is gone; only when the     *)
(* machine stops may entries be lost and deleted ones be back, but none    *)
(* comes from nowhere.                                                     *)
(***************************************************************************)
EXTENDS Naturals

CONSTANT Keys

VARIABLES
    present,    \* the keys that Get finds
    ever,       \* the keys that were inserted at some time
    stops       \* how often the machine has stopped

Init ==
    /\ ever \in SUBSET Keys
    /\ present \in SUBSET ever
    /\ stops = 0

Insert(k) ==
    /\ present' = present \cup {k}
    /\ ever' = ever \cup {k}
    /\ UNCHANGED stops

Delete(k) ==
    /\ present' = present \ {k}
    /\ UNCHANGED <<ever, stops>>

Stop ==
    /\ stops' = stops + 1
    /\ present' \in SUBSET ever
    /\ UNCHANGED ever

Next ==
    \/ \E k \in Keys : Insert(k) \/ Delete(k)
    \/ Stop

Spec == Init /\ [][Next]_<<present, ever, stops>>
=============================================================================
