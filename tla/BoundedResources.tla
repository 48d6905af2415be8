-------------------------- MODULE BoundedResources --------------------------
(***************************************************************************)
(* What the bounded tables of Spartan Route promise: items are taken one   *)
(* at a time for an owner, while fewer than Total are taken and fewer than *)
(* Share of them by that owner; an owner keeps an item until it is given   *)
(* back.  CodexTransport and RealtimeReservations implement this module.   *)
(***************************************************************************)
EXTENDS Naturals, FiniteSets

CONSTANTS
  Item,    \* what is taken
  Owner,   \* for whom
  Nobody,  \* the owner of an item that is free
  Total,   \* the most items taken at a time
  Share    \* the most items of one owner

VARIABLE holder

Taken == {i \in Item : holder[i] # Nobody}

Init == holder = [i \in Item |-> Nobody]

Take(i, o) ==
  /\ holder[i] = Nobody
  /\ Cardinality(Taken) < Total
  /\ Cardinality({j \in Item : holder[j] = o}) < Share
  /\ holder' = [holder EXCEPT ![i] = o]

GiveBack(S) ==
  holder' = [i \in Item |-> IF i \in S THEN Nobody ELSE holder[i]]

Next ==
  \/ \E i \in Item, o \in Owner : Take(i, o)
  \/ \E S \in SUBSET Taken : GiveBack(S)

Spec == Init /\ [][Next]_holder
=============================================================================
