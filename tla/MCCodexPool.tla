---------------------------- MODULE MCCodexPool ----------------------------
(* Small instances of CodexPool for TLC.                                   *)
EXTENDS CodexPool, TLC

CONSTANTS a1, a2, r1, r2

(* The requests are interchangeable.                                       *)
MCSymmetry == Permutations({r1, r2})

(* Slots of one account and of two; the accounts have no order, so that    *)
(* the slots of two accounts need only be tried one way round.             *)
OneOrTwo == {[s \in Slot |-> a1], [s \in Slot |-> IF s = 1 THEN a1 ELSE a2]}

(* Every assignment of accounts to slots.                                  *)
AnyHomes == [Slot -> Account]
=============================================================================
