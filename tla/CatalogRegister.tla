--------------------------- MODULE CatalogRegister ---------------------------
(***************************************************************************)
(* What the model catalog of Spartan Route promises, without tasks, locks  *)
(* or fetches: a register that holds, for some of the slots, the identity  *)
(* (account and credential source) whose models were observed.             *)
(*                                                                         *)
(* A write replaces the whole register, and every entry it leaves there    *)
(* was observed in the current era and belongs to the identity its slot    *)
(* has at that moment.  Identities change at any time; entries may be      *)
(* revoked at any time; a new era starts with an empty register.           *)
(***************************************************************************)
EXTENDS Naturals

CONSTANTS
  Slot,      \* the subscription slots
  Identity,  \* what an entry can be about
  NoEntry    \* the absent identity, or entry

VARIABLES
  identity,   \* the identity each slot may be used with now
  era,        \* the number of resets
  observed    \* the register

vars == <<identity, era, observed>>

Revoked == \A s \in Slot : observed'[s] \in {observed[s], NoEntry}

Init ==
  /\ identity \in [Slot -> Identity \cup {NoEntry}]
  /\ era = 0
  /\ observed = [s \in Slot |-> NoEntry]

(* The world moves on; entries may be revoked, none appears.               *)
Change ==
  /\ identity' \in [Slot -> Identity \cup {NoEntry}]
  /\ era' = era
  /\ Revoked

(* A new register.                                                         *)
Write ==
  /\ \A s \in Slot : observed'[s] \in {NoEntry} \cup
       (IF identity[s] = NoEntry
          THEN {} ELSE {[about |-> identity[s], era |-> era]})
  /\ UNCHANGED <<identity, era>>

(* Everything observed so far is void.                                     *)
NewEra ==
  /\ era' = era + 1
  /\ identity' \in [Slot -> Identity \cup {NoEntry}]
  /\ observed' = [s \in Slot |-> NoEntry]

Next == Change \/ Write \/ NewEra

Spec == Init /\ [][Next]_vars
=============================================================================
