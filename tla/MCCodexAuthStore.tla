-------------------------- MODULE MCCodexAuthStore --------------------------
(* Small instances of CodexAuthStore for TLC.                              *)
EXTENDS CodexAuthStore

CONSTANTS p1, p2, w1, w2, w3

(* Two coroutines of one process and one of another.                       *)
MCHome == [w \in Worker |-> IF w = w3 THEN p2 ELSE p1]
=============================================================================
