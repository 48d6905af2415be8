-------------------------- MODULE MCCodexTransport --------------------------
(* Small instances of CodexTransport for TLC.                              *)
EXTENDS CodexTransport

CONSTANTS c1, c2, c3, r1, r2, r3
=============================================================================
