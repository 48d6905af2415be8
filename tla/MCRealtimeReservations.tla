----------------------- MODULE MCRealtimeReservations -----------------------
(* Small instances of RealtimeReservations for TLC.                        *)
EXTENDS RealtimeReservations

CONSTANTS v1, v2, v3, c1, c2, c3, s1, a1, a2

(* All clients use the same slot.                                          *)
MCSlotOf == [c \in Client |-> s1]
=============================================================================
