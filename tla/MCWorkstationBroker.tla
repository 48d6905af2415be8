------------------------- MODULE MCWorkstationBroker -------------------------
(* A small instance of WorkstationBroker for TLC.                          *)
EXTENDS WorkstationBroker
=============================================================================
