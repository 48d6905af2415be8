------------------------- MODULE MCCamofoxSupervisor -------------------------
(* A small instance of CamofoxSupervisor for TLC.                          *)
EXTENDS CamofoxSupervisor

ShortSchedule == <<0, 1, 2>>
=============================================================================
