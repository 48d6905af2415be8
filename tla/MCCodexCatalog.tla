--------------------------- MODULE MCCodexCatalog ---------------------------
(* Small instances of CodexCatalog for TLC.                                *)
EXTENDS CodexCatalog

CONSTANTS a1, a2
=============================================================================
