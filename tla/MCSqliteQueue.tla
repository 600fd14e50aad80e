--------------------------- MODULE MCSqliteQueue ---------------------------
(***************************************************************************)
(* Instances of SqliteQueue for TLC.                                       *)
(***************************************************************************)
EXTENDS SqliteQueue
CONSTANTS w1, w2, w3, j1, j2
=============================================================================
