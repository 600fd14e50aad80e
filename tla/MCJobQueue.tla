----------------------------- MODULE MCJobQueue -----------------------------
(***************************************************************************)
(* Instances of JobQueue for TLC.                                          *)
(***************************************************************************)
EXTENDS JobQueue, TLC
CONSTANTS w1, w2, w3, j1, j2, j3


\* Workers that are all alike may be exchanged.
WorkerSymmetry == Permutations(Workers)
=============================================================================
