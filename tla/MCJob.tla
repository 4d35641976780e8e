-------------------------------- MODULE MCJob --------------------------------
(***************************************************************************)
(* Job for TLC.                                                            *)
(***************************************************************************)
EXTENDS Job, TLC

CONSTANTS w1, w2

\* Workers are interchangeable; sound for invariants and action properties.
WorkerSymmetry == Permutations(Workers)
=============================================================================
