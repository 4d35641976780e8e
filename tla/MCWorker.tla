------------------------------- MODULE MCWorker -------------------------------
(***************************************************************************)
(* Worker for TLC.                                                         *)
(***************************************************************************)
EXTENDS Worker, TLC

CONSTANTS w1, w2, p1, p2

OneMalformed  == {<<p1, 0>>}
NoneMalformed == {}

\* Workers are interchangeable; sound for invariants and action properties.
WorkerSymmetry == Permutations(Workers)
=============================================================================
