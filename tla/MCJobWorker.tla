---------------------------- MODULE MCJobWorker ----------------------------
(* Two workers and two jobs of two attempts.                               *)
EXTENDS JobWorker

CONSTANTS j1, j2, w1, w2

Jobs == {j1, j2}
Workers == {w1, w2}
=============================================================================
