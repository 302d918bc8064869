-------------------------- MODULE MCMatchConcluded --------------------------
(* Small instances of MatchConcluded for TLC. *)
EXTENDS MatchConcluded, TLC

CONSTANTS f1, a1, b1, workerA, workerB

(* Lane a1 runs in worker A, b1 in worker B. *)
OneWorkerEach == (a1 :> workerA) @@ (b1 :> workerB)
=============================================================================
