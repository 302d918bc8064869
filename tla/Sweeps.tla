------------------------------- MODULE Sweeps -------------------------------
(***************************************************************************)
(* The workflows an operator asks for by hand, at work on the same worker: *)
(* the payload sweeps, the squad sweeps, the StatsBomb import, the scan for *)
(* identity gaps, and the inline ingests of the anchor.  Which of them are  *)
(* at work together is a matter of who asked for what (Duties).             *)
(***************************************************************************)
EXTENDS PayloadSweep, EntityJobs

workVars == <<sweepVars, jobVars>>

WorkInit == SweepInit /\ JobsInit

WorkNext ==
    \/ "payloads" \in duty /\ SweepNext /\ UNCHANGED jobVars
    \/ JobsNext /\ UNCHANGED sweepVars

WorkSpec == WorkInit /\ [][WorkNext]_workVars
=============================================================================
