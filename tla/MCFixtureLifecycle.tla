------------------------- MODULE MCFixtureLifecycle -------------------------
(* A match of FixtureLifecycle in steps of ten minutes, with the windows   *)
(* and intervals of worker/ingestion.ts: the five minutes of grace are one *)
(* step, the 25 after the final two, which stays below the three of the    *)
(* full-time tick.  The live tick and its TTL are both 30 seconds: an      *)
(* answer, stored after its tick, is still there at the next one and no    *)
(* more at the one after that, which is a tick of one step and a TTL of    *)
(* two.  The TTLs of six hours are three.                                  *)
EXTENDS FixtureLifecycle

Intervals == [discovery |-> 6, preKO |-> 1, live |-> 1, fullTime |-> 3, lineups |-> 1]
Lifetimes == [list |-> 18, preKO |-> 6, live |-> 2, fullTime |-> 18, lineups |-> 6]

(* Twenty minutes after the first boot, and an hour and forty minutes.     *)
TwoKickoffs == {2, 10}
=============================================================================
