-------------------------- MODULE MCSeasonBackfill --------------------------
(* A small instance of SeasonBackfill for TLC. *)
EXTENDS SeasonBackfill, TLC

CONSTANT r1

(* One fixture in a season, two in the next. *)
TwoSeasons == <<{1}, {2, 3}>>
=============================================================================
