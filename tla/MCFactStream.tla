---------------------------- MODULE MCFactStream ----------------------------
(* A small instance of FactStream for TLC. *)
EXTENDS FactStream, TLC

CONSTANTS w1, w2, r1, r2

(* r1 is repeated, r2 pushes it out of a window of one, and r1 comes       *)
(* again; the handler fails on the first entries, as Throwing says.        *)
Repeats == <<r1, r1, r1, r2, r1>>

(* The same with an undecodable and a malformed entry at the end. *)
Mixed == Repeats \o <<r2, r1>>
=============================================================================
