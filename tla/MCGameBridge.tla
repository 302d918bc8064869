---------------------------- MODULE MCGameBridge ----------------------------
(* A small instance of GameBridge for TLC. *)
EXTENDS GameBridge, TLC

CONSTANTS l1, l2, f1, player

(* Each workload has one key. *)
OwnKey == [k \in Keys |-> k]

(* The teams of a match are known; an event names a player. *)
NamedPlayer == [list |-> <<>>, detail |-> <<>>, embedded |-> <<player>>, events |-> <<player>>]
=============================================================================
