------------------------------ MODULE EmitOnce ------------------------------
(***************************************************************************)
(* What the match-concluded publisher promises its consumer, with nothing  *)
(* of how it keeps the promise: a fixture is announced at most once, plus  *)
(* one more announcement for every event that excuses it.  With no excuse  *)
(* it is the promise of match-concluded-publisher.ts, "a one-shot          *)
(* game.match.concluded PlatformFact ... exactly once per fixture".        *)
(***************************************************************************)
EXTENDS Naturals, Sequences

CONSTANTS Fixtures,     \* provider fixtures
          Statuses      \* terminal statuses a fact may carry

VARIABLES announced,    \* announced[f]: statuses of the facts published for f
          excuses       \* excuses[f]: events that allow one more fact for f

vars == <<announced, excuses>>

TypeOK == /\ announced \in [Fixtures -> Seq(Statuses)]
          /\ excuses \in [Fixtures -> Nat]

Init == /\ announced = [f \in Fixtures |-> <<>>]
        /\ excuses = [f \in Fixtures |-> 0]

(* The fact is published while the fixture has an announcement left. *)
Announce(f, s) ==
    /\ Len(announced[f]) <= excuses[f]
    /\ announced' = [announced EXCEPT ![f] = Append(@, s)]
    /\ UNCHANGED excuses

(* The gate is lost from under a fixture: one more fact may follow. *)
Excuse(f) ==
    /\ excuses' = [excuses EXCEPT ![f] = @ + 1]
    /\ UNCHANGED announced

(* A fact is published and the publisher is told that it was not. *)
AnnounceUnknowingly(f, s) ==
    /\ Len(announced[f]) <= excuses[f]
    /\ announced' = [announced EXCEPT ![f] = Append(@, s)]
    /\ excuses' = [excuses EXCEPT ![f] = @ + 1]

Next == \E f \in Fixtures :
            \/ \E s \in Statuses : Announce(f, s) \/ AnnounceUnknowingly(f, s)
            \/ Excuse(f)

Spec == Init /\ [][Next]_vars
=============================================================================
