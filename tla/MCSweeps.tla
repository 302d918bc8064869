------------------------------ MODULE MCSweeps ------------------------------
(***************************************************************************)
(* A small instance of Sweeps: four finished games of two competitions that *)
(* miss their payload, one of which the provider has no rows for, pages of  *)
(* two games and a cap of two pages; two teams in the cached lists of two   *)
(* competitions and two squad sweeps at once; four StatsBomb matches, each  *)
(* with the number of a game of the live provider.  What an idle workflow   *)
(* would read starts in one state only.                                     *)
(***************************************************************************)
EXTENDS Sweeps

CONSTANTS cup, liga, tA, tB, f1, f2, f3, f4

GamesValue ==
    << [fixture |-> f1, competition |-> "cup"], [fixture |-> f2, competition |-> "provider:liga"],
       [fixture |-> f3, competition |-> "btl:liga"], [fixture |-> f4, competition |-> "provider:liga"] >>

(* f3 is answered with entries of a wrong shape, f4 with teams but no        *)
(* players, the others with players.                                       *)
Entry(shape, lines) == [shape |-> shape, lines |-> lines]
ContentValue ==
    [f \in {f1, f2, f3, f4} |->
        CASE f = f3 -> {Entry(FALSE, TRUE)} [] f = f4 -> {Entry(TRUE, FALSE)} [] OTHER -> {Entry(TRUE, TRUE)}]
OwnValue == [provider |-> "provider:liga", canonical |-> "btl:liga"]

Input(payload, kind, dry, limit, supported, named) ==
    [payload |-> payload, kind |-> kind, dry |-> dry, limit |-> limit, supported |-> supported,
     named |-> named]
InputsValue ==
    {Input("lineups", "sweep", dry, limit, TRUE, named) :
        dry \in BOOLEAN, limit \in {0, 2, 9}, named \in {{}, {f1, f3}}}
    \union {Input("lineups", "backfill", dry, limit, TRUE, {}) : dry \in BOOLEAN, limit \in {0, 2, 9}}
    \union {Input("player-match-stats", "sweep", FALSE, 9, TRUE, {})}
    \union {Input("lineups", kind, FALSE, 0, FALSE, {}) : kind \in {"sweep", "backfill"}}

ListedValue == cup :> <<tA>> @@ liga :> <<tA, tB>>
YearsValue ==
    cup :> [catalogued |-> 2025, current |-> {2025}] @@ liga :> [catalogued |-> 2025, current |-> {2026}]

Event(kind, outcome) == [kind |-> kind, outcome |-> outcome]
Both == {"home", "away"}
MatchesValue ==
    << [sides |-> Both, events |-> {Event("shot", TRUE), Event("lineup", FALSE)}],
       [sides |-> Both, events |-> {Event("lineup", FALSE)}],
       [sides |-> Both, events |-> {Event("pass", FALSE), Event("interception", FALSE)}],
       [sides |-> {"home"}, events |-> {Event("pass", TRUE)}] >>
DutiesValue == {{"payloads"}, {"squads"}, {"scan"}, {"anchor"}, {"import"}}

MCInit ==
    /\ WorkInit
    /\ "payloads" \notin duty => rows = {}
    /\ duty \in {{"payloads"}, {"import"}} => known = Competitions \union Teams
    /\ "squads" \in duty => Competitions \subseteq known
MCSpec == MCInit /\ [][WorkNext]_workVars
=============================================================================
