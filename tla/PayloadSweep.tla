--------------------------- MODULE PayloadSweep ---------------------------
(***************************************************************************)
(* The two workflows that fill the payloads game-service misses: the sweep *)
(* of missing payloads (workflows/sweep-missing-payloads.ts), and the      *)
(* backfill of one competition (workflows/competition-payload-backfill.ts) *)
(* that selects among the missing games and hands its choice to the sweep. *)
(*                                                                         *)
(* game-service lists the games that still miss the payload, page by page, *)
(* newest first, while the live loop fills some of them on its own.  The   *)
(* rows themselves are written by the match-concluded bridge, whose errors *)
(* are swallowed: a fixture the sweep counts as ok may have been lost      *)
(* there.                                                                  *)
(*                                                                         *)
(* Games     the finished games, newest first: fixture and competition id  *)
(* Content   what the provider answers for each fixture: its entries, of a  *)
(*           right shape or not, with lines or without (no players in it)  *)
(* Own       the provider id of the target competition, and its canonical  *)
(* Page, WidePage, MaxPages, DefaultLimit, MaxLimit  the workflows' bounds *)
(* Inputs    the requests that are tried                                   *)
(*                                                                         *)
(* rows      the fixtures whose payload game-service holds                 *)
(* lost      those decoded and then lost in the bridge                     *)
(* sweep     the run                                                       *)
(***************************************************************************)
EXTENDS Degrade, Among, FiniteSets, SequencesExt

CONSTANTS Games, Content, Own, Page, WidePage, MaxPages, DefaultLimit, MaxLimit, Inputs

VARIABLES rows, lost, sweep
sweepVars == <<rows, lost, sweep>>

Fixtures == {Games[i].fixture : i \in DOMAIN Games}

(* Bounds are naturals, game-service lists a game once, and a caller names *)
(* finitely many fixtures.                                                 *)
ASSUME SweepAssumption ==
    /\ {Page, WidePage, MaxPages, DefaultLimit, MaxLimit} \subseteq Nat /\ DefaultLimit <= MaxLimit
    /\ Games \in Seq(ToSet(Games))
    /\ \A i, j \in DOMAIN Games : Games[i].fixture = Games[j].fixture => i = j
    /\ \A input \in Inputs : /\ input.limit \in Int /\ IsFiniteSet(input.named)
                             /\ input.dry \in BOOLEAN /\ input.supported \in BOOLEAN

Least(a, b) == IF a <= b THEN a ELSE b

(* clampLimit: a limit that is missing or not positive is the default.     *)
ClampLimit(raw) == IF raw <= 0 THEN DefaultLimit ELSE Least(raw, MaxLimit)

(* resolveCandidateCompetitionIds: the provider id always, the canonical   *)
(* one when identity answers.                                              *)
CandidateIds(resolved) == {Own.provider} \union IF resolved THEN {Own.canonical} ELSE {}

(* A page of the games that still miss the payload, after a place in the   *)
(* list (game-service).                                                    *)
Missing(after, size) ==
    LET open == Among([i \in 1 .. Len(Games) - after |-> after + i],
                      {i \in DOMAIN Games : Games[i].fixture \notin rows})
    IN  SubSeq(open, 1, Least(size, Len(open)))

(* The bridge's decoders, by which the sweep tells an empty answer: a team   *)
(* and lists of the right shape, an absent formation or an empty list being *)
(* no fault.                                                               *)
Decoded(f) == {e \in Content[f] : e.shape}

(* What the adapter makes rows of: the same entries; but of player          *)
(* statistics a line for each player only.                                 *)
Mapped(payload, f) ==
    {e \in Decoded(f) : payload = "player-match-stats" => e.lines}

NoSweep == [kind |-> "none", payload |-> "none", state |-> "idle", dry |-> FALSE, limit |-> 0, ids |-> {},
            after |-> 0, pages |-> 0, found |-> <<>>, left |-> <<>>, mode |-> "continue",
            told |-> FALSE, late |-> FALSE, ok |-> {}, empty |-> {}, skipped |-> {},
            failed |-> {}, calls |-> {}, status |-> "none"]

SweepInit ==
    /\ \E filled \in SUBSET Fixtures : rows = filled
    /\ lost = {}
    /\ sweep = NoSweep

Ended(s, status) == [s EXCEPT !.state = "done", !.status = status]

(* What follows the discovery: nothing to do, a dry run, or the sweep.     *)
Discovered(s) ==
    IF s.found = <<>> \/ s.dry THEN Ended(s, "completed")
    ELSE [s EXCEPT !.state = "sweeping", !.left = s.found]

(* A sweep of what is missing, or of fixtures the caller names: trusted,   *)
(* made distinct and cut to the limit.                                     *)
StartPayloads(input) ==
    /\ sweep.state = "idle" /\ input.kind = "sweep"
    /\ LET s == [NoSweep EXCEPT !.kind = "sweep", !.payload = input.payload, !.dry = input.dry,
                                !.limit = ClampLimit(input.limit), !.state = "discovering"]
           named == SetToSeq(input.named)
       IN  sweep' = IF ~input.supported THEN Ended(s, "skipped")
                    ELSE IF input.named = {} THEN s
                    ELSE Discovered([s EXCEPT !.found = SubSeq(named, 1, Least(s.limit, Len(named)))])
    /\ UNCHANGED <<rows, lost>>

(* A backfill of a competition: dry unless it is told otherwise, aborted   *)
(* when the target is not known.                                           *)
StartBackfill(input, resolved) ==
    /\ sweep.state = "idle" /\ input.kind = "backfill"
    /\ LET s == [NoSweep EXCEPT !.kind = "backfill", !.payload = input.payload, !.dry = input.dry,
                                !.limit = ClampLimit(input.limit), !.state = "discovering",
                                !.ids = CandidateIds(resolved)]
       IN  sweep' = IF input.supported THEN s ELSE Ended(s, "aborted")
    /\ UNCHANGED <<rows, lost>>

(* discoverFixtureIds: pages of at most what is left to the limit.         *)
DiscoverMissing ==
    /\ sweep.state = "discovering" /\ sweep.kind = "sweep"
    /\ LET size == Least(Page, sweep.limit - Len(sweep.found))
           page == Missing(sweep.after, size)
           s == [sweep EXCEPT !.found = @ \o [i \in DOMAIN page |-> Games[page[i]].fixture],
                              !.after = IF page = <<>> THEN @ ELSE Last(page)]
       IN  sweep' = IF Len(page) < size \/ Len(s.found) = s.limit THEN Discovered(s) ELSE s
    /\ UNCHANGED <<rows, lost>>

(* Mutant: each page may fill the whole limit.                             *)
SelectedPerPage(s, page) ==
    LET mine == Among(page, {i \in DOMAIN Games : Games[i].competition \in s.ids})
    IN  SubSeq(mine, 1, Least(s.limit, Len(mine)))

(* selectCompetitionFixtures: the games of the target, up to what is left. *)
Selected(s, page) ==
    LET mine == Among(page, {i \in DOMAIN Games : Games[i].competition \in s.ids})
    IN  SubSeq(mine, 1, Least(s.limit - Len(s.found), Len(mine)))

(* discoverCompetitionFixtures: wide pages, filtered, up to a page cap.    *)
DiscoverCompetition ==
    /\ sweep.state = "discovering" /\ sweep.kind = "backfill"
    /\ LET page == Missing(sweep.after, WidePage)
           mine == Selected(sweep, page)
           s == [sweep EXCEPT !.found = @ \o [i \in DOMAIN mine |-> Games[mine[i]].fixture],
                              !.after = IF page = <<>> THEN @ ELSE Last(page),
                              !.pages = @ + 1]
       IN  sweep' = IF Len(page) < WidePage \/ Len(s.found) >= s.limit \/ s.pages = MaxPages
                    THEN Discovered(s) ELSE s
    /\ UNCHANGED <<rows, lost>>

DiscoveryFails ==
    /\ sweep.state = "discovering"
    /\ sweep' = Ended(sweep, "aborted")
    /\ UNCHANGED <<rows, lost>>

(* Mutant: a fetch that came back with data is ok, whatever it holds.      *)
CountedByFetch(s, f, answer) ==
    CASE answer = "data" -> [s EXCEPT !.ok = @ \union {f}]
      [] answer \in {"skipped", "denied", "rate_limited"} -> [s EXCEPT !.skipped = @ \union {f}]
      [] OTHER -> [s EXCEPT !.failed = @ \union {f}]

(* accumulate: data counts as ok only when the bridge's decoders keep an    *)
(* entry of it.                                                            *)
Counted(s, f, answer) ==
    CASE answer = "data" /\ Decoded(f) # {} -> [s EXCEPT !.ok = @ \union {f}]
      [] answer = "data" /\ Decoded(f) = {} -> [s EXCEPT !.empty = @ \union {f}]
      [] answer \in {"skipped", "denied", "rate_limited"} -> [s EXCEPT !.skipped = @ \union {f}]
      [] OTHER -> [s EXCEPT !.failed = @ \union {f}]

(* One fixture: the fetch, the count, the mode; the bridge writes the rows  *)
(* it decodes, or loses them.                                              *)
SweepFixture ==
    /\ sweep.state = "sweeping" /\ sweep.left # <<>> /\ sweep.mode # "abort"
    /\ \E answer \in {"data", "skipped", "denied", "rate_limited", "failed", "thrown"},
          posture \in Postures, kept \in BOOLEAN :
         LET f == Head(sweep.left)
             degrade == IF answer = "rate_limited" THEN "skip-non-essential" ELSE "continue"
             writes == answer = "data" /\ Mapped(sweep.payload, f) # {}
         IN  /\ sweep' = [Counted(sweep, f, answer) EXCEPT
                            !.left = Tail(@),
                            !.calls = @ \union {f},
                            !.late = @ \/ sweep.told,
                            !.told = @ \/ (answer # "thrown" /\ posture = "hard_cap_reached"),
                            !.mode = IF answer = "thrown" THEN @
                                     ELSE MostRestrictive({@, QuotaAction(posture), degrade})]
             /\ rows' = IF writes /\ kept THEN rows \union {f} ELSE rows
             /\ lost' = IF writes /\ ~kept THEN lost \union {f} ELSE lost

(* The abort is looked at before each fixture; after the last one the       *)
(* status is read off the counts.                                          *)
FinalStatus(s) ==
    CASE s.left # <<>> -> "aborted"
      [] s.left = <<>> /\ s.ok = {} -> "aborted"
      [] s.left = <<>> /\ s.ok # {} /\ s.failed \union s.skipped \union s.empty # {} -> "partial"
      [] OTHER -> "completed"

FinishSweep ==
    /\ sweep.state = "sweeping"
    /\ sweep.left = <<>> \/ sweep.mode = "abort"
    /\ sweep' = Ended(sweep, FinalStatus(sweep))
    /\ UNCHANGED <<rows, lost>>

(* The live loop fills a game of its own accord.                           *)
FillElsewhere(f) ==
    /\ f \notin rows /\ Mapped(sweep.payload, f) # {}
    /\ sweep.state \in {"discovering", "sweeping"}
    /\ rows' = rows \union {f}
    /\ UNCHANGED <<lost, sweep>>

SweepNext ==
    \/ \E input \in Inputs : \/ StartPayloads(input)
                             \/ \E resolved \in BOOLEAN : StartBackfill(input, resolved)
    \/ DiscoverMissing \/ DiscoverCompetition \/ DiscoveryFails
    \/ SweepFixture \/ FinishSweep
    \/ \E f \in Fixtures : FillElsewhere(f)

(* A fixture counted as ok has its row in game-service, or lost it in the   *)
(* bridge after it was made: "fixtures whose provider call succeeded AND    *)
(* whose envelope actually decoded to at least one usable row for kind"     *)
(* (types.ts:528-529) - but for player statistics that name the teams and  *)
(* no players.  And "completed" is said only of a run that left nothing of  *)
(* its selection out.                                                      *)
SweepHonest ==
    /\ \A f \in sweep.ok :
           \/ f \in rows \union lost
           \/ sweep.payload = "player-match-stats" /\ Mapped(sweep.payload, f) = {}
    /\ sweep.status = "completed" /\ ~sweep.dry => sweep.ok = ToSet(sweep.found)

(* A run asks the provider for nothing when it is dry, for no more than    *)
(* its clamped limit, only for games of its competition when it is a       *)
(* backfill, and for nothing once an answer said hard cap.                 *)
SweepWithin ==
    /\ sweep.dry => sweep.calls = {}
    /\ Cardinality(sweep.calls) <= sweep.limit /\ sweep.limit <= MaxLimit
    /\ sweep.kind = "backfill" =>
           \A i \in DOMAIN Games : Games[i].fixture \in sweep.calls =>
               Games[i].competition \in {Own.provider, Own.canonical}
    /\ ~sweep.late
=============================================================================
