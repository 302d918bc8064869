----------------------------- MODULE Matchday -----------------------------
(***************************************************************************)
(* The three scheduled walks over the provider: the daily anchor           *)
(* (workflows/daily-anchor.ts), the hourly matchday refresh                *)
(* (hourly-matchday.ts) and the webhook-completed refresh of one fixture   *)
(* (webhook-completed.ts).                                                 *)
(*                                                                         *)
(* A walk is a plan of fetches, made one after the other; the fixture list *)
(* of the anchor appends a plan of its own.  Each answer carries the quota *)
(* posture of that moment (the ingestion loop and other walks spend the    *)
(* same quota), and the walk follows the most restrictive action it has    *)
(* met in this competition: on "abort" it asks for nothing more.           *)
(*                                                                         *)
(* Runs      the workflow runs that are started                            *)
(* Catalogue the competitions of the steady-state sweep, in their order    *)
(* Calendar  the weekly windows of each competition, or Always             *)
(* Window    the fixtures of each competition's list                       *)
(* Moments   the moments a run may start at                                *)
(*                                                                         *)
(* walk[r]   the run: its kind, the competitions left, the calls left, the *)
(*           mode, whether an answer said hard cap, what it asked, whether *)
(*           a fetch of a webhook run came to anything, whose list it got  *)
(* said[r]   how many entries the run has logged                           *)
(***************************************************************************)
EXTENDS Degrade, Among, FiniteSets, SequencesExt

CONSTANTS Runs, Catalogue, Calendar, Always, Window, Moments

(* The catalogue and the lists of fixtures are lists, and so are the teams  *)
(* of a fixture.                                                           *)
ASSUME MatchdayAssumption ==
    /\ Catalogue \in Seq(ToSet(Catalogue))
    /\ \A c \in ToSet(Catalogue) :
           /\ Window[c] \in Seq(ToSet(Window[c]))
           /\ \A f \in ToSet(Window[c]) : f.teams \in Seq(ToSet(f.teams))

Kinds == {"daily-anchor", "hourly-matchday", "webhook-completed"}

(* What a fetch can come back with: data (fetched or cached), a rate       *)
(* limit, or nothing (failed, denied or skipped).                          *)
Answers == [status : {"data", "rate_limited", "nothing"}, posture : Postures]
Useful(answer) == answer.status = "data"

VARIABLES walk, said
matchdayVars == <<walk, said>>

(* isMatchdayWindow: a competition without a calendar is always in, a      *)
(* window holds its first hour and not its last.                           *)
InWindow(moment, calendar) ==
    \/ calendar = Always
    \/ /\ calendar # Always
       /\ \E w \in calendar :
              /\ w.day = moment.day
              /\ moment.hour \in w.from .. w.to - 1

Call(workload, of) == <<workload, of>>

(* The calls the anchor starts a competition with: the list of the fixtures *)
(* from yesterday to a week ahead, the table, the current season.          *)
AnchorCalls(c) ==
    << Call("fixtures-next-7d", c), Call("competition-standings", c),
       Call("competition-current-season", c) >>

(* The hourly walk asks for the table under the fixtures workload too.     *)
HourlyCalls(c) == << Call("table", c), Call("fixtures-next-24h", c) >>

WebhookCalls(f) ==
    << Call("fixture-detail-fullTime", f), Call("events-post-final", f),
       Call("lineups-post-confirm", f), Call("team-match-stats", f),
       Call("player-match-stats", f) >>

CallsOf(kind, x) ==
    CASE kind = "daily-anchor" -> AnchorCalls(x)
      [] kind = "hourly-matchday" -> HourlyCalls(x)
      [] kind = "webhook-completed" -> WebhookCalls(x)

(* A fixture is reconciled when the list says it is over, or when it should *)
(* have been under way for half an hour and the competition is in a window. *)
Finalised(f, moment, calendar) ==
    \/ f.status = "FT"
    \/ /\ f.overdue
       /\ InWindow(moment, calendar)

Reconciliation(f) ==
    << Call("fixture-detail-fullTime", f.id), Call("events-post-final", f.id),
       Call("lineups-post-confirm", f.id) >>

(* Mutant: a fixture whose teams are all known is passed over.             *)
WalkFixtureOfNewTeams(acc, f, moment, calendar) ==
    LET new == Among(f.teams, ToSet(f.teams) \ acc.seen)
        met == [i \in DOMAIN new |-> Call("team-metadata", new[i])]
    IN  [seen |-> acc.seen \union ToSet(f.teams),
         calls |-> acc.calls \o met
                     \o IF Finalised(f, moment, calendar) /\ new # <<>>
                        THEN Reconciliation(f) ELSE <<>>]

(* One step of the walk over the list: the metadata of the teams not met   *)
(* yet, home first, then the reconciliation of a finished fixture.         *)
WalkFixture(acc, f, moment, calendar) ==
    LET new == Among(f.teams, ToSet(f.teams) \ acc.seen)
        met == [i \in DOMAIN new |-> Call("team-metadata", new[i])]
    IN  [seen |-> acc.seen \union ToSet(f.teams),
         calls |-> acc.calls \o met
                     \o IF Finalised(f, moment, calendar) THEN Reconciliation(f) ELSE <<>>]

WalkList(list, moment, calendar) ==
    LET walked[i \in 0 .. Len(list)] ==
            IF i = 0 THEN [seen |-> {}, calls |-> <<>>]
            ELSE WalkFixture(walked[i - 1], list[i], moment, calendar)
    IN  walked[Len(list)].calls

Idle == [kind |-> "none", state |-> "idle", at |-> CHOOSE m \in Moments : TRUE,
         todo |-> <<>>, plan |-> <<>>, mode |-> "continue", told |-> FALSE,
         useful |-> FALSE, asked |-> {}, listed |-> {}]

MatchdayInit ==
    /\ walk = [r \in Runs |-> Idle]
    /\ said = [r \in Runs |-> 0]

(* The competitions a run is about: those named that the catalogue has,    *)
(* all of them when none is named, and for the hourly walk those in window. *)
Chosen(kind, named, moment) ==
    LET competitions == ToSet(Catalogue)
        selected == IF named = {} THEN competitions ELSE competitions \intersect named
    IN  Among(Catalogue, IF kind = "hourly-matchday"
                         THEN {c \in selected : InWindow(moment, Calendar[c])} ELSE selected)

Begun(kind, subjects, moment) ==
    [Idle EXCEPT !.kind = kind, !.at = moment, !.todo = subjects,
                 !.state = IF subjects = <<>> THEN "done" ELSE "walking",
                 !.plan = IF subjects = <<>> THEN <<>> ELSE CallsOf(kind, Head(subjects))]

(* Started, and at once no_window or finished when there is nothing to do. *)
StartSweep(r, kind, named, moment) ==
    LET subjects == Chosen(kind, named, moment)
    IN  /\ walk[r].state = "idle"
        /\ walk' = [walk EXCEPT ![r] = Begun(kind, subjects, moment)]
        /\ said' = [said EXCEPT ![r] = IF subjects = <<>> THEN 2 ELSE 1]

StartWebhook(r, fixture, supported, moment) ==
    /\ walk[r].state = "idle"
    /\ walk' = [walk EXCEPT ![r] =
                   Begun("webhook-completed", IF supported THEN <<fixture>> ELSE <<>>, moment)]
    /\ said' = [said EXCEPT ![r] = IF supported THEN 1 ELSE 2]

(* accumulate: the mode after an answer.                                   *)
Accumulated(mode, answer) ==
    LET next == MostRestrictive({mode, QuotaAction(answer.posture)})
    IN  IF next \in {"abort", "cached-only"} THEN next ELSE "continue"

(* The inline ingests of the anchor log one entry for a payload they got,  *)
(* whatever comes of it, and never throw (what they write: EntityJobs).    *)
IngestEntries(workload, answer) ==
    IF Useful(answer) /\ workload \in {"competition-standings", "competition-current-season"}
    THEN 1 ELSE 0

(* Mutant: the team walk does not look at the mode.                        *)
PlanAfterUnlessTeams(w, answer, mode) ==
    IF mode = "abort" /\ Head(w.plan)[1] # "team-metadata" THEN <<>>
    ELSE Tail(w.plan) \o
         IF /\ w.kind = "daily-anchor"
            /\ Head(w.plan)[1] = "fixtures-next-7d"
            /\ Useful(answer)
         THEN WalkList(Window[Head(w.todo)], w.at, Calendar[Head(w.todo)])
         ELSE <<>>

(* What is left to ask in this competition after an answer.                *)
PlanAfter(w, answer, mode) ==
    IF mode = "abort" THEN <<>>
    ELSE Tail(w.plan) \o
         IF /\ w.kind = "daily-anchor"
            /\ Head(w.plan)[1] = "fixtures-next-7d"
            /\ Useful(answer)
         THEN WalkList(Window[Head(w.todo)], w.at, Calendar[Head(w.todo)])
         ELSE <<>>

(* The workflow goes to its next competition unless it was told to abort.  *)
Advanced(w, plan, mode) ==
    IF plan # <<>> THEN [w EXCEPT !.plan = plan, !.mode = mode]
    ELSE LET left == IF mode = "abort" THEN <<>> ELSE Tail(w.todo)
         IN  [w EXCEPT !.todo = left, !.mode = "continue",
                       !.plan = IF left = <<>> THEN <<>> ELSE CallsOf(w.kind, Head(left)),
                       !.state = IF left = <<>> THEN "done" ELSE "walking"]

(* The closing entries; a webhook cut short returns without one, and the   *)
(* answer to its last call is not looked at for an abort.                  *)
ClosingEntries(w, plan, mode, next) ==
    IF plan # <<>> THEN 0
    ELSE IF w.kind = "webhook-completed"
         THEN IF mode = "abort" /\ Len(w.plan) > 1 THEN 0 ELSE 1
         ELSE (IF mode = "abort" THEN 1 ELSE 0) + (IF next.state = "done" THEN 1 ELSE 0)

Answer(r) ==
    /\ walk[r].state = "walking"
    /\ \E answer \in Answers :
         LET w == walk[r]
             call == Head(w.plan)
             mode == Accumulated(w.mode, answer)
             plan == PlanAfter(w, answer, mode)
             next == Advanced(w, plan, mode)
         IN  /\ walk' = [walk EXCEPT ![r] =
                    [next EXCEPT
                       !.asked = @ \union {<<Head(w.todo), call>>},
                       !.told = @ \/ answer.posture = "hard_cap_reached",
                       !.useful = @ \/ (w.kind = "webhook-completed" /\ answer.status # "nothing"),
                       !.listed = @ \union
                          IF call[1] = "fixtures-next-7d" /\ Useful(answer)
                          THEN {Head(w.todo)} ELSE {}]]
             /\ said' = [said EXCEPT ![r] = @ + IngestEntries(call[1], answer)
                                              + ClosingEntries(w, plan, mode, next)]

(* A fetch that throws (the store behind the quota or the cache is down)   *)
(* ends the run.                                                           *)
Throw(r) ==
    /\ walk[r].state = "walking"
    /\ walk' = [walk EXCEPT ![r].state = "thrown"]
    /\ UNCHANGED said

Settled(r) == walk[r].state \in {"done", "thrown"}

(* Every run that is told that the provider is at its hard cap asks for    *)
(* nothing more, in that competition and in those after it, whatever later *)
(* answers would have said (the abort checks of the three workflows).      *)
HeedsHardCap ==
    [][\A r \in Runs : walk[r].told => walk'[r].asked = walk[r].asked]_matchdayVars

(* A daily anchor that ran to its end without meeting the hard cap has, in *)
(* every competition whose list it got, asked for the metadata of every    *)
(* team, and for the detail, events and lineups of every finished fixture, *)
(* whichever fixtures share their teams ("Post-FT poller fallback",        *)
(* daily-anchor.ts:342-346).                                               *)
Reconciled ==
    \A r \in Runs :
        (walk[r].kind = "daily-anchor" /\ walk[r].state = "done" /\ ~walk[r].told) =>
            \A c \in walk[r].listed : \A i \in DOMAIN Window[c] :
                LET f == Window[c][i]
                IN  /\ \A t \in ToSet(f.teams) : <<c, Call("team-metadata", t)>> \in walk[r].asked
                    /\ f.status = "FT" =>
                           \A k \in DOMAIN Reconciliation(f) :
                               <<c, Reconciliation(f)[k]>> \in walk[r].asked
=============================================================================
