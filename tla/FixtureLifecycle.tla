-------------------------- MODULE FixtureLifecycle --------------------------
(***************************************************************************)
(* How the ingestion loop follows one fixture from discovery to its end    *)
(* (worker/ingestion.ts, start() and fixturePhase).                        *)
(*                                                                         *)
(* Timers fire on a clock: an hourly discovery lists the fixtures, and a   *)
(* tick per workload asks for those in its phase.  An answer is read from  *)
(* the cache or the provider when the call is made and acted on when it    *)
(* returns; calls of different workloads overtake one another.  The loop   *)
(* keeps no state that two fixtures share, so one is enough.               *)
(*                                                                         *)
(* A status is what routing tells apart: "NS" stands for every status that *)
(* is routed by the kickoff clock, "LIVE" for the seven in play, "FT" for  *)
(* the final ones and "PST" for those that are never played.               *)
(***************************************************************************)
EXTENDS Integers

CONSTANTS
    Lead, Grace, MaxLive, FinalWindow, \* routing windows
    Behind, Ahead,                     \* discovery window around now
    Every,       \* Every[t]: the interval of the timer of task t
    Ttl,         \* Ttl[k]: how long answers under cache key k are kept
    EmptyTtl,    \* and how long a lineup that is not out yet is
    None,        \* no record, no answer, no kickoff, no final sighting
    Kickoffs,    \* possible kickoffs
    MinMatch, MaxMatch, \* length of a match
    MaxDelay,    \* bound: how late a match starts
    Latency,     \* bound: how long a call takes
    Horizon,     \* bound: the last moment of a behaviour
    MaxFaults    \* bound: calls that bring no data, and restarts of the worker

Timed == {"discovery", "preKO", "live", "fullTime", "lineups"}
(* the sweep that ends a discovery, and the detail a missing lineup asks for *)
Tasks == Timed \union {"prune", "fallback"}
Keys == {"list", "preKO", "live", "fullTime", "lineups"}
KeyOf == [discovery |-> "list", preKO |-> "preKO", live |-> "live", fullTime |-> "fullTime",
          fallback |-> "fullTime", lineups |-> "lineups", prune |-> "list"]
Statuses == {"NS", "LIVE", "FT", "PST"}
(* A body that says nothing of the fixture, an error for one, is an answer. *)
Answers == Statuses \union {"void", "empty", "full"}
Times == 0..Horizon

(* The discovery interval is a multiple of the others. *)
ASSUME WindowsAssumption ==
    /\ \A t \in Timed : Every["discovery"] % Every[t] = 0
    /\ Lead \in Nat /\ Grace \in Nat /\ MaxLive \in Nat /\ FinalWindow \in Nat
    /\ Behind \in Nat /\ Ahead \in Nat /\ EmptyTtl \in Nat
    /\ Every \in [Timed -> Nat \ {0}] /\ Ttl \in [Keys -> Nat]
ASSUME MatchAssumption ==
    /\ Kickoffs \subseteq Nat /\ MaxDelay \in Nat
    /\ MinMatch \in Nat /\ MaxMatch \in Nat /\ MinMatch <= MaxMatch
ASSUME LifecycleBounds ==
    /\ Horizon \in Nat /\ Latency \in Nat /\ MaxFaults \in Nat

OrNone(S) == S \union {None}
(* What the loop knows of the fixture, what it caches, what it waits for. *)
Records == [status : Statuses, kickoff : OrNone(Int), finalSince : OrNone(Int)]
Entries == [answer : Answers, expires : Int]
Calls == [answer : OrNone(Answers), cached : BOOLEAN, since : Nat]
ASSUME NoneIsNothing ==
    None \notin Int /\ None \notin Answers /\ None \notin Records \union Entries \union Calls

VARIABLES
    now,       \* the clock
    booted,    \* the boot its timers count from, as an offset within a discovery interval
    provider,  \* status of the fixture at the provider
    kickoff,   \* its scheduled kickoff
    started,   \* while it is played: since when
    lineup,    \* whether its lineup is ever out: "full" or "empty"
    record,    \* what the loop has in fixtureLifecycle, or None: not tracked
    teams,     \* fixtureTeamIds has its teams
    cache,     \* cache[k]: answer and expiry
    flight,    \* flight[t]: the answer task t waits for, and since when
    over,      \* when the match ended or was called off (history)
    adopted,   \* a list of this boot put the fixture into the live set before its end (history)
    delivered, \* a detail with the final status reached the bridge (history)
    listFinal, \* a list has told this boot's loop that it is over (history)
    failures,  \* calls so far that brought nothing
    restarts   \* restarts so far

worker == <<booted, record, teams, cache, flight>>
match == <<provider, kickoff, lineup, started, over>>
seen == <<adopted, delivered, listFinal>>
vars == <<now, worker, match, seen, failures, restarts>>

TypeOK ==
    /\ now \in Times /\ booted \in Nat
    /\ provider \in Statuses /\ kickoff \in Kickoffs /\ lineup \in {"full", "empty"}
    /\ started \in OrNone(Times) /\ over \in OrNone(Times)
    /\ record \in OrNone(Records)
    /\ teams \in BOOLEAN
    /\ cache \in [Keys -> OrNone(Entries)]
    /\ flight \in [Tasks -> OrNone(Calls)]
    /\ adopted \in BOOLEAN /\ delivered \in BOOLEAN /\ listFinal \in BOOLEAN
    /\ failures \in 0..MaxFaults /\ restarts \in 0..MaxFaults

Question(answer, cached) == [answer |-> answer, cached |-> cached, since |-> now]

(* The boot seed runs a discovery at once; the other timers wait. *)
Init ==
    /\ now = 0 /\ booted = 0
    /\ provider = "NS" /\ kickoff \in Kickoffs /\ lineup \in {"full", "empty"}
    /\ started = None /\ over = None
    /\ record = None
    /\ teams = FALSE
    /\ cache = [k \in Keys |-> None]
    /\ flight = [t \in Tasks |-> IF t = "discovery" THEN Question(provider, FALSE) ELSE None]
    /\ adopted = FALSE /\ delivered = FALSE /\ listFinal = FALSE
    /\ failures = 0 /\ restarts = 0

-----------------------------------------------------------------------------
(* fixturePhase *)

ByClock(k, time) ==
    IF k = None THEN "upcoming"
    ELSE IF time > k + MaxLive THEN "settled"
    ELSE IF time >= k - Grace THEN "live"
    ELSE IF time >= k - Lead THEN "preKO"
    ELSE "upcoming"

PhaseAt(time) ==
    IF record = None THEN "settled"
    ELSE CASE record.status = "LIVE" -> "live"
           [] record.status = "FT" ->
                IF time <= record.finalSince + FinalWindow THEN "postFinal" ELSE "settled"
           [] record.status = "PST" -> "settled"
           [] record.status = "NS" -> ByClock(record.kickoff, time)

Phase == PhaseAt(now)

(* Mutant: the discovery window is open to the past. *)
DiscoverableLongAgo(status) == status = "LIVE" \/ kickoff <= now + Ahead

(* isDiscoverableFixture *)
Discoverable(status) ==
    status = "LIVE" \/ (kickoff >= now - Behind /\ kickoff <= now + Ahead)

(* Mutant: a detail, which has no kickoff, wipes the one that is known. *)
UpsertedUndated(status, k) ==
    [status |-> status, kickoff |-> k,
     finalSince |-> IF status # "FT" THEN None
                    ELSE IF record # None /\ record.finalSince # None THEN record.finalSince
                    ELSE now]

(* the record upsertFixtures leaves: a detail carries no kickoff *)
Upserted(status, k) ==
    [status |-> status,
     kickoff |-> IF k # None \/ record = None THEN k ELSE record.kickoff,
     finalSince |-> IF status # "FT" THEN None
                    ELSE IF record # None /\ record.finalSince # None THEN record.finalSince
                    ELSE now]

-----------------------------------------------------------------------------
(* Calls *)

(* Which phases a timer's task asks for. *)
PhasesOf == [preKO |-> {"preKO"}, live |-> {"live"}, fullTime |-> {"postFinal"},
             lineups |-> {"preKO", "postFinal"}]

(* The timers that fire at a time, and of these the tasks that call: a     *)
(* task whose last call is still out joins it in the singleflight, and     *)
(* acts on the same answer again.                                          *)
Fired(time) == {t \in Timed : (time - booted) % Every[t] = 0}

Calling(time) ==
    {t \in Fired(time) : flight[t] = None /\ (t = "discovery" \/ PhaseAt(time) \in PhasesOf[t])}

Fresh(key, time) == cache[key] # None /\ time < cache[key].expires

(* fetchWorkload: what it will return is read when it is called, from the  *)
(* cache or the provider.                                                  *)
Asked(t, time) ==
    LET key == KeyOf[t] IN
    IF Fresh(key, time)
    THEN [answer |-> cache[key].answer, cached |-> TRUE, since |-> time]
    ELSE [answer |-> IF key = "lineups" THEN lineup ELSE provider, cached |-> FALSE, since |-> time]

(* Mutant: a live detail is kept as long as one of after the match. *)
TtlOfFinals(key, answer) ==
    IF answer = "empty" THEN EmptyTtl ELSE IF key = "live" THEN Ttl["fullTime"] ELSE Ttl[key]

TtlOf(key, answer) == IF answer = "empty" THEN EmptyTtl ELSE Ttl[key]

(* A fetched answer is stored before it is handed out. *)
Stored(key, answer) ==
    [cache EXCEPT ![key] = [answer |-> answer, expires |-> now + TtlOf(key, answer)]]

Store(t) ==
    cache' = IF flight[t].cached THEN cache ELSE Stored(KeyOf[t], flight[t].answer)

Back(t) == [flight EXCEPT ![t] = None]

(* The sweep over the leagues ends with a prune once all lists are in.     *)
BackFromDiscovery == [Back("discovery") EXCEPT !["prune"] = Question(None, TRUE)]

(* A lineup that is not out has the squads of both teams fetched instead;  *)
(* while these are unknown, that takes a detail first.                     *)
BackFromLineups(answer) ==
    IF answer = "empty" /\ ~teams /\ flight["fallback"] = None
    THEN [Back("lineups") EXCEPT !["fallback"] = Asked("fallback", now)]
    ELSE Back("lineups")

(* Discovery: the fixture is upserted if the list has it in its window.    *)
LandDiscovery ==
    /\ flight["discovery"] # None
    /\ Store("discovery")
    /\ flight' = BackFromDiscovery
    /\ LET status == flight["discovery"].answer IN
       IF status # "void" /\ Discoverable(status)
       THEN /\ record' = Upserted(status, kickoff)
            /\ adopted' = (adopted \/ over = None)
            /\ listFinal' = (listFinal \/ status = "FT")
       ELSE UNCHANGED <<record, adopted, listFinal>>
    /\ UNCHANGED <<now, booted, teams, match, delivered, failures, restarts>>

(* pruneSettledFixtures *)
Prune ==
    /\ flight["prune"] # None
    /\ flight' = Back("prune")
    /\ IF Phase = "settled" THEN record' = None /\ teams' = FALSE ELSE UNCHANGED <<record, teams>>
    /\ UNCHANGED <<now, booted, cache, match, seen, failures, restarts>>

(* A detail went through the bridge on its way here.  It updates the       *)
(* record if it has a status, and tells the teams if it has these.         *)
LandDetail(t) ==
    /\ t \in {"preKO", "live", "fullTime"} /\ flight[t] # None
    /\ Store(t)
    /\ flight' = Back(t)
    /\ teams' \in {teams, TRUE}
    /\ record' = IF flight[t].answer = "void" THEN record ELSE Upserted(flight[t].answer, None)
    /\ delivered' = (delivered \/ flight[t].answer = "FT")
    /\ UNCHANGED <<now, booted, match, adopted, listFinal, failures, restarts>>

LandLineups ==
    /\ flight["lineups"] # None
    /\ Store("lineups")
    /\ flight' = BackFromLineups(flight["lineups"].answer)
    /\ UNCHANGED <<now, booted, record, teams, match, seen, failures, restarts>>

(* The detail for the squads is cached and bridged as a full-time one,     *)
(* whatever it says, but does not update the record.                       *)
LandFallback ==
    /\ flight["fallback"] # None
    /\ Store("fallback")
    /\ flight' = Back("fallback")
    /\ teams' \in {teams, TRUE}
    /\ delivered' = (delivered \/ flight["fallback"].answer = "FT")
    /\ UNCHANGED <<now, booted, record, match, adopted, listFinal, failures, restarts>>

(* A call brings no data: denied, failed or rate limited.  A discovery     *)
(* prunes all the same.                                                    *)
Fail(t) ==
    /\ failures + restarts < MaxFaults
    /\ flight[t] # None /\ ~flight[t].cached
    /\ failures' = failures + 1
    /\ flight' = IF t = "discovery" THEN BackFromDiscovery ELSE Back(t)
    /\ UNCHANGED <<now, booted, record, teams, cache, match, seen, restarts>>

(* A call succeeds and brings a body that says nothing of the fixture: it  *)
(* is kept as long as one that does, and served again from the cache.      *)
BringNothing(t) ==
    /\ failures + restarts < MaxFaults
    /\ t # "prune" /\ flight[t] # None /\ ~flight[t].cached
    /\ failures' = failures + 1
    /\ cache' = Stored(KeyOf[t], IF t = "lineups" THEN "empty" ELSE "void")
    /\ flight' = CASE t = "discovery" -> BackFromDiscovery
                   [] t = "lineups" -> BackFromLineups("empty")
                   [] OTHER -> Back(t)
    /\ UNCHANGED <<now, booted, record, teams, match, seen, restarts>>

-----------------------------------------------------------------------------
(* The match, the worker and the clock *)

KickOff ==
    /\ provider = "NS" /\ now >= kickoff /\ now <= kickoff + MaxDelay
    /\ provider' = "LIVE" /\ started' = now
    /\ UNCHANGED <<now, worker, kickoff, lineup, over, seen, failures, restarts>>

Whistle ==
    /\ provider = "LIVE" /\ now >= started + MinMatch
    /\ provider' = "FT" /\ over' = now /\ started' = None
    /\ UNCHANGED <<now, worker, kickoff, lineup, seen, failures, restarts>>

CallOff ==
    /\ provider = "NS"
    /\ provider' = "PST" /\ over' = now
    /\ UNCHANGED <<now, worker, kickoff, lineup, started, seen, failures, restarts>>

(* The loop, its cache and its set live in the memory of the worker. *)
Restart ==
    /\ failures + restarts < MaxFaults
    /\ restarts' = restarts + 1
    /\ booted' = now % Every["discovery"]
    /\ record' = None /\ teams' = FALSE
    /\ cache' = [k \in Keys |-> None]
    /\ flight' = [t \in Tasks |-> IF t = "discovery" THEN Question(provider, FALSE) ELSE None]
    /\ adopted' = FALSE /\ listFinal' = FALSE
    /\ UNCHANGED <<now, match, delivered, failures>>

(* Expired answers count for nothing: they are forgotten at once. *)
Unexpired(time) ==
    [k \in Keys |-> IF cache[k] = None THEN None
                    ELSE IF cache[k].expires <= time THEN None ELSE cache[k]]

(* Time moves, and the timers that are due fire, when no call is out for   *)
(* longer than the bound on calls and no match takes longer than a match.  *)
Pass ==
    /\ now < Horizon
    /\ \A t \in Tasks : flight[t] # None => now < flight[t].since + Latency
    /\ provider = "LIVE" => now < started + MaxMatch
    /\ now' = now + 1
    /\ flight' = [t \in Tasks |-> IF t \in Calling(now + 1) THEN Asked(t, now + 1) ELSE flight[t]]
    /\ cache' = Unexpired(now')
    /\ UNCHANGED <<booted, record, teams, match, seen, failures, restarts>>

Next ==
    \/ LandDiscovery \/ Prune \/ LandLineups \/ LandFallback
    \/ \E t \in {"preKO", "live", "fullTime"} : LandDetail(t)
    \/ \E t \in Tasks : Fail(t) \/ BringNothing(t)
    \/ KickOff \/ Whistle \/ CallOff \/ Restart
    \/ Pass

Spec == Init /\ [][Next]_vars

-----------------------------------------------------------------------------
(* Properties *)

(* Once a list of this boot has shown the fixture, the live tick asks for  *)
(* it for as long as it is played, whatever order the answers of the other *)
(* ticks arrive in and however old those from the cache are.               *)
InPlayRouted ==
    adopted /\ provider = "LIVE" /\ now <= kickoff + MaxLive
        => Phase = "live"

(* How long an answer of before may come out of the cache: it was stored   *)
(* when it returned.                                                       *)
LiveCached == IF Ttl["live"] = 0 THEN 0 ELSE Latency + Ttl["live"]

(* What a call that brings nothing puts live polling off by: its answer    *)
(* comes out of the cache until it expires, and the next tick asks again.  *)
Setback == Every["live"] + Ttl["live"] + 2 * Latency

(* What a live tick needs to come by an answer, after so many that said    *)
(* nothing and a last one that was asked for too early.                    *)
LiveAnswer == LiveCached + failures * Setback + Every["live"] + 2 * Latency

(* A final whistle heard by a loop that follows the match reaches the      *)
(* bridge, and with it the match-concluded publisher, within a live tick - *)
(* unless a list told the loop first, and live polling ended with it, or   *)
(* the answer comes past the span in which the clock calls a match live.   *)
FinalDelivered ==
    /\ provider = "FT" /\ adopted /\ ~listFinal
    /\ over + LiveAnswer <= kickoff + MaxLive
    /\ now > over + LiveAnswer
    => delivered

(* Calls are so short that one under way at a prune is back before the     *)
(* next.                                                                   *)
CallsAreShort ==
    2 * Latency <= FinalWindow /\ 4 * Latency + FinalWindow <= Every["discovery"]

(* How long the last news of a match may keep it tracked: the window after *)
(* the final, twice, for a detail that returns after the prune tracks it   *)
(* once more.                                                              *)
Aftermath == 2 * (Latency + FinalWindow)

(* A match that is over, or was called off, is polled no more once nothing *)
(* that was cached before its end is served, live polling has heard of it, *)
(* and neither the clock nor a list can call it in play - but for what a   *)
(* status without a kickoff, left by an answer that arrived after the      *)
(* prune, may keep: it is tracked as upcoming and never polled either.     *)
LetGo ==
    /\ CallsAreShort /\ over # None
    /\ \A k \in Keys \ {"lineups"} :
          now > over + Ttl[k] + 2 * Latency + (failures + 1) * Setback + Aftermath
    /\ now > kickoff + MaxLive + Aftermath /\ now > kickoff + Behind + Aftermath
    => Phase \in {"settled", "upcoming"}

(* What the post-final window is for: a fixture that settles with a final  *)
(* status has had its final detail fetched.                                *)
FinalIsPolled ==
    record # None /\ record.status = "FT" /\ Phase = "settled" => delivered
=============================================================================
