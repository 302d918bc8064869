----------------------------- MODULE GameBridge -----------------------------
(***************************************************************************)
(* What happens to a payload the ingestion loop has fetched: the callback  *)
(* of worker/match-concluded-bridge.ts.                                    *)
(*                                                                         *)
(* A list mints a game per fixture.  A detail updates the game, lifts the  *)
(* events out of the payload and hands the status to the match-concluded   *)
(* publisher.  Any other payload belongs to a game that must be known, and *)
(* is looked up up to four times.  Entities are resolved one by one before *)
(* a request is built.  Each remote call is a step of its own, callbacks   *)
(* of different workloads and fixtures interleave at them, and none of     *)
(* them may throw.                                                         *)
(*                                                                         *)
(* The loop answers from its cache while it can, and hands what it finds   *)
(* there to the callback again: a list that is hours old comes after a     *)
(* detail of this minute.  A payload therefore has two numbers, that of    *)
(* the delivery (at) and that of the call it is from (read).               *)
(*                                                                         *)
(* Game-service and identity-service are external: a game exists once its  *)
(* ingest was accepted, and rows are upserted.                             *)
(***************************************************************************)
EXTENDS Integers, Sequences, FiniteSets

CONSTANTS
    Lanes,      \* callbacks under way at once
    Fixtures,
    Entities,   \* competitions, teams and players
    Resources,  \* the workloads for one game that are fetched
    Keys,       \* what the loop asks for, and keeps in its cache
    WorkloadOf, \* WorkloadOf[k]: the workload it asks with
    Mentions,   \* Mentions[w]: the entities a payload names, in order
    LookupAttempts, \* one more than gameLookupRetryDelaysMs has delays
    MaxPayloads,\* bound: payloads delivered
    MaxFaults,  \* bound: remote calls that fail
    NoPayload

Workloads == Resources \union {"list", "detail"}

(* What game-service keeps of a workload: the timeline of a detail goes    *)
(* where the events go.                                                    *)
RowsOf == [events |-> "occurrences", detail |-> "occurrences", lineups |-> "lineups",
           squad |-> "squads", teamStats |-> "teamStats", playerStats |-> "playerStats"]
Tables == {RowsOf[w] : w \in DOMAIN RowsOf}

ASSUME BridgeAssumption ==
    /\ Resources \subseteq DOMAIN RowsOf \ {"detail"}
    /\ Mentions \in [Workloads \union {"embedded"} -> Seq(Entities)]
    /\ WorkloadOf \in [Keys -> Workloads]
ASSUME FixturesAssumption == IsFiniteSet(Fixtures)
ASSUME BridgeBounds == LookupAttempts \in Nat \ {0} /\ MaxPayloads \in Nat /\ MaxFaults \in Nat

(* decodes: the envelope has the shape and something in it; maps: a request *)
(* built from it is not empty; events: it embeds a timeline.                *)
Payloads == [key : Keys, workload : Workloads, fixtures : SUBSET Fixtures,
             at : 1..MaxPayloads, read : 1..MaxPayloads, maps : BOOLEAN, events : BOOLEAN]
ASSUME NoPayloadAssumption == NoPayload \notin Payloads

VARIABLES
    stage,     \* stage[l]: the remote call lane l is about to make
    payload,   \* payload[l]: what it carries
    mention,   \* mention[l]: which of the entities it resolves next
    resolved,  \* resolved[l]: the entities it has found
    attempt,   \* attempt[l]: lookups it has made
    game,      \* game[f]: the payload game-service's row of the game is from, or 0
    rows,      \* rows[t][f]: the payload the rows of a table are from, or 0
    known,     \* entities identity-service knows
    payloads,  \* payloads delivered so far
    faults,    \* failed calls so far
    of,        \* of[n]: the n-th payload (history)
    done,      \* done[n]: what has been made of it (history)
    had,       \* resources whose game was there when they were read (history)
    hurt,      \* payloads that met a failed call (history)
    clash      \* two payloads of a fixture were under way at once (history)

lane == <<stage, payload, mention, resolved, attempt>>
service == <<game, rows, known>>
told == <<of, done, had, hurt, clash>>
vars == <<lane, service, payloads, faults, told>>

Stages == {"idle", "resolve", "games", "lookup", "embedded", "timeline", "rows", "observe"}

TypeOK ==
    /\ stage \in [Lanes -> Stages]
    /\ payload \in [Lanes -> Payloads \union {NoPayload}]
    /\ mention \in [Lanes -> Nat]
    /\ resolved \in [Lanes -> SUBSET Entities]
    /\ attempt \in [Lanes -> 0..LookupAttempts]
    /\ game \in [Fixtures -> 0..MaxPayloads]
    /\ rows \in [Tables -> [Fixtures -> 0..MaxPayloads]]
    /\ known \subseteq Entities
    /\ payloads \in 0..MaxPayloads /\ faults \in 0..MaxFaults
    /\ of \in [1..MaxPayloads -> Payloads \union {NoPayload}]
    /\ done \in [1..MaxPayloads -> SUBSET {"games", "timeline", "rows", "observed", "over"}]
    /\ had \subseteq 1..MaxPayloads /\ hurt \subseteq 1..MaxPayloads
    /\ clash \in BOOLEAN

Init ==
    /\ stage = [l \in Lanes |-> "idle"]
    /\ payload = [l \in Lanes |-> NoPayload]
    /\ mention = [l \in Lanes |-> 1]
    /\ resolved = [l \in Lanes |-> {}]
    /\ attempt = [l \in Lanes |-> 0]
    /\ game = [f \in Fixtures |-> 0]
    /\ rows = [t \in Tables |-> [f \in Fixtures |-> 0]]
    /\ known = {}
    /\ payloads = 0 /\ faults = 0
    /\ of = [n \in 1..MaxPayloads |-> NoPayload]
    /\ done = [n \in 1..MaxPayloads |-> {}]
    /\ had = {} /\ hurt = {} /\ clash = FALSE

-----------------------------------------------------------------------------
Goto(l, place) == stage' = [stage EXCEPT ![l] = place]

(* The callback of lane l returns. *)
Return(l) ==
    /\ Goto(l, "idle")
    /\ payload' = [payload EXCEPT ![l] = NoPayload]
    /\ mention' = [mention EXCEPT ![l] = 1]
    /\ resolved' = [resolved EXCEPT ![l] = {}]
    /\ attempt' = [attempt EXCEPT ![l] = 0]

(* A squad is asked for by fixture and team, and stored under the fixture. *)
Fixture(l) == CHOOSE f \in payload[l].fixtures : TRUE

Exists(f) == game[f] # 0

(* A call of lane l fails. *)
Fault(l) ==
    /\ faults < MaxFaults
    /\ faults' = faults + 1
    /\ hurt' = hurt \union {payload[l].at}
NoFault == UNCHANGED <<faults, hurt>>

Done(l, deeds) == done' = [done EXCEPT ![payload[l].at] = @ \union deeds]

-----------------------------------------------------------------------------
(* A payload that the decoder of its workload accepts (of the others       *)
(* nothing becomes) is on its way to the callback, from the moment it is   *)
(* read: the call, the quota snapshot of a cache hit and the first call of *)
(* the callback take as long as the lane rests.  Lanes differ in nothing:  *)
(* it takes the first that is free.  A list and a detail resolve first,    *)
(* the rest look their game up first.                                      *)
Deliver(l, p) ==
    /\ stage[l] = "idle" /\ l = (CHOOSE j \in Lanes : stage[j] = "idle")
    /\ payloads < MaxPayloads
    /\ payloads' = payloads + 1
    /\ payload' = [payload EXCEPT ![l] = p] /\ of' = [of EXCEPT ![payloads + 1] = p]
    /\ had' = IF p.workload \in Resources /\ \A f \in p.fixtures : Exists(f)
              THEN had \union {payloads + 1} ELSE had
    /\ Goto(l, IF p.workload \in Resources THEN "lookup" ELSE "resolve")
    /\ clash' = (clash \/ \E k \in Lanes : /\ payload[k] # NoPayload
                                           /\ payload[k].fixtures \intersect p.fixtures # {})
    /\ UNCHANGED <<mention, resolved, attempt, service, faults, done, hurt>>

(* fetchWorkload: what is not in the cache, or no more, is fetched. *)
Receive(l, k, fs, maps, events) ==
    /\ WorkloadOf[k] = "list" \/ Cardinality(fs) = 1
    /\ fs # {} /\ (events => WorkloadOf[k] = "detail")
    /\ Deliver(l, [key |-> k, workload |-> WorkloadOf[k], fixtures |-> fs,
                   at |-> payloads + 1, read |-> payloads + 1, maps |-> maps, events |-> events])

(* What the cache keeps of a key is the last that was fetched.  How long   *)
(* is left open: at any moment it may be there still, or be fetched anew.  *)
Kept(n) ==
    /\ n <= payloads /\ of[n].read = n
    /\ \A m \in 1..payloads : of[m].key = of[n].key => of[m].read <= n

(* A cache hit: the callback is given the old payload again. *)
Redeliver(l, n) ==
    /\ Kept(n)
    /\ Deliver(l, [of[n] EXCEPT !.at = payloads + 1])

(* The entities lane l resolves at its stage. *)
Named(l) == Mentions[IF stage[l] = "embedded" THEN "embedded" ELSE payload[l].workload]

(* What follows once all of them were asked for: a request, or nothing if  *)
(* the mapping leaves none.  A detail goes on to the lookup all the same.  *)
AfterResolve(l) ==
    CASE stage[l] = "embedded" -> "timeline"
      [] stage[l] # "embedded" /\ payload[l].workload = "detail" ->
             IF payload[l].maps THEN "games" ELSE "lookup"
      [] stage[l] # "embedded" /\ payload[l].workload = "list" ->
             IF payload[l].maps THEN "games" ELSE "idle"
      [] OTHER -> IF payload[l].maps THEN "rows" ELSE "idle"

(* Mutant: a payload with an entity that is not resolved is discarded. *)
BuiltResolved(l) ==
    /\ stage[l] \in {"resolve", "embedded"}
    /\ mention[l] > Len(Named(l))
    /\ IF AfterResolve(l) = "idle" \/ (\E i \in DOMAIN Named(l) : Named(l)[i] \notin resolved[l])
       THEN Return(l) /\ Done(l, {"over"})
       ELSE /\ Goto(l, AfterResolve(l))
            /\ mention' = [mention EXCEPT ![l] = 1]
            /\ resolved' = [resolved EXCEPT ![l] = {}]
            /\ UNCHANGED <<payload, attempt, done>>
    /\ UNCHANGED <<service, payloads, faults, of, had, hurt, clash>>

Built(l) ==
    /\ stage[l] \in {"resolve", "embedded"}
    /\ mention[l] > Len(Named(l))
    /\ IF AfterResolve(l) = "idle" THEN Return(l) /\ Done(l, {"over"})
       ELSE /\ Goto(l, AfterResolve(l))
            /\ mention' = [mention EXCEPT ![l] = 1]
            /\ resolved' = [resolved EXCEPT ![l] = {}]
            /\ UNCHANGED <<payload, attempt, done>>
    /\ UNCHANGED <<service, payloads, faults, of, had, hurt, clash>>

(* addResolvedEntity: an entity this payload has found already is not      *)
(* asked for again; one that is unknown, or whose lookup failed, stays a   *)
(* provider reference and is asked for at its next mention.                *)
Resolve(l) ==
    /\ stage[l] \in {"resolve", "embedded"}
    /\ mention[l] <= Len(Named(l))
    /\ mention' = [mention EXCEPT ![l] = @ + 1]
    /\ LET e == Named(l)[mention[l]] IN
       \/ /\ e \in resolved[l]
          /\ resolved' = resolved /\ NoFault
       \/ /\ e \notin resolved[l]
          /\ resolved' = [resolved EXCEPT ![l] = IF e \in known THEN @ \union {e} ELSE @]
          /\ NoFault
       \/ /\ e \notin resolved[l]
          /\ Fault(l) /\ resolved' = resolved
    /\ UNCHANGED <<stage, payload, attempt, service, payloads, of, done, had, clash>>

(* IngestGames: the rows of the fixtures are upserted, whatever was there. *)
Upsert(l) ==
    game' = [f \in Fixtures |-> IF f \in payload[l].fixtures
                                THEN payload[l].at ELSE game[f]]

(* Mutant: a game that exists is not written again. *)
IngestGamesOnce(l) ==
    /\ stage[l] = "games"
    /\ \/ NoFault /\ IF \E f \in payload[l].fixtures : Exists(f) THEN game' = game ELSE Upsert(l)
       \/ Fault(l) /\ (game' = game \/ Upsert(l))
    /\ IF payload[l].workload = "list"
       THEN Return(l) /\ Done(l, {"games", "over"})
       ELSE Goto(l, "lookup") /\ Done(l, {"games"}) /\ UNCHANGED <<payload, mention, resolved, attempt>>
    /\ UNCHANGED <<rows, known, payloads, of, had, clash>>

(* An ingest that fails may have been applied; a detail goes on.           *)
IngestGames(l) ==
    /\ stage[l] = "games"
    /\ \/ NoFault /\ Upsert(l)
       \/ Fault(l) /\ (game' = game \/ Upsert(l))
    /\ IF payload[l].workload = "list"
       THEN Return(l) /\ Done(l, {"games", "over"})
       ELSE Goto(l, "lookup") /\ Done(l, {"games"}) /\ UNCHANGED <<payload, mention, resolved, attempt>>
    /\ UNCHANGED <<rows, known, payloads, of, had, clash>>

(* Mutant: the timeline of a detail is left to the events workload. *)
FoundWithoutEvents(l) ==
    /\ stage[l] = "lookup" /\ Exists(Fixture(l))
    /\ Goto(l, IF payload[l].workload # "detail" THEN "resolve"
               ELSE "observe")
    /\ attempt' = [attempt EXCEPT ![l] = 0]
    /\ UNCHANGED <<payload, mention, resolved, service, payloads, faults, told>>

(* LookupGameByFixture finds the game: a detail goes on with its events,   *)
(* if it has any, the others with their entities.                          *)
Found(l) ==
    /\ stage[l] = "lookup" /\ Exists(Fixture(l))
    /\ Goto(l, IF payload[l].workload # "detail" THEN "resolve"
               ELSE IF payload[l].events THEN "embedded" ELSE "observe")
    /\ attempt' = [attempt EXCEPT ![l] = 0]
    /\ UNCHANGED <<payload, mention, resolved, service, payloads, faults, told>>

(* Mutant: a payload whose game is not found waits on without counting. *)
NotFoundForever(l) ==
    /\ stage[l] = "lookup" /\ ~Exists(Fixture(l))
    /\ IF payload[l].workload = "detail" THEN Return(l) /\ Done(l, {"over"})
       ELSE UNCHANGED <<lane, done>>
    /\ UNCHANGED <<service, payloads, faults, of, had, hurt, clash>>

(* It does not: lookupGameId tries again after each of its delays, a       *)
(* detail does not, and the payload is dropped.                            *)
NotFound(l) ==
    /\ stage[l] = "lookup" /\ ~Exists(Fixture(l))
    /\ IF payload[l].workload = "detail" \/ attempt[l] + 1 = LookupAttempts
       THEN Return(l) /\ Done(l, {"over"})
       ELSE /\ attempt' = [attempt EXCEPT ![l] = @ + 1]
            /\ UNCHANGED <<stage, payload, mention, resolved, done>>
    /\ UNCHANGED <<service, payloads, faults, of, had, hurt, clash>>

(* A lookup that fails is not tried again.                                 *)
LookupFails(l) ==
    /\ stage[l] = "lookup"
    /\ Fault(l) /\ Return(l) /\ Done(l, {"over"})
    /\ UNCHANGED <<service, payloads, of, had, clash>>

(* The rows of a payload, under the game that was found. *)
IngestRows(l) ==
    /\ stage[l] = "rows"
    /\ LET stored == [rows EXCEPT ![RowsOf[payload[l].workload]][Fixture(l)] = payload[l].at] IN
       \/ NoFault /\ rows' = stored
       \/ Fault(l) /\ rows' \in {rows, stored}
    /\ Return(l) /\ Done(l, {"rows", "over"})
    /\ UNCHANGED <<game, known, payloads, of, had, clash>>

(* The timeline of a detail goes the way of the events workload, and its   *)
(* failure does not keep the status from the publisher.                    *)
IngestTimeline(l) ==
    /\ stage[l] = "timeline"
    /\ LET stored == [rows EXCEPT !["occurrences"][Fixture(l)] = payload[l].at] IN
       \/ NoFault /\ rows' = stored
       \/ Fault(l) /\ rows' \in {rows, stored}
    /\ Goto(l, "observe") /\ Done(l, {"timeline"})
    /\ UNCHANGED <<payload, mention, resolved, attempt, game, known, payloads, of, had, clash>>

(* publisher.observe, in the end; a rejection of it is caught.             *)
Observe(l) ==
    /\ stage[l] = "observe"
    /\ NoFault \/ Fault(l)
    /\ Return(l) /\ Done(l, {"observed", "over"})
    /\ UNCHANGED <<service, payloads, of, had, clash>>

(* identity-service learns of an entity *)
Mint(e) ==
    /\ e \notin known
    /\ known' = known \union {e}
    /\ UNCHANGED <<lane, game, rows, payloads, faults, told>>

Step(l) ==
    \/ Resolve(l) \/ Built(l) \/ IngestGames(l) \/ Found(l) \/ NotFound(l) \/ LookupFails(l)
    \/ IngestRows(l) \/ IngestTimeline(l) \/ Observe(l)

Next ==
    \/ \E l \in Lanes, k \in Keys, fs \in SUBSET Fixtures, maps, events \in BOOLEAN :
         Receive(l, k, fs, maps, events)
    \/ \E l \in Lanes, n \in 1..MaxPayloads : Redeliver(l, n)
    \/ \E l \in Lanes : Step(l)
    \/ \E e \in Entities : Mint(e)

Spec == Init /\ [][Next]_vars

(* A remote call settles, and the event loop runs what follows. *)
FairSpec == Spec /\ \A l \in Lanes : WF_vars(Step(l))

-----------------------------------------------------------------------------
(* Properties *)

Over(n) == "over" \in done[n]

(* What is stored of a match belongs to a game game-service knows, however *)
(* the payloads of its workloads race one another. *)
RowsUnderGame == \A t \in Tables, f \in Fixtures : rows[t][f] # 0 => Exists(f)

(* The publisher hears of a status only when the same payload has been     *)
(* offered to game-service before, game and timeline, and the game exists: *)
(* a match-concluded fact does not overtake the match it concludes.        *)
FactFollowsGame ==
    \A n \in 1..MaxPayloads : "observed" \in done[n] =>
        /\ \A f \in of[n].fixtures : Exists(f)
        /\ of[n].maps => "games" \in done[n]
        /\ of[n].events => "timeline" \in done[n]

(* Neither rows nor facts come before the game they are about.             *)
GameComesFirst == RowsUnderGame /\ FactFollowsGame

(* A payload that met no failed call is lost only if its game is unknown:  *)
(* a detail brings its own, for the others it must have been there when    *)
(* they were read.  Entities nobody knows are no reason.                     *)
LossExplained ==
    \A n \in 1..MaxPayloads : Over(n) /\ n \notin hurt /\ of[n].maps =>
        CASE of[n].workload = "list" -> "games" \in done[n]
          [] of[n].workload = "detail" -> "observed" \in done[n]
          [] OTHER -> n \in had => "rows" \in done[n]

Minting(n, f) == of[n] # NoPayload /\ of[n].workload \in {"list", "detail"} /\ of[n].maps /\ f \in of[n].fixtures

Shown(f) == of[game[f]]

(* When payloads of a fixture never overlapped and no call failed, its     *)
(* game shows the last that was delivered.  That is the newest the loop    *)
(* has read, unless it came out of the cache: then a call for another key  *)
(* may have brought newer news, which the old payload has written over;    *)
(* never a later call for the same key.  (When payloads overlap, the last  *)
(* to arrive at game-service wins, whatever it carries.)                   *)
GameIsNewest ==
    ~clash /\ hurt = {} /\ (\A l \in Lanes : stage[l] = "idle") =>
        \A f \in Fixtures, n \in 1..MaxPayloads : Minting(n, f) =>
            /\ game[f] >= n
            /\ Shown(f).read < of[n].read =>
                   Shown(f).read # Shown(f).at /\ Shown(f).key # of[n].key

(* Every callback returns: the loop awaits it with the key of the payload  *)
(* in its hands. *)
CallbacksReturn == \A l \in Lanes : stage[l] # "idle" ~> stage[l] = "idle"
=============================================================================
