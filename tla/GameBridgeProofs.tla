-------------------------- MODULE GameBridgeProofs --------------------------
(***************************************************************************)
(* Neither rows nor facts come before the game they are about, for any     *)
(* number of callbacks, fixtures, entities and payloads, whatever calls    *)
(* fail.                                                                   *)
(*                                                                         *)
(* A game that exists stays, a payload that was offered stays offered, and *)
(* a lane keeps its payload until it returns.  So what a lane has seen on  *)
(* its way - the game, the offers of its payload - is still true when it   *)
(* writes rows or speaks to the publisher, however many lanes ran between. *)
(***************************************************************************)
EXTENDS GameBridge, FiniteSetTheorems, TLAPS

(* What a lane on its way knows of its payload and of game-service. *)
LaneOk(l) ==
    /\ attempt[l] < LookupAttempts
    /\ stage[l] # "idle" =>
        LET p == payload[l] IN
        /\ p \in Payloads /\ p.at <= payloads /\ of[p.at] = p
        /\ p.workload # "list" => \E f \in Fixtures : p.fixtures = {f}
        /\ stage[l] = "rows" => p.workload \in Resources
        /\ stage[l] = "lookup" => p.workload # "list"
        /\ stage[l] \in {"embedded", "timeline", "observe"} => p.workload = "detail"
        /\ \/ stage[l] \in {"rows", "embedded", "timeline", "observe"}
           \/ stage[l] = "resolve" /\ p.workload \in Resources
           => \A f \in p.fixtures : Exists(f)
        /\ stage[l] \in {"lookup", "embedded", "timeline", "observe"}
           /\ p.workload = "detail" /\ p.maps => "games" \in done[p.at]
        /\ stage[l] = "observe" /\ p.events => "timeline" \in done[p.at]

LanesOk == \A l \in Lanes : LaneOk(l)

(* Nothing was made of a payload that has not arrived. *)
Unheard == \A n \in 1..MaxPayloads : n > payloads => done[n] = {}

(* Something was made of payloads only. *)
HeardOf == \A n \in 1..MaxPayloads : done[n] # {} => of[n] \in Payloads

(* A payload has one number for each delivery, is no newer than that, and  *)
(* is about one fixture unless it is a list.                               *)
OneFixture(p) == p.workload # "list" => \E f \in Fixtures : p.fixtures = {f}

Arrived ==
    \A n \in 1..MaxPayloads : n <= payloads =>
        of[n] \in Payloads /\ of[n].at = n /\ of[n].read <= n /\ OneFixture(of[n])

IInv == TypeOK /\ LanesOk /\ Unheard /\ HeardOf /\ Arrived /\ GameComesFirst

(* The delivery of a payload: a new one, or what the cache keeps.          *)
Delivery(l, p) ==
    /\ p \in Payloads /\ p.at = payloads + 1 /\ p.read <= p.at /\ OneFixture(p)
    /\ p.read # p.at => \E n \in 1..MaxPayloads : Kept(n) /\ p.key = of[n].key /\ p.read = n
    /\ Deliver(l, p)

(* The workloads of a game are neither a list nor a detail. *)
LEMMA ResourceRows ==
    /\ "list" \notin Resources /\ "detail" \notin Resources
    /\ \A w \in Resources : RowsOf[w] \in Tables
    /\ "occurrences" \in Tables
    /\ LookupAttempts \in Nat \ {0} /\ MaxPayloads \in Nat /\ MaxFaults \in Nat
<1>1. DOMAIN RowsOf = {"events", "detail", "lineups", "squad", "teamStats", "playerStats"}
      /\ RowsOf["detail"] = "occurrences"
  BY DEF RowsOf
<1>2. Resources \subseteq DOMAIN RowsOf \ {"detail"}
  BY BridgeAssumption
<1>3. \A w \in DOMAIN RowsOf : RowsOf[w] \in Tables
  BY DEF Tables
<1> QED
  BY <1>1, <1>2, <1>3, BridgeBounds

(* What every step but the arrival of a payload leaves or adds to. *)
Grown ==
    /\ of' = of /\ payloads' = payloads
    /\ \A n \in 1..MaxPayloads : done[n] \subseteq done'[n]
    /\ \A f \in Fixtures : Exists(f) => Exists(f)'

(* What the loop fetches is delivered with the number of the delivery, and *)
(* again with that of the call.                                            *)
LEMMA ReceiveIs ==
    ASSUME IInv, NEW l \in Lanes, NEW k \in Keys, NEW fs \in SUBSET Fixtures,
           NEW maps \in BOOLEAN, NEW events \in BOOLEAN, Receive(l, k, fs, maps, events)
    PROVE  \E p \in Payloads : Delivery(l, p)
<1> DEFINE p == [key |-> k, workload |-> WorkloadOf[k], fixtures |-> fs,
                 at |-> payloads + 1, read |-> payloads + 1, maps |-> maps, events |-> events]
<1>1. /\ Deliver(l, p)
      /\ WorkloadOf[k] = "list" \/ Cardinality(fs) = 1
      /\ payloads < MaxPayloads
  BY DEF Receive, Deliver
<1>2. payloads + 1 \in 1..MaxPayloads /\ WorkloadOf[k] \in Workloads
  BY <1>1, ResourceRows, BridgeAssumption DEF IInv, TypeOK
<1>3. p \in Payloads /\ p.at = payloads + 1 /\ p.read = p.at
  BY <1>2 DEF Payloads
<1>4. OneFixture(p)
  <2> SUFFICES ASSUME WorkloadOf[k] # "list" PROVE \E f \in Fixtures : fs = {f}
      BY DEF OneFixture
  <2>1. Cardinality(fs) = 1
    BY <1>1
  <2>2. IsFiniteSet(fs)
    BY FixturesAssumption, FS_Subset
  <2>3. PICK f : fs = {f}
    BY <2>1, <2>2, FS_Singleton
  <2>4. f \in Fixtures
    BY <2>3
  <2> QED
    BY <2>3, <2>4
<1> HIDE DEF p
<1>5. p.read <= p.at
  BY <1>2, <1>3
<1> QED
  BY <1>1, <1>3, <1>4, <1>5 DEF Delivery

LEMMA RedeliverIs ==
    ASSUME IInv, NEW l \in Lanes, NEW n \in 1..MaxPayloads, Redeliver(l, n)
    PROVE  \E p \in Payloads : Delivery(l, p)
<1> DEFINE p == [of[n] EXCEPT !.at = payloads + 1]
<1>1. Deliver(l, p) /\ payloads < MaxPayloads /\ Kept(n) /\ n <= payloads /\ of[n].read = n
  BY DEF Redeliver, Deliver, Kept
<1>2. of[n] \in Payloads /\ of[n].at = n /\ OneFixture(of[n])
  BY <1>1 DEF IInv, Arrived
<1>3. payloads + 1 \in 1..MaxPayloads /\ n <= payloads + 1
  BY <1>1, ResourceRows DEF IInv, TypeOK
<1>4. /\ p \in Payloads /\ p.at = payloads + 1 /\ p.read = n /\ p.key = of[n].key
      /\ p.workload = of[n].workload /\ p.fixtures = of[n].fixtures
  BY <1>1, <1>2, <1>3 DEF Payloads
<1> HIDE DEF p
<1>5. OneFixture(p)
  BY <1>2, <1>4 DEF OneFixture
<1> QED
  BY <1>1, <1>3, <1>4, <1>5 DEF Delivery

(* So every step is a delivery or a step of a lane, as far as these care.  *)
LEMMA StepsAre ==
    ASSUME IInv, [Next]_vars
    PROVE  \/ \E l \in Lanes : \E p \in Payloads : Delivery(l, p)
           \/ \E l \in Lanes : Step(l)
           \/ \E e \in Entities : Mint(e)
           \/ UNCHANGED vars
BY ReceiveIs, RedeliverIs DEF Next

(* A lane that does not step still knows what it knew. *)
LEMMA OthersKeep ==
    ASSUME TypeOK, NEW l \in Lanes, LaneOk(l), Grown,
           stage'[l] = stage[l], payload'[l] = payload[l], attempt'[l] = attempt[l]
    PROVE  LaneOk(l)'
<1> DEFINE p == payload[l]
<1>0. attempt'[l] < LookupAttempts
  BY DEF LaneOk
<1> SUFFICES ASSUME stage[l] # "idle" PROVE LaneOk(l)'
    BY <1>0 DEF LaneOk
<1>1. /\ p \in Payloads /\ p.at <= payloads /\ of[p.at] = p
      /\ p.workload # "list" => \E f \in Fixtures : p.fixtures = {f}
      /\ stage[l] = "rows" => p.workload \in Resources
      /\ stage[l] = "lookup" => p.workload # "list"
      /\ stage[l] \in {"embedded", "timeline", "observe"} => p.workload = "detail"
      /\ \/ stage[l] \in {"rows", "embedded", "timeline", "observe"}
         \/ stage[l] = "resolve" /\ p.workload \in Resources
         => \A f \in p.fixtures : Exists(f)
      /\ stage[l] \in {"lookup", "embedded", "timeline", "observe"}
         /\ p.workload = "detail" /\ p.maps => "games" \in done[p.at]
      /\ stage[l] = "observe" /\ p.events => "timeline" \in done[p.at]
  BY DEF LaneOk
<1>2. p.at \in 1..MaxPayloads /\ p.fixtures \subseteq Fixtures
  BY <1>1 DEF Payloads
<1>3. done[p.at] \subseteq done'[p.at] /\ \A f \in p.fixtures : Exists(f) => Exists(f)'
  BY <1>2 DEF Grown
<1> QED
  BY <1>0, <1>1, <1>2, <1>3 DEF LaneOk, Grown

(* A step of a lane that has its payload in hand keeps the invariant if it *)
(* stores rows of known games only and reports in the end only.            *)
LEMMA StepKeeps ==
    ASSUME IInv, NEW l \in Lanes, stage[l] # "idle", TypeOK', LaneOk(l)', Grown,
           \A k \in Lanes : k # l => /\ stage'[k] = stage[k] /\ payload'[k] = payload[k]
                                     /\ attempt'[k] = attempt[k],
           \A t \in Tables, f \in Fixtures : rows'[t][f] # 0 => rows[t][f] # 0 \/ Exists(f)',
           \A n \in 1..MaxPayloads : n # payload[l].at => done'[n] = done[n],
           "observed" \in done'[payload[l].at] =>
               "observed" \in done[payload[l].at] \/ stage[l] = "observe"
    PROVE  IInv'
<1> DEFINE p == payload[l]
<1>1. LanesOk'
  <2>1. ASSUME NEW k \in Lanes, k # l PROVE LaneOk(k)'
    BY <2>1, OthersKeep DEF IInv, LanesOk
  <2> QED
    BY <2>1 DEF LanesOk
<1>2. LaneOk(l) /\ p \in Payloads /\ p.at <= payloads /\ of[p.at] = p
  BY DEF IInv, LanesOk, LaneOk
<1>3. Unheard'
  <2>1. p.at \in 1..MaxPayloads /\ payloads \in Nat /\ MaxPayloads \in Nat
    BY <1>2, ResourceRows DEF Payloads, IInv, TypeOK
  <2> SUFFICES ASSUME NEW n \in 1..MaxPayloads, n > payloads PROVE done'[n] = {}
      BY DEF Unheard, Grown
  <2>2. n # p.at
    BY <1>2, <2>1
  <2> QED
    BY <2>2 DEF IInv, Unheard
<1>4. RowsUnderGame'
  BY DEF IInv, GameComesFirst, RowsUnderGame, Grown
<1>5. FactFollowsGame'
  <2> SUFFICES ASSUME NEW n \in 1..MaxPayloads, "observed" \in done'[n]
               PROVE  /\ \A f \in of[n].fixtures : Exists(f)'
                      /\ of[n].maps => "games" \in done'[n]
                      /\ of[n].events => "timeline" \in done'[n]
      BY DEF FactFollowsGame, Grown
  <2>1. of[n] \in Payloads \union {NoPayload}
    BY DEF IInv, TypeOK
  <2>2. CASE "observed" \in done[n]
    <3>1. /\ \A f \in of[n].fixtures : Exists(f)
          /\ of[n].maps => "games" \in done[n]
          /\ of[n].events => "timeline" \in done[n]
      BY <2>2 DEF IInv, GameComesFirst, FactFollowsGame
    <3>2. of[n] \in Payloads
      BY <2>2 DEF IInv, HeardOf
    <3>3. of[n].fixtures \subseteq Fixtures
      BY <3>2 DEF Payloads
    <3> QED
      BY <3>1, <3>3 DEF Grown
  <2>3. CASE "observed" \notin done[n]
    <3>1. n = p.at /\ stage[l] = "observe" /\ of[n] = p /\ p.fixtures \subseteq Fixtures
      BY <1>2, <2>3 DEF Payloads
    <3>2. /\ \A f \in p.fixtures : Exists(f)
          /\ p.maps => "games" \in done[p.at]
          /\ p.events => "timeline" \in done[p.at]
      BY <1>2, <3>1 DEF LaneOk
    <3> QED
      BY <3>1, <3>2 DEF Grown
  <2> QED
    BY <2>2, <2>3
<1>6. HeardOf'
  <2>1. ASSUME NEW n \in 1..MaxPayloads, done'[n] # {} PROVE of'[n] \in Payloads
    <3>1. CASE n = p.at
      BY <1>2, <3>1 DEF Grown
    <3>2. CASE n # p.at
      BY <2>1, <3>2 DEF IInv, HeardOf, Grown
    <3> QED
      BY <3>1, <3>2
  <2> QED
    BY <2>1 DEF HeardOf
<1>7. Arrived'
  BY DEF IInv, Arrived, Grown, OneFixture
<1> QED
  BY <1>1, <1>3, <1>4, <1>5, <1>6, <1>7 DEF IInv, GameComesFirst

(* What the lane at work has in hand, in the types of its parts. *)
LEMMA AtHand ==
    ASSUME IInv, NEW l \in Lanes, stage[l] # "idle"
    PROVE  /\ payload[l] \in Payloads /\ payload[l].at \in 1..MaxPayloads
           /\ payload[l].at <= payloads /\ of[payload[l].at] = payload[l]
           /\ payload[l].fixtures \subseteq Fixtures
           /\ payload[l].workload \in Workloads
           /\ payload[l].workload # "list" =>
                  /\ Fixture(l) \in Fixtures /\ payload[l].fixtures = {Fixture(l)}
           /\ attempt[l] < LookupAttempts
<1>1. /\ payload[l] \in Payloads /\ payload[l].at <= payloads
      /\ of[payload[l].at] = payload[l] /\ attempt[l] < LookupAttempts
      /\ payload[l].workload # "list" => \E f \in Fixtures : payload[l].fixtures = {f}
  BY DEF IInv, LanesOk, LaneOk
<1>2. payload[l].workload # "list" =>
          Fixture(l) \in Fixtures /\ payload[l].fixtures = {Fixture(l)}
  BY <1>1 DEF Fixture
<1> QED
  BY <1>1, <1>2 DEF Payloads

(* Each action keeps the types. *)
LEMMA TypeInvariant == IInv /\ [Next]_vars => TypeOK'
<1> SUFFICES ASSUME IInv, [Next]_vars PROVE TypeOK'
    OBVIOUS
<1> USE ResourceRows DEF TypeOK
<1>0. TypeOK
  BY DEF IInv
<1>1. ASSUME NEW l \in Lanes, NEW p \in Payloads, Delivery(l, p) PROVE TypeOK'
  <2>1. payloads + 1 \in 1..MaxPayloads
    BY <1>0, <1>1 DEF Delivery, Deliver
  <2>2. payload' = [payload EXCEPT ![l] = p] /\ of' = [of EXCEPT ![payloads + 1] = p]
    BY <1>1 DEF Delivery, Deliver
  <2>3. payload' \in [Lanes -> Payloads \union {NoPayload}]
        /\ of' \in [1..MaxPayloads -> Payloads \union {NoPayload}]
    BY <1>0, <2>1, <2>2
  <2>4. stage' \in [Lanes -> Stages] /\ had' \subseteq 1..MaxPayloads /\ payloads' \in 0..MaxPayloads
        /\ clash' \in BOOLEAN
    BY <1>0, <1>1, <2>1 DEF Delivery, Deliver, Goto, Stages
  <2> QED
    BY <1>0, <1>1, <2>3, <2>4 DEF Delivery, Deliver, service
<1>2. ASSUME NEW l \in Lanes, Step(l) PROVE TypeOK'
  <2>1. stage[l] # "idle"
    BY <1>2 DEF Step, Resolve, Built, IngestGames, Found, NotFound, LookupFails,
       IngestRows, IngestTimeline, Observe
  <2>2. /\ payload[l] \in Payloads /\ payload[l].at \in 1..MaxPayloads
        /\ payload[l].at <= payloads /\ payload[l].fixtures \subseteq Fixtures
        /\ payload[l].workload \in Workloads
        /\ payload[l].workload # "list" => Fixture(l) \in Fixtures
        /\ attempt[l] < LookupAttempts
    BY <2>1, AtHand
  <2>3. /\ NoFault \/ Fault(l) => faults' \in 0..MaxFaults /\ hurt' \subseteq 1..MaxPayloads
        /\ \A deeds \in SUBSET {"games", "timeline", "rows", "observed", "over"} :
              Done(l, deeds) =>
                  done' \in [1..MaxPayloads ->
                                SUBSET {"games", "timeline", "rows", "observed", "over"}]
    <3>1. NoFault \/ Fault(l) => faults' \in 0..MaxFaults /\ hurt' \subseteq 1..MaxPayloads
      <4>1. faults \in Nat /\ faults <= MaxFaults /\ hurt \subseteq 1..MaxPayloads
        BY <1>0
      <4>2. CASE NoFault
        BY <1>0, <4>2 DEF NoFault
      <4>3. CASE Fault(l)
        <5>1. /\ faults < MaxFaults /\ faults' = faults + 1
              /\ hurt' = hurt \union {payload[l].at}
          BY <4>3 DEF Fault
        <5>2. faults' \in 0..MaxFaults
          BY <4>1, <5>1
        <5> QED
          BY <2>2, <4>1, <5>1, <5>2
      <4> QED
        BY <4>2, <4>3
    <3>2. ASSUME NEW deeds \in SUBSET {"games", "timeline", "rows", "observed", "over"},
                 Done(l, deeds)
          PROVE  done' \in [1..MaxPayloads ->
                                SUBSET {"games", "timeline", "rows", "observed", "over"}]
      BY <1>0, <2>2, <3>2 DEF Done
    <3> QED
      BY <3>1, <3>2
  <2>4. /\ \A place \in Stages : Goto(l, place) => stage' \in [Lanes -> Stages]
        /\ Return(l) => /\ stage' \in [Lanes -> Stages] /\ mention' \in [Lanes -> Nat]
                        /\ payload' \in [Lanes -> Payloads \union {NoPayload}]
                        /\ resolved' \in [Lanes -> SUBSET Entities]
                        /\ attempt' \in [Lanes -> 0..LookupAttempts]
    <3>1. \A place \in Stages : Goto(l, place) => stage' \in [Lanes -> Stages]
      BY <1>0 DEF Goto
    <3>2. "idle" \in Stages /\ 0 \in 0..LookupAttempts
      BY DEF Stages
    <3>3. ASSUME Return(l)
          PROVE  /\ stage' \in [Lanes -> Stages] /\ mention' \in [Lanes -> Nat]
                 /\ payload' \in [Lanes -> Payloads \union {NoPayload}]
                 /\ resolved' \in [Lanes -> SUBSET Entities]
                 /\ attempt' \in [Lanes -> 0..LookupAttempts]
      <4>1. stage' \in [Lanes -> Stages]
        BY <3>1, <3>2, <3>3 DEF Return
      <4>2. mention' \in [Lanes -> Nat] /\ payload' \in [Lanes -> Payloads \union {NoPayload}]
        BY <1>0, <3>3 DEF Return
      <4>3. resolved' \in [Lanes -> SUBSET Entities] /\ attempt' \in [Lanes -> 0..LookupAttempts]
        BY <1>0, <3>2, <3>3 DEF Return
      <4> QED
        BY <4>1, <4>2, <4>3
    <3> QED
      BY <3>1, <3>3
  <2>5. CASE Resolve(l)
    <3>1. mention' \in [Lanes -> Nat]
      BY <1>0, <2>5 DEF Resolve
    <3>2. resolved' \in [Lanes -> SUBSET Entities]
      BY <1>0, <2>5 DEF Resolve
    <3>3. NoFault \/ Fault(l)
      BY <2>5 DEF Resolve
    <3> QED
      BY <1>0, <2>3, <2>5, <3>1, <3>2, <3>3 DEF Resolve, service
  <2>6. CASE Built(l)
    <3>1. UNCHANGED <<service, payloads, faults, of, had, hurt, clash>>
      BY <2>6 DEF Built
    <3>2. CASE Return(l) /\ Done(l, {"over"})
      BY <1>0, <2>3, <2>4, <3>1, <3>2 DEF service
    <3>3. CASE /\ Goto(l, AfterResolve(l))
               /\ mention' = [mention EXCEPT ![l] = 1]
               /\ resolved' = [resolved EXCEPT ![l] = {}]
               /\ UNCHANGED <<payload, attempt, done>>
      <4>1. AfterResolve(l) \in Stages
        BY DEF AfterResolve, Stages
      <4>2. stage' \in [Lanes -> Stages] /\ mention' \in [Lanes -> Nat]
            /\ resolved' \in [Lanes -> SUBSET Entities]
        BY <1>0, <2>4, <3>3, <4>1
      <4> QED
        BY <1>0, <3>1, <3>3, <4>2 DEF service
    <3> QED
      BY <2>6, <3>2, <3>3 DEF Built
  <2>7. CASE IngestGames(l)
    <3>1. game' \in [Fixtures -> 0..MaxPayloads]
      <4>1. game' = game \/ Upsert(l)
        BY <2>7 DEF IngestGames
      <4>2. payload[l].at \in 0..MaxPayloads
        BY <2>2
      <4> QED
        BY <1>0, <4>1, <4>2 DEF Upsert
    <3>2. NoFault \/ Fault(l)
      BY <2>7 DEF IngestGames
    <3>3. UNCHANGED <<rows, known, payloads, of, had, clash>>
      BY <2>7 DEF IngestGames
    <3>4. CASE Return(l) /\ Done(l, {"games", "over"})
      BY <1>0, <2>3, <2>4, <3>1, <3>2, <3>3, <3>4
    <3>5. CASE Goto(l, "lookup") /\ Done(l, {"games"})
               /\ UNCHANGED <<payload, mention, resolved, attempt>>
      BY <1>0, <2>3, <2>4, <3>1, <3>2, <3>3, <3>5 DEF Stages
    <3> QED
      BY <2>7, <3>4, <3>5 DEF IngestGames
  <2>8. CASE Found(l)
    BY <1>0, <2>4, <2>8 DEF Found, Stages, Goto, service, told
  <2>9. CASE NotFound(l)
    <3>1. UNCHANGED <<service, payloads, faults, of, had, hurt, clash>>
      BY <2>9 DEF NotFound
    <3>2. CASE Return(l) /\ Done(l, {"over"})
      BY <1>0, <2>3, <2>4, <3>1, <3>2 DEF service
    <3>3. CASE /\ attempt' = [attempt EXCEPT ![l] = @ + 1]
               /\ UNCHANGED <<stage, payload, mention, resolved, done>>
      <4>1. attempt' \in [Lanes -> 0..LookupAttempts]
        BY <1>0, <2>2, <3>3
      <4> QED
        BY <1>0, <3>1, <3>3, <4>1 DEF service
    <3> QED
      BY <2>9, <3>2, <3>3 DEF NotFound
  <2>10. CASE LookupFails(l)
    BY <1>0, <2>3, <2>4, <2>10 DEF LookupFails, service
  <2>11. CASE IngestRows(l) \/ IngestTimeline(l)
    <3>1. rows' \in [Tables -> [Fixtures -> 0..MaxPayloads]]
      <4>1. ASSUME NEW t \in Tables, NEW f \in Fixtures
            PROVE  [rows EXCEPT ![t][f] = payload[l].at] \in [Tables -> [Fixtures -> 0..MaxPayloads]]
        BY <1>0, <2>2
      <4>2. CASE IngestRows(l)
        <5>1. payload[l].workload \in Resources
          BY <2>1, <4>2 DEF IInv, LanesOk, LaneOk, IngestRows
        <5>2. RowsOf[payload[l].workload] \in Tables /\ Fixture(l) \in Fixtures
          BY <2>2, <5>1
        <5> QED
          <6> DEFINE stored == [rows EXCEPT ![RowsOf[payload[l].workload]][Fixture(l)] = payload[l].at]
          <6>1. rows' = rows \/ rows' = stored
            BY <4>2 DEF IngestRows
          <6>2. stored \in [Tables -> [Fixtures -> 0..MaxPayloads]]
            BY <4>1, <5>2
          <6> HIDE DEF stored
          <6>3. rows \in [Tables -> [Fixtures -> 0..MaxPayloads]]
            BY <1>0
          <6> QED
            BY <6>1, <6>2, <6>3
      <4>3. CASE IngestTimeline(l)
        <5>1. payload[l].workload = "detail"
          BY <2>1, <4>3 DEF IInv, LanesOk, LaneOk, IngestTimeline
        <5>2. "occurrences" \in Tables /\ Fixture(l) \in Fixtures
          BY <2>2, <5>1
        <5> QED
          <6> DEFINE stored == [rows EXCEPT !["occurrences"][Fixture(l)] = payload[l].at]
          <6>1. rows' = rows \/ rows' = stored
            BY <4>3 DEF IngestTimeline
          <6>2. stored \in [Tables -> [Fixtures -> 0..MaxPayloads]]
            BY <4>1, <5>2
          <6> HIDE DEF stored
          <6>3. rows \in [Tables -> [Fixtures -> 0..MaxPayloads]]
            BY <1>0
          <6> QED
            BY <6>1, <6>2, <6>3
      <4> QED
        BY <2>11, <4>2, <4>3
    <3>2. NoFault \/ Fault(l)
      BY <2>11 DEF IngestRows, IngestTimeline
    <3>3. CASE IngestRows(l)
      BY <1>0, <2>3, <2>4, <3>1, <3>2, <3>3 DEF IngestRows
    <3>4. CASE IngestTimeline(l)
      BY <1>0, <2>3, <2>4, <3>1, <3>2, <3>4 DEF IngestTimeline, Stages
    <3> QED
      BY <2>11, <3>3, <3>4
  <2>12. CASE Observe(l)
    BY <1>0, <2>3, <2>4, <2>12 DEF Observe, service
  <2> QED
    BY <1>2, <2>5, <2>6, <2>7, <2>8, <2>9, <2>10, <2>11, <2>12 DEF Step
<1>3. ASSUME NEW e \in Entities, Mint(e) PROVE TypeOK'
  BY <1>0, <1>3 DEF Mint, lane, told
<1>4. CASE UNCHANGED vars
  BY <1>0, <1>4 DEF vars, lane, service, told
<1> QED
  BY <1>1, <1>2, <1>3, <1>4, StepsAre

(* Every step of a lane keeps the invariant. *)
LEMMA LaneStepKeeps ==
    ASSUME IInv, TypeOK', NEW l \in Lanes, Step(l)
    PROVE  IInv'
<1> DEFINE p == payload[l]
<1> USE ResourceRows
<1>1. stage[l] # "idle"
  BY DEF Step, Resolve, Built, IngestGames, Found, NotFound, LookupFails,
     IngestRows, IngestTimeline, Observe
<1>2. /\ p \in Payloads /\ p.at \in 1..MaxPayloads /\ p.at <= payloads /\ of[p.at] = p
      /\ p.fixtures \subseteq Fixtures /\ p.workload \in Workloads
      /\ p.workload # "list" => Fixture(l) \in Fixtures /\ p.fixtures = {Fixture(l)}
      /\ attempt[l] < LookupAttempts
  BY <1>1, AtHand
<1>3. /\ stage \in [Lanes -> Stages] /\ payload \in [Lanes -> Payloads \union {NoPayload}]
      /\ attempt \in [Lanes -> 0..LookupAttempts]
      /\ done \in [1..MaxPayloads -> SUBSET {"games", "timeline", "rows", "observed", "over"}]
      /\ rows \in [Tables -> [Fixtures -> 0..MaxPayloads]]
      /\ game \in [Fixtures -> 0..MaxPayloads]
  BY DEF IInv, TypeOK
<1>4. LaneOk(l)
  BY DEF IInv, LanesOk
<1>5. ASSUME NEW deeds, Done(l, deeds)
      PROVE  /\ \A n \in 1..MaxPayloads : done[n] \subseteq done'[n]
             /\ \A n \in 1..MaxPayloads : n # p.at => done'[n] = done[n]
             /\ done'[p.at] = done[p.at] \union deeds
  BY <1>2, <1>3, <1>5 DEF Done
<1>6. Return(l) =>
          /\ stage'[l] = "idle" /\ LaneOk(l)'
          /\ \A k \in Lanes : k # l => /\ stage'[k] = stage[k] /\ payload'[k] = payload[k]
                                       /\ attempt'[k] = attempt[k]
  <2> SUFFICES ASSUME Return(l)
               PROVE  /\ stage'[l] = "idle" /\ LaneOk(l)'
                      /\ \A k \in Lanes : k # l =>
                             /\ stage'[k] = stage[k] /\ payload'[k] = payload[k]
                             /\ attempt'[k] = attempt[k]
      OBVIOUS
  <2>1. stage'[l] = "idle" /\ attempt'[l] = 0
    BY <1>3 DEF Return, Goto
  <2> QED
    BY <1>3, <2>1 DEF Return, Goto, LaneOk
<1>7. \A place : Goto(l, place) =>
          stage'[l] = place /\ \A k \in Lanes : k # l => stage'[k] = stage[k]
  BY <1>3 DEF Goto
<1>8. CASE Resolve(l)
  <2>1. UNCHANGED <<stage, payload, attempt, service, payloads, of, done>>
    BY <1>8 DEF Resolve
  <2>2. Grown
    BY <2>1 DEF Grown, Exists, service
  <2>3. LaneOk(l)'
    BY <1>4, <2>1, <2>2, OthersKeep DEF IInv
  <2> QED
    BY <1>1, <2>1, <2>2, <2>3, StepKeeps DEF service
<1>9. CASE Built(l)
  <2>1. UNCHANGED <<service, payloads, of>> /\ stage[l] \in {"resolve", "embedded"}
    BY <1>9 DEF Built
  <2>2. CASE Return(l) /\ Done(l, {"over"})
    <3>1. Grown
      BY <1>5, <2>1, <2>2 DEF Grown, Exists, service
    <3> QED
      BY <1>1, <1>5, <1>6, <2>1, <2>2, <3>1, StepKeeps DEF service
  <2>3. CASE Goto(l, AfterResolve(l)) /\ UNCHANGED <<payload, attempt, done>>
    <3>1. Grown
      BY <2>1, <2>3 DEF Grown, Exists, service
    <3>2. LaneOk(l)'
      <4>1. /\ p.workload # "list" => \E f \in Fixtures : p.fixtures = {f}
            /\ stage[l] = "embedded" => p.workload = "detail" /\ \A f \in p.fixtures : Exists(f)
            /\ stage[l] = "embedded" /\ p.maps => "games" \in done[p.at]
            /\ stage[l] = "resolve" /\ p.workload \in Resources =>
                   \A f \in p.fixtures : Exists(f)
        BY <1>1, <1>4 DEF LaneOk
      <4>2. stage'[l] = AfterResolve(l)
        BY <1>7, <2>3
      <4>3. \A f \in p.fixtures : Exists(f) => Exists(f)'
        BY <2>1 DEF Exists, service
      <4>4. CASE stage[l] = "embedded"
        <5>1. stage'[l] = "timeline"
          BY <4>2, <4>4 DEF AfterResolve
        <5> QED
          BY <1>2, <2>1, <2>3, <4>1, <4>3, <4>4, <5>1 DEF LaneOk
      <4>5. CASE stage[l] = "resolve" /\ p.workload = "detail"
        <5>1. stage'[l] = IF p.maps THEN "games" ELSE "lookup"
          BY <4>2, <4>5 DEF AfterResolve
        <5> QED
          BY <1>2, <2>1, <2>3, <4>1, <4>5, <5>1 DEF LaneOk
      <4>6. CASE stage[l] = "resolve" /\ p.workload = "list"
        <5>1. stage'[l] = IF p.maps THEN "games" ELSE "idle"
          BY <4>2, <4>6 DEF AfterResolve
        <5> QED
          BY <1>2, <2>1, <2>3, <4>1, <4>6, <5>1 DEF LaneOk
      <4>7. CASE stage[l] = "resolve" /\ p.workload \in Resources
        <5>1. stage'[l] = IF p.maps THEN "rows" ELSE "idle"
          BY <4>2, <4>7 DEF AfterResolve
        <5> QED
          BY <1>2, <2>1, <2>3, <4>1, <4>3, <4>7, <5>1 DEF LaneOk
      <4> QED
        BY <1>2, <2>1, <4>4, <4>5, <4>6, <4>7 DEF Workloads
    <3> QED
      BY <1>1, <1>7, <2>1, <2>3, <3>1, <3>2, StepKeeps DEF service
  <2> QED
    BY <1>9, <2>2, <2>3 DEF Built
<1>10. CASE IngestGames(l)
  <2>1. UNCHANGED <<rows, payloads, of>> /\ stage[l] = "games"
    BY <1>10 DEF IngestGames
  <2>2. \A f \in Fixtures : Exists(f) => Exists(f)'
    <3>1. game' = game \/ Upsert(l)
      BY <1>10 DEF IngestGames
    <3> QED
      BY <1>2, <1>3, <3>1 DEF Exists, Upsert
  <2>3. CASE Return(l) /\ Done(l, {"games", "over"})
    <3>1. Grown
      BY <1>5, <2>1, <2>2, <2>3 DEF Grown
    <3> QED
      BY <1>1, <1>5, <1>6, <2>1, <2>3, <3>1, StepKeeps
  <2>4. CASE /\ p.workload # "list" /\ Goto(l, "lookup") /\ Done(l, {"games"})
             /\ UNCHANGED <<payload, attempt>>
    <3>1. Grown
      BY <1>5, <2>1, <2>2, <2>4 DEF Grown
    <3>2. LaneOk(l)'
      <4>1. "games" \in done'[p.at] /\ stage'[l] = "lookup"
        BY <1>5, <1>7, <2>4
      <4> QED
        BY <1>2, <2>1, <2>4, <4>1 DEF LaneOk
    <3> QED
      BY <1>1, <1>5, <1>7, <2>1, <2>4, <3>1, <3>2, StepKeeps
  <2> QED
    BY <1>10, <2>3, <2>4 DEF IngestGames
<1>11. CASE Found(l)
  <2>1. /\ UNCHANGED <<payload, service, payloads, told>> /\ attempt' = [attempt EXCEPT ![l] = 0]
        /\ stage[l] = "lookup" /\ Exists(Fixture(l))
    BY <1>11 DEF Found
  <2>2. Grown
    BY <2>1 DEF Grown, Exists, service, told
  <2>3. /\ p.workload # "list" /\ \A f \in p.fixtures : Exists(f)'
        /\ p.workload = "detail" /\ p.maps => "games" \in done[p.at]
    BY <1>2, <1>4, <2>1 DEF LaneOk, Exists, service
  <2>4. stage'[l] = IF p.workload # "detail" THEN "resolve"
                    ELSE IF p.events THEN "embedded" ELSE "observe"
    BY <1>7, <1>11 DEF Found
  <2>5. attempt'[l] < LookupAttempts
    BY <1>3, <2>1
  <2>6. p' = p /\ done' = done /\ of' = of /\ payloads' = payloads
    BY <2>1 DEF told
  <2>7. LaneOk(l)'
    <3>1. CASE p.workload # "detail"
      BY <1>2, <2>3, <2>4, <2>5, <2>6, <3>1 DEF LaneOk
    <3>2. CASE p.workload = "detail" /\ p.events
      BY <1>2, <2>3, <2>4, <2>5, <2>6, <3>2 DEF LaneOk
    <3>3. CASE p.workload = "detail" /\ ~p.events
      BY <1>2, <2>3, <2>4, <2>5, <2>6, <3>3 DEF LaneOk
    <3> QED
      BY <3>1, <3>2, <3>3
  <2>8. \A k \in Lanes : k # l => /\ stage'[k] = stage[k] /\ payload'[k] = payload[k]
                                  /\ attempt'[k] = attempt[k]
    BY <1>3, <1>7, <1>11, <2>1 DEF Found
  <2> QED
    BY <1>1, <2>1, <2>2, <2>7, <2>8, StepKeeps DEF service, told
<1>12. CASE NotFound(l)
  <2>1. UNCHANGED <<service, payloads, of>> /\ stage[l] = "lookup"
    BY <1>12 DEF NotFound
  <2>2. CASE Return(l) /\ Done(l, {"over"})
    <3>1. Grown
      BY <1>5, <2>1, <2>2 DEF Grown, Exists, service
    <3> QED
      BY <1>1, <1>5, <1>6, <2>1, <2>2, <3>1, StepKeeps DEF service
  <2>3. CASE /\ attempt[l] + 1 # LookupAttempts
             /\ attempt' = [attempt EXCEPT ![l] = attempt[l] + 1]
             /\ UNCHANGED <<stage, payload, done>>
    <3>1. Grown
      BY <2>1, <2>3 DEF Grown, Exists, service
    <3>2. attempt'[l] < LookupAttempts
      <4>1. attempt[l] \in Nat /\ attempt'[l] = attempt[l] + 1
        BY <1>3, <2>3
      <4> QED
        BY <1>2, <2>3, <4>1
    <3>3. LaneOk(l)'
      BY <1>4, <2>1, <2>3, <3>2 DEF LaneOk
    <3>4. \A k \in Lanes : k # l => attempt'[k] = attempt[k]
      BY <1>3, <2>3
    <3> QED
      BY <1>1, <2>1, <2>3, <3>1, <3>3, <3>4, StepKeeps DEF service
  <2> QED
    BY <1>12, <2>2, <2>3 DEF NotFound
<1>13. CASE LookupFails(l)
  <2>1. /\ UNCHANGED <<service, payloads, of>> /\ stage[l] = "lookup"
        /\ Return(l) /\ Done(l, {"over"})
    BY <1>13 DEF LookupFails
  <2>2. Grown
    BY <1>5, <2>1 DEF Grown, Exists, service
  <2> QED
    BY <1>1, <1>5, <1>6, <2>1, <2>2, StepKeeps DEF service
<1>14. ASSUME NEW t \in Tables, Exists(Fixture(l)), game' = game, p.workload # "list",
              rows' = rows \/ rows' = [rows EXCEPT ![t][Fixture(l)] = p.at]
       PROVE  \A u \in Tables, f \in Fixtures :
                  rows'[u][f] # 0 => rows[u][f] # 0 \/ Exists(f)'
  <2> SUFFICES ASSUME NEW u \in Tables, NEW f \in Fixtures, f # Fixture(l)
               PROVE  rows'[u][f] = rows[u][f]
      BY <1>14 DEF Exists
  <2>1. CASE rows' = rows
    BY <2>1
  <2>2. CASE rows' = [rows EXCEPT ![t][Fixture(l)] = p.at]
    <3>1. rows[t] \in [Fixtures -> 0..MaxPayloads]
      BY <1>3
    <3>2. rows'[u] = IF u = t THEN [rows[t] EXCEPT ![Fixture(l)] = p.at] ELSE rows[u]
      BY <1>3, <2>2
    <3> QED
      BY <3>1, <3>2
  <2> QED
    BY <1>14, <2>1, <2>2
<1>15. CASE IngestRows(l)
  <2>1. /\ UNCHANGED <<game, payloads, of>> /\ stage[l] = "rows"
        /\ Return(l) /\ Done(l, {"rows", "over"})
        /\ rows' = rows \/ rows' = [rows EXCEPT ![RowsOf[p.workload]][Fixture(l)] = p.at]
    BY <1>15 DEF IngestRows
  <2>2. p.workload \in Resources /\ Exists(Fixture(l)) /\ p.workload # "list"
    BY <1>2, <1>4, <2>1 DEF LaneOk
  <2>3. Grown
    BY <1>5, <2>1 DEF Grown, Exists
  <2>4. RowsOf[p.workload] \in Tables
    BY <2>2
  <2>5. \A u \in Tables, f \in Fixtures : rows'[u][f] # 0 => rows[u][f] # 0 \/ Exists(f)'
    BY <1>14, <2>1, <2>2, <2>4
  <2> QED
    BY <1>1, <1>5, <1>6, <2>1, <2>3, <2>5, StepKeeps
<1>16. CASE IngestTimeline(l)
  <2>1. /\ UNCHANGED <<payload, attempt, game, payloads, of>> /\ stage[l] = "timeline"
        /\ Goto(l, "observe") /\ Done(l, {"timeline"})
        /\ rows' = rows \/ rows' = [rows EXCEPT !["occurrences"][Fixture(l)] = p.at]
    BY <1>16 DEF IngestTimeline
  <2>2. /\ p.workload = "detail" /\ \A f \in p.fixtures : Exists(f)
        /\ p.maps => "games" \in done[p.at]
    BY <1>4, <2>1 DEF LaneOk
  <2>3. Grown
    BY <1>5, <2>1 DEF Grown, Exists
  <2>4. \A u \in Tables, f \in Fixtures : rows'[u][f] # 0 => rows[u][f] # 0 \/ Exists(f)'
    BY <1>2, <1>14, <2>1, <2>2
  <2>5. LaneOk(l)'
    <3>1. stage'[l] = "observe" /\ done'[p.at] = done[p.at] \union {"timeline"}
      BY <1>5, <1>7, <2>1
    <3> QED
      BY <1>2, <2>1, <2>2, <3>1 DEF LaneOk, Exists
  <2> QED
    BY <1>1, <1>5, <1>7, <2>1, <2>3, <2>4, <2>5, StepKeeps
<1>17. CASE Observe(l)
  <2>1. /\ UNCHANGED <<service, payloads, of>> /\ stage[l] = "observe"
        /\ Return(l) /\ Done(l, {"observed", "over"})
    BY <1>17 DEF Observe
  <2>2. Grown
    BY <1>5, <2>1 DEF Grown, Exists, service
  <2> QED
    BY <1>1, <1>5, <1>6, <2>1, <2>2, StepKeeps DEF service
<1> QED
  BY <1>8, <1>9, <1>10, <1>11, <1>12, <1>13, <1>15, <1>16, <1>17 DEF Step

(* A payload that arrives is new: nothing was made of it, and the other    *)
(* lanes have older ones.                                                  *)
LEMMA ReceiveKeeps ==
    ASSUME IInv, TypeOK', NEW l \in Lanes, NEW q \in Payloads, Delivery(l, q)
    PROVE  IInv'
<1> USE ResourceRows
<1>1. /\ payloads \in Nat /\ payloads + 1 \in 1..MaxPayloads /\ payloads' = payloads + 1
      /\ UNCHANGED <<attempt, game, rows, done>>
      /\ q.at = payloads + 1 /\ q.read <= q.at /\ OneFixture(q)
  BY DEF IInv, TypeOK, Delivery, Deliver, service
<1>3. /\ payload' = [payload EXCEPT ![l] = q] /\ of' = [of EXCEPT ![payloads + 1] = q]
      /\ stage' = [stage EXCEPT ![l] = IF q.workload \in Resources THEN "lookup" ELSE "resolve"]
  BY DEF Delivery, Deliver, Goto
<1>4. /\ payload \in [Lanes -> Payloads \union {NoPayload}] /\ stage \in [Lanes -> Stages]
      /\ of \in [1..MaxPayloads -> Payloads \union {NoPayload}]
      /\ attempt \in [Lanes -> 0..LookupAttempts]
  BY DEF IInv, TypeOK
<1>5. /\ payload'[l] = q /\ of'[q.at] = q
      /\ stage'[l] = IF q.workload \in Resources THEN "lookup" ELSE "resolve"
      /\ \A k \in Lanes : k # l => payload'[k] = payload[k] /\ stage'[k] = stage[k]
      /\ \A n \in 1..MaxPayloads : n # payloads + 1 => of'[n] = of[n]
  BY <1>1, <1>3, <1>4
<1>6. LaneOk(l)'
  <2>1. q.workload # "list" => \E f \in Fixtures : q.fixtures = {f}
    BY <1>1 DEF OneFixture
  <2>2. attempt[l] < LookupAttempts
    BY DEF IInv, LanesOk, LaneOk
  <2>3. CASE q.workload \in Resources
    BY <1>1, <1>5, <2>1, <2>2, <2>3 DEF LaneOk
  <2>4. CASE q.workload \notin Resources
    BY <1>1, <1>5, <2>1, <2>2, <2>4 DEF LaneOk
  <2> QED
    BY <2>3, <2>4
<1>7. ASSUME NEW k \in Lanes, k # l PROVE LaneOk(k)'
  <2>1. SUFFICES ASSUME stage[k] # "idle" PROVE LaneOk(k)'
    BY <1>1, <1>5, <1>7 DEF IInv, LanesOk, LaneOk
  <2>2. /\ payload[k].at <= payloads /\ payload[k].at \in 1..MaxPayloads
        /\ LaneOk(k)
    BY <2>1, AtHand DEF IInv, LanesOk
  <2>3. payload[k].at # payloads + 1 /\ of'[payload[k].at] = of[payload[k].at]
        /\ payload[k].at <= payloads + 1
    BY <1>1, <1>5, <2>2
  <2> QED
    BY <1>1, <1>5, <1>7, <2>1, <2>2, <2>3 DEF LaneOk, Exists
<1>8. Unheard'
  BY <1>1 DEF IInv, Unheard
<1>9. done[payloads + 1] = {}
  BY <1>1 DEF IInv, Unheard
<1>10. HeardOf'
  BY <1>1, <1>5, <1>9 DEF IInv, HeardOf
<1>11. GameComesFirst'
  BY <1>1, <1>5, <1>9 DEF IInv, GameComesFirst, RowsUnderGame, FactFollowsGame, Exists
<1>12. Arrived'
  <2> SUFFICES ASSUME NEW n \in 1..MaxPayloads, n <= payloads + 1
               PROVE  of'[n] \in Payloads /\ of'[n].at = n /\ of'[n].read <= n /\ OneFixture(of'[n])
      BY <1>1 DEF Arrived, OneFixture
  <2>1. CASE n = payloads + 1
    BY <1>1, <1>5, <2>1
  <2>2. CASE n # payloads + 1
    <3>1. n <= payloads /\ of'[n] = of[n]
      BY <1>1, <1>5, <2>2
    <3> QED
      BY <3>1 DEF IInv, Arrived
  <2> QED
    BY <2>1, <2>2
<1> QED
  BY <1>6, <1>7, <1>8, <1>10, <1>11, <1>12 DEF IInv, LanesOk

(* Nothing is under way, stored or told at the start. *)
LEMMA InitialInvariant == Init => IInv
<1> SUFFICES ASSUME Init PROVE IInv
    OBVIOUS
<1> USE ResourceRows
<1>1. TypeOK
  <2>1. /\ stage \in [Lanes -> Stages] /\ payload \in [Lanes -> Payloads \union {NoPayload}]
        /\ mention \in [Lanes -> Nat] /\ resolved \in [Lanes -> SUBSET Entities]
        /\ attempt \in [Lanes -> 0..LookupAttempts]
    BY DEF Init, Stages
  <2>2. /\ 0 \in 0..MaxPayloads /\ 0 \in 0..MaxFaults
        /\ game \in [Fixtures -> 0..MaxPayloads]
        /\ known \subseteq Entities /\ payloads \in 0..MaxPayloads /\ faults \in 0..MaxFaults
    BY DEF Init
  <2>3. rows \in [Tables -> [Fixtures -> 0..MaxPayloads]]
    BY <2>2 DEF Init
  <2>4. /\ of \in [1..MaxPayloads -> Payloads \union {NoPayload}]
        /\ done \in [1..MaxPayloads -> SUBSET {"games", "timeline", "rows", "observed", "over"}]
        /\ had \subseteq 1..MaxPayloads /\ hurt \subseteq 1..MaxPayloads /\ clash \in BOOLEAN
    BY DEF Init
  <2> QED
    BY <2>1, <2>2, <2>3, <2>4 DEF TypeOK
<1>2. LanesOk /\ Unheard /\ HeardOf /\ Arrived
  BY DEF Init, LanesOk, LaneOk, Unheard, HeardOf, Arrived
<1>3. GameComesFirst
  BY DEF Init, GameComesFirst, RowsUnderGame, FactFollowsGame
<1> QED
  BY <1>1, <1>2, <1>3 DEF IInv

(* The invariant is inductive. *)
THEOREM Invariance == Spec => []IInv
<1>1. IInv /\ [Next]_vars => IInv'
  <2> SUFFICES ASSUME IInv, [Next]_vars PROVE IInv'
      OBVIOUS
  <2>1. TypeOK'
    BY TypeInvariant
  <2>2. ASSUME UNCHANGED <<stage, payload, attempt, game, rows, payloads, of, done>>
        PROVE  IInv'
    <3>1. LanesOk'
      BY <2>2 DEF IInv, LanesOk, LaneOk, Exists
    <3>2. Unheard' /\ HeardOf' /\ GameComesFirst'
      BY <2>2 DEF IInv, Unheard, HeardOf, GameComesFirst, RowsUnderGame, FactFollowsGame, Exists
    <3>3. Arrived'
      BY <2>2 DEF IInv, Arrived, OneFixture
    <3> QED
      BY <2>1, <3>1, <3>2, <3>3 DEF IInv
  <2>3. ASSUME NEW e \in Entities, Mint(e) PROVE IInv'
    BY <2>2, <2>3 DEF Mint, lane, told
  <2>4. CASE UNCHANGED vars
    BY <2>2, <2>4 DEF vars, lane, service, told
  <2> QED
    BY <2>1, <2>3, <2>4, LaneStepKeeps, ReceiveKeeps, StepsAre
<1> QED
  BY InitialInvariant, <1>1, PTL DEF Spec

(* Every variable of the bridge keeps its type. *)
THEOREM TypeCorrect == Spec => []TypeOK
<1>1. IInv => TypeOK
  BY DEF IInv
<1> QED
  BY Invariance, <1>1, PTL

(* Rows are stored under a game that game-service knows, and a status is   *)
(* told to the publisher only after the same payload was offered to it,    *)
(* however callbacks race and calls fail.                                  *)
THEOREM GamesFirst == Spec => []GameComesFirst
<1>1. IInv => GameComesFirst
  BY DEF IInv
<1> QED
  BY Invariance, <1>1, PTL

(***************************************************************************)
(* Why a payload is lost, and what a game shows.  A lane remembers what    *)
(* its payload met: the game that was there when it arrived is there       *)
(* still, and one that a detail brought is there unless a call failed.     *)
(* While payloads of a fixture do not overlap, what a lane has in hand is  *)
(* the newest of its fixtures, so its upsert puts nothing older there.     *)
(***************************************************************************)

LaneLoss(l) ==
    stage[l] # "idle" =>
        LET p == payload[l] IN
        /\ p.at \in had => \A f \in p.fixtures : Exists(f)
        /\ stage[l] = "lookup" /\ p.workload = "detail" /\ p.maps /\ p.at \notin hurt
           => \A f \in p.fixtures : Exists(f)
LanesLoss == \A l \in Lanes : LaneLoss(l)

HadArrived == \A n \in had : n <= payloads

LossInv == LanesLoss /\ LossExplained /\ HadArrived

Unfetched == \A n \in 1..MaxPayloads : n > payloads => of[n] = NoPayload

NewerApart ==
    ~clash => \A l \in Lanes : stage[l] # "idle" =>
        \A n \in 1..MaxPayloads : n > payload[l].at /\ of[n] # NoPayload =>
            of[n].fixtures \intersect payload[l].fixtures = {}

(* The payload is yet to reach game-service. *)
Waiting(n) == \E l \in Lanes : stage[l] \in {"resolve", "games"} /\ payload[l].at = n

NewestOrWaiting ==
    ~clash /\ hurt = {} =>
        \A f \in Fixtures, n \in 1..MaxPayloads : Minting(n, f) => game[f] >= n \/ Waiting(n)

(* What is delivered for a key is never older than what was before.        *)
InOrder ==
    \A m, n \in 1..MaxPayloads :
        m <= n /\ n <= payloads /\ of[m].key = of[n].key => of[m].read <= of[n].read

GamesArrived == \A f \in Fixtures : game[f] <= payloads

NewestInv == Unfetched /\ GamesArrived /\ InOrder /\ NewerApart /\ NewestOrWaiting

(* What a step of a lane leaves alone, whatever it does. *)
LEMMA StepFrame ==
    ASSUME IInv, NEW l \in Lanes, Step(l)
    PROVE  /\ stage[l] # "idle"
           /\ \A k \in Lanes : k # l => stage'[k] = stage[k] /\ payload'[k] = payload[k]
           /\ stage'[l] # "idle" => payload'[l] = payload[l]
           /\ UNCHANGED <<payloads, of, had, clash>> /\ hurt \subseteq hurt'
           /\ \A n \in 1..MaxPayloads : n # payload[l].at => done'[n] = done[n]
           /\ \A n \in 1..MaxPayloads : done[n] \subseteq done'[n]
<1>1. stage[l] # "idle"
  BY DEF Step, Resolve, Built, IngestGames, Found, NotFound, LookupFails,
     IngestRows, IngestTimeline, Observe
<1>2. payload[l].at \in 1..MaxPayloads
  BY <1>1, AtHand
<1>3. \A deeds : Done(l, deeds) =>
          /\ \A n \in 1..MaxPayloads : n # payload[l].at => done'[n] = done[n]
          /\ \A n \in 1..MaxPayloads : done[n] \subseteq done'[n]
  BY <1>2 DEF Done, IInv, TypeOK
<1>4. NoFault \/ Fault(l) => hurt \subseteq hurt'
  BY DEF NoFault, Fault
<1>5. \/ \E deeds : Done(l, deeds)
      \/ UNCHANGED done
  BY DEF Step, Resolve, Built, IngestGames, Found, NotFound, LookupFails,
     IngestRows, IngestTimeline, Observe, told
<1>6. \/ Return(l)
      \/ (\E place : Goto(l, place)) /\ UNCHANGED payload
      \/ UNCHANGED <<stage, payload>>
  BY DEF Step, Resolve, Built, IngestGames, Found, NotFound, LookupFails,
     IngestRows, IngestTimeline, Observe
<1>7. UNCHANGED <<payloads, of, had, clash>>
  BY DEF Step, Resolve, Built, IngestGames, Found, NotFound, LookupFails,
     IngestRows, IngestTimeline, Observe, told
<1>8. (NoFault \/ Fault(l)) \/ UNCHANGED hurt
  BY DEF Step, Resolve, Built, IngestGames, Found, NotFound, LookupFails,
     IngestRows, IngestTimeline, Observe, told
<1>9. /\ \A k \in Lanes : k # l => stage'[k] = stage[k] /\ payload'[k] = payload[k]
      /\ stage'[l] # "idle" => payload'[l] = payload[l]
  BY <1>6 DEF Return, Goto, IInv, TypeOK
<1> QED
  BY <1>1, <1>3, <1>4, <1>5, <1>7, <1>8, <1>9

(* A game that exists stays. *)
LEMMA GamesStay ==
    ASSUME IInv, NEW l \in Lanes, Step(l), NEW f \in Fixtures, Exists(f)
    PROVE  Exists(f)'
<1>1. stage[l] # "idle"
  BY StepFrame
<1>2. payload[l].at \in 1..MaxPayloads
  BY <1>1, AtHand
<1>3. game' = game \/ Upsert(l)
  BY DEF Step, Resolve, Built, IngestGames, Found, NotFound, LookupFails,
     IngestRows, IngestTimeline, Observe, service
<1> QED
  BY <1>2, <1>3 DEF Exists, Upsert, IInv, TypeOK

(* What becomes of the payload in the hands of the lane at work. *)
LEMMA StepLoss ==
    ASSUME IInv, LanesLoss, NEW l \in Lanes, Step(l)
    PROVE  /\ LaneLoss(l)'
           /\ LET n == payload[l].at
                  p == payload[l]
              IN "over" \in done'[n] \ done[n] /\ n \notin hurt' /\ p.maps =>
                 CASE p.workload = "list" -> "games" \in done'[n]
                   [] p.workload = "detail" -> "observed" \in done'[n]
                   [] OTHER -> n \in had => "rows" \in done'[n]
<1> DEFINE p == payload[l]
           n == payload[l].at
           Lost == "over" \in done'[n] \ done[n] /\ n \notin hurt' /\ p.maps =>
                 CASE p.workload = "list" -> "games" \in done'[n]
                   [] p.workload = "detail" -> "observed" \in done'[n]
                   [] OTHER -> n \in had => "rows" \in done'[n]
<1> USE ResourceRows
<1>1. stage[l] # "idle" /\ (stage'[l] # "idle" => payload'[l] = p)
      /\ had' = had /\ hurt \subseteq hurt'
  BY StepFrame
<1>2. /\ p \in Payloads /\ n \in 1..MaxPayloads /\ p.fixtures \subseteq Fixtures
      /\ p.workload \in Workloads
      /\ p.workload # "list" => Fixture(l) \in Fixtures /\ p.fixtures = {Fixture(l)}
  BY <1>1, AtHand
<1>3. LaneOk(l) /\ LaneLoss(l)
  BY DEF IInv, LanesOk, LanesLoss
<1>4. \A f \in p.fixtures : Exists(f) => Exists(f)'
  BY <1>2, GamesStay
<1>5. n \in had => \A f \in p.fixtures : Exists(f)'
  BY <1>1, <1>3, <1>4 DEF LaneLoss
<1>6. stage'[l] # "lookup" => LaneLoss(l)'
  BY <1>1, <1>5 DEF LaneLoss
<1>7. \A deeds : Done(l, deeds) => done'[n] = done[n] \union deeds
  BY <1>2 DEF Done, IInv, TypeOK
<1>8. UNCHANGED done => Lost
  OBVIOUS
<1>9. /\ stage \in [Lanes -> Stages]
      /\ \A place : Goto(l, place) => stage'[l] = place
      /\ Return(l) => stage'[l] = "idle"
  BY DEF Goto, Return, IInv, TypeOK
<1>10. Fault(l) => n \in hurt'
  BY DEF Fault
<1> HIDE DEF Lost
<1>11. CASE Resolve(l)
  <2>1. UNCHANGED <<stage, payload, game, done>>
    BY <1>11 DEF Resolve, service
  <2>2. stage[l] # "lookup"
    BY <1>11 DEF Resolve
  <2> QED
    BY <1>6, <1>8, <2>1, <2>2 DEF Lost
<1>12. CASE Built(l)
  <2>1. CASE AfterResolve(l) = "idle" /\ Return(l)
    <3>1. ~p.maps
      BY <2>1 DEF AfterResolve
    <3> QED
      BY <1>6, <1>9, <2>1, <3>1 DEF Lost
  <2>2. CASE Goto(l, AfterResolve(l)) /\ UNCHANGED done
    <3>1. CASE AfterResolve(l) # "lookup"
      BY <1>6, <1>8, <1>9, <2>2, <3>1 DEF Lost
    <3>2. CASE AfterResolve(l) = "lookup"
      <4>1. ~p.maps
        BY <3>2 DEF AfterResolve
      <4> QED
        BY <1>1, <1>5, <1>8, <2>2, <4>1 DEF LaneLoss, Lost
    <3> QED
      BY <3>1, <3>2
  <2> QED
    BY <1>12, <2>1, <2>2 DEF Built
<1>13. CASE IngestGames(l)
  <2>1. n \notin hurt' => \A f \in p.fixtures : Exists(f)'
    <3>1. n \notin hurt' => Upsert(l)
      BY <1>10, <1>13 DEF IngestGames
    <3>2. \A f \in p.fixtures : Upsert(l) => game'[f] = n
      BY <1>2 DEF Upsert
    <3>3. n # 0
      BY <1>2
    <3> QED
      BY <3>1, <3>2, <3>3 DEF Exists
  <2>2. CASE p.workload = "list" /\ Return(l) /\ Done(l, {"games", "over"})
    BY <1>6, <1>7, <1>9, <2>2 DEF Lost
  <2>3. CASE p.workload # "list" /\ Goto(l, "lookup") /\ Done(l, {"games"})
    <3>1. LaneLoss(l)'
      BY <1>1, <1>5, <2>1 DEF LaneLoss
    <3>2. Lost
      BY <1>7, <2>3 DEF Lost
    <3> QED
      BY <3>1, <3>2 DEF Lost
  <2> QED
    BY <1>13, <2>2, <2>3 DEF IngestGames
<1>14. CASE Found(l)
  <2>1. stage'[l] # "lookup" /\ UNCHANGED done
    BY <1>9, <1>14 DEF Found, told
  <2> QED
    BY <1>6, <1>8, <2>1 DEF Lost
<1>15. CASE NotFound(l)
  <2>1. /\ stage[l] = "lookup" /\ ~Exists(Fixture(l)) /\ p.workload # "list"
        /\ UNCHANGED <<game, hurt>>
    BY <1>1, <1>3, <1>15 DEF NotFound, LaneOk, service
  <2>2. n \notin had /\ ~(p.workload = "detail" /\ p.maps /\ n \notin hurt)
    BY <1>1, <1>2, <1>3, <2>1 DEF LaneLoss
  <2>3. Lost
    BY <1>3, <2>1, <2>2 DEF Lost
  <2>4. LaneLoss(l)'
    BY <1>1, <1>5, <2>1, <2>2 DEF LaneLoss
  <2> QED
    BY <2>3, <2>4 DEF Lost
<1>16. CASE LookupFails(l)
  <2>1. n \in hurt' /\ stage'[l] = "idle"
    BY <1>9, <1>10, <1>16 DEF LookupFails
  <2> QED
    BY <1>6, <2>1 DEF Lost
<1>17. CASE IngestRows(l)
  <2>1. p.workload \in Resources /\ stage'[l] = "idle" /\ "rows" \in done'[n]
    BY <1>3, <1>7, <1>9, <1>17 DEF IngestRows, LaneOk
  <2>2. p.workload # "list" /\ p.workload # "detail"
    BY <2>1
  <2> QED
    BY <1>6, <2>1, <2>2 DEF Lost
<1>18. CASE IngestTimeline(l)
  <2>1. stage'[l] = "observe" /\ done'[n] = done[n] \union {"timeline"}
    BY <1>7, <1>9, <1>18 DEF IngestTimeline
  <2> QED
    BY <1>6, <2>1 DEF Lost
<1>19. CASE Observe(l)
  <2>1. p.workload = "detail" /\ stage'[l] = "idle" /\ "observed" \in done'[n]
    BY <1>3, <1>7, <1>9, <1>19 DEF Observe, LaneOk
  <2> QED
    BY <1>6, <2>1 DEF Lost
<1> QED
  BY <1>11, <1>12, <1>13, <1>14, <1>15, <1>16, <1>17, <1>18, <1>19 DEF Step, Lost

(* What lanes remember, and why payloads were lost, stays true at each     *)
(* step of a lane.                                                         *)
LEMMA LossStays ==
    ASSUME IInv, IInv', LanesLoss, LossExplained, NEW l \in Lanes, Step(l)
    PROVE  LanesLoss' /\ LossExplained'
<1>1. /\ stage[l] # "idle"
      /\ \A k \in Lanes : k # l => stage'[k] = stage[k] /\ payload'[k] = payload[k]
      /\ UNCHANGED <<payloads, of, had, clash>> /\ hurt \subseteq hurt'
      /\ \A n \in 1..MaxPayloads : n # payload[l].at => done'[n] = done[n]
      /\ \A n \in 1..MaxPayloads : done[n] \subseteq done'[n]
  BY StepFrame
<1>2. ASSUME NEW k \in Lanes, k # l PROVE LaneLoss(k)'
  <2>1. stage'[k] = stage[k] /\ payload'[k] = payload[k]
    BY <1>1, <1>2
  <2> SUFFICES ASSUME stage[k] # "idle" PROVE LaneLoss(k)'
      BY <2>1 DEF LaneLoss
  <2>2. payload[k].fixtures \subseteq Fixtures
    BY AtHand
  <2>3. \A f \in payload[k].fixtures : Exists(f) => Exists(f)'
    BY <2>2, GamesStay
  <2>4. LaneLoss(k)
    BY DEF LanesLoss
  <2> QED
    BY <1>1, <2>1, <2>3, <2>4 DEF LaneLoss
<1>3. LanesLoss'
  BY <1>2, StepLoss DEF LanesLoss
<1>4. LossExplained'
  <2> SUFFICES ASSUME NEW n \in 1..MaxPayloads, "over" \in done'[n], n \notin hurt', of[n].maps
               PROVE  CASE of[n].workload = "list" -> "games" \in done'[n]
                        [] of[n].workload = "detail" -> "observed" \in done'[n]
                        [] OTHER -> n \in had => "rows" \in done'[n]
      BY <1>1 DEF LossExplained, Over
  <2>1. CASE "over" \in done[n]
    <3>1. (CASE of[n].workload = "list" -> "games" \in done[n]
             [] of[n].workload = "detail" -> "observed" \in done[n]
             [] OTHER -> n \in had => "rows" \in done[n])
      BY <1>1, <2>1 DEF LossExplained, Over
    <3>2. done[n] \subseteq done'[n]
      BY <1>1
    <3> QED
      BY <3>1, <3>2
  <2>2. CASE "over" \notin done[n]
    <3>1. n = payload[l].at
      BY <1>1, <2>2
    <3>2. of[n] = payload[l]
      BY <1>1, <3>1, AtHand
    <3> QED
      BY <2>2, <3>1, <3>2, StepLoss
  <2> QED
    BY <2>1, <2>2
<1> QED
  BY <1>3, <1>4

(* A payload that arrives is new: it has met nothing, and nothing was made *)
(* of it.                                                                  *)
LEMMA ReceiveLoss ==
    ASSUME IInv, LossInv, NEW l \in Lanes, NEW q \in Payloads, Delivery(l, q)
    PROVE  LossInv'
<1> USE ResourceRows
<1>1. /\ payloads \in Nat /\ payloads + 1 \in 1..MaxPayloads /\ payloads' = payloads + 1
      /\ done[payloads + 1] = {} /\ UNCHANGED <<game, done, hurt>>
  BY DEF Delivery, Deliver, IInv, TypeOK, Unheard, service
<1>2. /\ payload'[l] = q /\ q.at = payloads + 1
      /\ stage'[l] = (IF q.workload \in Resources THEN "lookup" ELSE "resolve")
      /\ \A k \in Lanes : k # l => payload'[k] = payload[k] /\ stage'[k] = stage[k]
      /\ \A n \in 1..MaxPayloads : n # payloads + 1 => of'[n] = of[n]
      /\ had' = IF q.workload \in Resources /\ \A f \in q.fixtures : Exists(f)
                THEN had \union {payloads + 1} ELSE had
  BY <1>1 DEF Delivery, Deliver, Goto, IInv, TypeOK
<1>3. payloads + 1 \notin had
  BY <1>1 DEF LossInv, HadArrived
<1>4. HadArrived'
  <2>1. \A n \in had : n \in Nat /\ n <= payloads
    BY DEF LossInv, HadArrived, IInv, TypeOK
  <2> QED
    BY <1>1, <1>2, <2>1 DEF HadArrived
<1>5. LaneLoss(l)'
  <2>1. payloads + 1 \in had' => \A f \in q.fixtures : Exists(f)'
    BY <1>1, <1>2, <1>3 DEF Exists
  <2> QED
    BY <1>2, <2>1 DEF LaneLoss
<1>6. ASSUME NEW k \in Lanes, k # l PROVE LaneLoss(k)'
  <2>1. stage'[k] = stage[k] /\ payload'[k] = payload[k]
    BY <1>2, <1>6
  <2> SUFFICES ASSUME stage[k] # "idle" PROVE LaneLoss(k)'
      BY <2>1 DEF LaneLoss
  <2>2. payload[k].at <= payloads /\ payload[k].at \in Nat
    BY AtHand
  <2>3. payload[k].at \in had' => payload[k].at \in had
    BY <1>1, <1>2, <2>2
  <2>4. LaneLoss(k)
    BY DEF LossInv, LanesLoss
  <2> QED
    BY <1>1, <2>1, <2>3, <2>4 DEF LaneLoss, Exists
<1>7. LossExplained'
  <2> SUFFICES ASSUME NEW n \in 1..MaxPayloads, "over" \in done[n], n \notin hurt, of'[n].maps
               PROVE  CASE of'[n].workload = "list" -> "games" \in done[n]
                        [] of'[n].workload = "detail" -> "observed" \in done[n]
                        [] OTHER -> n \in had' => "rows" \in done[n]
      BY <1>1 DEF LossExplained, Over
  <2>1. n # payloads + 1
    BY <1>1
  <2>2. of'[n] = of[n] /\ (n \in had' => n \in had)
    BY <1>2, <2>1
  <2> QED
    BY <2>2 DEF LossInv, LossExplained, Over
<1> QED
  BY <1>4, <1>5, <1>6, <1>7 DEF LossInv, LanesLoss

(* A payload that met no failed call is lost only if its game is unknown:  *)
(* for any number of callbacks, however they race, however the entities    *)
(* become known and the other calls fail.                                  *)
THEOREM LossesExplained == Spec => []LossExplained
<1>1. Init => LossInv
  BY DEF Init, LossInv, LanesLoss, LaneLoss, LossExplained, Over, HadArrived
<1>2. IInv /\ IInv' /\ LossInv /\ [Next]_vars => LossInv'
  <2> SUFFICES ASSUME IInv, IInv', LossInv, [Next]_vars PROVE LossInv'
      OBVIOUS
  <2>1. ASSUME NEW l \in Lanes, Step(l) PROVE LossInv'
    BY <2>1, LossStays, StepFrame DEF LossInv, HadArrived
  <2>2. ASSUME UNCHANGED <<stage, payload, game, payloads, of, done, had, hurt>> PROVE LossInv'
    BY <2>2 DEF LossInv, LanesLoss, LaneLoss, LossExplained, Over, HadArrived, Exists
  <2>3. ASSUME NEW e \in Entities, Mint(e) PROVE LossInv'
    BY <2>2, <2>3 DEF Mint, lane, told
  <2>4. CASE UNCHANGED vars
    BY <2>2, <2>4 DEF vars, lane, service, told
  <2> QED
    BY <2>1, <2>3, <2>4, ReceiveLoss, StepsAre
<1>3. LossInv => LossExplained
  BY DEF LossInv
<1> QED
  BY Invariance, <1>1, <1>2, <1>3, PTL DEF Spec

(* A step of a lane keeps the newest payload of a fixture, or has it in    *)
(* hand.                                                                   *)
LEMMA NewestStays ==
    ASSUME IInv, IInv', NewestInv, NEW l \in Lanes, Step(l)
    PROVE  NewestInv'
<1> DEFINE p == payload[l]
<1> USE ResourceRows
<1>1. /\ stage[l] # "idle" /\ (stage'[l] # "idle" => payload'[l] = p)
      /\ \A k \in Lanes : k # l => stage'[k] = stage[k] /\ payload'[k] = payload[k]
      /\ UNCHANGED <<payloads, of, had, clash>> /\ hurt \subseteq hurt'
  BY StepFrame
<1>2. /\ p \in Payloads /\ p.at \in 1..MaxPayloads /\ p.at <= payloads /\ of[p.at] = p
      /\ p.fixtures \subseteq Fixtures /\ p.workload \in Workloads
  BY <1>1, AtHand
<1>3. Unfetched'
  BY <1>1 DEF NewestInv, Unfetched
<1>8. GamesArrived'
  <2>1. game \in [Fixtures -> 0..MaxPayloads] /\ payloads \in Nat
    BY DEF IInv, TypeOK
  <2>2. game' = game \/ Upsert(l)
    BY DEF Step, Resolve, Built, IngestGames, Found, NotFound, LookupFails,
           IngestRows, IngestTimeline, Observe, service
  <2>3. CASE game' = game
    BY <1>1, <2>3 DEF NewestInv, GamesArrived
  <2>4. CASE Upsert(l)
    BY <1>1, <1>2, <2>1, <2>4 DEF NewestInv, GamesArrived, Upsert
  <2> QED
    BY <2>2, <2>3, <2>4
<1>7. InOrder'
  BY <1>1 DEF NewestInv, InOrder
<1>4. NewerApart'
  BY <1>1 DEF NewestInv, NewerApart
<1>5. ASSUME ~clash, hurt' = {}, NEW f \in Fixtures, NEW n \in 1..MaxPayloads, Minting(n, f)
      PROVE  game'[f] >= n \/ Waiting(n)'
  <2>1. game[f] >= n \/ Waiting(n)
    BY <1>1, <1>5 DEF NewestInv, NewestOrWaiting
  <2>2. game \in [Fixtures -> 0..MaxPayloads] /\ game' \in [Fixtures -> 0..MaxPayloads]
    BY DEF IInv, TypeOK
  <2>3. CASE stage[l] = "games"
    <3>1. Upsert(l)
      <4>1. IngestGames(l)
        BY <2>3 DEF Step, Resolve, Built, Found, NotFound, LookupFails,
                    IngestRows, IngestTimeline, Observe
      <4> QED
        BY <1>5, <4>1 DEF IngestGames, Fault
    <3>2. CASE f \in p.fixtures
      <4>1. ~(n > p.at)
        BY <1>1, <1>5, <3>2 DEF NewestInv, NewerApart, Minting
      <4>2. game'[f] = p.at
        BY <3>1, <3>2 DEF Upsert
      <4> QED
        BY <1>2, <4>1, <4>2
    <3>3. CASE f \notin p.fixtures
      <4>1. game'[f] = game[f]
        BY <3>1, <3>3 DEF Upsert
      <4>2. n # p.at
        BY <1>2, <1>5, <3>3 DEF Minting
      <4>3. Waiting(n) => Waiting(n)'
        BY <1>1, <4>2 DEF Waiting
      <4> QED
        BY <2>1, <4>1, <4>3
    <3> QED
      BY <3>2, <3>3
  <2>4. CASE stage[l] # "games"
    <3>1. game' = game
      BY <2>4 DEF Step, Resolve, Built, IngestGames, Found, NotFound, LookupFails,
                  IngestRows, IngestTimeline, Observe, service
    <3>2. CASE n # p.at
      <4>1. Waiting(n) => Waiting(n)'
        BY <1>1, <3>2 DEF Waiting
      <4> QED
        BY <2>1, <3>1, <4>1
    <3>3. CASE n = p.at /\ stage[l] = "resolve"
      <4>1. p.workload \in {"list", "detail"} /\ p.maps
        BY <1>2, <1>5, <3>3 DEF Minting
      <4>2. Resolve(l) \/ Built(l)
        BY <3>3 DEF Step, IngestGames, Found, NotFound, LookupFails,
                    IngestRows, IngestTimeline, Observe
      <4>3. AfterResolve(l) = "games"
        BY <3>3, <4>1 DEF AfterResolve
      <4>4. stage'[l] \in {"resolve", "games"}
        BY <3>3, <4>2, <4>3 DEF Resolve, Built, Goto, IInv, TypeOK
      <4> QED
        BY <1>1, <3>3, <4>4 DEF Waiting
    <3>4. CASE n = p.at /\ stage[l] # "resolve"
      <4>1. Waiting(n) => Waiting(n)'
        BY <1>1, <2>4, <3>4 DEF Waiting
      <4> QED
        BY <2>1, <3>1, <4>1
    <3> QED
      BY <3>2, <3>3, <3>4
  <2> QED
    BY <2>3, <2>4
<1>6. NewestOrWaiting'
  BY <1>1, <1>5 DEF NewestOrWaiting, Minting
<1> QED
  BY <1>3, <1>4, <1>6, <1>7, <1>8 DEF NewestInv

(* A payload that arrives is the newest of its fixtures and waits; unless  *)
(* it clashes, no other lane has one of them in hand.                      *)
LEMMA ReceiveNewest ==
    ASSUME IInv, NewestInv, NEW l \in Lanes, NEW q \in Payloads, Delivery(l, q)
    PROVE  NewestInv'
<1> USE ResourceRows
<1>1. /\ payloads \in Nat /\ payloads + 1 \in 1..MaxPayloads /\ payloads' = payloads + 1
      /\ stage[l] = "idle" /\ UNCHANGED <<game, hurt>>
  BY DEF Delivery, Deliver, IInv, TypeOK, service
<1>2. /\ payload'[l] = q /\ q.at = payloads + 1
      /\ stage'[l] = (IF q.workload \in Resources THEN "lookup" ELSE "resolve")
      /\ \A k \in Lanes : k # l => payload'[k] = payload[k] /\ stage'[k] = stage[k]
      /\ of'[payloads + 1] = q
      /\ \A n \in 1..MaxPayloads : n # payloads + 1 => of'[n] = of[n]
  BY <1>1 DEF Delivery, Deliver, Goto, IInv, TypeOK
<1>3. ~clash' => /\ ~clash
                 /\ \A k \in Lanes : payload[k] # NoPayload =>
                        payload[k].fixtures \intersect q.fixtures = {}
  BY DEF Delivery, Deliver, IInv, TypeOK
<1>4. Unfetched'
  <2> SUFFICES ASSUME NEW n \in 1..MaxPayloads, n > payloads + 1 PROVE of'[n] = NoPayload
      BY <1>1 DEF Unfetched
  <2>1. n # payloads + 1 /\ n > payloads
    BY <1>1
  <2> QED
    BY <1>2, <2>1 DEF NewestInv, Unfetched
<1>5. NewerApart'
  <2> SUFFICES ASSUME ~clash', NEW k \in Lanes, stage'[k] # "idle",
                      NEW n \in 1..MaxPayloads, n > payload'[k].at, of'[n] # NoPayload
               PROVE  of'[n].fixtures \intersect payload'[k].fixtures = {}
      BY DEF NewerApart
  <2>1. ~(n > payloads + 1)
    BY <1>1, <1>4 DEF Unfetched
  <2>2. k # l
    BY <1>2, <2>1
  <2>3. stage[k] # "idle" /\ payload'[k] = payload[k] /\ payload[k] \in Payloads
    BY <1>2, <2>2, AtHand
  <2>4. payload[k] # NoPayload
    BY <2>3, NoPayloadAssumption
  <2>5. CASE n = payloads + 1
    BY <1>2, <1>3, <2>3, <2>4, <2>5
  <2>6. CASE n # payloads + 1
    BY <1>2, <1>3, <2>3, <2>6 DEF NewestInv, NewerApart
  <2> QED
    BY <2>5, <2>6
<1>6. NewestOrWaiting'
  <2> SUFFICES ASSUME ~clash', hurt = {}, NEW f \in Fixtures, NEW n \in 1..MaxPayloads, Minting(n, f)'
               PROVE  game[f] >= n \/ Waiting(n)'
      BY <1>1 DEF NewestOrWaiting
  <2>1. CASE n = payloads + 1
    <3>1. stage'[l] = "resolve" /\ payload'[l].at = n
      BY <1>2, <2>1 DEF Minting
    <3> QED
      BY <3>1 DEF Waiting
  <2>2. CASE n # payloads + 1
    <3>1. Minting(n, f)
      BY <1>2, <2>2 DEF Minting
    <3>2. Waiting(n) => Waiting(n)'
      BY <1>1, <1>2 DEF Waiting
    <3> QED
      BY <1>3, <3>1, <3>2 DEF NewestInv, NewestOrWaiting
  <2> QED
    BY <2>1, <2>2
<1>7. InOrder'
  <2> SUFFICES ASSUME NEW m \in 1..MaxPayloads, NEW n \in 1..MaxPayloads,
                      m <= n, n <= payloads + 1, of'[m].key = of'[n].key
               PROVE  of'[m].read <= of'[n].read
      BY <1>1 DEF InOrder
  <2>1. \A i \in 1..MaxPayloads : i <= payloads =>
            of[i] \in Payloads /\ of[i].read <= i /\ of[i].read \in Nat
    BY DEF IInv, Arrived, Payloads
  <2>2. CASE n # payloads + 1
    <3>1. n <= payloads /\ m # payloads + 1
      BY <1>1, <2>2
    <3> QED
      BY <1>2, <2>2, <3>1 DEF NewestInv, InOrder
  <2>3. CASE n = payloads + 1 /\ m = payloads + 1
    BY <1>2, <2>3 DEF Payloads
  <2>4. CASE n = payloads + 1 /\ m # payloads + 1
    <3>1. m \in 1..payloads /\ m <= payloads /\ of'[m] = of[m] /\ of'[n] = q
      BY <1>1, <1>2, <2>4
    <3>2. CASE q.read = q.at
      BY <1>1, <1>2, <2>1, <3>1, <3>2
    <3>3. CASE q.read # q.at
      <4>1. PICK i \in 1..MaxPayloads : Kept(i) /\ q.key = of[i].key /\ q.read = i
        BY <3>3 DEF Delivery
      <4> QED
        BY <3>1, <4>1 DEF Kept
    <3> QED
      BY <3>2, <3>3
  <2> QED
    BY <2>2, <2>3, <2>4
<1>8. GamesArrived'
  <2>1. game \in [Fixtures -> 0..MaxPayloads]
    BY DEF IInv, TypeOK
  <2> QED
    BY <1>1, <2>1 DEF NewestInv, GamesArrived
<1> QED
  BY <1>4, <1>5, <1>6, <1>7, <1>8 DEF NewestInv

(* When payloads of a fixture never overlapped and no call failed, its     *)
(* game shows the last that was delivered, which is the newest the loop    *)
(* has read unless it came out of the cache, and then newer only for       *)
(* another key: for any number of callbacks, fixtures, keys and payloads.  *)
THEOREM GamesAreNewest == Spec => []GameIsNewest
<1>1. Init => NewestInv
  BY DEF Init, NewestInv, Unfetched, GamesArrived, InOrder, NewerApart, NewestOrWaiting, Minting
<1>2. IInv /\ IInv' /\ NewestInv /\ [Next]_vars => NewestInv'
  <2> SUFFICES ASSUME IInv, IInv', NewestInv, [Next]_vars PROVE NewestInv'
      OBVIOUS
  <2>1. ASSUME UNCHANGED <<stage, payload, game, payloads, of, hurt, clash>> PROVE NewestInv'
    BY <2>1 DEF NewestInv, Unfetched, GamesArrived, InOrder, NewerApart, NewestOrWaiting, Minting, Waiting
  <2>2. ASSUME NEW e \in Entities, Mint(e) PROVE NewestInv'
    BY <2>1, <2>2 DEF Mint, lane, told
  <2>3. CASE UNCHANGED vars
    BY <2>1, <2>3 DEF vars, lane, service, told
  <2> QED
    BY <2>2, <2>3, NewestStays, ReceiveNewest, StepsAre
<1>3. IInv /\ NewestInv => GameIsNewest
  <2> SUFFICES ASSUME IInv, NewestInv, ~clash, hurt = {}, \A l \in Lanes : stage[l] = "idle",
                      NEW f \in Fixtures, NEW n \in 1..MaxPayloads, Minting(n, f)
               PROVE  /\ game[f] >= n
                      /\ Shown(f).read < of[n].read =>
                             Shown(f).read # Shown(f).at /\ Shown(f).key # of[n].key
      BY DEF GameIsNewest
  <2>1. game[f] >= n
    BY DEF NewestInv, NewestOrWaiting, Waiting
  <2>2. game[f] \in 1..MaxPayloads /\ payloads \in Nat /\ MaxPayloads \in Nat
    BY <2>1, ResourceRows DEF IInv, TypeOK
  <2>3. n <= payloads
    BY <2>2 DEF NewestInv, Unfetched, Minting
  <2>4. game[f] <= payloads
    BY DEF NewestInv, GamesArrived
  <2>5. /\ of[n].read <= n /\ of[n].read \in Nat
        /\ Shown(f).at = game[f] /\ Shown(f).read \in Nat
    BY <2>2, <2>3, <2>4 DEF IInv, Arrived, Payloads, Shown
  <2>6. Shown(f).key = of[n].key => of[n].read <= Shown(f).read
    BY <2>1, <2>2, <2>4 DEF NewestInv, InOrder, Shown
  <2> QED
    BY <2>1, <2>2, <2>5, <2>6
<1> QED
  BY Invariance, <1>1, <1>2, <1>3, PTL DEF Spec
=============================================================================
