--------------------------- MODULE MatchConcluded ---------------------------
(***************************************************************************)
(* The emit-once gate of the match-concluded publisher                     *)
(* (worker/match-concluded-publisher.ts, observe) over the Redis marker    *)
(* store (worker/redis-emitted-fixture-store.ts).                          *)
(*                                                                         *)
(* Several workers share one Redis; each runs several workload lanes that  *)
(* may observe the same fixture at the same time.  observe() awaits three  *)
(* Redis commands: SET NX (reserve the marker), XADD (publish), DEL (roll  *)
(* the marker back).  Every await is a point where other lanes run, where  *)
(* the worker may die, and where the command may fail before or after      *)
(* Redis executed it.                                                      *)
(***************************************************************************)
EXTENDS Naturals, Sequences, FiniteSets

CONSTANTS Fixtures,        \* provider fixture ids
          Lanes,           \* concurrent calls of observe, over all workers
          Workers,         \* worker processes
          Host,            \* Host[l]: the worker lane l runs in
          Reported,        \* statuses the provider may report, in any order
          NoObservation,   \* what an idle lane works on
          MaxExpiries,     \* bound: marker TTL expiries per fixture
          MaxAmbiguous     \* bound: executed XADDs reported as failed, per fixture

ASSUME LanesFinite == IsFiniteSet(Lanes)
ASSUME HostType == Host \in [Lanes -> Workers]
ASSUME NoObservationType == NoObservation \notin [fixture : Fixtures, status : Reported]
ASSUME BoundsType == MaxExpiries \in Nat /\ MaxAmbiguous \in Nat

TerminalResultStatuses == {"FT", "AET", "PEN"}
TerminalVoidStatuses == {"PST", "ABD", "AWD", "WO"}

(* classifyApiFootballStatus: a status outside both sets is not terminal. *)
Terminal == TerminalResultStatuses \union TerminalVoidStatuses

VARIABLES
    marker,     \* marker[f]: the key btl:fact:emitted:<provider>:<f> exists
    stream,     \* stream[f]: statuses of the entries XADDed for f, in order
    pc,         \* pc[l]: the command lane l is waiting for, or "idle"
    seen,       \* seen[l]: the observation lane l works on
    outcome,    \* outcome[l]: how the last observe() of lane l ended
    expiries,   \* expiries[f]: times the TTL removed the marker of f (history)
    ambiguous,  \* ambiguous[f]: XADDs for f executed but reported failed (history)
    abandoned   \* abandoned[f]: the present marker of f was left behind by a
                \* crash or by a rejected SET or DEL (history)

vars == <<marker, stream, pc, seen, outcome, expiries, ambiguous, abandoned>>
store == <<marker, stream>>
history == <<expiries, ambiguous, abandoned>>

Observation == [fixture : Fixtures, status : Reported]
Outcomes == {"none", "not_terminal", "already_emitted", "published",
             "publish_failed", "threw"}
Waiting == {"idle", "set", "xadd", "del"}

TypeOK ==
    /\ marker \in [Fixtures -> BOOLEAN]
    /\ stream \in [Fixtures -> Seq(Reported \intersect Terminal)]
    /\ pc \in [Lanes -> Waiting]
    /\ seen \in [Lanes -> Observation \union {NoObservation}]
    /\ outcome \in [Lanes -> Outcomes]
    /\ expiries \in [Fixtures -> 0..MaxExpiries]
    /\ ambiguous \in [Fixtures -> 0..MaxAmbiguous]
    /\ abandoned \in [Fixtures -> BOOLEAN]
    /\ \A l \in Lanes :
           pc[l] # "idle" => seen[l] \in Observation /\ seen[l].status \in Terminal

Init ==
    /\ marker = [f \in Fixtures |-> FALSE]
    /\ stream = [f \in Fixtures |-> <<>>]
    /\ pc = [l \in Lanes |-> "idle"]
    /\ seen = [l \in Lanes |-> NoObservation]
    /\ outcome = [l \in Lanes |-> "none"]
    /\ expiries = [f \in Fixtures |-> 0]
    /\ ambiguous = [f \in Fixtures |-> 0]
    /\ abandoned = [f \in Fixtures |-> FALSE]

Fx(l) == seen[l].fixture

(* observe() ends in lane l with outcome o. *)
Finish(l, o) ==
    /\ pc' = [pc EXCEPT ![l] = "idle"]
    /\ seen' = [seen EXCEPT ![l] = NoObservation]
    /\ outcome' = [outcome EXCEPT ![l] = o]

(* observe(fixture): a status that is not terminal returns at once, a      *)
(* terminal one sends SET key 1 NX EX <ttl>.                               *)
Observe(l, f, s) ==
    /\ pc[l] = "idle"
    /\ \/ /\ s \in Terminal
          /\ pc' = [pc EXCEPT ![l] = "set"]
          /\ seen' = [seen EXCEPT ![l] = [fixture |-> f, status |-> s]]
          /\ UNCHANGED outcome
       \/ /\ s \notin Terminal
          /\ Finish(l, "not_terminal")
    /\ UNCHANGED <<store, history>>

(* Mutant: SET without NX. *)
MarkAlways(l) ==
    /\ pc[l] = "set"
    /\ marker' = [marker EXCEPT ![Fx(l)] = TRUE]
    /\ pc' = [pc EXCEPT ![l] = "xadd"]
    /\ UNCHANGED <<stream, seen, outcome, history>>

(* SET NX finds no key: the marker is this lane's, and it sends the XADD. *)
MarkFirst(l) ==
    /\ pc[l] = "set"
    /\ ~marker[Fx(l)]
    /\ marker' = [marker EXCEPT ![Fx(l)] = TRUE]
    /\ pc' = [pc EXCEPT ![l] = "xadd"]
    /\ UNCHANGED <<stream, seen, outcome, history>>

(* Mutant: the early return of already_emitted is missing. *)
MarkDuplicateFallsThrough(l) ==
    /\ pc[l] = "set"
    /\ marker[Fx(l)]
    /\ pc' = [pc EXCEPT ![l] = "xadd"]
    /\ UNCHANGED <<store, seen, outcome, history>>

(* SET NX finds the key: another observation has reserved the fixture. *)
MarkDuplicate(l) ==
    /\ pc[l] = "set"
    /\ marker[Fx(l)]
    /\ Finish(l, "already_emitted")
    /\ UNCHANGED <<store, history>>

(* The SET is rejected, before Redis ran it or after.  The call stands     *)
(* outside the try block, so observe() rejects and nobody rolls back.      *)
MarkRejected(l) ==
    /\ pc[l] = "set"
    /\ \/ UNCHANGED <<marker, abandoned>>
       \/ /\ ~marker[Fx(l)]
          /\ marker' = [marker EXCEPT ![Fx(l)] = TRUE]
          /\ abandoned' = [abandoned EXCEPT ![Fx(l)] = TRUE]
    /\ Finish(l, "threw")
    /\ UNCHANGED <<stream, expiries, ambiguous>>

(* Mutant: the rollback stands in a finally block. *)
PublishThenRollback(l) ==
    /\ pc[l] = "xadd"
    /\ stream' = [stream EXCEPT ![Fx(l)] = Append(@, seen[l].status)]
    /\ pc' = [pc EXCEPT ![l] = "del"]
    /\ UNCHANGED <<marker, seen, outcome, history>>

(* XADD answers with the entry's id. *)
Publish(l) ==
    /\ pc[l] = "xadd"
    /\ stream' = [stream EXCEPT ![Fx(l)] = Append(@, seen[l].status)]
    /\ Finish(l, "published")
    /\ UNCHANGED <<marker, history>>

(* Mutant: the catch block returns without rolling back. *)
PublishFailsKeepingMarker(l) ==
    /\ pc[l] = "xadd"
    /\ Finish(l, "publish_failed")
    /\ UNCHANGED <<store, history>>

(* XADD is rejected and Redis did not run it: the catch block sends DEL. *)
PublishFails(l) ==
    /\ pc[l] = "xadd"
    /\ pc' = [pc EXCEPT ![l] = "del"]
    /\ UNCHANGED <<store, seen, outcome, history>>

(* XADD is rejected although Redis ran it (the reply is lost with the      *)
(* connection): the catch block cannot tell, and sends DEL all the same.   *)
PublishFailsLate(l) ==
    /\ pc[l] = "xadd"
    /\ ambiguous[Fx(l)] < MaxAmbiguous
    /\ stream' = [stream EXCEPT ![Fx(l)] = Append(@, seen[l].status)]
    /\ ambiguous' = [ambiguous EXCEPT ![Fx(l)] = @ + 1]
    /\ pc' = [pc EXCEPT ![l] = "del"]
    /\ UNCHANGED <<marker, seen, outcome, expiries, abandoned>>

(* DEL removes the key, whoever set it. *)
Rollback(l) ==
    /\ pc[l] = "del"
    /\ marker' = [marker EXCEPT ![Fx(l)] = FALSE]
    /\ abandoned' = [abandoned EXCEPT ![Fx(l)] = FALSE]
    /\ Finish(l, "publish_failed")
    /\ UNCHANGED <<stream, expiries, ambiguous>>

(* DEL is rejected inside the catch block: observe() itself rejects. *)
RollbackRejected(l) ==
    /\ pc[l] = "del"
    /\ \/ /\ marker' = [marker EXCEPT ![Fx(l)] = FALSE]
          /\ abandoned' = [abandoned EXCEPT ![Fx(l)] = FALSE]
       \/ /\ abandoned' = [abandoned EXCEPT ![Fx(l)] = @ \/ marker[Fx(l)]]
          /\ UNCHANGED marker
    /\ Finish(l, "threw")
    /\ UNCHANGED <<stream, expiries, ambiguous>>

(* A lane that has reserved a marker and not yet published or removed it. *)
Holding(f) == {l \in Lanes : pc[l] \in {"xadd", "del"} /\ Fx(l) = f}

(* Worker w dies and restarts: its lanes are gone, its markers stay. *)
Crash(w) ==
    /\ \E l \in Lanes : Host[l] = w /\ pc[l] # "idle"
    /\ pc' = [l \in Lanes |-> IF Host[l] = w THEN "idle" ELSE pc[l]]
    /\ seen' = [l \in Lanes |-> IF Host[l] = w THEN NoObservation ELSE seen[l]]
    /\ outcome' = [l \in Lanes |-> IF Host[l] = w THEN "none" ELSE outcome[l]]
    /\ abandoned' = [f \in Fixtures |->
                        \/ abandoned[f]
                        \/ marker[f] /\ \E l \in Holding(f) : Host[l] = w]
    /\ UNCHANGED <<store, expiries, ambiguous>>

(* EX <ttl>: Redis drops the marker when its time is up. *)
Expire(f) ==
    /\ marker[f]
    /\ expiries[f] < MaxExpiries
    /\ marker' = [marker EXCEPT ![f] = FALSE]
    /\ expiries' = [expiries EXCEPT ![f] = @ + 1]
    /\ abandoned' = [abandoned EXCEPT ![f] = FALSE]
    /\ UNCHANGED <<stream, pc, seen, outcome, ambiguous>>

(* What observe() does once a Redis command it awaits has settled. *)
Settle(l) ==
    \/ MarkFirst(l) \/ MarkDuplicate(l) \/ MarkRejected(l)
    \/ Publish(l) \/ PublishFails(l) \/ PublishFailsLate(l)
    \/ Rollback(l) \/ RollbackRejected(l)

Next ==
    \/ \E l \in Lanes, f \in Fixtures, s \in Reported : Observe(l, f, s)
    \/ \E l \in Lanes : Settle(l)
    \/ \E w \in Workers : Crash(w)
    \/ \E f \in Fixtures : Expire(f)

Spec == Init /\ [][Next]_vars

(***************************************************************************)
(* Properties                                                              *)
(***************************************************************************)

(* The events that excuse one more fact for f: the marker was lost to its  *)
(* TTL, or an XADD that Redis executed came back as an error.              *)
Excuses(f) == expiries[f] + ambiguous[f]

(* Emit once: however lanes and workers interleave, crash and retry, a     *)
(* fixture has at most one fact on the stream, plus one for each expired   *)
(* marker and each XADD executed but reported as failed.  This is the      *)
(* reserve-before-XADD argument of redis-emitted-fixture-store.ts.         *)
DuplicatesExcused ==
    \A f \in Fixtures : Len(stream[f]) <= 1 + Excuses(f)

(* A marker without a fact (which suppresses every later observation) is   *)
(* explained: a lane is still working on it, the fact is on the stream, or *)
(* a crash or a rejected SET or DEL left it behind.  The rollback of       *)
(* observe() never strands a marker by itself.                             *)
MarkerExplained ==
    \A f \in Fixtures :
        marker[f] => \/ Holding(f) # {}
                     \/ stream[f] # <<>>
                     \/ abandoned[f]

(* A fixture whose fact is on the stream keeps its marker: the             *)
(* unconditional DEL of a lane never removes the marker of a published     *)
(* fact, unless an expiry or a misreported XADD came first.                *)
PublishedStaysMarked ==
    [][\A f \in Fixtures :
           marker[f] /\ ~marker'[f] /\ stream[f] # <<>> => Excuses(f)' > 0]_vars

(* The publisher implements the abstract promise. *)
Promise == INSTANCE EmitOnce WITH
               Statuses <- Reported \intersect Terminal,
               announced <- stream,
               excuses <- [f \in Fixtures |-> Excuses(f)]
PromiseKept == Promise!Spec

(***************************************************************************)
(* Liveness.  Every Redis command settles one way or another, and a SET or *)
(* an XADD a lane sends again and again does not fail every time; nothing  *)
(* is assumed of how often fixtures are observed, of crashes or of expiry. *)
(***************************************************************************)
Fairness ==
    \A l \in Lanes : /\ WF_vars(Settle(l))
                     /\ SF_vars(MarkFirst(l))
                     /\ SF_vars(Publish(l))

FairSpec == Spec /\ Fairness

ObserveTerminal(f) ==
    \E l \in Lanes, s \in Terminal \intersect Reported : Observe(l, f, s)

(* A fixture observed in a terminal status over and over is announced, or  *)
(* its marker was abandoned: failed publishes are rolled back and retried  *)
(* by the next observation.                                                *)
ObservedIsAnnounced ==
    \A f \in Fixtures :
        []<><<ObserveTerminal(f)>>_vars
            => <>(stream[f] # <<>> \/ abandoned[f])
=============================================================================
