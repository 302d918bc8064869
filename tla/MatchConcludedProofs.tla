------------------------ MODULE MatchConcludedProofs ------------------------
(***************************************************************************)
(* The publisher's promise, for any fixtures, lanes, workers, statuses and *)
(* bounds.  The argument is one count per fixture:                         *)
(*                                                                         *)
(*    facts on the stream + lanes holding a reservation                    *)
(*        <= (1 if the marker exists) + expiries + misreported XADDs       *)
(*                                                                         *)
(* SET NX adds a holder only together with the marker, an XADD turns a     *)
(* holder into a fact, and a DEL pays for the marker it removes with the   *)
(* holder that sent it -- whoever's marker it was.                         *)
(***************************************************************************)
EXTENDS MatchConcluded, FiniteSetTheorems, TLAPS

Marked(f) == IF marker[f] THEN 1 ELSE 0

(* The inductive invariant: the count above. *)
HoldersCounted ==
    \A f \in Fixtures :
        Len(stream[f]) + Cardinality(Holding(f)) <= Marked(f) + Excuses(f)

IInv == TypeOK /\ HoldersCounted /\ MarkerExplained

(* Every variable of the publisher keeps its type; in particular only      *)
(* terminal statuses ever reach the stream.                                *)
LEMMA TypeInvariant == TypeOK /\ [Next]_vars => TypeOK'
<1> SUFFICES ASSUME TypeOK, [Next]_vars PROVE TypeOK'
    OBVIOUS
<1> USE NoObservationType, BoundsType, HostType DEF TypeOK, Observation, Waiting, Outcomes
<1>1. ASSUME NEW l \in Lanes, NEW f \in Fixtures, NEW s \in Reported,
             Observe(l, f, s)
      PROVE  TypeOK'
  <2>1. CASE s \in Terminal
    <3>1. [fixture |-> f, status |-> s] \in Observation
      BY DEF Observation
    <3>2. pc' = [pc EXCEPT ![l] = "set"]
          /\ seen' = [seen EXCEPT ![l] = [fixture |-> f, status |-> s]]
          /\ UNCHANGED <<store, outcome, history>>
      BY <1>1, <2>1 DEF Observe
    <3> HIDE DEF Observation
    <3> QED
      BY <2>1, <3>1, <3>2 DEF store, history
  <2>2. CASE s \notin Terminal
    BY <1>1, <2>2 DEF Observe, Finish, store, history
  <2> QED
    BY <2>1, <2>2
<1>2. ASSUME NEW l \in Lanes, Settle(l) PROVE TypeOK'
  <2>1. pc[l] # "idle" =>
           /\ Fx(l) \in Fixtures
           /\ seen[l].status \in Reported \intersect Terminal
    BY DEF Fx
  <2>2. CASE MarkFirst(l)
    BY <2>1, <2>2 DEF MarkFirst, history
  <2>3. CASE MarkDuplicate(l)
    BY <2>3 DEF MarkDuplicate, Finish, store, history
  <2>4. CASE MarkRejected(l)
    BY <2>1, <2>4 DEF MarkRejected, Finish
  <2>5. CASE Publish(l)
    BY <2>1, <2>5 DEF Publish, Finish, history
  <2>6. CASE PublishFails(l)
    BY <2>1, <2>6 DEF PublishFails, store, history
  <2>7. CASE PublishFailsLate(l)
    BY <2>1, <2>7 DEF PublishFailsLate
  <2>8. CASE Rollback(l)
    BY <2>1, <2>8 DEF Rollback, Finish
  <2>9. CASE RollbackRejected(l)
    BY <2>1, <2>9 DEF RollbackRejected, Finish
  <2> QED
    BY <1>2, <2>2, <2>3, <2>4, <2>5, <2>6, <2>7, <2>8, <2>9 DEF Settle
<1>3. ASSUME NEW w \in Workers, Crash(w) PROVE TypeOK'
  BY <1>3 DEF Crash, store
<1>4. ASSUME NEW f \in Fixtures, Expire(f) PROVE TypeOK'
  BY <1>4 DEF Expire
<1>5. CASE UNCHANGED vars
  BY <1>5 DEF vars
<1> QED
  BY <1>1, <1>2, <1>3, <1>4, <1>5 DEF Next

(* The lanes that hold a reservation are finitely many. *)
LEMMA HoldingFinite ==
  ASSUME NEW f \in Fixtures
  PROVE  /\ IsFiniteSet(Holding(f))
         /\ Cardinality(Holding(f)) \in Nat
         /\ IsFiniteSet(Holding(f)')
         /\ Cardinality(Holding(f)') \in Nat
<1>1. Holding(f) \subseteq Lanes /\ Holding(f)' \subseteq Lanes
  BY DEF Holding
<1> QED
  BY <1>1, LanesFinite, FS_Subset, FS_CardinalityType

(* A step of one lane moves at most that lane in or out of the holders. *)
LEMMA HoldingMoves ==
  ASSUME NEW f \in Fixtures, NEW l \in Lanes,
         \A m \in Lanes \ {l} : pc'[m] = pc[m] /\ seen'[m] = seen[m]
  PROVE  /\ (l \in Holding(f) <=> l \in Holding(f)')
               => Cardinality(Holding(f)') = Cardinality(Holding(f))
         /\ l \notin Holding(f) /\ l \in Holding(f)'
               => Cardinality(Holding(f)') = Cardinality(Holding(f)) + 1
         /\ l \in Holding(f) /\ l \notin Holding(f)'
               => Cardinality(Holding(f)) = Cardinality(Holding(f)') + 1
<1>1. Holding(f)' \ {l} = Holding(f) \ {l}
  BY DEF Holding, Fx
<1>2. CASE l \in Holding(f) <=> l \in Holding(f)'
  <2>1. Holding(f)' = Holding(f)
    BY <1>1, <1>2
  <2> QED
    BY <1>2, <2>1
<1>3. CASE l \notin Holding(f) /\ l \in Holding(f)'
  <2>1. Holding(f)' = Holding(f) \union {l}
    BY <1>1, <1>3
  <2> QED
    BY <1>3, <2>1, HoldingFinite, FS_AddElement
<1>4. CASE l \in Holding(f) /\ l \notin Holding(f)'
  <2>1. Holding(f) = Holding(f)' \union {l}
    BY <1>1, <1>4
  <2> QED
    BY <1>4, <2>1, HoldingFinite, FS_AddElement
<1> QED
  BY <1>2, <1>3, <1>4

(* A step that leaves pc and seen alone leaves the holders alone. *)
LEMMA HoldingKept ==
  ASSUME NEW f \in Fixtures, UNCHANGED <<pc, seen>>
  PROVE  Holding(f)' = Holding(f)
BY DEF Holding, Fx

(* The count per fixture is preserved by every step. *)
LEMMA CountInvariant == TypeOK /\ HoldersCounted /\ [Next]_vars => HoldersCounted'
<1> SUFFICES ASSUME TypeOK, HoldersCounted, [Next]_vars,
                    NEW f \in Fixtures
             PROVE  (Len(stream[f]) + Cardinality(Holding(f))
                        <= Marked(f) + Excuses(f))'
    BY DEF HoldersCounted
<1> DEFINE H == Cardinality(Holding(f))
<1>1. /\ Len(stream[f]) + H <= Marked(f) + Excuses(f)
      /\ H \in Nat /\ H' \in Nat
      /\ Len(stream[f]) \in Nat
      /\ expiries[f] \in Nat /\ ambiguous[f] \in Nat
      /\ marker[f] \in BOOLEAN
  BY HoldingFinite, BoundsType DEF HoldersCounted, TypeOK
<1>2. TypeOK'
  BY TypeInvariant
<1>3. /\ Len(stream[f])' \in Nat
      /\ expiries[f]' \in Nat /\ ambiguous[f]' \in Nat
      /\ marker[f]' \in BOOLEAN
  BY <1>2, BoundsType DEF TypeOK
<1> HIDE DEF H
<1>4. ASSUME NEW l \in Lanes, NEW g \in Fixtures, NEW s \in Reported,
             Observe(l, g, s)
      PROVE  Len(stream[f])' + H' <= Marked(f)' + Excuses(f)'
  <2>1. \A m \in Lanes \ {l} : pc'[m] = pc[m] /\ seen'[m] = seen[m]
    BY <1>4 DEF Observe, Finish, TypeOK
  <2>2. l \notin Holding(f) /\ l \notin Holding(f)'
    BY <1>4 DEF Observe, Finish, TypeOK, Holding
  <2>3. H' = H
    BY <2>1, <2>2, HoldingMoves DEF H
  <2> QED
    BY <1>1, <1>4, <2>3 DEF Observe, store, history, Marked, Excuses
<1>5. ASSUME NEW l \in Lanes, Settle(l)
      PROVE  Len(stream[f])' + H' <= Marked(f)' + Excuses(f)'
  <2>1. \A m \in Lanes \ {l} : pc'[m] = pc[m] /\ seen'[m] = seen[m]
    BY <1>5 DEF Settle, MarkFirst, MarkDuplicate, MarkRejected, Publish,
                PublishFails, PublishFailsLate, Rollback, RollbackRejected,
                Finish, TypeOK
  <2>2. /\ (l \in Holding(f) <=> l \in Holding(f)') => H' = H
        /\ l \notin Holding(f) /\ l \in Holding(f)' => H' = H + 1
        /\ l \in Holding(f) /\ l \notin Holding(f)' => H = H' + 1
    BY <2>1, HoldingMoves DEF H
  <2>3. l \in Holding(f) <=> pc[l] \in {"xadd", "del"} /\ Fx(l) = f
    BY DEF Holding
  <2>4. l \in Holding(f)' <=> pc'[l] \in {"xadd", "del"} /\ seen'[l].fixture = f
    BY DEF Holding, Fx
  <2>5. CASE Fx(l) # f
    <3>1. UNCHANGED <<stream[f], marker[f], expiries[f], ambiguous[f]>>
      BY <1>5, <2>5 DEF Settle, MarkFirst, MarkDuplicate, MarkRejected, Publish,
                PublishFails, PublishFailsLate, Rollback, RollbackRejected,
                Finish, TypeOK, history, store
    <3>2. l \notin Holding(f) /\ l \notin Holding(f)'
      BY <1>5, <2>3, <2>4, <2>5
         DEF Settle, MarkFirst, MarkDuplicate, MarkRejected, Publish,
             PublishFails, PublishFailsLate, Rollback, RollbackRejected,
             Finish, TypeOK, Fx
    <3> QED
      BY <1>1, <2>2, <3>1, <3>2 DEF Marked, Excuses
  <2>6. CASE Fx(l) = f
    <3>1. CASE MarkFirst(l)
      <4>1. l \notin Holding(f) /\ l \in Holding(f)'
        BY <2>3, <2>4, <2>6, <3>1 DEF MarkFirst, TypeOK, Fx
      <4>2. /\ ~marker[f] /\ marker'[f]
            /\ UNCHANGED <<stream, expiries, ambiguous>>
        BY <2>6, <3>1 DEF MarkFirst, TypeOK, history
      <4> QED
        BY <1>1, <2>2, <4>1, <4>2 DEF Marked, Excuses
    <3>2. CASE MarkDuplicate(l) \/ MarkRejected(l)
      <4>1. l \notin Holding(f) /\ l \notin Holding(f)'
        BY <2>3, <2>4, <3>2 DEF MarkDuplicate, MarkRejected, Finish, TypeOK
      <4>2. /\ marker[f] => marker'[f]
            /\ UNCHANGED <<stream, expiries, ambiguous>>
        BY <2>6, <3>2 DEF MarkDuplicate, MarkRejected, TypeOK, store, history
      <4> QED
        BY <1>1, <1>3, <2>2, <4>1, <4>2 DEF Marked, Excuses
    <3>3. CASE Publish(l)
      <4>1. l \in Holding(f) /\ l \notin Holding(f)'
        BY <2>3, <2>4, <2>6, <3>3 DEF Publish, Finish, TypeOK
      <4>2. Len(stream'[f]) = Len(stream[f]) + 1
        BY <2>6, <3>3 DEF Publish, TypeOK
      <4>3. UNCHANGED <<marker, expiries, ambiguous>>
        BY <3>3 DEF Publish, history
      <4> QED
        BY <1>1, <2>2, <4>1, <4>2, <4>3 DEF Marked, Excuses
    <3>4. CASE PublishFails(l)
      <4>1. l \in Holding(f) /\ l \in Holding(f)'
        BY <2>3, <2>4, <2>6, <3>4 DEF PublishFails, TypeOK, Fx
      <4>2. UNCHANGED <<stream, marker, expiries, ambiguous>>
        BY <3>4 DEF PublishFails, store, history
      <4> QED
        BY <1>1, <2>2, <4>1, <4>2 DEF Marked, Excuses
    <3>5. CASE PublishFailsLate(l)
      <4>1. l \in Holding(f) /\ l \in Holding(f)'
        BY <2>3, <2>4, <2>6, <3>5 DEF PublishFailsLate, TypeOK, Fx
      <4>2. Len(stream'[f]) = Len(stream[f]) + 1
        BY <2>6, <3>5 DEF PublishFailsLate, TypeOK
      <4>3. /\ ambiguous'[f] = ambiguous[f] + 1
            /\ UNCHANGED <<marker, expiries>>
        BY <2>6, <3>5 DEF PublishFailsLate, TypeOK
      <4> QED
        BY <1>1, <2>2, <4>1, <4>2, <4>3, SMTT(30) DEF Marked, Excuses
    <3>6. CASE Rollback(l) \/ RollbackRejected(l)
      <4>1. l \in Holding(f) /\ l \notin Holding(f)'
        BY <2>3, <2>4, <2>6, <3>6 DEF Rollback, RollbackRejected, Finish, TypeOK
      <4>2. UNCHANGED <<stream, expiries, ambiguous>>
        BY <3>6 DEF Rollback, RollbackRejected
      <4> QED
        BY <1>1, <1>3, <2>2, <4>1, <4>2 DEF Marked, Excuses
    <3> QED
      BY <1>5, <3>1, <3>2, <3>3, <3>4, <3>5, <3>6 DEF Settle
  <2> QED
    BY <2>5, <2>6
<1>6. ASSUME NEW w \in Workers, Crash(w)
      PROVE  Len(stream[f])' + H' <= Marked(f)' + Excuses(f)'
  <2>1. Holding(f)' \subseteq Holding(f)
    BY <1>6 DEF Crash, Holding, Fx, TypeOK
  <2>2. H' <= H
    BY <2>1, HoldingFinite, FS_Subset DEF H
  <2>3. UNCHANGED <<stream, marker, expiries, ambiguous>>
    BY <1>6 DEF Crash, store
  <2> QED
    BY <1>1, <2>2, <2>3 DEF Marked, Excuses
<1>7. ASSUME NEW g \in Fixtures, Expire(g)
      PROVE  Len(stream[f])' + H' <= Marked(f)' + Excuses(f)'
  <2>1. H' = H
    BY <1>7, HoldingKept DEF Expire, H
  <2>2. Marked(f) + Excuses(f) <= Marked(f)' + Excuses(f)'
    BY <1>1, <1>7 DEF Expire, Marked, Excuses, TypeOK
  <2>3. UNCHANGED stream
    BY <1>7 DEF Expire
  <2> QED
    BY <1>1, <1>3, <2>1, <2>2, <2>3 DEF Marked, Excuses
<1>8. CASE UNCHANGED vars
  <2>1. H' = H
    BY <1>8, HoldingKept DEF vars, H
  <2> QED
    BY <1>1, <1>8, <2>1 DEF vars, Marked, Excuses, H
<1> QED
  BY <1>4, <1>5, <1>6, <1>7, <1>8 DEF Next, H

(* Every lane that gives a reservation up publishes, removes the marker or *)
(* is recorded as having abandoned it.                                     *)
LEMMA ExplainedInvariant ==
    TypeOK /\ MarkerExplained /\ [Next]_vars => MarkerExplained'
<1> SUFFICES ASSUME TypeOK, MarkerExplained, [Next]_vars,
                    NEW f \in Fixtures, marker'[f]
             PROVE  Holding(f)' # {} \/ stream'[f] # <<>> \/ abandoned'[f]
    BY DEF MarkerExplained
<1>1. marker[f] => \/ Holding(f) # {}
                   \/ stream[f] # <<>>
                   \/ abandoned[f]
  BY DEF MarkerExplained
<1>2. ASSUME NEW l \in Lanes, NEW g \in Fixtures, NEW s \in Reported,
             Observe(l, g, s)
      PROVE  Holding(f)' # {} \/ stream'[f] # <<>> \/ abandoned'[f]
  <2>1. Holding(f) \subseteq Holding(f)'
    BY <1>2 DEF Observe, Finish, Holding, Fx, TypeOK
  <2> QED
    BY <1>1, <1>2, <2>1 DEF Observe, store, history
<1>3. ASSUME NEW l \in Lanes, Settle(l)
      PROVE  Holding(f)' # {} \/ stream'[f] # <<>> \/ abandoned'[f]
  <2>1. Holding(f) \ {l} \subseteq Holding(f)'
    BY <1>3 DEF Settle, MarkFirst, MarkDuplicate, MarkRejected, Publish,
                PublishFails, PublishFailsLate, Rollback, RollbackRejected,
                Finish, TypeOK, Holding, Fx
  <2>2. CASE MarkFirst(l)
    <3>1. Fx(l) = f => l \in Holding(f)'
      BY <2>2 DEF MarkFirst, Holding, Fx, TypeOK
    <3>2. /\ l \notin Holding(f)
          /\ UNCHANGED <<stream, abandoned>>
          /\ Fx(l) # f => marker[f]
      BY <2>2 DEF MarkFirst, Holding, TypeOK, history
    <3> QED
      BY <1>1, <2>1, <3>1, <3>2
  <2>3. CASE MarkDuplicate(l) \/ MarkRejected(l)
    <3>1. l \notin Holding(f) /\ UNCHANGED stream
      BY <2>3 DEF MarkDuplicate, MarkRejected, Holding, store
    <3>2. \/ marker[f] /\ (abandoned[f] => abandoned'[f])
          \/ abandoned'[f]
      BY <2>3 DEF MarkDuplicate, MarkRejected, TypeOK, store, history
    <3> QED
      BY <1>1, <2>1, <3>1, <3>2
  <2>4. CASE Publish(l)
    <3>1. /\ marker[f] /\ abandoned'[f] = abandoned[f]
          /\ Fx(l) # f => stream'[f] = stream[f] /\ l \notin Holding(f)
          /\ Fx(l) = f => Len(stream'[f]) = Len(stream[f]) + 1
      BY <2>4 DEF Publish, Holding, TypeOK, history
    <3>2. Fx(l) = f => stream'[f] # <<>>
      BY <3>1 DEF TypeOK
    <3> QED
      BY <1>1, <2>1, <3>1, <3>2
  <2>5. CASE PublishFails(l) \/ PublishFailsLate(l)
    <3>1. Holding(f) \subseteq Holding(f)'
      BY <2>1, <2>5 DEF PublishFails, PublishFailsLate, Holding, Fx, TypeOK
    <3>2. /\ marker[f] /\ abandoned'[f] = abandoned[f]
          /\ stream'[f] = stream[f] \/ Fx(l) = f
      BY <2>5 DEF PublishFails, PublishFailsLate, TypeOK, store, history
    <3>3. Fx(l) = f => l \in Holding(f)'
      BY <2>5 DEF PublishFails, PublishFailsLate, Holding, Fx, TypeOK
    <3> QED
      BY <1>1, <3>1, <3>2, <3>3
  <2>6. CASE Rollback(l) \/ RollbackRejected(l)
    <3>1. Fx(l) = f => abandoned'[f]
      BY <2>6 DEF Rollback, RollbackRejected, TypeOK
    <3>2. Fx(l) # f => /\ marker[f] /\ abandoned'[f] = abandoned[f]
                       /\ l \notin Holding(f)
      BY <2>6 DEF Rollback, RollbackRejected, Holding, TypeOK
    <3>3. UNCHANGED stream
      BY <2>6 DEF Rollback, RollbackRejected
    <3> QED
      BY <1>1, <2>1, <3>1, <3>2, <3>3
  <2> QED
    BY <1>3, <2>2, <2>3, <2>4, <2>5, <2>6 DEF Settle
<1>4. ASSUME NEW w \in Workers, Crash(w)
      PROVE  Holding(f)' # {} \/ stream'[f] # <<>> \/ abandoned'[f]
  <2>1. marker[f] /\ UNCHANGED stream
    BY <1>4 DEF Crash, store
  <2>2. abandoned'[f] <=> abandoned[f] \/ \E l \in Holding(f) : Host[l] = w
    BY <1>4, <2>1 DEF Crash
  <2>3. \A l \in Holding(f) : Host[l] # w => l \in Holding(f)'
    BY <1>4 DEF Crash, Holding, Fx, TypeOK
  <2> QED
    BY <1>1, <2>1, <2>2, <2>3
<1>5. ASSUME NEW g \in Fixtures, Expire(g)
      PROVE  Holding(f)' # {} \/ stream'[f] # <<>> \/ abandoned'[f]
  <2>1. /\ UNCHANGED stream
        /\ marker[f] /\ abandoned'[f] = abandoned[f]
    BY <1>5 DEF Expire, TypeOK
  <2>2. Holding(f)' = Holding(f)
    BY <1>5, HoldingKept DEF Expire
  <2> QED
    BY <1>1, <2>1, <2>2
<1>6. CASE UNCHANGED vars
  <2>1. Holding(f)' = Holding(f)
    BY <1>6, HoldingKept DEF vars
  <2> QED
    BY <1>1, <1>6, <2>1 DEF vars
<1> QED
  BY <1>2, <1>3, <1>4, <1>5, <1>6 DEF Next

(* The initial states satisfy the inductive invariant. *)
LEMMA InitInvariant == Init => IInv
<1> SUFFICES ASSUME Init PROVE IInv
    OBVIOUS
<1>1. TypeOK
  BY BoundsType DEF Init, TypeOK, Waiting, Outcomes
<1>2. \A f \in Fixtures : Holding(f) = {} /\ Len(stream[f]) = 0
  BY DEF Init, Holding
<1>3. HoldersCounted
  <2>1. \A f \in Fixtures : Cardinality(Holding(f)) = 0
    BY <1>2, FS_EmptySet
  <2>2. \A f \in Fixtures : ~marker[f] /\ expiries[f] = 0 /\ ambiguous[f] = 0
    BY DEF Init
  <2> QED
    BY <1>2, <2>1, <2>2 DEF HoldersCounted, Marked, Excuses
<1>4. MarkerExplained
  BY DEF Init, MarkerExplained
<1> QED
  BY <1>1, <1>3, <1>4 DEF IInv

(* The strengthened invariant holds in every reachable state of any        *)
(* instance: the count of facts and holders of each fixture, with the      *)
(* types and the explained markers it rests on.                            *)
THEOREM Invariance == Spec => []IInv
<1>1. IInv /\ [Next]_vars => IInv'
  BY TypeInvariant, CountInvariant, ExplainedInvariant DEF IInv
<1> QED
  BY InitInvariant, <1>1, PTL DEF Spec

(* observe() never puts a status on the stream that is not terminal, and   *)
(* every variable keeps its type.                                          *)
THEOREM TypeCorrect == Spec => []TypeOK
<1>1. IInv => TypeOK
  BY DEF IInv
<1> QED
  BY <1>1, Invariance, PTL

(* The count implies the promise: at most one fact per fixture, plus one   *)
(* for each excuse.                                                        *)
LEMMA CountSuffices == IInv => DuplicatesExcused
<1> SUFFICES ASSUME IInv, NEW f \in Fixtures
             PROVE  Len(stream[f]) <= 1 + Excuses(f)
    BY DEF DuplicatesExcused
<1> DEFINE H == Cardinality(Holding(f))
<1>1. H \in Nat
  BY HoldingFinite
<1>2. /\ Len(stream[f]) \in Nat
      /\ expiries[f] \in Nat /\ ambiguous[f] \in Nat
  BY BoundsType DEF IInv, TypeOK
<1>3. Len(stream[f]) + H <= Marked(f) + Excuses(f)
  BY DEF IInv, HoldersCounted
<1> HIDE DEF H
<1> QED
  BY <1>1, <1>2, <1>3 DEF Marked, Excuses

(* Emit once, for any number of workers, lanes and fixtures: a second fact *)
(* needs an expired marker or an XADD executed but reported as failed.     *)
THEOREM EmittedOnce == Spec => []DuplicatesExcused
  BY CountSuffices, Invariance, PTL

(* Rollback never strands a marker: one without a fact is in use or was    *)
(* left behind by a crash or a rejected SET or DEL.                        *)
THEOREM NoStrandedMarker == Spec => []MarkerExplained
<1>1. IInv => MarkerExplained
  BY DEF IInv
<1> QED
  BY <1>1, Invariance, PTL

(* A lane that still holds a reservation has used up none of the promise:  *)
(* the facts on the stream are all excused.                                *)
LEMMA HolderMayAnnounce ==
  ASSUME IInv, NEW l \in Lanes, pc[l] \in {"xadd", "del"}
  PROVE  Len(stream[Fx(l)]) <= Excuses(Fx(l))
<1> DEFINE f == Fx(l)
<1>1. f \in Fixtures /\ l \in Holding(f)
  BY DEF IInv, TypeOK, Observation, Holding, Fx
<1>2. Cardinality(Holding(f)) \in Nat /\ Cardinality(Holding(f)) # 0
  <2>1. Holding(f) # {}
    BY <1>1
  <2> QED
    BY <1>1, <2>1, HoldingFinite, FS_EmptySet
<1> DEFINE H == Cardinality(Holding(f))
<1>3. /\ Len(stream[f]) \in Nat
      /\ expiries[f] \in Nat /\ ambiguous[f] \in Nat
  BY <1>1, BoundsType DEF IInv, TypeOK
<1>4. Len(stream[f]) + H <= Marked(f) + Excuses(f)
  BY <1>1 DEF IInv, HoldersCounted
<1>5. H \in Nat /\ H # 0
  BY <1>2
<1> HIDE DEF f, H
<1>6. Len(stream[f]) <= Excuses(f)
  BY <1>3, <1>4, <1>5 DEF Marked, Excuses
<1> QED
  BY <1>6 DEF f

(* The marker of a published fact is only ever removed by its TTL or       *)
(* after an excuse: no lane's DEL reopens a fixture whose one fact went    *)
(* out.                                                                    *)
THEOREM PublishedKeepsMarker == Spec => PublishedStaysMarked
<1>1. ASSUME IInv, [Next]_vars, NEW f \in Fixtures,
             marker[f], ~marker'[f], stream[f] # <<>>
      PROVE  Excuses(f)' > 0
  <2>1. /\ expiries[f] \in Nat /\ ambiguous[f] \in Nat
        /\ Len(stream[f]) \in Nat /\ Len(stream[f]) # 0
    BY <1>1, BoundsType DEF IInv, TypeOK
  <2>2. CASE Expire(f)
    <3>1. expiries'[f] = expiries[f] + 1 /\ ambiguous'[f] = ambiguous[f]
      BY <1>1, <2>2 DEF Expire, IInv, TypeOK
    <3> QED
      BY <2>1, <3>1 DEF Excuses
  <2>3. CASE \E l \in Lanes : Settle(l) /\ Fx(l) = f
    <3>1. PICK l \in Lanes : Settle(l) /\ Fx(l) = f
      BY <2>3
    <3>2. pc[l] = "del" /\ UNCHANGED <<expiries, ambiguous>>
      BY <1>1, <3>1 DEF Settle, MarkFirst, MarkDuplicate, MarkRejected, Publish,
                PublishFails, PublishFailsLate, Rollback, RollbackRejected,
                store, IInv, TypeOK
    <3>3. Len(stream[f]) <= Excuses(f)
      BY <1>1, <3>1, <3>2, HolderMayAnnounce
    <3> QED
      BY <2>1, <3>2, <3>3 DEF Excuses
  <2>4. CASE Next /\ ~Expire(f) /\ ~\E l \in Lanes : Settle(l) /\ Fx(l) = f
    <3>1. marker'[f] = marker[f]
      BY <1>1, <2>4 DEF Next, Observe, Crash, Expire, Settle, MarkFirst,
                MarkDuplicate, MarkRejected, Publish, PublishFails,
                PublishFailsLate, Rollback, RollbackRejected, store, IInv, TypeOK
    <3> QED
      BY <1>1, <3>1
  <2>5. CASE UNCHANGED vars
    BY <1>1, <2>5 DEF vars
  <2> QED
    BY <1>1, <2>2, <2>3, <2>4, <2>5
<1>2. IInv /\ [Next]_vars
        => [\A f \in Fixtures :
               marker[f] /\ ~marker'[f] /\ stream[f] # <<>> => Excuses(f)' > 0]_vars
  BY <1>1
<1> QED
  BY <1>2, Invariance, PTL DEF PublishedStaysMarked, Spec

(* A step of one lane that leaves the stream and the counters alone is a   *)
(* stutter of the abstract promise.                                        *)
LEMMA Stutter ==
  ASSUME UNCHANGED <<stream, expiries, ambiguous>>
  PROVE  UNCHANGED Promise!vars
BY DEF Promise!vars, Excuses

(* The publisher implements EmitOnce: the stream is the announcements, an  *)
(* expiry or a misreported XADD is an excuse, and everything else is a     *)
(* stutter.                                                                *)
THEOREM Implements == Spec => PromiseKept
<1>1. Init => Promise!Init
  BY DEF Init, Promise!Init, Excuses
<1>2. ASSUME IInv, [Next]_vars
      PROVE  [Promise!Next]_(Promise!vars)
  <2> DEFINE excused == [f \in Fixtures |-> Excuses(f)]
  <2>0. /\ TypeOK
        /\ stream \in [Fixtures -> Seq(Reported \intersect Terminal)]
        /\ expiries \in [Fixtures -> Nat] /\ ambiguous \in [Fixtures -> Nat]
    BY <1>2, BoundsType DEF IInv, TypeOK
  <2>1. ASSUME NEW l \in Lanes, NEW f \in Fixtures, NEW s \in Reported,
               Observe(l, f, s)
        PROVE  UNCHANGED Promise!vars
    <3>1. UNCHANGED <<stream, expiries, ambiguous>>
      BY <2>1 DEF Observe, store, history
    <3> QED
      BY <3>1, Stutter
  <2>2. ASSUME NEW l \in Lanes, Settle(l)
        PROVE  [Promise!Next]_(Promise!vars)
    <3> DEFINE f == Fx(l)
               s == seen[l].status
    <3>1. CASE Publish(l)
      <4>1. f \in Fixtures /\ s \in Reported \intersect Terminal
        BY <2>0, <3>1 DEF Publish, TypeOK, Observation, Fx
      <4>2. Len(stream[f]) <= excused[f]
        BY <1>2, <3>1, <4>1, HolderMayAnnounce DEF Publish
      <4>3. /\ stream' = [stream EXCEPT ![f] = Append(@, s)]
            /\ excused' = excused
        BY <3>1 DEF Publish, history, Excuses
      <4> HIDE DEF f, s
      <4>4. Promise!Announce(f, s)
        BY <4>2, <4>3 DEF Promise!Announce
      <4> QED
        BY <4>1, <4>4 DEF Promise!Next
    <3>2. CASE PublishFailsLate(l)
      <4>1. f \in Fixtures /\ s \in Reported \intersect Terminal
        BY <2>0, <3>2 DEF PublishFailsLate, TypeOK, Observation, Fx
      <4>2. Len(stream[f]) <= excused[f]
        BY <1>2, <3>2, <4>1, HolderMayAnnounce DEF PublishFailsLate
      <4>3. /\ stream' = [stream EXCEPT ![f] = Append(@, s)]
            /\ ambiguous' = [ambiguous EXCEPT ![f] = @ + 1]
            /\ expiries' = expiries
        BY <3>2 DEF PublishFailsLate
      <4> HIDE DEF f, s
      <4>4. excused' = [excused EXCEPT ![f] = @ + 1]
        <5>1. ASSUME NEW g \in Fixtures
              PROVE  Excuses(g)' = IF g = f THEN Excuses(g) + 1 ELSE Excuses(g)
          BY <2>0, <4>1, <4>3 DEF Excuses
        <5> QED
          BY <4>1, <5>1, Zenon
      <4>5. Promise!AnnounceUnknowingly(f, s)
        BY <4>2, <4>3, <4>4 DEF Promise!AnnounceUnknowingly
      <4> QED
        BY <4>1, <4>5 DEF Promise!Next
    <3>3. CASE ~Publish(l) /\ ~PublishFailsLate(l)
      <4>1. UNCHANGED <<stream, expiries, ambiguous>>
        BY <2>2, <3>3 DEF Settle, MarkFirst, MarkDuplicate, MarkRejected,
                  PublishFails, Rollback, RollbackRejected, store, history
      <4> QED
        BY <4>1, Stutter
    <3> QED
      BY <3>1, <3>2, <3>3
  <2>3. ASSUME NEW w \in Workers, Crash(w)
        PROVE  UNCHANGED Promise!vars
    <3>1. UNCHANGED <<stream, expiries, ambiguous>>
      BY <2>3 DEF Crash, store
    <3> QED
      BY <3>1, Stutter
  <2>4. ASSUME NEW f \in Fixtures, Expire(f)
        PROVE  Promise!Next
    <3>1. /\ expiries' = [expiries EXCEPT ![f] = @ + 1]
          /\ UNCHANGED <<stream, ambiguous>>
      BY <2>4 DEF Expire
    <3>2. excused' = [excused EXCEPT ![f] = @ + 1]
      <4>1. ASSUME NEW g \in Fixtures
            PROVE  Excuses(g)' = IF g = f THEN Excuses(g) + 1 ELSE Excuses(g)
        BY <2>0, <3>1 DEF Excuses
      <4> QED
        BY <4>1, Zenon
    <3>3. Promise!Excuse(f)
      BY <3>1, <3>2 DEF Promise!Excuse
    <3> QED
      BY <3>3 DEF Promise!Next
  <2>5. CASE UNCHANGED vars
    <3>1. UNCHANGED <<stream, expiries, ambiguous>>
      BY <2>5 DEF vars
    <3> QED
      BY <3>1, Stutter
  <2> QED
    BY <1>2, <2>1, <2>2, <2>3, <2>4, <2>5 DEF Next
<1> QED
  BY <1>1, <1>2, Invariance, PTL DEF Spec, PromiseKept, Promise!Spec
=============================================================================
