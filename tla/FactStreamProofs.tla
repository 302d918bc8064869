-------------------------- MODULE FactStreamProofs --------------------------
(***************************************************************************)
(* What becomes of the entries, for any workers, ratings, stream and       *)
(* bounds: how often a rating can be recorded, and that no entry is lost.  *)
(* The first argument is one count per rating:                             *)
(*                                                                         *)
(*    records <= workers that remember it                                  *)
(*               + crashes + evictions + misreported records               *)
(*                                                                         *)
(* A record that is reported makes one more worker remember the rating,    *)
(* for only a worker that does not remember it records it; a crash and an  *)
(* eviction each make at most one worker forget it.  The second argument   *)
(* is stated further down, before BatchesDistinct.                         *)
(***************************************************************************)
EXTENDS FactStream, FiniteSetTheorems, TLAPS

(* The workers that remember rating r. *)
Knowing(r) == {c \in Consumers : Remembers(c, r)}

(* A worker past Boot has a group to read for, and one that handles an     *)
(* entry has it at the head of its batch.                                  *)
WorkHasEntry ==
    \A c \in Consumers :
        /\ at[c] # "down" => cursor \in Nat
        /\ at[c] \notin {"down", "reading"} => batch[c] # <<>>

(* Only a rating the worker does not remember is recorded. *)
RecordsUnknown ==
    \A c \in Consumers : at[c] = "recording" => ~Remembers(c, Rating(c))

(* The count above. *)
RepeatsCounted ==
    \A r \in Ratings :
        applied[r] <= Cardinality(Knowing(r)) + crashes + evicted[r] + misread[r]

StreamTypes == TypeOK /\ WorkHasEntry

(* An entry at the head of a batch carries a rating. *)
LEMMA CurrentType ==
    ASSUME StreamTypes, NEW c \in Consumers, batch[c] # <<>>
    PROVE  /\ Current(c) \in Entries
           /\ Rating(c) \in Ratings
           /\ Tail(batch[c]) \in Seq(Entries)
<1>1. batch[c] \in Seq(Entries)
  BY DEF StreamTypes, TypeOK
<1>2. Current(c) \in Entries /\ Tail(batch[c]) \in Seq(Entries)
  BY <1>1 DEF Current
<1>3. RatingOf \in Seq(Ratings)
  BY RatingsAssumption
<1> QED
  BY <1>2, <1>3 DEF Rating, Entries

(* What recording a rating does to the windows: the worker's gains it, and *)
(* the oldest leaves a full one.                                           *)
LEMMA RecordedWindow ==
    ASSUME StreamTypes, NEW c \in Consumers, Recorded(c), Rating(c) \in Ratings
    PROVE  \/ /\ seen' = [seen EXCEPT ![c] = Append(seen[c], Rating(c))]
              /\ evicted' = evicted
              /\ Append(seen[c], Rating(c)) \in Seq(Ratings)
              /\ seen' \in [Consumers -> Seq(Ratings)]
              /\ evicted' \in [Ratings -> Nat]
           \/ /\ seen' = [seen EXCEPT ![c] = Append(Tail(seen[c]), Rating(c))]
              /\ evicted' = [evicted EXCEPT ![Head(seen[c])] = evicted[Head(seen[c])] + 1]
              /\ seen[c] # <<>> /\ Head(seen[c]) \in Ratings
              /\ seen' \in [Consumers -> Seq(Ratings)]
              /\ evicted' \in [Ratings -> Nat]
<1>1. /\ seen[c] \in Seq(Ratings) /\ DedupeSize \in Nat \ {0}
      /\ seen \in [Consumers -> Seq(Ratings)] /\ evicted \in [Ratings -> Nat]
  BY CountsAssumption DEF StreamTypes, TypeOK
<1>2. CASE Len(seen[c]) < DedupeSize
  <2>1. seen' = [seen EXCEPT ![c] = Append(seen[c], Rating(c))] /\ evicted' = evicted
    BY <1>1, <1>2 DEF Recorded
  <2>2. Append(seen[c], Rating(c)) \in Seq(Ratings)
    BY <1>1
  <2> QED
    BY <1>1, <2>1, <2>2
<1>3. CASE Len(seen[c]) >= DedupeSize
  <2>1. /\ seen' = [seen EXCEPT ![c] = Append(Tail(seen[c]), Rating(c))]
        /\ evicted' = [evicted EXCEPT ![Head(seen[c])] = evicted[Head(seen[c])] + 1]
    BY <1>1, <1>3 DEF Recorded
  <2>2. seen[c] # <<>>
    BY <1>1, <1>3
  <2>3. Head(seen[c]) \in Ratings /\ Append(Tail(seen[c]), Rating(c)) \in Seq(Ratings)
    BY <1>1, <2>2
  <2> QED
    BY <1>1, <2>1, <2>2, <2>3
<1> QED
  BY <1>1, <1>2, <1>3, SMTT(30)

(* A finite set of numbers has a least one. *)
LEMMA LeastExists ==
    ASSUME NEW S \in SUBSET Nat, IsFiniteSet(S), S # {}
    PROVE  \E m \in S : \A e \in S : m <= e
<1> DEFINE Upto(x) == {e \in S : e <= x}
           Heads == {Upto(x) : x \in S}
           Smaller == StrictSubsetOrdering(S)
<1>1. IsWellFoundedOn(Smaller, FiniteSubsetsOf(S))
  BY FS_StrictSubsetOrderingWellFounded
<1>2. Heads \subseteq FiniteSubsetsOf(S) /\ Heads # {}
  <2>1. \A x \in S : Upto(x) \in SUBSET S /\ IsFiniteSet(Upto(x))
    <3> TAKE x \in S
    <3>1. Upto(x) \in SUBSET S
      OBVIOUS
    <3> QED
      BY <3>1, FS_Subset
  <2> QED
    BY <2>1 DEF FiniteSubsetsOf
<1>3. PICK T \in Heads : \A U \in Heads : <<U, T>> \notin Smaller
  <2> HIDE DEF Smaller, Heads
  <2> QED
    BY <1>1, <1>2, WFMin, Zenon
<1>4. PICK m \in S : T = Upto(m)
  BY <1>3
<1>5. ASSUME NEW e \in S, e < m PROVE FALSE
  <2>1. Upto(e) \in Heads /\ Upto(e) \subseteq T /\ m \in T /\ m \notin Upto(e)
    <3>1. Upto(e) \in Heads
      BY Zenon
    <3>2. e \in Nat /\ m \in Nat /\ S \subseteq Nat
      OBVIOUS
    <3>3. Upto(e) \subseteq Upto(m) /\ m \in Upto(m) /\ m \notin Upto(e)
      <4>1. \A x \in S : x <= e => x <= m
        BY <1>5, <3>2
      <4>2. ~ (m <= e) /\ m <= m
        BY <1>5, <3>2
      <4> QED
        BY <4>1, <4>2, Zenon
    <3> QED
      BY <1>4, <3>1, <3>3
  <2>2. Upto(e) \in SUBSET S /\ T \in SUBSET S
    BY <1>4
  <2>3. <<Upto(e), T>> \in Smaller
    BY <2>1, <2>2, Zenon DEF StrictSubsetOrdering
  <2> QED
    BY <1>3, <2>1, <2>3
<1> QED
  BY <1>5

(* What was captured stays captured, in the sink or dropped for later ones, *)
(* and the entry at hand joins it.                                          *)
LEMMA CaptureKeeps ==
    ASSUME buried \in [Consumers -> SUBSET Entries], NEW c \in Consumers,
           Current(c) \in Entries, Capture(c)
    PROVE  /\ buried' \in [Consumers -> SUBSET Entries]
           /\ \A d \in Consumers, e \in Entries : Captured(d, e) => Captured(d, e)'
           /\ \A e \in Entries : e = Current(c) => Captured(c, e)'
<1> DEFINE all == buried[c] \union {Current(c)}
           rest == {e \in all : \E f \in all : f < e}
<1>1. /\ Entries \subseteq Nat /\ IsFiniteSet(Entries) /\ MaxBuried \in Nat \ {0}
  <2>1. Len(RatingOf) \in Nat /\ Entries = 1..Len(RatingOf)
    BY RatingsAssumption DEF Entries
  <2> QED
    BY <2>1, FS_Interval, CountsAssumption
<1>2. /\ buried[c] \in SUBSET Entries /\ all \in SUBSET Entries
      /\ IsFiniteSet(buried[c]) /\ IsFiniteSet(all)
  BY <1>1, FS_Subset
<1>3. buried' = [buried EXCEPT ![c] = IF Cardinality(all) <= MaxBuried THEN all ELSE rest]
  BY DEF Capture
<1>4. \A d \in Consumers : d # c => buried'[d] = buried[d]
  BY <1>3
<1>5. buried'[c] = IF Cardinality(all) <= MaxBuried THEN all ELSE rest
  BY <1>3
<1>6. buried' \in [Consumers -> SUBSET Entries]
  <2>1. rest \in SUBSET Entries
    BY <1>2
  <2> HIDE DEF rest, all
  <2> QED
    BY <1>2, <1>3, <2>1
<1>7. \A d \in Consumers, e \in Entries : d # c /\ Captured(d, e) => Captured(d, e)'
  BY <1>4 DEF Captured
<1>8. CASE Cardinality(all) <= MaxBuried
  <2>1. buried'[c] = all
    BY <1>5, <1>8
  <2>2. \A e \in Entries : e = Current(c) => Captured(c, e)'
    BY <2>1 DEF Captured
  <2>3. ASSUME NEW e \in Entries, Captured(c, e) PROVE Captured(c, e)'
    <3>1. CASE e \in buried[c]
      BY <2>1, <3>1 DEF Captured
    <3>2. CASE Cardinality(buried[c]) >= MaxBuried /\ \A f \in buried[c] : e < f
      <4>1. Current(c) \in buried[c]
        <5>1. Cardinality(all) = IF Current(c) \in buried[c] THEN Cardinality(buried[c])
                                 ELSE Cardinality(buried[c]) + 1
          BY <1>2, FS_AddElement
        <5>2. Cardinality(buried[c]) \in Nat
          BY <1>2, FS_CardinalityType
        <5> HIDE DEF all
        <5> QED
          BY <1>1, <1>8, <3>2, <5>1, <5>2
      <4> QED
        BY <2>1, <3>2, <4>1 DEF Captured
    <3> QED
      BY <2>3, <3>1, <3>2 DEF Captured
  <2> QED
    BY <1>6, <1>7, <2>2, <2>3
<1>9. CASE ~(Cardinality(all) <= MaxBuried)
  <2>1. PICK m \in all : \A e \in all : m <= e
    BY <1>1, <1>2, LeastExists
  <2>2. rest = all \ {m}
    <3>1. \A e \in all : e # m => m < e
      BY <1>1, <1>2, <2>1
    <3>2. \A f \in all : ~ (f < m)
      BY <1>1, <1>2, <2>1
    <3> HIDE DEF all
    <3> QED
      BY <2>1, <3>1, <3>2
  <2>3. buried'[c] = all \ {m}
    BY <1>5, <1>9, <2>2
  <2>4. Cardinality(buried'[c]) >= MaxBuried
    <3>1. Cardinality(all \ {m}) = Cardinality(all) - 1 /\ Cardinality(all) \in Nat
      BY <1>2, <2>1, FS_RemoveElement, FS_CardinalityType, ZenonT(30)
    <3> QED
      BY <1>1, <1>9, <2>3, <3>1
  <2>5. \A f \in buried'[c] : f \in Nat /\ m \in Nat /\ m < f
    <3>1. \A f \in all : f \in Nat
      BY <1>1, <1>2
    <3> HIDE DEF all
    <3> QED
      BY <2>1, <2>3, <3>1
  <2>6. \A e \in all : Captured(c, e)'
    <3> SUFFICES ASSUME NEW e \in all PROVE Captured(c, e)'
        OBVIOUS
    <3>1. CASE e = m
      BY <2>4, <2>5, <3>1 DEF Captured
    <3>2. CASE e # m
      <4>1. e \in buried'[c]
        BY <2>3, <3>2
      <4> QED
        BY <4>1 DEF Captured
    <3> QED
      BY <3>1, <3>2
  <2>7. ASSUME NEW e \in Entries, Captured(c, e) PROVE Captured(c, e)'
    <3>1. CASE e \in buried[c]
      BY <2>6, <3>1
    <3>2. CASE \A f \in buried[c] : e < f
      <4>1. ASSUME NEW f \in buried'[c] PROVE e < f
        <5>1. CASE f \in buried[c]
          BY <3>2, <5>1
        <5>2. CASE f \notin buried[c]
          <6>1. f = Current(c) /\ f # m
            BY <2>3, <4>1, <5>2
          <6>2. m \in buried[c]
            BY <2>1, <6>1
          <6>3. e < m /\ m < f /\ e \in Nat
            BY <1>1, <2>5, <3>2, <4>1, <6>2
          <6> QED
            BY <2>5, <4>1, <6>3
        <5> QED
          BY <5>1, <5>2
      <4> QED
        BY <2>4, <4>1 DEF Captured
    <3> QED
      BY <2>7, <3>1, <3>2 DEF Captured
  <2> QED
    BY <1>2, <1>6, <1>7, <2>6, <2>7
<1> QED
  BY <1>8, <1>9

(* Every variable keeps its type. *)
LEMMA TypeInvariant == StreamTypes /\ [Next]_vars => StreamTypes'
<1> SUFFICES ASSUME StreamTypes, [Next]_vars PROVE StreamTypes'
    OBVIOUS
<1> USE CountsAssumption DEF StreamTypes, TypeOK, WorkHasEntry
<1>1. CASE Publish
  <2>1. published' \in 0..Len(RatingOf) /\ published <= published'
    BY <1>1, RatingsAssumption DEF Publish
  <2> QED
    BY <1>1, <2>1 DEF Publish, workVars, history
<1>2. ASSUME NEW c \in Consumers, Boot(c) PROVE StreamTypes'
  BY <1>2 DEF Boot, Goto, history
<1>3. ASSUME NEW c \in Consumers, Read(c) \/ ReadLost(c) PROVE StreamTypes'
  <2>1. PICK n \in 1..BatchCount :
          /\ Deliver(c, n)
          /\ \/ /\ batch' = [batch EXCEPT ![c] = [i \in 1..n |-> cursor + i]]
                /\ UNCHANGED <<outcome, faults>>
             \/ /\ outcome' = [e \in Entries |->
                                  IF e \in (cursor + 1)..(cursor + n) THEN "undelivered"
                                  ELSE outcome[e]]
                /\ Fault /\ UNCHANGED batch
    BY <1>3 DEF Read, ReadLost, history
  <2>2. cursor \in Nat /\ n \in Nat \ {0} /\ Entries = 1..Len(RatingOf)
    <3>1. cursor \in Nat /\ n \in Nat \ {0}
      BY <2>1 DEF Deliver
    <3>2. Entries = 1..Len(RatingOf)
      BY RatingsAssumption DEF Entries
    <3> QED
      BY <3>1, <3>2
  <2>3. [i \in 1..n |-> cursor + i] \in Seq(Entries)
    BY <2>1, <2>2, RatingsAssumption DEF Deliver
  <2>4. pending' \in [Entries -> Consumers \union {None}]
    BY <2>1 DEF Deliver
  <2>5. cursor' \in -1..published' /\ cursor' \in Nat
    BY <2>1, <2>2 DEF Deliver
  <2>6. /\ batch' \in [Consumers -> Seq(Entries)]
        /\ \A d \in Consumers : d # c => batch'[d] = batch[d]
    BY <2>1, <2>3
  <2>7. outcome' \in [Entries -> Outcomes] /\ faults' \in 0..MaxFaults
    BY <2>1 DEF Fault, Outcomes
  <2>8. /\ UNCHANGED <<published, origin, acked, dlq, at, failures, attempt, seen, buried>>
        /\ UNCHANGED <<applied, evicted, misread, crashes>> /\ at[c] = "reading"
    BY <1>3, <2>1 DEF Deliver, Read, ReadLost, history
  <2> QED
    BY <2>4, <2>5, <2>6, <2>7, <2>8
<1>4. ASSUME NEW c \in Consumers, Handle(c) PROVE StreamTypes'
  <2>1. batch[c] # <<>>
    BY <1>4 DEF Handle, Take, TakeUndecodable, HandlerFails, HandleMalformed,
         HandleDuplicate, HandleNew, Recorded, RecordFails, RecordRefused, Ack,
         AckFails, DeadLetter, DeadLetterFails
  <2>2. Current(c) \in Entries /\ Rating(c) \in Ratings /\ Tail(batch[c]) \in Seq(Entries)
    BY <2>1, CurrentType
  <2>3. CASE Take(c)
    <3>1. /\ failures' = [failures EXCEPT ![c][Rating(c)] = failures[c][Rating(c)] + 1]
          /\ at' = [at EXCEPT ![c] = "handling"]
          /\ UNCHANGED <<published, cursor, origin, pending, acked, dlq, batch, attempt,
                         seen, buried, applied, evicted, misread, outcome, faults, crashes>>
      BY <2>3 DEF Take, Goto, redisVars, history
    <3> DEFINE counters == [failures[c] EXCEPT ![Rating(c)] = failures[c][Rating(c)] + 1]
    <3>2. failures' = [failures EXCEPT ![c] = counters]
      BY <3>1
    <3>3. failures[c] \in [Ratings -> Nat] /\ failures[c][Rating(c)] + 1 \in Nat
      BY <2>2
    <3>4. counters \in [Ratings -> Nat]
      BY <3>3
    <3> HIDE DEF counters
    <3>5. failures' \in [Consumers -> [Ratings -> Nat]]
      BY <3>2, <3>4
    <3>6. /\ at' \in [Consumers -> {"down", "reading", "handling", "recording",
                                   "acking", "dead_lettering"}]
          /\ \A d \in Consumers : at'[d] = IF d = c THEN "handling" ELSE at[d]
      BY <3>1
    <3>7. TypeOK'
      BY <3>1, <3>5, <3>6
    <3>8. WorkHasEntry'
      <4>1. at[c] = "reading"
        BY <2>3 DEF Take
      <4> QED
        BY <2>1, <3>1, <3>6, <4>1
    <3> QED
      BY <3>7, <3>8
  <2>4. CASE TakeUndecodable(c)
    BY <2>1, <2>2, <2>4 DEF TakeUndecodable, Goto, Became, Outcomes, redisVars
  <2>5. CASE HandlerFails(c)
    <3>1. CASE failures[c][Rating(c)] >= MaxRetries
      <4>1. Goto(c, "dead_lettering") /\ Became(Current(c), "retries_exhausted")
            /\ UNCHANGED batch
        BY <2>2, <2>5, <3>1 DEF HandlerFails
      <4> QED
        BY <2>1, <2>2, <2>5, <4>1 DEF HandlerFails, Goto, Became, Outcomes, redisVars
    <3>2. CASE failures[c][Rating(c)] < MaxRetries
      <4>1. Goto(c, "reading") /\ Became(Current(c), "failed")
            /\ batch' = [batch EXCEPT ![c] = Tail(@)]
        BY <2>2, <2>5, <3>2 DEF HandlerFails
      <4> QED
        BY <2>1, <2>2, <2>5, <4>1 DEF HandlerFails, Goto, Became, Outcomes, redisVars
    <3> QED
      BY <2>5, <3>1, <3>2 DEF HandlerFails
  <2>6. CASE HandleMalformed(c)
    <3>1. buried' \in [Consumers -> SUBSET Entries]
      BY <2>2, <2>6, CaptureKeeps DEF HandleMalformed
    <3> QED
      BY <2>1, <2>2, <2>6, <3>1 DEF HandleMalformed, Goto, Became, Outcomes, redisVars
  <2>7. CASE HandleDuplicate(c)
    BY <2>1, <2>2, <2>7 DEF HandleDuplicate, Goto, Became, Outcomes, redisVars
  <2>8. CASE HandleNew(c)
    BY <2>1, <2>2, <2>8, SMTT(30) DEF HandleNew, Goto, redisVars, history
  <2>9. CASE Recorded(c)
    <3>1. /\ seen' \in [Consumers -> Seq(Ratings)]
          /\ evicted' \in [Ratings -> Nat]
      BY <2>2, <2>9, RecordedWindow DEF Recorded
    <3>2. /\ Goto(c, "acking") /\ Became(Current(c), "applied")
          /\ attempt' = [attempt EXCEPT ![c] = 0]
          /\ applied' = [applied EXCEPT ![Rating(c)] = @ + 1]
          /\ UNCHANGED <<redisVars, batch, failures, buried, misread, faults, crashes>>
      BY <2>9 DEF Recorded
    <3>3. /\ applied' \in [Ratings -> Nat]
          /\ outcome' \in [Entries -> Outcomes]
          /\ attempt' \in [Consumers -> 0..MaxAttempts]
      BY <2>2, <3>2 DEF Became, Outcomes
    <3>4. /\ at' \in [Consumers -> {"down", "reading", "handling", "recording",
                                    "acking", "dead_lettering"}]
          /\ \A d \in Consumers : at'[d] = at[d] \/ d = c
      BY <3>2 DEF Goto
    <3>5. TypeOK'
      BY <3>1, <3>2, <3>3, <3>4 DEF redisVars
    <3> QED
      BY <2>1, <2>9, <3>2, <3>4, <3>5 DEF Recorded, redisVars
  <2>10. CASE RecordFails(c)
    <3>1. \/ UNCHANGED <<applied, misread, faults>>
          \/ /\ faults < MaxFaults /\ faults' = faults + 1
             /\ applied' = [applied EXCEPT ![Rating(c)] = applied[Rating(c)] + 1]
             /\ misread' = [misread EXCEPT ![Rating(c)] = misread[Rating(c)] + 1]
      BY <2>10 DEF RecordFails, Fault
    <3>2. \/ /\ attempt[c] < MaxAttempts
             /\ attempt' = [attempt EXCEPT ![c] = attempt[c] + 1]
             /\ UNCHANGED <<at, buried, outcome>>
          \/ /\ attempt' = [attempt EXCEPT ![c] = 0]
             /\ at' = [at EXCEPT ![c] = "acking"]
             /\ Capture(c)
             /\ outcome' = [outcome EXCEPT ![Current(c)] = "dead_letter_exhausted"]
      BY <2>10 DEF RecordFails, Goto, Became
    <3>3. /\ applied' \in [Ratings -> Nat] /\ misread' \in [Ratings -> Nat]
          /\ faults' \in 0..MaxFaults
      <4>1. CASE UNCHANGED <<applied, misread, faults>>
        BY <4>1
      <4>2. CASE ~UNCHANGED <<applied, misread, faults>>
        <5>1. /\ faults < MaxFaults /\ faults' = faults + 1
              /\ applied' = [applied EXCEPT ![Rating(c)] = applied[Rating(c)] + 1]
              /\ misread' = [misread EXCEPT ![Rating(c)] = misread[Rating(c)] + 1]
          BY <3>1, <4>2
        <5> QED
          BY <2>2, <5>1
      <4> QED
        BY <4>1, <4>2
    <3>4. /\ attempt' \in [Consumers -> 0..MaxAttempts]
          /\ at' \in [Consumers -> {"down", "reading", "handling", "recording",
                                    "acking", "dead_lettering"}]
          /\ \A d \in Consumers : at'[d] = at[d] \/ d = c
          /\ buried' \in [Consumers -> SUBSET Entries]
          /\ outcome' \in [Entries -> Outcomes]
      <4>1. CASE /\ attempt[c] < MaxAttempts
                 /\ attempt' = [attempt EXCEPT ![c] = attempt[c] + 1]
                 /\ UNCHANGED <<at, buried, outcome>>
        BY <4>1
      <4>2. CASE /\ attempt' = [attempt EXCEPT ![c] = 0]
                 /\ at' = [at EXCEPT ![c] = "acking"]
                 /\ Capture(c)
                 /\ outcome' = [outcome EXCEPT ![Current(c)] = "dead_letter_exhausted"]
        <5>1. buried' \in [Consumers -> SUBSET Entries]
          BY <2>2, <4>2, CaptureKeeps
        <5>2. /\ attempt' \in [Consumers -> 0..MaxAttempts]
              /\ outcome' \in [Entries -> Outcomes]
          BY <2>2, <4>2 DEF Outcomes
        <5>3. /\ at' \in [Consumers -> {"down", "reading", "handling", "recording",
                                        "acking", "dead_lettering"}]
              /\ \A d \in Consumers : at'[d] = at[d] \/ d = c
          BY <4>2
        <5> QED
          BY <5>1, <5>2, <5>3
      <4> QED
        BY <3>2, <4>1, <4>2
    <3>6. UNCHANGED <<redisVars, batch, failures, seen, evicted, crashes>>
      BY <2>10 DEF RecordFails
    <3>7. TypeOK'
      BY <3>3, <3>4, <3>6 DEF redisVars
    <3> QED
      BY <2>1, <2>10, <3>4, <3>6, <3>7 DEF RecordFails, redisVars
  <2>11. CASE RecordRefused(c)
    <3>1. buried' \in [Consumers -> SUBSET Entries]
      BY <2>2, <2>11, CaptureKeeps DEF RecordRefused
    <3>2. /\ outcome' \in [Entries -> Outcomes]
          /\ attempt' \in [Consumers -> 0..MaxAttempts]
      BY <2>2, <2>11 DEF RecordRefused, Became, Outcomes
    <3>3. /\ at' \in [Consumers -> {"down", "reading", "handling", "recording",
                                    "acking", "dead_lettering"}]
          /\ \A d \in Consumers : at'[d] = at[d] \/ d = c
      BY <2>11 DEF RecordRefused, Goto
    <3>4. /\ UNCHANGED <<redisVars, batch, failures, seen, applied, evicted, misread, faults,
                         crashes>>
          /\ cursor \in Nat
      BY <2>11 DEF RecordRefused
    <3> QED
      BY <2>1, <3>1, <3>2, <3>3, <3>4 DEF redisVars
  <2>12. CASE Ack(c)
    BY <2>1, <2>2, <2>12 DEF Ack, Done, Goto, history
  <2>13. CASE AckFails(c)
    <3>1. /\ outcome' \in [Entries -> Outcomes] /\ acked' \subseteq Entries
          /\ pending' \in [Entries -> Consumers \union {None}]
      <4>1. CASE Became(Current(c), "ack_failed") /\ UNCHANGED <<pending, acked>>
        BY <2>2, <4>1 DEF Became, Outcomes
      <4>2. CASE /\ acked' = acked \union {Current(c)}
                 /\ pending' = [pending EXCEPT ![Current(c)] = None]
                 /\ UNCHANGED outcome
        BY <2>2, <4>2
      <4> QED
        BY <2>13, <4>1, <4>2 DEF AckFails
    <3>2. /\ UNCHANGED <<published, cursor, origin, dlq, attempt, seen, buried, applied,
                         evicted, misread, crashes>>
          /\ Done(c) /\ faults' \in 0..MaxFaults /\ cursor \in Nat
      BY <2>13 DEF AckFails, Fault
    <3> QED
      BY <2>1, <2>2, <3>1, <3>2 DEF Done, Goto
  <2>14. CASE DeadLetter(c)
    BY <2>1, <2>2, <2>14 DEF DeadLetter, Goto, history
  <2>15. CASE DeadLetterFails(c)
    BY <2>1, <2>2, <2>15, SMTT(30) DEF DeadLetterFails, Fault, Goto, Became, Outcomes
  <2> QED
    BY <1>4, <2>3, <2>4, <2>5, <2>6, <2>7, <2>8, <2>9, <2>10, <2>11, <2>12, <2>13,
       <2>14, <2>15 DEF Handle
<1>5. ASSUME NEW c \in Consumers, Crash(c) PROVE StreamTypes'
  BY <1>5 DEF Crash, Goto, Outcomes, redisVars
<1>6. CASE UNCHANGED vars
  BY <1>6 DEF vars, redisVars, workVars, history
<1> QED
  BY <1>1, <1>2, <1>3, <1>4, <1>5, <1>6 DEF Next

(* A worker records only what it does not remember: HandleNew checked it,  *)
(* and neither its batch nor its window changes until the record is made.  *)
LEMMA UnknownKept == StreamTypes /\ RecordsUnknown /\ [Next]_vars => RecordsUnknown'
<1> SUFFICES ASSUME StreamTypes, RecordsUnknown, [Next]_vars,
                    NEW d \in Consumers, at'[d] = "recording"
             PROVE  (~Remembers(d, Rating(d)))'
    BY DEF RecordsUnknown
<1> USE DEF Remembers, Rating, Current
<1>0. /\ at \in [Consumers -> {"down", "reading", "handling", "recording",
                               "acking", "dead_lettering"}]
      /\ batch \in [Consumers -> Seq(Entries)]
  BY DEF StreamTypes, TypeOK
<1>1. at[d] = "recording" => ~Remembers(d, Rating(d))
  BY DEF RecordsUnknown
<1>2. CASE Publish
  BY <1>1, <1>2 DEF Publish, workVars
<1>3. ASSUME NEW c \in Consumers, Boot(c) PROVE (~Remembers(d, Rating(d)))'
  BY <1>0, <1>1, <1>3 DEF Boot, Goto
<1>4. ASSUME NEW c \in Consumers, Read(c) \/ ReadLost(c)
      PROVE  (~Remembers(d, Rating(d)))'
  <2>1. at[d] = "recording" /\ d # c /\ UNCHANGED seen
    BY <1>4 DEF Read, ReadLost, Deliver
  <2>2. batch'[d] = batch[d]
    BY <1>0, <1>4, <2>1 DEF Read, ReadLost
  <2> QED
    BY <1>1, <2>1, <2>2
<1>5. ASSUME NEW c \in Consumers, Handle(c) PROVE (~Remembers(d, Rating(d)))'
  <2>1. CASE HandleNew(c)
    <3>1. UNCHANGED <<seen, batch>> /\ at' = [at EXCEPT ![c] = "recording"]
          /\ ~Remembers(c, Rating(c))
      BY <2>1 DEF HandleNew, Goto
    <3>2. d = c \/ at[d] = "recording"
      BY <1>0, <3>1
    <3> QED
      BY <1>1, <3>1, <3>2
  <2>2. CASE RecordFails(c)
    <3>1. UNCHANGED <<seen, batch>> /\ at[d] = "recording"
      BY <1>0, <2>2 DEF RecordFails, Goto
    <3> QED
      BY <1>1, <3>1
  <2>3. CASE ~HandleNew(c) /\ ~RecordFails(c)
    <3>1. \E place \in {"reading", "handling", "acking", "dead_lettering"} :
             at' = [at EXCEPT ![c] = place]
      BY <1>5, <2>3 DEF Handle, Take, TakeUndecodable, HandlerFails, HandleMalformed,
         HandleDuplicate, Recorded, RecordRefused, Ack, AckFails, DeadLetter,
         DeadLetterFails, Done, Goto
    <3>2. d # c /\ at[d] = "recording"
      BY <1>0, <3>1
    <3>3. /\ batch' = batch \/ batch' = [batch EXCEPT ![c] = Tail(batch[c])]
          /\ \/ seen' = seen
             \/ seen' = [seen EXCEPT ![c] = Append(seen[c], RatingOf[Head(batch[c])])]
             \/ seen' = [seen EXCEPT ![c] = Append(Tail(seen[c]), RatingOf[Head(batch[c])])]
      BY <1>5, <2>3 DEF Handle, Take, TakeUndecodable, HandlerFails, HandleMalformed,
         HandleDuplicate, Recorded, RecordRefused, Ack, AckFails, DeadLetter,
         DeadLetterFails, Done
    <3>4. batch'[d] = batch[d] /\ seen'[d] = seen[d]
      BY <1>0, <3>2, <3>3 DEF StreamTypes, TypeOK
    <3> QED
      BY <1>1, <3>2, <3>4
  <2> QED
    BY <2>1, <2>2, <2>3
<1>6. ASSUME NEW c \in Consumers, Crash(c) PROVE (~Remembers(d, Rating(d)))'
  <2>1. d # c /\ at[d] = "recording"
    BY <1>0, <1>6 DEF Crash, Goto
  <2>2. batch'[d] = batch[d] /\ seen'[d] = seen[d]
    BY <1>0, <1>6, <2>1 DEF Crash, StreamTypes, TypeOK
  <2> QED
    BY <1>1, <2>1, <2>2
<1>7. CASE UNCHANGED vars
  BY <1>1, <1>7 DEF vars, workVars
<1> QED
  BY <1>2, <1>3, <1>4, <1>5, <1>6, <1>7 DEF Next

(* A window that holds rating r. *)
Has(window, r) == \E i \in DOMAIN window : window[i] = r

(* The workers that know a rating are finitely many. *)
LEMMA KnowingFinite ==
    \A r \in Ratings :
        IsFiniteSet(Knowing(r)) /\ Cardinality(Knowing(r)) \in Nat
<1> TAKE r \in Ratings
<1>1. Knowing(r) \subseteq Consumers
  BY DEF Knowing
<1> QED
  BY <1>1, ConsumersAssumption, FS_Subset, FS_CardinalityType

(* A set contained in another up to one element is larger by at most one. *)
LEMMA OneMore ==
    ASSUME NEW S, NEW T, NEW x, IsFiniteSet(T), S \subseteq T \union {x}
    PROVE  Cardinality(S) <= Cardinality(T) + 1
<1>1. /\ IsFiniteSet(T \union {x})
      /\ Cardinality(T \union {x}) <= Cardinality(T) + 1
      /\ Cardinality(T \union {x}) \in Nat
  <2>1. /\ IsFiniteSet(T \union {x})
        /\ Cardinality(T \union {x}) =
              IF x \in T THEN Cardinality(T) ELSE Cardinality(T) + 1
    BY FS_AddElement
  <2>2. Cardinality(T) \in Nat
    BY FS_CardinalityType
  <2> QED
    BY <2>1, <2>2
<1>2. Cardinality(S) \in Nat /\ Cardinality(S) <= Cardinality(T \union {x})
  BY <1>1, FS_Subset, FS_CardinalityType
<1>3. Cardinality(T) \in Nat
  BY FS_CardinalityType
<1> QED
  BY <1>1, <1>2, <1>3

(* Appending keeps what a window has and adds the new rating. *)
LEMMA AppendRemembers ==
    \A s \in Seq(Ratings), x \in Ratings, y \in Ratings :
        Has(Append(s, x), x) /\ (Has(s, y) => Has(Append(s, x), y))
<1> TAKE s \in Seq(Ratings), x \in Ratings, y \in Ratings
<1>1. Append(s, x)[Len(s) + 1] = x /\ Len(s) + 1 \in DOMAIN Append(s, x)
  OBVIOUS
<1>2. ASSUME NEW i \in DOMAIN s, s[i] = y
      PROVE  i \in DOMAIN Append(s, x) /\ Append(s, x)[i] = y
  BY <1>2
<1> QED
  BY <1>1, <1>2 DEF Has

(* Dropping the head first loses at most the head. *)
LEMMA ShiftRemembers ==
    \A s \in Seq(Ratings), x \in Ratings, y \in Ratings :
        s # <<>> =>
            /\ Has(Append(Tail(s), x), x)
            /\ y # Head(s) /\ Has(s, y) => Has(Append(Tail(s), x), y)
<1> TAKE s \in Seq(Ratings), x \in Ratings, y \in Ratings
<1> HAVE s # <<>>
<1>1. Tail(s) \in Seq(Ratings)
  OBVIOUS
<1>2. ASSUME Has(s, y), y # Head(s) PROVE Has(Tail(s), y)
  <2>1. PICK i \in DOMAIN s : s[i] = y
    BY <1>2 DEF Has
  <2>2. i # 1 /\ i \in 2..Len(s)
    BY <1>2, <2>1
  <2>3. i - 1 \in DOMAIN Tail(s) /\ Tail(s)[i - 1] = s[i]
    BY <2>2
  <2> QED
    BY <2>1, <2>3 DEF Has
<1> QED
  BY <1>1, <1>2, AppendRemembers

(* A record that is reported and remembered: for the rating recorded the   *)
(* worker is new among those that know it, and for any other the oldest    *)
(* one of a full window is paid for by the eviction.                       *)
LEMMA RecordedCounted ==
    ASSUME StreamTypes, RecordsUnknown, RepeatsCounted, NEW c \in Consumers, Recorded(c),
           StreamTypes'
    PROVE  RepeatsCounted'
<1>1. batch[c] # <<>> /\ at[c] = "recording"
  BY DEF Recorded, StreamTypes, WorkHasEntry
<1>2. Rating(c) \in Ratings /\ ~Remembers(c, Rating(c))
  BY <1>1, CurrentType DEF RecordsUnknown
<1>3. seen[c] \in Seq(Ratings) /\ seen \in [Consumers -> Seq(Ratings)]
      /\ applied \in [Ratings -> Nat] /\ evicted \in [Ratings -> Nat]
      /\ misread \in [Ratings -> Nat] /\ crashes \in Nat
  BY SMTT(30) DEF StreamTypes, TypeOK
<1>4. applied' = [applied EXCEPT ![Rating(c)] = applied[Rating(c)] + 1]
      /\ misread' = misread /\ crashes' = crashes
  BY DEF Recorded
<1> SUFFICES ASSUME NEW r \in Ratings
             PROVE  applied'[r] <= Cardinality(Knowing(r)') + crashes' + evicted'[r] + misread'[r]
    BY DEF RepeatsCounted
<1>5. applied[r] <= Cardinality(Knowing(r)) + crashes + evicted[r] + misread[r]
  BY DEF RepeatsCounted
<1>6. IsFiniteSet(Knowing(r)) /\ Cardinality(Knowing(r)) \in Nat
  BY KnowingFinite
<1>7. IsFiniteSet(Knowing(r)') /\ Cardinality(Knowing(r)') \in Nat
  <2>1. Knowing(r)' \subseteq Consumers
    BY DEF Knowing
  <2> QED
    BY <2>1, ConsumersAssumption, FS_Subset, FS_CardinalityType
<1>8. \A d \in Consumers \ {c} : d \in Knowing(r) => d \in Knowing(r)'
  <2>1. \A d \in Consumers \ {c} : seen'[d] = seen[d]
    BY <1>2, <1>3, RecordedWindow
  <2> QED
    BY <2>1 DEF Knowing, Remembers
<1>9. CASE r = Rating(c)
  <2>1. c \in Knowing(r)' /\ evicted'[r] = evicted[r]
    <3>1. CASE /\ seen' = [seen EXCEPT ![c] = Append(seen[c], Rating(c))]
               /\ evicted' = evicted
      <4>1. seen'[c] = Append(seen[c], Rating(c))
        BY <1>3, <3>1
      <4> QED
        <5>1. Has(Append(seen[c], Rating(c)), Rating(c))
          BY <1>2, <1>3, AppendRemembers
        <5> QED
          BY <1>9, <3>1, <4>1, <5>1 DEF Knowing, Remembers, Has
    <3>2. CASE /\ seen' = [seen EXCEPT ![c] = Append(Tail(seen[c]), Rating(c))]
               /\ evicted' = [evicted EXCEPT ![Head(seen[c])] = evicted[Head(seen[c])] + 1]
               /\ seen[c] # <<>>
      <4>1. seen'[c] = Append(Tail(seen[c]), Rating(c))
        BY <1>3, <3>2
      <4>2. Head(seen[c]) # Rating(c)
        BY <1>2, <1>3, <3>2 DEF Remembers
      <4>3. c \in Knowing(r)'
        <5>1. Has(Append(Tail(seen[c]), Rating(c)), Rating(c))
          BY <1>2, <1>3, <3>2, ShiftRemembers
        <5> QED
          BY <1>9, <4>1, <5>1 DEF Knowing, Remembers, Has
      <4> QED
        BY <1>3, <1>9, <3>2, <4>2, <4>3
    <3> QED
      BY <1>2, <3>1, <3>2, RecordedWindow
  <2>2. c \notin Knowing(r)
    BY <1>2, <1>9 DEF Knowing
  <2>3. Knowing(r) \union {c} \subseteq Knowing(r)'
    BY <1>8, <2>1, <2>2 DEF Knowing
  <2>4. Cardinality(Knowing(r) \union {c}) = Cardinality(Knowing(r)) + 1
        /\ IsFiniteSet(Knowing(r) \union {c})
    BY <1>6, <2>2, FS_AddElement
  <2>5. Cardinality(Knowing(r)) + 1 <= Cardinality(Knowing(r)')
    BY <1>7, <2>3, <2>4, FS_Subset
  <2>6. applied'[r] = applied[r] + 1 /\ misread'[r] = misread[r] /\ crashes' = crashes
    BY <1>3, <1>4, <1>9
  <2> QED
    BY <1>3, <1>5, <1>6, <1>7, <2>1, <2>5, <2>6
<1>10. CASE r # Rating(c)
  <2>1. applied'[r] = applied[r] /\ misread'[r] = misread[r] /\ crashes' = crashes
    BY <1>2, <1>3, <1>4, <1>10
  <2>2. CASE c \in Knowing(r) => c \in Knowing(r)'
    <3>1. Knowing(r) \subseteq Knowing(r)'
      BY <1>8, <2>2 DEF Knowing
    <3>2. Cardinality(Knowing(r)) <= Cardinality(Knowing(r)')
      BY <1>7, <3>1, FS_Subset
    <3>3. evicted'[r] \in Nat /\ evicted[r] <= evicted'[r]
      <4>1. \/ evicted' = evicted
            \/ /\ evicted' = [evicted EXCEPT ![Head(seen[c])] = evicted[Head(seen[c])] + 1]
               /\ Head(seen[c]) \in Ratings
        BY <1>2, RecordedWindow
      <4>2. CASE evicted' = evicted
        BY <1>3, <4>2
      <4>3. CASE /\ evicted' = [evicted EXCEPT ![Head(seen[c])] = evicted[Head(seen[c])] + 1]
                 /\ Head(seen[c]) \in Ratings
        BY <1>3, <4>3
      <4> QED
        BY <4>1, <4>2, <4>3
    <3> QED
      BY <1>3, <1>5, <1>6, <1>7, <2>1, <3>2, <3>3
  <2>3. CASE ~(c \in Knowing(r) => c \in Knowing(r)')
    <3>1. /\ seen' = [seen EXCEPT ![c] = Append(Tail(seen[c]), Rating(c))]
          /\ evicted' = [evicted EXCEPT ![Head(seen[c])] = evicted[Head(seen[c])] + 1]
          /\ seen[c] # <<>>
      <4>1. CASE seen' = [seen EXCEPT ![c] = Append(seen[c], Rating(c))]
        <5>1. seen'[c] = Append(seen[c], Rating(c))
          BY <1>3, <4>1
        <5> QED
          <6>1. Has(seen[c], r) => Has(Append(seen[c], Rating(c)), r)
            BY <1>2, <1>3, AppendRemembers
          <6> QED
            BY <2>3, <5>1, <6>1 DEF Knowing, Remembers, Has
      <4> QED
        BY <1>2, <4>1, RecordedWindow
    <3>2. seen'[c] = Append(Tail(seen[c]), Rating(c))
      BY <1>3, <3>1
    <3>3. Head(seen[c]) = r
      <4>1. r # Head(seen[c]) /\ Has(seen[c], r) =>
               Has(Append(Tail(seen[c]), Rating(c)), r)
        BY <1>2, <1>3, <3>1, ShiftRemembers
      <4> QED
        BY <2>3, <3>2, <4>1 DEF Knowing, Remembers, Has
    <3>4. evicted'[r] = evicted[r] + 1
      BY <1>3, <3>1, <3>3
    <3>5. Knowing(r) \subseteq Knowing(r)' \union {c}
      BY <1>8 DEF Knowing
    <3>6. Cardinality(Knowing(r)) <= Cardinality(Knowing(r)') + 1
      BY <1>7, <3>5, OneMore
    <3> QED
      BY <1>3, <1>5, <1>6, <1>7, <2>1, <3>4, <3>6, SMTT(30)
  <2> QED
    BY <2>2, <2>3
<1> QED
  BY <1>9, <1>10

(* Every step keeps the count. *)
LEMMA CountKept ==
    StreamTypes /\ RecordsUnknown /\ RepeatsCounted /\ [Next]_vars => RepeatsCounted'
<1> SUFFICES ASSUME StreamTypes, RecordsUnknown, RepeatsCounted, [Next]_vars
             PROVE  RepeatsCounted'
    OBVIOUS
<1>1. StreamTypes'
  BY TypeInvariant
<1>2. /\ applied \in [Ratings -> Nat] /\ evicted \in [Ratings -> Nat]
      /\ misread \in [Ratings -> Nat] /\ crashes \in Nat
      /\ seen \in [Consumers -> Seq(Ratings)]
  BY CountsAssumption DEF StreamTypes, TypeOK
<1>3. ASSUME UNCHANGED <<seen, applied, evicted, misread, crashes>>
      PROVE  RepeatsCounted'
  BY <1>3 DEF RepeatsCounted, Knowing, Remembers
<1>4. ASSUME NEW c \in Consumers, RecordFails(c) PROVE RepeatsCounted'
  <2>1. batch[c] # <<>>
    BY <1>4 DEF RecordFails, StreamTypes, WorkHasEntry
  <2>2. Rating(c) \in Ratings
    BY <2>1, CurrentType
  <2>3. UNCHANGED <<seen, evicted, crashes>>
    BY <1>4 DEF RecordFails
  <2>4. CASE UNCHANGED <<applied, misread, faults>>
    BY <1>3, <2>3, <2>4
  <2>5. CASE /\ applied' = [applied EXCEPT ![Rating(c)] = applied[Rating(c)] + 1]
             /\ misread' = [misread EXCEPT ![Rating(c)] = misread[Rating(c)] + 1]
    <3> SUFFICES ASSUME NEW r \in Ratings
                 PROVE  applied'[r] <= Cardinality(Knowing(r)') + crashes' + evicted'[r]
                                       + misread'[r]
        BY DEF RepeatsCounted
    <3>1. Knowing(r)' = Knowing(r)
      BY <2>3 DEF Knowing, Remembers
    <3>2. Cardinality(Knowing(r)) \in Nat
      BY KnowingFinite
    <3>3. applied[r] <= Cardinality(Knowing(r)) + crashes + evicted[r] + misread[r]
      BY DEF RepeatsCounted
    <3>4. \/ applied'[r] = applied[r] /\ misread'[r] = misread[r]
          \/ applied'[r] = applied[r] + 1 /\ misread'[r] = misread[r] + 1
      BY <1>2, <2>2, <2>5
    <3> QED
      BY <1>2, <2>3, <3>1, <3>2, <3>3, <3>4
  <2> QED
    BY <1>4, <2>4, <2>5 DEF RecordFails
<1>5. ASSUME NEW c \in Consumers, Handle(c) PROVE RepeatsCounted'
  <2>1. CASE Recorded(c)
    BY <1>1, <2>1, RecordedCounted
  <2>2. CASE RecordFails(c)
    BY <1>4, <2>2
  <2>3. CASE ~Recorded(c) /\ ~RecordFails(c)
    <3>1. UNCHANGED <<seen, applied, evicted, misread, crashes>>
      BY <1>5, <2>3 DEF Handle, Take, TakeUndecodable, HandlerFails, HandleMalformed,
         HandleDuplicate, HandleNew, RecordRefused, Ack, AckFails, DeadLetter,
         DeadLetterFails, history
    <3> QED
      BY <1>3, <3>1
  <2> QED
    BY <2>1, <2>2, <2>3
<1>6. ASSUME NEW c \in Consumers, Crash(c) PROVE RepeatsCounted'
  <2> SUFFICES ASSUME NEW r \in Ratings
               PROVE  applied'[r] <= Cardinality(Knowing(r)') + crashes' + evicted'[r]
                                     + misread'[r]
      BY DEF RepeatsCounted
  <2>1. Knowing(r)' \subseteq Consumers
    BY DEF Knowing
  <2>2. IsFiniteSet(Knowing(r)') /\ Cardinality(Knowing(r)') \in Nat
    BY <2>1, ConsumersAssumption, FS_Subset, FS_CardinalityType
  <2>3. Knowing(r) \subseteq Knowing(r)' \union {c}
    <3>1. \A d \in Consumers \ {c} : seen'[d] = seen[d]
      BY <1>2, <1>6 DEF Crash
    <3> QED
      BY <3>1 DEF Knowing, Remembers
  <2>4. Cardinality(Knowing(r)) <= Cardinality(Knowing(r)') + 1
    BY <2>2, <2>3, OneMore
  <2>5. Cardinality(Knowing(r)) \in Nat
    BY KnowingFinite
  <2>6. applied[r] <= Cardinality(Knowing(r)) + crashes + evicted[r] + misread[r]
    BY DEF RepeatsCounted
  <2>7. UNCHANGED <<applied, evicted, misread>> /\ crashes' = crashes + 1
    BY <1>6 DEF Crash
  <2> QED
    BY <1>2, <2>2, <2>4, <2>5, <2>6, <2>7
<1>7. CASE Publish
  BY <1>3, <1>7 DEF Publish, workVars, history
<1>8. ASSUME NEW c \in Consumers, Boot(c) \/ Read(c) \/ ReadLost(c) PROVE RepeatsCounted'
  BY <1>3, <1>8 DEF Boot, Read, ReadLost, Deliver, history
<1>9. CASE UNCHANGED vars
  BY <1>3, <1>9 DEF vars, workVars, history
<1> QED
  BY <1>5, <1>6, <1>7, <1>8, <1>9 DEF Next

(***************************************************************************)
(* No entry is lost.  An entry in a batch is pending for the worker that   *)
(* holds it and for nobody else, so what another worker does cannot touch  *)
(* its outcome between the handler and the acknowledgement.                *)
(***************************************************************************)

(* No entry comes twice in a batch. *)
BatchesDistinct ==
    \A c \in Consumers : \A i, j \in DOMAIN batch[c] : batch[c][i] = batch[c][j] => i = j

(* What a worker holds is pending for it. *)
BatchPending ==
    \A c \in Consumers, e \in Entries : Has(batch[c], e) => pending[e] = c

(* An acknowledged entry has left the PEL, and neither an acknowledged nor *)
(* a pending one is still to be delivered.                                 *)
DeliveredOnce ==
    \A e \in Entries :
        /\ e \in acked => pending[e] = None
        /\ e \in acked \/ pending[e] # None => e <= cursor

(* What may be acknowledged: see AckedIsSettled. *)
Settled(e, S) ==
    \/ e \in dlq
    \/ outcome[e] \in {"applied", "duplicate"}
    \/ /\ outcome[e] \in {"dead_letter_permanent", "dead_letter_exhausted"}
       /\ crashes > 0 \/ \E c \in S : Captured(c, e)

SettledBeforeAck ==
    \A c \in Consumers : at[c] = "acking" => Settled(Current(c), {c})

EntriesInv ==
    BatchesDistinct /\ BatchPending /\ DeliveredOnce /\ SettledBeforeAck /\ EntriesAccounted

(* The tail of a batch has all of it but its head. *)
LEMMA TailHas ==
    ASSUME NEW s \in Seq(Entries), s # <<>>,
           \A i, j \in DOMAIN s : s[i] = s[j] => i = j
    PROVE  /\ \A i, j \in DOMAIN Tail(s) : Tail(s)[i] = Tail(s)[j] => i = j
           /\ ~Has(Tail(s), Head(s))
           /\ \A e \in Entries : e # Head(s) => (Has(Tail(s), e) <=> Has(s, e))
<1>1. /\ Len(Tail(s)) = Len(s) - 1 /\ DOMAIN Tail(s) = 1..(Len(s) - 1)
      /\ DOMAIN s = 1..Len(s) /\ Len(s) \in Nat \ {0}
      /\ \A i \in 1..(Len(s) - 1) : Tail(s)[i] = s[i + 1]
      /\ Head(s) = s[1]
  OBVIOUS
<1>2. \A i, j \in DOMAIN Tail(s) : Tail(s)[i] = Tail(s)[j] => i = j
  <2> SUFFICES ASSUME NEW i \in DOMAIN Tail(s), NEW j \in DOMAIN Tail(s),
                      Tail(s)[i] = Tail(s)[j]
               PROVE  i = j
      OBVIOUS
  <2>1. i + 1 \in DOMAIN s /\ j + 1 \in DOMAIN s /\ s[i + 1] = s[j + 1]
    BY <1>1
  <2>2. i + 1 = j + 1
    BY <2>1
  <2> QED
    BY <1>1, <2>2
<1>3. ~Has(Tail(s), Head(s))
  <2> SUFFICES ASSUME NEW i \in DOMAIN Tail(s), Tail(s)[i] = Head(s) PROVE FALSE
      BY DEF Has
  <2>1. i + 1 \in DOMAIN s /\ 1 \in DOMAIN s /\ s[i + 1] = s[1] /\ i + 1 # 1
    BY <1>1
  <2> QED
    BY <2>1
<1>4. ASSUME NEW e \in Entries, e # Head(s) PROVE Has(Tail(s), e) <=> Has(s, e)
  <2>1. ASSUME Has(Tail(s), e) PROVE Has(s, e)
    <3>1. PICK i \in DOMAIN Tail(s) : Tail(s)[i] = e
      BY <2>1 DEF Has
    <3>2. i + 1 \in DOMAIN s /\ s[i + 1] = e
      BY <1>1, <3>1
    <3> QED
      BY <3>2 DEF Has
  <2>2. ASSUME Has(s, e) PROVE Has(Tail(s), e)
    <3>1. PICK i \in DOMAIN s : s[i] = e
      BY <2>2 DEF Has
    <3>2. i # 1
      BY <1>1, <1>4, <3>1
    <3>3. i - 1 \in DOMAIN Tail(s) /\ Tail(s)[i - 1] = e
      BY <1>1, <3>1, <3>2
    <3> QED
      BY <3>3 DEF Has
  <2> QED
    BY <2>1, <2>2
<1> QED
  BY <1>2, <1>3, <1>4

(* The current entry of a worker is pending for it, so it is nobody else's *)
(* and not acknowledged.                                                   *)
LEMMA CurrentHeld ==
    ASSUME StreamTypes, EntriesInv, NEW c \in Consumers, batch[c] # <<>>
    PROVE  /\ Current(c) \in Entries /\ Has(batch[c], Current(c))
           /\ pending[Current(c)] = c /\ Current(c) \notin acked
           /\ \A d \in Consumers \ {c} : ~Has(batch[d], Current(c))
           /\ origin \in 0..published
<1>1. batch[c] \in Seq(Entries) /\ 1 \in DOMAIN batch[c] /\ batch[c][1] = Current(c)
  BY DEF StreamTypes, TypeOK, Current
<1>2. Current(c) \in Entries /\ Has(batch[c], Current(c))
  BY <1>1, CurrentType DEF Has
<1>3. pending[Current(c)] = c
  BY <1>2 DEF EntriesInv, BatchPending
<1>4. Current(c) \notin acked
  BY <1>2, <1>3, NoneIsNoConsumer DEF EntriesInv, DeliveredOnce
<1>5. \A d \in Consumers \ {c} : ~Has(batch[d], Current(c))
  BY <1>2, <1>3 DEF EntriesInv, BatchPending
<1> QED
  BY <1>2, <1>3, <1>4, <1>5 DEF StreamTypes, TypeOK

(* The parts of PendingExplained. *)
Delivered ==
    \A e \in Entries : origin < e /\ e <= cursor => e \in acked \/ pending[e] # None
LeftBehind(e) ==
    outcome[e] \in {"failed", "dlq_failed", "ack_failed", "abandoned", "undelivered"}
HeldOrLeft ==
    \A e \in Entries : pending[e] # None => Has(batch[pending[e]], e) \/ LeftBehind(e)
LEMMA PendingParts == PendingExplained <=> Delivered /\ HeldOrLeft
  BY DEF PendingExplained, Delivered, HeldOrLeft, LeftBehind, Has

(* What a step that keeps the batches may do: settle the entry at hand. *)
LEMMA KeptAtWork ==
    ASSUME StreamTypes, EntriesInv, NEW c \in Consumers, batch[c] # <<>>,
           UNCHANGED <<cursor, origin, pending, acked, batch, crashes>>,
           dlq \subseteq dlq',
           \A e \in Entries : e # Current(c) => outcome'[e] = outcome[e],
           \A d \in Consumers, e \in Entries : Captured(d, e) => Captured(d, e)',
           \A d \in Consumers : d # c => at'[d] = at[d],
           at'[c] = "acking" => Settled(Current(c), {c})'
    PROVE  EntriesInv'
<1>1. /\ Current(c) \in Entries /\ Has(batch[c], Current(c))
      /\ pending[Current(c)] = c /\ Current(c) \notin acked
      /\ \A d \in Consumers \ {c} : ~Has(batch[d], Current(c))
  BY CurrentHeld
<1>2. BatchesDistinct' /\ BatchPending' /\ DeliveredOnce'
  BY DEF EntriesInv, BatchesDistinct, BatchPending, DeliveredOnce
<1>3. AckedIsSettled'
  <2>1. ASSUME NEW e \in acked PROVE Settled(e, Consumers)'
    <3>1. e \in Entries /\ e # Current(c) /\ outcome'[e] = outcome[e]
      BY <1>1 DEF StreamTypes, TypeOK
    <3>2. Settled(e, Consumers)
      BY DEF EntriesInv, EntriesAccounted, AckedIsSettled, Settled
    <3> QED
      BY <3>1, <3>2 DEF Settled
  <2> QED
    BY <2>1 DEF AckedIsSettled, Settled
<1>4. PendingExplained'
  <2>1. Delivered /\ HeldOrLeft
    BY PendingParts DEF EntriesInv, EntriesAccounted
  <2>2. Delivered'
    BY <2>1 DEF Delivered
  <2>3. HeldOrLeft'
    <3> SUFFICES ASSUME NEW e \in Entries, pending[e] # None
                 PROVE  Has(batch[pending[e]], e) \/ LeftBehind(e)'
        BY DEF HeldOrLeft
    <3> QED
      BY <1>1, <2>1 DEF HeldOrLeft, LeftBehind
  <2>4. PendingExplained' <=> Delivered' /\ HeldOrLeft'
    BY DEF PendingExplained, Delivered, HeldOrLeft, LeftBehind, Has
  <2> QED
    BY <2>2, <2>3, <2>4
<1>5. SettledBeforeAck'
  <2> SUFFICES ASSUME NEW d \in Consumers, at'[d] = "acking"
               PROVE  Settled(Current(d), {d})'
      BY DEF SettledBeforeAck
  <2>1. CASE d # c
    <3>1. at[d] = "acking" /\ batch[d] # <<>>
      BY <2>1 DEF StreamTypes, WorkHasEntry
    <3>2. Current(d) \in Entries /\ Current(d) # Current(c) /\ Settled(Current(d), {d})
      BY <1>1, <2>1, <3>1, CurrentHeld DEF EntriesInv, SettledBeforeAck
    <3>3. outcome'[Current(d)] = outcome[Current(d)] /\ Current(d)' = Current(d)
      BY <3>2 DEF Current
    <3> QED
      BY <3>2, <3>3 DEF Settled
  <2> QED
    BY <2>1
<1> QED
  BY <1>2, <1>3, <1>4, <1>5 DEF EntriesInv, EntriesAccounted

(* What a step that finishes the entry at hand may do: acknowledge it once *)
(* it is settled, or leave it behind in the PEL.                           *)
LEMMA KeptByFinishing ==
    ASSUME StreamTypes, EntriesInv, NEW c \in Consumers, batch[c] # <<>>,
           UNCHANGED <<cursor, origin, buried, crashes>>, dlq \subseteq dlq',
           batch' = [batch EXCEPT ![c] = Tail(batch[c])],
           at' = [at EXCEPT ![c] = "reading"],
           outcome' \in [Entries -> Outcomes],
           \A e \in Entries : e # Current(c) => outcome'[e] = outcome[e],
           \/ /\ UNCHANGED <<pending, acked>>
              /\ outcome'[Current(c)] \in {"failed", "dlq_failed", "ack_failed", "abandoned"}
           \/ /\ acked' = acked \union {Current(c)}
              /\ pending' = [pending EXCEPT ![Current(c)] = None]
              /\ outcome' = outcome
              /\ Settled(Current(c), {c})
    PROVE  EntriesInv'
<1>1. /\ Current(c) \in Entries /\ Has(batch[c], Current(c))
      /\ pending[Current(c)] = c /\ Current(c) \notin acked
      /\ \A d \in Consumers \ {c} : ~Has(batch[d], Current(c))
  BY CurrentHeld
<1>2. /\ batch \in [Consumers -> Seq(Entries)] /\ pending \in [Entries -> Consumers \union {None}]
      /\ at \in [Consumers -> {"down", "reading", "handling", "recording",
                               "acking", "dead_lettering"}]
      /\ acked \subseteq Entries
  BY DEF StreamTypes, TypeOK
<1>3. /\ \A i, j \in DOMAIN batch'[c] : batch'[c][i] = batch'[c][j] => i = j
      /\ ~Has(batch'[c], Current(c))
      /\ \A e \in Entries : e # Current(c) => (Has(batch'[c], e) <=> Has(batch[c], e))
  <2>1. batch'[c] = Tail(batch[c]) /\ Current(c) = Head(batch[c])
    BY <1>2 DEF Current
  <2>2. \A i, j \in DOMAIN batch[c] : batch[c][i] = batch[c][j] => i = j
    BY DEF EntriesInv, BatchesDistinct
  <2> QED
    BY <1>2, <2>1, <2>2, TailHas
<1>4. \A d \in Consumers : d # c => batch'[d] = batch[d] /\ at'[d] = at[d]
  BY <1>2
<1>5. \A e \in Entries : e # Current(c) =>
          /\ pending'[e] = pending[e] /\ (e \in acked' <=> e \in acked)
          /\ outcome'[e] = outcome[e]
          /\ \A d \in Consumers : Has(batch'[d], e) <=> Has(batch[d], e)
  BY <1>2, <1>3, <1>4
<1>6. \A d \in Consumers : ~Has(batch'[d], Current(c))
  BY <1>1, <1>3, <1>4
<1>7. BatchesDistinct'
  BY <1>3, <1>4 DEF EntriesInv, BatchesDistinct
<1>8. BatchPending'
  BY <1>5, <1>6 DEF EntriesInv, BatchPending
<1>9. DeliveredOnce'
  <2> SUFFICES ASSUME NEW e \in Entries
               PROVE  /\ e \in acked' => pending'[e] = None
                      /\ e \in acked' \/ pending'[e] # None => e <= cursor
      BY DEF DeliveredOnce
  <2>1. CASE e # Current(c)
    BY <1>5, <2>1 DEF EntriesInv, DeliveredOnce
  <2>2. CASE e = Current(c)
    <3>1. e <= cursor
      BY <1>1, <2>2, NoneIsNoConsumer DEF EntriesInv, DeliveredOnce
    <3>2. e \in acked' => pending'[e] = None
      BY <1>1, <1>2, <2>2
    <3> QED
      BY <3>1, <3>2
  <2> QED
    BY <2>1, <2>2
<1>10. SettledBeforeAck'
  <2> SUFFICES ASSUME NEW d \in Consumers, at'[d] = "acking"
               PROVE  Settled(Current(d), {d})'
      BY DEF SettledBeforeAck
  <2>1. d # c /\ at[d] = "acking"
    BY <1>2
  <2>2. batch[d] # <<>> /\ Settled(Current(d), {d})
    BY <2>1 DEF StreamTypes, WorkHasEntry, EntriesInv, SettledBeforeAck
  <2>3. Current(d) \in Entries /\ Current(d) # Current(c)
    BY <1>1, <2>1, <2>2, CurrentHeld
  <2>4. outcome'[Current(d)] = outcome[Current(d)] /\ Current(d)' = Current(d)
    BY <1>4, <1>5, <2>1, <2>3 DEF Current
  <2> QED
    BY <2>2, <2>4 DEF Settled, Captured
<1>11. AckedIsSettled'
  <2> SUFFICES ASSUME NEW e \in acked' PROVE Settled(e, Consumers)'
      BY DEF AckedIsSettled, Settled
  <2>1. CASE e # Current(c)
    <3>1. e \in Entries /\ e \in acked
      BY <1>2, <2>1
    <3>2. Settled(e, Consumers)
      BY <3>1 DEF EntriesInv, EntriesAccounted, AckedIsSettled, Settled
    <3> QED
      BY <1>5, <2>1, <3>1, <3>2 DEF Settled, Captured
  <2>2. CASE e = Current(c)
    <3>1. outcome' = outcome /\ Settled(Current(c), {c})
      BY <1>1, <2>2
    <3> QED
      BY <2>2, <3>1 DEF Settled, Captured
  <2> QED
    BY <2>1, <2>2
<1>12. PendingExplained'
  <2>1. Delivered /\ HeldOrLeft
    BY PendingParts DEF EntriesInv, EntriesAccounted
  <2>2. Delivered'
    <3> SUFFICES ASSUME NEW e \in Entries, origin < e, e <= cursor
                 PROVE  e \in acked' \/ pending'[e] # None
        BY DEF Delivered
    <3>1. CASE e # Current(c)
      BY <1>5, <2>1, <3>1 DEF Delivered
    <3>2. CASE e = Current(c)
      BY <1>1, <3>2, NoneIsNoConsumer
    <3> QED
      BY <3>1, <3>2
  <2>3. HeldOrLeft'
    <3> SUFFICES ASSUME NEW e \in Entries, pending'[e] # None
                 PROVE  Has(batch'[pending'[e]], e) \/ LeftBehind(e)'
        BY DEF HeldOrLeft
    <3>1. CASE e # Current(c)
      <4>1. pending'[e] = pending[e] /\ pending[e] \in Consumers
        BY <1>2, <1>5, <3>1
      <4>2. Has(batch[pending[e]], e) \/ LeftBehind(e)
        BY <2>1, <4>1 DEF HeldOrLeft
      <4> QED
        BY <1>5, <3>1, <4>1, <4>2 DEF LeftBehind
    <3>2. CASE e = Current(c)
      <4>1. CASE outcome'[Current(c)] \in {"failed", "dlq_failed", "ack_failed", "abandoned"}
        BY <3>2, <4>1 DEF LeftBehind
      <4>2. CASE pending' = [pending EXCEPT ![Current(c)] = None]
        BY <1>1, <1>2, <3>2, <4>2
      <4> QED
        BY <4>1, <4>2
    <3> QED
      BY <3>1, <3>2
  <2>4. PendingExplained' <=> Delivered' /\ HeldOrLeft'
    BY DEF PendingExplained, Delivered, HeldOrLeft, LeftBehind, Has
  <2> QED
    BY <2>2, <2>3, <2>4
<1> QED
  BY <1>7, <1>8, <1>9, <1>10, <1>11, <1>12 DEF EntriesInv, EntriesAccounted

(* A crash leaves behind what the worker held. *)
LEMMA KeptByCrash ==
    ASSUME StreamTypes, EntriesInv, NEW c \in Consumers, Crash(c)
    PROVE  EntriesInv'
<1>1. /\ batch \in [Consumers -> Seq(Entries)] /\ outcome \in [Entries -> Outcomes]
      /\ buried \in [Consumers -> SUBSET Entries] /\ acked \subseteq Entries
      /\ pending \in [Entries -> Consumers \union {None}] /\ crashes \in Nat
      /\ at \in [Consumers -> {"down", "reading", "handling", "recording",
                               "acking", "dead_lettering"}]
  BY CountsAssumption DEF StreamTypes, TypeOK
<1>2. /\ UNCHANGED <<cursor, origin, pending, acked, dlq>> /\ crashes' = crashes + 1
      /\ at' = [at EXCEPT ![c] = "down"] /\ batch' = [batch EXCEPT ![c] = <<>>]
      /\ buried' = [buried EXCEPT ![c] = {}]
      /\ outcome' = [e \in Entries |-> IF Has(batch[c], e) THEN "abandoned" ELSE outcome[e]]
  BY DEF Crash, Goto, Has, redisVars
<1>3. /\ batch'[c] = <<>> /\ \A e \in Entries : ~Has(batch'[c], e)
      /\ \A d \in Consumers : d # c => batch'[d] = batch[d] /\ at'[d] = at[d]
  BY <1>1, <1>2 DEF Has
<1>4. \A e \in Entries : ~Has(batch[c], e) => outcome'[e] = outcome[e]
  BY <1>1, <1>2
<1>5. crashes' > 0
  BY <1>1, <1>2
<1>6. BatchesDistinct'
  BY <1>3 DEF EntriesInv, BatchesDistinct
<1>7. BatchPending'
  BY <1>2, <1>3 DEF EntriesInv, BatchPending
<1>8. DeliveredOnce'
  BY <1>2 DEF EntriesInv, DeliveredOnce
<1>9. \A S : \A e \in Entries : Settled(e, S) /\ ~Has(batch[c], e) => Settled(e, S)'
  BY <1>2, <1>4, <1>5 DEF Settled
<1>10. SettledBeforeAck'
  <2> SUFFICES ASSUME NEW d \in Consumers, at'[d] = "acking"
               PROVE  Settled(Current(d), {d})'
      BY DEF SettledBeforeAck
  <2>1. d # c /\ at[d] = "acking"
    BY <1>1, <1>2
  <2>2. batch[d] # <<>> /\ Settled(Current(d), {d})
    BY <2>1 DEF StreamTypes, WorkHasEntry, EntriesInv, SettledBeforeAck
  <2>3. Current(d) \in Entries /\ ~Has(batch[c], Current(d))
    BY <2>1, <2>2, CurrentHeld
  <2>4. Current(d)' = Current(d) /\ outcome'[Current(d)] = outcome[Current(d)]
    BY <1>3, <1>4, <2>1, <2>3 DEF Current
  <2> QED
    BY <1>2, <1>5, <2>2, <2>4 DEF Settled
<1>11. AckedIsSettled'
  <2> SUFFICES ASSUME NEW e \in acked PROVE Settled(e, Consumers)'
      BY <1>2 DEF AckedIsSettled, Settled
  <2>1. e \in Entries /\ Settled(e, Consumers)
    BY <1>1 DEF EntriesInv, EntriesAccounted, AckedIsSettled, Settled
  <2>2. ~Has(batch[c], e)
    BY <2>1, NoneIsNoConsumer DEF EntriesInv, BatchPending, DeliveredOnce
  <2> QED
    BY <1>2, <1>4, <1>5, <2>1, <2>2 DEF Settled
<1>12. PendingExplained'
  <2>1. Delivered /\ HeldOrLeft
    BY PendingParts DEF EntriesInv, EntriesAccounted
  <2>2. Delivered'
    BY <1>2, <2>1 DEF Delivered
  <2>3. HeldOrLeft'
    <3> SUFFICES ASSUME NEW e \in Entries, pending[e] # None
                 PROVE  Has(batch'[pending[e]], e) \/ LeftBehind(e)'
        BY <1>2 DEF HeldOrLeft
    <3>1. pending[e] \in Consumers /\ (Has(batch[pending[e]], e) \/ LeftBehind(e))
      BY <1>1, <2>1 DEF HeldOrLeft
    <3>2. CASE Has(batch[c], e)
      BY <1>2, <3>2 DEF LeftBehind
    <3>3. CASE ~Has(batch[c], e)
      BY <1>3, <1>4, <3>1, <3>3 DEF LeftBehind
    <3> QED
      BY <3>2, <3>3
  <2>4. PendingExplained' <=> Delivered' /\ HeldOrLeft'
    BY DEF PendingExplained, Delivered, HeldOrLeft, LeftBehind, Has
  <2> QED
    BY <2>2, <2>3, <2>4
<1> QED
  BY <1>6, <1>7, <1>8, <1>10, <1>11, <1>12 DEF EntriesInv, EntriesAccounted

(* What Redis delivers nobody had before, so nothing is known of it. *)
LEMMA DeliveredNew ==
    ASSUME StreamTypes, EntriesInv, NEW c \in Consumers, NEW n \in 1..BatchCount,
           Deliver(c, n)
    PROVE  /\ batch \in [Consumers -> Seq(Entries)] /\ acked \subseteq Entries
           /\ pending \in [Entries -> Consumers \union {None}]
           /\ cursor \in Nat /\ n \in Nat \ {0} /\ Entries \subseteq Nat
           /\ \A e \in Entries : e \in (cursor + 1)..(cursor + n) =>
                  e \notin acked /\ pending[e] = None
           /\ \A d \in Consumers, e \in Entries :
                  Has(batch[d], e) => e \notin (cursor + 1)..(cursor + n)
           /\ DeliveredOnce' /\ Delivered'
<1>1. /\ batch \in [Consumers -> Seq(Entries)] /\ acked \subseteq Entries
      /\ pending \in [Entries -> Consumers \union {None}]
      /\ cursor \in Nat /\ n \in Nat \ {0} /\ Entries \subseteq Nat
  <2>1. cursor \in Nat /\ n \in Nat \ {0}
    BY CountsAssumption DEF Deliver, StreamTypes, WorkHasEntry
  <2>2. Entries \subseteq Nat
    BY RatingsAssumption DEF Entries
  <2> QED
    BY <2>1, <2>2 DEF StreamTypes, TypeOK
<1>2. /\ cursor' = cursor + n /\ UNCHANGED <<origin, acked>>
      /\ pending' = [e \in Entries |->
                        IF e \in (cursor + 1)..(cursor + n) THEN c ELSE pending[e]]
  BY DEF Deliver
<1>3. \A e \in Entries : e \in (cursor + 1)..(cursor + n) => e \notin acked /\ pending[e] = None
  BY <1>1 DEF EntriesInv, DeliveredOnce
<1>4. \A d \in Consumers, e \in Entries :
          Has(batch[d], e) => e \notin (cursor + 1)..(cursor + n)
  BY <1>3, NoneIsNoConsumer DEF EntriesInv, BatchPending
<1>5. DeliveredOnce'
  <2> SUFFICES ASSUME NEW e \in Entries
               PROVE  /\ e \in acked => pending'[e] = None
                      /\ e \in acked \/ pending'[e] # None => e <= cursor'
      BY <1>2 DEF DeliveredOnce
  <2>1. CASE e \in (cursor + 1)..(cursor + n)
    BY <1>1, <1>2, <1>3, <2>1
  <2>2. CASE e \notin (cursor + 1)..(cursor + n)
    <3>1. pending'[e] = pending[e]
      BY <1>2, <2>2
    <3>2. /\ e \in acked => pending[e] = None
          /\ e \in acked \/ pending[e] # None => e <= cursor
      BY DEF EntriesInv, DeliveredOnce
    <3> QED
      BY <1>1, <1>2, <3>1, <3>2
  <2> QED
    BY <2>1, <2>2
<1>6. Delivered'
  <2> SUFFICES ASSUME NEW e \in Entries, origin < e, e <= cursor'
               PROVE  e \in acked \/ pending'[e] # None
      BY <1>2 DEF Delivered
  <2>1. CASE e \in (cursor + 1)..(cursor + n)
    BY <1>2, <2>1, NoneIsNoConsumer
  <2>2. CASE e \notin (cursor + 1)..(cursor + n)
    <3>1. e <= cursor /\ pending'[e] = pending[e]
      BY <1>1, <1>2, <2>2
    <3> QED
      BY <3>1, PendingParts DEF EntriesInv, EntriesAccounted, Delivered
  <2> QED
    BY <2>1, <2>2
<1> QED
  BY <1>1, <1>3, <1>4, <1>5, <1>6

(* A read hands out what is delivered. *)
LEMMA KeptByRead ==
    ASSUME StreamTypes, EntriesInv, NEW c \in Consumers, Read(c)
    PROVE  EntriesInv'
<1>1. PICK n \in 1..BatchCount :
          /\ Deliver(c, n)
          /\ batch' = [batch EXCEPT ![c] = [i \in 1..n |-> cursor + i]]
          /\ UNCHANGED <<outcome, crashes>>
  BY DEF Read, history
<1>2. /\ batch \in [Consumers -> Seq(Entries)] /\ acked \subseteq Entries
      /\ pending \in [Entries -> Consumers \union {None}]
      /\ cursor \in Nat /\ n \in Nat \ {0} /\ Entries \subseteq Nat
      /\ \A e \in Entries : e \in (cursor + 1)..(cursor + n) =>
             e \notin acked /\ pending[e] = None
      /\ \A d \in Consumers, e \in Entries :
             Has(batch[d], e) => e \notin (cursor + 1)..(cursor + n)
      /\ DeliveredOnce' /\ Delivered'
  BY <1>1, DeliveredNew
<1>3. /\ at[c] = "reading" /\ batch[c] = <<>>
      /\ UNCHANGED <<origin, acked, dlq, at, buried, outcome, crashes>>
      /\ pending' = [e \in Entries |->
                        IF e \in (cursor + 1)..(cursor + n) THEN c ELSE pending[e]]
  BY <1>1 DEF Deliver
<1>4. /\ batch'[c] = [i \in 1..n |-> cursor + i]
      /\ \A d \in Consumers : d # c => batch'[d] = batch[d]
  BY <1>1, <1>2
<1>5. \A e \in Entries : Has(batch'[c], e) <=> e \in (cursor + 1)..(cursor + n)
  <2> SUFFICES ASSUME NEW e \in Entries
               PROVE  Has(batch'[c], e) <=> e \in (cursor + 1)..(cursor + n)
      OBVIOUS
  <2>1. ASSUME Has(batch'[c], e) PROVE e \in (cursor + 1)..(cursor + n)
    BY <1>2, <1>4, <2>1 DEF Has
  <2>2. ASSUME e \in (cursor + 1)..(cursor + n) PROVE Has(batch'[c], e)
    <3>1. e - cursor \in 1..n /\ batch'[c][e - cursor] = e
      BY <1>2, <1>4, <2>2
    <3> QED
      BY <1>4, <3>1 DEF Has
  <2> QED
    BY <2>1, <2>2
<1>6. BatchesDistinct'
  <2>1. \A i, j \in DOMAIN batch'[c] : batch'[c][i] = batch'[c][j] => i = j
    <3>1. \A i, j \in 1..n : cursor + i = cursor + j => i = j
      BY <1>2
    <3> QED
      BY <1>4, <3>1
  <2> QED
    BY <1>4, <2>1 DEF EntriesInv, BatchesDistinct
<1>7. BatchPending'
  BY <1>2, <1>3, <1>4, <1>5 DEF EntriesInv, BatchPending
<1>8. SettledBeforeAck'
  <2> SUFFICES ASSUME NEW d \in Consumers, at[d] = "acking"
               PROVE  Settled(Current(d), {d})'
      BY <1>3 DEF SettledBeforeAck
  <2>1. d # c /\ Settled(Current(d), {d})
    BY <1>3 DEF EntriesInv, SettledBeforeAck
  <2>2. Current(d)' = Current(d)
    BY <1>4, <2>1 DEF Current
  <2> QED
    BY <1>3, <2>1, <2>2 DEF Settled, Captured
<1>9. AckedIsSettled'
  BY <1>3 DEF EntriesInv, EntriesAccounted, AckedIsSettled, Captured
<1>10. HeldOrLeft'
  <2> SUFFICES ASSUME NEW e \in Entries, pending'[e] # None
               PROVE  Has(batch'[pending'[e]], e) \/ LeftBehind(e)
      BY <1>3 DEF HeldOrLeft, LeftBehind
  <2>1. CASE e \in (cursor + 1)..(cursor + n)
    BY <1>3, <1>5, <2>1
  <2>2. CASE e \notin (cursor + 1)..(cursor + n)
    <3>1. pending'[e] = pending[e] /\ pending[e] \in Consumers
      BY <1>2, <1>3, <2>2
    <3>2. Has(batch[pending[e]], e) \/ LeftBehind(e)
      BY <3>1, PendingParts DEF EntriesInv, EntriesAccounted, HeldOrLeft
    <3>3. ~Has(batch[c], e)
      BY <1>3 DEF Has
    <3> QED
      BY <1>4, <3>1, <3>2, <3>3
  <2> QED
    BY <2>1, <2>2
<1>11. PendingExplained' <=> Delivered' /\ HeldOrLeft'
  BY DEF PendingExplained, Delivered, HeldOrLeft, LeftBehind, Has
<1> QED
  BY <1>2, <1>6, <1>7, <1>8, <1>9, <1>10, <1>11 DEF EntriesInv, EntriesAccounted

(* What is delivered in a reply that is lost is left behind at once. *)
LEMMA KeptByLostRead ==
    ASSUME StreamTypes, EntriesInv, NEW c \in Consumers, ReadLost(c)
    PROVE  EntriesInv'
<1>1. PICK n \in 1..BatchCount :
          /\ Deliver(c, n)
          /\ outcome' = [e \in Entries |->
                            IF e \in (cursor + 1)..(cursor + n) THEN "undelivered"
                            ELSE outcome[e]]
          /\ UNCHANGED <<batch, crashes>>
  BY DEF ReadLost
<1>2. /\ batch \in [Consumers -> Seq(Entries)] /\ acked \subseteq Entries
      /\ pending \in [Entries -> Consumers \union {None}]
      /\ \A e \in Entries : e \in (cursor + 1)..(cursor + n) =>
             e \notin acked /\ pending[e] = None
      /\ \A d \in Consumers, e \in Entries :
             Has(batch[d], e) => e \notin (cursor + 1)..(cursor + n)
      /\ DeliveredOnce' /\ Delivered'
  BY <1>1, DeliveredNew
<1>3. /\ UNCHANGED <<origin, acked, dlq, at, buried, batch, crashes>>
      /\ pending' = [e \in Entries |->
                        IF e \in (cursor + 1)..(cursor + n) THEN c ELSE pending[e]]
  BY <1>1 DEF Deliver
<1>4. \A e \in Entries : e \notin (cursor + 1)..(cursor + n) =>
          outcome'[e] = outcome[e] /\ pending'[e] = pending[e]
  BY <1>1, <1>3
<1>5. BatchesDistinct' /\ BatchPending'
  <2>1. BatchesDistinct'
    BY <1>3 DEF EntriesInv, BatchesDistinct
  <2>2. BatchPending'
    BY <1>2, <1>3, <1>4 DEF EntriesInv, BatchPending
  <2> QED
    BY <2>1, <2>2
<1>6. SettledBeforeAck'
  <2> SUFFICES ASSUME NEW d \in Consumers, at[d] = "acking"
               PROVE  Settled(Current(d), {d})'
      BY <1>3 DEF SettledBeforeAck
  <2>1. batch[d] # <<>> /\ Settled(Current(d), {d})
    BY DEF StreamTypes, WorkHasEntry, EntriesInv, SettledBeforeAck
  <2>2. Current(d) \in Entries /\ Has(batch[d], Current(d))
    BY <2>1, CurrentHeld
  <2>3. Current(d)' = Current(d) /\ outcome'[Current(d)] = outcome[Current(d)]
    BY <1>2, <1>3, <1>4, <2>2 DEF Current
  <2> QED
    BY <1>3, <2>1, <2>3 DEF Settled, Captured
<1>7. AckedIsSettled'
  <2> SUFFICES ASSUME NEW e \in acked PROVE Settled(e, Consumers)'
      BY <1>3 DEF AckedIsSettled, Settled
  <2>1. e \in Entries /\ outcome'[e] = outcome[e]
    BY <1>2, <1>4
  <2>2. Settled(e, Consumers)
    BY DEF EntriesInv, EntriesAccounted, AckedIsSettled, Settled
  <2> QED
    BY <1>3, <2>1, <2>2 DEF Settled, Captured
<1>8. HeldOrLeft'
  <2> SUFFICES ASSUME NEW e \in Entries, pending'[e] # None
               PROVE  Has(batch'[pending'[e]], e) \/ LeftBehind(e)'
      BY DEF HeldOrLeft
  <2>1. CASE e \in (cursor + 1)..(cursor + n)
    BY <1>1, <2>1 DEF LeftBehind
  <2>2. CASE e \notin (cursor + 1)..(cursor + n)
    <3>1. Has(batch[pending[e]], e) \/ LeftBehind(e)
      BY <1>4, <2>2, PendingParts DEF EntriesInv, EntriesAccounted, HeldOrLeft
    <3> QED
      BY <1>3, <1>4, <2>2, <3>1 DEF LeftBehind
  <2> QED
    BY <2>1, <2>2
<1>9. PendingExplained' <=> Delivered' /\ HeldOrLeft'
  BY DEF PendingExplained, Delivered, HeldOrLeft, LeftBehind, Has
<1> QED
  BY <1>2, <1>5, <1>6, <1>7, <1>8, <1>9 DEF EntriesInv, EntriesAccounted

(* The first boot places the cursor; nothing was delivered before it. *)
LEMMA KeptByBoot ==
    ASSUME StreamTypes, EntriesInv, NEW c \in Consumers, Boot(c)
    PROVE  EntriesInv'
<1>1. /\ UNCHANGED <<pending, acked, dlq, batch, buried, outcome, crashes>>
      /\ at' = [at EXCEPT ![c] = "reading"]
      /\ cursor' = (IF cursor = -1 THEN published ELSE cursor)
      /\ origin' = (IF cursor = -1 THEN published ELSE origin)
  BY DEF Boot, Goto, history
<1>2. /\ cursor \in Int /\ published \in Nat /\ cursor <= published /\ -1 <= cursor
      /\ Entries \subseteq Nat \ {0}
      /\ at \in [Consumers -> {"down", "reading", "handling", "recording",
                               "acking", "dead_lettering"}]
  <2>1. /\ published \in 0..Len(RatingOf) /\ cursor \in -1..published
        /\ Len(RatingOf) \in Nat /\ Entries = 1..Len(RatingOf)
    BY RatingsAssumption DEF StreamTypes, TypeOK, Entries
  <2>2. at \in [Consumers -> {"down", "reading", "handling", "recording",
                             "acking", "dead_lettering"}]
    BY DEF StreamTypes, TypeOK
  <2> QED
    BY <2>1, <2>2
<1>3. BatchesDistinct' /\ BatchPending' /\ AckedIsSettled'
  BY <1>1 DEF EntriesInv, EntriesAccounted, BatchesDistinct, BatchPending, AckedIsSettled,
     Captured
<1>4. DeliveredOnce'
  BY <1>1, <1>2 DEF EntriesInv, DeliveredOnce
<1>5. SettledBeforeAck'
  <2> SUFFICES ASSUME NEW d \in Consumers, at'[d] = "acking"
               PROVE  Settled(Current(d), {d})'
      BY DEF SettledBeforeAck
  <2>1. at[d] = "acking"
    BY <1>1, <1>2
  <2>2. Settled(Current(d), {d}) /\ Current(d)' = Current(d)
    BY <1>1, <2>1 DEF EntriesInv, SettledBeforeAck, Current
  <2> QED
    BY <1>1, <2>2 DEF Settled, Captured
<1>6. PendingExplained'
  <2>1. Delivered /\ HeldOrLeft
    BY PendingParts DEF EntriesInv, EntriesAccounted
  <2>2. Delivered' /\ HeldOrLeft'
    <3>1. Delivered'
      BY <1>1, <1>2, <2>1 DEF Delivered
    <3>2. HeldOrLeft'
      BY <1>1, <2>1 DEF HeldOrLeft, LeftBehind
    <3> QED
      BY <3>1, <3>2
  <2>3. PendingExplained' <=> Delivered' /\ HeldOrLeft'
    BY DEF PendingExplained, Delivered, HeldOrLeft, LeftBehind, Has
  <2> QED
    BY <2>2, <2>3
<1> QED
  BY <1>3, <1>4, <1>5, <1>6 DEF EntriesInv, EntriesAccounted

(* Every step of the handler keeps the entries accounted for. *)
LEMMA KeptByHandling ==
    ASSUME StreamTypes, EntriesInv, NEW c \in Consumers, Handle(c), StreamTypes'
    PROVE  EntriesInv'
<1>1. batch[c] # <<>>
  BY DEF Handle, Take, TakeUndecodable, HandlerFails, HandleMalformed,
     HandleDuplicate, HandleNew, Recorded, RecordFails, RecordRefused, Ack,
     AckFails, DeadLetter, DeadLetterFails, StreamTypes, WorkHasEntry
<1>2. /\ Current(c) \in Entries
      /\ at \in [Consumers -> {"down", "reading", "handling", "recording",
                               "acking", "dead_lettering"}]
      /\ outcome \in [Entries -> Outcomes] /\ buried \in [Consumers -> SUBSET Entries]
      /\ outcome' \in [Entries -> Outcomes]
  BY <1>1, CurrentType DEF StreamTypes, TypeOK
<1>3. Settled(Current(c), {c}) \/ at[c] # "acking"
  BY DEF EntriesInv, SettledBeforeAck
<1>4. ASSUME UNCHANGED <<cursor, origin, pending, acked, batch, crashes>>,
             dlq' = dlq \/ dlq' = dlq \union {Current(c)},
             outcome' = outcome \/ (\E what \in Outcomes : Became(Current(c), what)),
             buried' = buried \/ Capture(c),
             at' = at \/ \E place \in {"handling", "recording", "acking", "reading",
                                       "dead_lettering"} : Goto(c, place),
             at'[c] = "acking" => Settled(Current(c), {c})'
      PROVE  EntriesInv'
  <2>1. \A e \in Entries : e # Current(c) => outcome'[e] = outcome[e]
    BY <1>2, <1>4 DEF Became
  <2>2. \A d \in Consumers, e \in Entries : Captured(d, e) => Captured(d, e)'
    <3>1. CASE buried' = buried
      BY <3>1 DEF Captured
    <3>2. CASE Capture(c)
      BY <1>2, <3>2, CaptureKeeps
    <3> QED
      BY <1>4, <3>1, <3>2
  <2>3. \A d \in Consumers : d # c => at'[d] = at[d]
    BY <1>2, <1>4 DEF Goto
  <2>4. dlq \subseteq dlq'
    BY <1>4
  <2> QED
    BY <1>1, <1>4, <2>1, <2>2, <2>3, <2>4, KeptAtWork
<1>5. CASE Take(c)
  <2>1. at'[c] # "acking"
    BY <1>2, <1>5 DEF Take, Goto
  <2> QED
    BY <1>4, <1>5, <2>1 DEF Take, redisVars, history
<1>6. CASE TakeUndecodable(c)
  <2>1. at'[c] # "acking"
    BY <1>2, <1>6 DEF TakeUndecodable, Goto
  <2> QED
    BY <1>4, <1>6, <2>1 DEF TakeUndecodable, redisVars, Outcomes
<1>7. CASE HandlerFails(c)
  <2>1. CASE Goto(c, "dead_lettering") /\ Became(Current(c), "retries_exhausted")
             /\ UNCHANGED batch
    <3>1. at'[c] # "acking"
      BY <1>2, <2>1 DEF Goto
    <3> QED
      BY <1>4, <1>7, <2>1, <3>1 DEF HandlerFails, redisVars, Outcomes
  <2>2. CASE Goto(c, "reading") /\ Became(Current(c), "failed")
             /\ batch' = [batch EXCEPT ![c] = Tail(@)]
    <3>1. /\ \A e \in Entries : e # Current(c) => outcome'[e] = outcome[e]
          /\ outcome'[Current(c)] = "failed"
      BY <1>2, <2>2 DEF Became
    <3>2. UNCHANGED <<cursor, origin, dlq, buried, crashes, pending, acked>>
      BY <1>7 DEF HandlerFails, redisVars
    <3> QED
      BY <1>1, <1>2, <2>2, <3>1, <3>2, KeptByFinishing DEF Goto
  <2> QED
    BY <1>7, <2>1, <2>2 DEF HandlerFails
<1>8. CASE HandleMalformed(c) \/ RecordRefused(c)
  <2>1. /\ outcome'[Current(c)] = "dead_letter_permanent" /\ Capture(c)
        /\ Current(c)' = Current(c)
    BY <1>2, <1>8 DEF HandleMalformed, RecordRefused, Became, Current
  <2>2. Settled(Current(c), {c})'
    BY <1>2, <2>1, CaptureKeeps DEF Settled
  <2> QED
    BY <1>4, <1>8, <2>2 DEF HandleMalformed, RecordRefused, redisVars, Outcomes
<1>9. CASE HandleDuplicate(c) \/ Recorded(c)
  <2>1. /\ outcome'[Current(c)] \in {"duplicate", "applied"}
        /\ Current(c)' = Current(c)
    BY <1>2, <1>9 DEF HandleDuplicate, Recorded, Became, Current
  <2>2. Settled(Current(c), {c})'
    BY <2>1 DEF Settled
  <2> QED
    BY <1>4, <1>9, <2>2 DEF HandleDuplicate, Recorded, redisVars, Outcomes
<1>10. CASE HandleNew(c)
  <2>1. at'[c] # "acking"
    BY <1>2, <1>10 DEF HandleNew, Goto
  <2> QED
    BY <1>4, <1>10, <2>1 DEF HandleNew, redisVars, history
<1>11. CASE RecordFails(c)
  <2>1. UNCHANGED <<redisVars, batch, crashes>> /\ at[c] = "recording"
    BY <1>11 DEF RecordFails
  <2>2. CASE UNCHANGED <<at, buried, outcome>>
    BY <1>4, <2>1, <2>2 DEF redisVars
  <2>3. CASE /\ Goto(c, "acking")
             /\ Capture(c)
             /\ Became(Current(c), "dead_letter_exhausted")
    <3>1. /\ outcome'[Current(c)] = "dead_letter_exhausted" /\ Current(c)' = Current(c)
      BY <1>2, <2>1, <2>3 DEF Became, Current
    <3>2. Settled(Current(c), {c})'
      BY <1>2, <2>3, <3>1, CaptureKeeps DEF Settled
    <3> QED
      BY <1>4, <2>1, <2>3, <3>2 DEF redisVars, Outcomes
  <2> QED
    BY <1>11, <2>2, <2>3 DEF RecordFails
<1>12. CASE Ack(c)
  BY <1>1, <1>2, <1>3, <1>12, KeptByFinishing DEF Ack, Done, Goto, history
<1>13. CASE AckFails(c)
  <2>1. /\ UNCHANGED <<cursor, origin, buried, crashes>> /\ dlq \subseteq dlq'
        /\ batch' = [batch EXCEPT ![c] = Tail(batch[c])]
        /\ at' = [at EXCEPT ![c] = "reading"]
    BY <1>13 DEF AckFails, Done, Goto
  <2>2. CASE Became(Current(c), "ack_failed") /\ UNCHANGED <<pending, acked>>
    <3>1. /\ \A e \in Entries : e # Current(c) => outcome'[e] = outcome[e]
          /\ outcome'[Current(c)] = "ack_failed"
      BY <1>2, <2>2 DEF Became
    <3> QED
      BY <1>1, <1>2, <2>1, <2>2, <3>1, KeptByFinishing
  <2>3. CASE /\ acked' = acked \union {Current(c)}
             /\ pending' = [pending EXCEPT ![Current(c)] = None]
             /\ UNCHANGED outcome
    <3>1. Settled(Current(c), {c})
      BY <1>3, <1>13 DEF AckFails
    <3> QED
      BY <1>1, <1>2, <2>1, <2>3, <3>1, KeptByFinishing
  <2> QED
    BY <1>13, <2>2, <2>3 DEF AckFails
<1>14. CASE DeadLetter(c)
  <2>1. Current(c) \in dlq' /\ Current(c)' = Current(c)
    BY <1>14 DEF DeadLetter, Current
  <2>2. Settled(Current(c), {c})'
    BY <2>1 DEF Settled
  <2> QED
    BY <1>4, <1>14, <2>2 DEF DeadLetter, history
<1>15. CASE DeadLetterFails(c)
  <2>1. /\ \A e \in Entries : e # Current(c) => outcome'[e] = outcome[e]
        /\ outcome'[Current(c)] = "dlq_failed"
    BY <1>2, <1>15 DEF DeadLetterFails, Became
  <2> QED
    BY <1>1, <1>2, <1>15, <2>1, KeptByFinishing DEF DeadLetterFails, Goto
<1> QED
  BY <1>5, <1>6, <1>7, <1>8, <1>9, <1>10, <1>11, <1>12, <1>13, <1>14, <1>15 DEF Handle

(* Every step keeps the entries accounted for. *)
LEMMA EntriesKept == StreamTypes /\ EntriesInv /\ [Next]_vars => EntriesInv'
<1> SUFFICES ASSUME StreamTypes, EntriesInv, [Next]_vars PROVE EntriesInv'
    OBVIOUS
<1>1. StreamTypes'
  BY TypeInvariant
<1>2. ASSUME UNCHANGED <<cursor, origin, pending, acked, dlq, at, batch, buried, outcome,
                         crashes>>
      PROVE  EntriesInv'
  BY <1>2 DEF EntriesInv, EntriesAccounted, BatchesDistinct, BatchPending, DeliveredOnce,
     SettledBeforeAck, Settled, Captured, AckedIsSettled, PendingExplained, Current, Has
<1>3. CASE Publish
  BY <1>2, <1>3 DEF Publish, workVars, history
<1>4. CASE UNCHANGED vars
  BY <1>2, <1>4 DEF vars, redisVars, workVars, history
<1> QED
  BY <1>1, <1>3, <1>4, KeptByBoot, KeptByRead, KeptByLostRead, KeptByHandling, KeptByCrash DEF Next

IInv == StreamTypes /\ RecordsUnknown /\ RepeatsCounted /\ EntriesInv

(* No worker knows any rating at the start, and none was recorded or read. *)
LEMMA InitialInvariant == Init => IInv
<1> SUFFICES ASSUME Init PROVE IInv
    OBVIOUS
<1>1. TypeOK
  BY CountsAssumption, RatingsAssumption DEF Init, TypeOK, Outcomes
<1>2. WorkHasEntry /\ RecordsUnknown
  BY DEF Init, WorkHasEntry, RecordsUnknown
<1>3. \A r \in Ratings : Cardinality(Knowing(r)) \in Nat
  BY KnowingFinite
<1>4. RepeatsCounted
  BY <1>3 DEF Init, RepeatsCounted
<1>5. EntriesInv
  <2>1. /\ \A c \in Consumers : batch[c] = <<>> /\ at[c] = "down"
        /\ \A e \in Entries : pending[e] = None
        /\ acked = {} /\ origin = 0 /\ cursor = -1 /\ Entries \subseteq Nat \ {0}
    BY RatingsAssumption DEF Init, Entries
  <2> QED
    BY <2>1 DEF EntriesInv, EntriesAccounted, BatchesDistinct, BatchPending,
       DeliveredOnce, SettledBeforeAck, AckedIsSettled, PendingExplained, Has
<1> QED
  BY <1>1, <1>2, <1>4, <1>5 DEF IInv, StreamTypes

(* The invariant is inductive. *)
THEOREM Invariance == Spec => []IInv
<1>1. IInv /\ [Next]_vars => IInv'
  BY TypeInvariant, UnknownKept, CountKept, EntriesKept DEF IInv
<1> QED
  BY InitialInvariant, <1>1, PTL DEF Spec

(* Every variable of the consumer keeps its type. *)
THEOREM TypeCorrect == Spec => []TypeOK
<1>1. IInv => TypeOK
  BY DEF IInv, StreamTypes
<1> QED
  BY Invariance, <1>1, PTL

(* What a worker has read is settled when it is acknowledged, and in the   *)
(* PEL for a known reason until then.                                      *)
THEOREM EntriesSettled == Spec => []EntriesAccounted
<1>1. IInv => EntriesAccounted
  BY DEF IInv, EntriesInv
<1> QED
  BY Invariance, <1>1, PTL

(* A rating is recorded at most once per worker, plus once per crash, per  *)
(* eviction from a dedupe window and per record reported as an error,      *)
(* whatever order the entries, workers and failures come in.               *)
THEOREM RepeatsBounded == Spec => []RepeatsAccounted
<1>1. IInv => RepeatsAccounted
  <2> SUFFICES ASSUME IInv, NEW r \in Ratings
               PROVE  applied[r] <= Cardinality(Consumers) + crashes + evicted[r] + misread[r]
      BY DEF RepeatsAccounted
  <2>1. Knowing(r) \subseteq Consumers
    BY DEF Knowing
  <2>2. /\ Cardinality(Knowing(r)) <= Cardinality(Consumers)
        /\ Cardinality(Knowing(r)) \in Nat /\ Cardinality(Consumers) \in Nat
    BY <2>1, KnowingFinite, ConsumersAssumption, FS_Subset, FS_CardinalityType
  <2>3. applied[r] <= Cardinality(Knowing(r)) + crashes + evicted[r] + misread[r]
    BY DEF IInv, RepeatsCounted
  <2>4. /\ applied[r] \in Nat /\ evicted[r] \in Nat /\ misread[r] \in Nat /\ crashes \in Nat
    BY CountsAssumption DEF IInv, StreamTypes, TypeOK
  <2> QED
    BY <2>2, <2>3, <2>4
<1> QED
  BY Invariance, <1>1, PTL
=============================================================================
