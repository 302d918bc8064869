----------------------------- MODULE FactStream -----------------------------
(***************************************************************************)
(* The consumer side of the fact bus: the XREADGROUP loop of               *)
(* worker/redis-stream-consumer.ts with the rating consumer of             *)
(* worker/rating-consumer.ts as its handler, wired as in worker/server.ts. *)
(*                                                                         *)
(* The stream holds entries 1..Published, each carrying one rating; the    *)
(* same rating may come twice, for the publisher retries: a repeat is the  *)
(* same fact under the same event id, so failures are counted by rating.   *)
(* The group's cursor and its pending entries list (PEL) live in Redis;    *)
(* the attempt counter, the dedupe window and the rating dead letters live *)
(* in the memory of a worker and die with it.  A Redis command may fail    *)
(* before Redis ran it, or its reply be lost after; the loop treats both   *)
(* alike.  A shutdown that aborts a batch leaves what a crash leaves.      *)
(***************************************************************************)
EXTENDS Integers, Sequences, FiniteSets

CONSTANTS Consumers,     \* worker processes
          Ratings,       \* rating ids
          RatingOf,      \* RatingOf[e]: the rating entry e carries
          Undecodable,   \* entries without data, or whose data is no PlatformFact
          Malformed,     \* entries whose fact is not a well-formed rating
          Throwing,      \* entries whose handler fails as a whole
          MaxRetries,    \* failures of one event before it is dead-lettered
          MaxAttempts,   \* RecordRating attempts per delivery
          DedupeSize,    \* ratings the dedupe window remembers
          MaxBuried,     \* entries the rating dead-letter sink of a worker keeps
          BatchCount,    \* entries per XREADGROUP
          None,          \* no consumer
          MaxFaults,     \* bound: Redis commands that fail
          MaxCrashes     \* bound: worker crashes

Entries == DOMAIN RatingOf

ASSUME ConsumersAssumption == IsFiniteSet(Consumers)
ASSUME RatingsAssumption == RatingOf \in Seq(Ratings)
ASSUME KindsAssumption ==
    Undecodable \subseteq Entries /\ Malformed \subseteq Entries /\ Throwing \subseteq Entries
ASSUME CountsAssumption ==
    /\ MaxRetries \in Nat \ {0} /\ MaxAttempts \in Nat \ {0}
    /\ DedupeSize \in Nat \ {0} /\ BatchCount \in Nat \ {0} /\ MaxBuried \in Nat \ {0}
    /\ MaxFaults \in Nat /\ MaxCrashes \in Nat
ASSUME NoneIsNoConsumer == None \notin Consumers

VARIABLES
    published, \* entries on the stream
    cursor,    \* last entry delivered to the group, -1 before the group exists
    origin,    \* end of the stream when the group was created
    pending,   \* pending[e]: the consumer holding e in the PEL
    acked,     \* entries acknowledged
    dlq,       \* entries on btl:facts:dlq
    at,        \* at[c]: what worker c does
    batch,     \* batch[c]: entries read and not yet done, the current one first
    failures,  \* failures[c][r]: the attempt counter of worker c
    attempt,   \* attempt[c]: RecordRating attempts of the current entry
    seen,      \* seen[c]: the dedupe window of worker c, oldest first
    buried,    \* buried[c]: entries in the rating dead-letter sink of worker c
    applied,   \* applied[r]: times game-service recorded r (history)
    outcome,   \* outcome[e]: what became of e (history)
    evicted,   \* evicted[r]: times r fell out of a dedupe window (history)
    misread,   \* misread[r]: records of r reported as errors (history)
    faults,    \* faults so far
    crashes    \* crashes so far

redisVars == <<published, cursor, origin, pending, acked, dlq>>
workVars == <<at, batch, failures, attempt, seen, buried>>
history == <<applied, outcome, evicted, misread>>
vars == <<redisVars, workVars, history, faults, crashes>>

Outcomes == {"none", "applied", "duplicate", "dead_letter_permanent",
             "dead_letter_exhausted", "malformed", "retries_exhausted",
             "failed", "dlq_failed", "ack_failed", "abandoned", "undelivered"}

TypeOK ==
    /\ published \in 0..Len(RatingOf)
    /\ cursor \in -1..published /\ origin \in 0..published
    /\ pending \in [Entries -> Consumers \union {None}]
    /\ acked \subseteq Entries /\ dlq \subseteq Entries
    /\ at \in [Consumers -> {"down", "reading", "handling", "recording",
                             "acking", "dead_lettering"}]
    /\ batch \in [Consumers -> Seq(Entries)]
    /\ failures \in [Consumers -> [Ratings -> Nat]]
    /\ attempt \in [Consumers -> 0..MaxAttempts]
    /\ seen \in [Consumers -> Seq(Ratings)]
    /\ buried \in [Consumers -> SUBSET Entries]
    /\ applied \in [Ratings -> Nat]
    /\ outcome \in [Entries -> Outcomes]
    /\ evicted \in [Ratings -> Nat] /\ misread \in [Ratings -> Nat]
    /\ faults \in 0..MaxFaults /\ crashes \in 0..MaxCrashes

Init ==
    /\ published = 0 /\ cursor = -1 /\ origin = 0
    /\ pending = [e \in Entries |-> None]
    /\ acked = {} /\ dlq = {}
    /\ at = [c \in Consumers |-> "down"]
    /\ batch = [c \in Consumers |-> <<>>]
    /\ failures = [c \in Consumers |-> [r \in Ratings |-> 0]]
    /\ attempt = [c \in Consumers |-> 0]
    /\ seen = [c \in Consumers |-> <<>>]
    /\ buried = [c \in Consumers |-> {}]
    /\ applied = [r \in Ratings |-> 0]
    /\ outcome = [e \in Entries |-> "none"]
    /\ evicted = [r \in Ratings |-> 0] /\ misread = [r \in Ratings |-> 0]
    /\ faults = 0 /\ crashes = 0

Current(c) == Head(batch[c])
Rating(c) == RatingOf[Current(c)]
Goto(c, place) == at' = [at EXCEPT ![c] = place]
Became(e, what) == outcome' = [outcome EXCEPT ![e] = what]

(* One more Redis command fails. *)
Fault == faults < MaxFaults /\ faults' = faults + 1

(* game-service publishes the next entry. *)
Publish ==
    /\ published < Len(RatingOf)
    /\ published' = published + 1
    /\ UNCHANGED <<cursor, origin, pending, acked, dlq, workVars, history, faults, crashes>>

(* ensureGroups: XGROUP CREATE with '$' starts a new group at the end of   *)
(* the stream, and leaves an existing one alone.                           *)
Boot(c) ==
    /\ at[c] = "down"
    /\ Goto(c, "reading")
    /\ cursor' = IF cursor = -1 THEN published ELSE cursor
    /\ origin' = IF cursor = -1 THEN published ELSE origin
    /\ UNCHANGED <<published, pending, acked, dlq, batch, failures, attempt, seen,
                   buried, history, faults, crashes>>

(* XREADGROUP with '>': Redis moves the cursor over the next n new entries *)
(* and puts them into the PEL of this consumer.                            *)
Deliver(c, n) ==
    /\ at[c] = "reading" /\ batch[c] = <<>>
    /\ cursor < published /\ cursor + n <= published
    /\ n = BatchCount \/ cursor + n = published
    /\ cursor' = cursor + n
    /\ pending' = [e \in Entries |->
                      IF e \in (cursor + 1)..(cursor + n) THEN c ELSE pending[e]]
    /\ UNCHANGED <<published, origin, acked, dlq, at, failures, attempt, seen, buried>>

Read(c) ==
    \E n \in 1..BatchCount :
        /\ Deliver(c, n)
        /\ batch' = [batch EXCEPT ![c] = [i \in 1..n |-> cursor + i]]
        /\ UNCHANGED <<history, faults, crashes>>

(* The reply of an XREADGROUP that Redis ran is lost: the error is logged  *)
(* and the loop reads on past what it never received.  An XREADGROUP that  *)
(* fails before Redis ran it changes nothing.                              *)
ReadLost(c) ==
    /\ Fault
    /\ \E n \in 1..BatchCount :
          /\ Deliver(c, n)
          /\ outcome' = [e \in Entries |->
                            IF e \in (cursor + 1)..(cursor + n) THEN "undelivered"
                            ELSE outcome[e]]
    /\ UNCHANGED <<batch, applied, evicted, misread, crashes>>

(* An entry that cannot be decoded is dead-lettered at once. *)
TakeUndecodable(c) ==
    /\ at[c] = "reading" /\ batch[c] # <<>> /\ Current(c) \in Undecodable
    /\ Goto(c, "dead_lettering")
    /\ Became(Current(c), "malformed")
    /\ UNCHANGED <<redisVars, batch, failures, attempt, seen, buried, applied,
                   evicted, misread, faults, crashes>>

(* A decoded entry counts one attempt of its event and goes to the handler. *)
Take(c) ==
    /\ at[c] = "reading" /\ batch[c] # <<>> /\ Current(c) \notin Undecodable
    /\ Goto(c, "handling")
    /\ failures' = [failures EXCEPT ![c][Rating(c)] = @ + 1]
    /\ UNCHANGED <<redisVars, batch, attempt, seen, buried, history, faults, crashes>>

(* Mutant: a failed delivery is acknowledged. *)
HandlerFailsAcked(c) ==
    /\ at[c] = "handling" /\ Current(c) \in Throwing
    /\ Goto(c, "acking")
    /\ UNCHANGED <<redisVars, batch, failures, attempt, seen, buried, history,
                   faults, crashes>>

(* Mutant: a failing entry is given to the handler again on the spot. *)
HandlerFailsInline(c) ==
    /\ at[c] = "handling" /\ Current(c) \in Throwing
    /\ Goto(c, "reading")
    /\ failures' = [failures EXCEPT ![c][Rating(c)] = 0]
    /\ UNCHANGED <<redisVars, batch, attempt, seen, buried, history, faults, crashes>>

(* The handler throws or returns false: the entry stays in the PEL and the *)
(* loop goes on, until the event has failed MaxRetries times.              *)
HandlerFails(c) ==
    /\ at[c] = "handling" /\ Current(c) \in Throwing
    /\ \/ /\ failures[c][Rating(c)] >= MaxRetries
          /\ Goto(c, "dead_lettering")
          /\ Became(Current(c), "retries_exhausted")
          /\ UNCHANGED batch
       \/ /\ failures[c][Rating(c)] < MaxRetries
          /\ Goto(c, "reading")
          /\ Became(Current(c), "failed")
          /\ batch' = [batch EXCEPT ![c] = Tail(@)]
    /\ UNCHANGED <<redisVars, failures, attempt, seen, buried, applied, evicted,
                   misread, faults, crashes>>

(* InMemoryRatingDeadLetterSink.capture: a full sink drops its oldest.  A  *)
(* worker reads the entries in their order, so the oldest is the least.    *)
Capture(c) ==
    LET all == buried[c] \union {Current(c)}
    IN  buried' = [buried EXCEPT ![c] =
                      IF Cardinality(all) <= MaxBuried THEN all
                      ELSE {e \in all : \E f \in all : f < e}]

(* RatingConsumer.handle: a malformed rating is captured in memory. *)
HandleMalformed(c) ==
    /\ at[c] = "handling" /\ Current(c) \in Malformed \ Throwing
    /\ Goto(c, "acking")
    /\ Capture(c)
    /\ Became(Current(c), "dead_letter_permanent")
    /\ UNCHANGED <<redisVars, batch, failures, attempt, seen, applied, evicted,
                   misread, faults, crashes>>

WellFormed(e) == e \notin Malformed \union Throwing

Remembers(c, r) == \E i \in DOMAIN seen[c] : seen[c][i] = r

(* A rating the worker remembers is not recorded again. *)
HandleDuplicate(c) ==
    /\ at[c] = "handling" /\ WellFormed(Current(c))
    /\ Remembers(c, Rating(c))
    /\ Goto(c, "acking")
    /\ Became(Current(c), "duplicate")
    /\ UNCHANGED <<redisVars, batch, failures, attempt, seen, buried, applied,
                   evicted, misread, faults, crashes>>

(* Any other is sent to game-service. *)
HandleNew(c) ==
    /\ at[c] = "handling" /\ WellFormed(Current(c))
    /\ ~Remembers(c, Rating(c))
    /\ Goto(c, "recording")
    /\ attempt' = [attempt EXCEPT ![c] = 1]
    /\ UNCHANGED <<redisVars, batch, failures, seen, buried, history, faults, crashes>>

(* Mutant: the recorded rating is not remembered. *)
RecordedUnremembered(c) ==
    /\ at[c] = "recording"
    /\ Goto(c, "acking")
    /\ attempt' = [attempt EXCEPT ![c] = 0]
    /\ applied' = [applied EXCEPT ![Rating(c)] = @ + 1]
    /\ Became(Current(c), "applied")
    /\ UNCHANGED <<redisVars, batch, failures, seen, buried, evicted, misread,
                   faults, crashes>>

(* RecordRating succeeds: the rating enters the dedupe window, and the     *)
(* oldest leaves it when it is full.                                       *)
Recorded(c) ==
    /\ at[c] = "recording"
    /\ Goto(c, "acking")
    /\ attempt' = [attempt EXCEPT ![c] = 0]
    /\ applied' = [applied EXCEPT ![Rating(c)] = @ + 1]
    /\ Became(Current(c), "applied")
    /\ \/ /\ Len(seen[c]) < DedupeSize
          /\ seen' = [seen EXCEPT ![c] = Append(@, Rating(c))]
          /\ UNCHANGED evicted
       \/ /\ Len(seen[c]) >= DedupeSize
          /\ seen' = [seen EXCEPT ![c] = Append(Tail(@), Rating(c))]
          /\ evicted' = [evicted EXCEPT ![Head(seen[c])] = @ + 1]
    /\ UNCHANGED <<redisVars, batch, failures, buried, misread, faults, crashes>>

(* RecordRating fails with a transient error, after game-service recorded  *)
(* the rating or before: it is tried again, or captured in memory after    *)
(* the last attempt.                                                       *)
RecordFails(c) ==
    /\ at[c] = "recording"
    /\ \/ UNCHANGED <<applied, misread, faults>>
       \/ /\ Fault
          /\ applied' = [applied EXCEPT ![Rating(c)] = @ + 1]
          /\ misread' = [misread EXCEPT ![Rating(c)] = @ + 1]
    /\ \/ /\ attempt[c] < MaxAttempts
          /\ attempt' = [attempt EXCEPT ![c] = @ + 1]
          /\ UNCHANGED <<at, buried, outcome>>
       \/ /\ attempt[c] = MaxAttempts
          /\ attempt' = [attempt EXCEPT ![c] = 0]
          /\ Goto(c, "acking")
          /\ Capture(c)
          /\ Became(Current(c), "dead_letter_exhausted")
    /\ UNCHANGED <<redisVars, batch, failures, seen, evicted, crashes>>

(* RecordRating refuses the rating for good: it is captured in memory. *)
RecordRefused(c) ==
    /\ at[c] = "recording"
    /\ Goto(c, "acking")
    /\ attempt' = [attempt EXCEPT ![c] = 0]
    /\ Capture(c)
    /\ Became(Current(c), "dead_letter_permanent")
    /\ UNCHANGED <<redisVars, batch, failures, seen, applied, evicted, misread,
                   faults, crashes>>

(* The current entry is done with; the attempts of its event are forgotten. *)
Done(c) ==
    /\ Goto(c, "reading")
    /\ batch' = [batch EXCEPT ![c] = Tail(@)]
    /\ failures' = [failures EXCEPT ![c][Rating(c)] = 0]

(* XACK takes the entry off the PEL. *)
Ack(c) ==
    /\ at[c] = "acking"
    /\ Done(c)
    /\ acked' = acked \union {Current(c)}
    /\ pending' = [pending EXCEPT ![Current(c)] = None]
    /\ UNCHANGED <<published, cursor, origin, dlq, attempt, seen, buried, history, faults,
                   crashes>>

(* XACK fails, or its reply is lost after Redis ran it: logged, and the    *)
(* entry is in the PEL in the first case only.                             *)
AckFails(c) ==
    /\ at[c] = "acking" /\ Fault
    /\ Done(c)
    /\ \/ Became(Current(c), "ack_failed") /\ UNCHANGED <<pending, acked>>
       \/ /\ acked' = acked \union {Current(c)}
          /\ pending' = [pending EXCEPT ![Current(c)] = None]
          /\ UNCHANGED outcome
    /\ UNCHANGED <<published, cursor, origin, dlq, attempt, seen, buried, applied,
                   evicted, misread, crashes>>

(* The entry is written to the dead-letter stream, and then acknowledged. *)
DeadLetter(c) ==
    /\ at[c] = "dead_lettering"
    /\ dlq' = dlq \union {Current(c)}
    /\ Goto(c, "acking")
    /\ UNCHANGED <<published, cursor, origin, pending, acked, batch, failures, attempt, seen,
                   buried, history, faults, crashes>>

(* XADD to the dead-letter stream fails, or its reply is lost after Redis  *)
(* ran it: no acknowledgement, the entry stays in the PEL.                 *)
DeadLetterFails(c) ==
    /\ at[c] = "dead_lettering" /\ Fault
    /\ Goto(c, "reading")
    /\ batch' = [batch EXCEPT ![c] = Tail(@)]
    /\ Became(Current(c), "dlq_failed")
    /\ dlq' \in {dlq, dlq \union {Current(c)}}
    /\ UNCHANGED <<published, cursor, origin, pending, acked, failures, attempt, seen,
                   buried, applied, evicted, misread, crashes>>

(* Worker c dies.  What it read stays pending under a consumer name nobody *)
(* reads for again.                                                        *)
Crash(c) ==
    /\ at[c] # "down" /\ crashes < MaxCrashes
    /\ crashes' = crashes + 1
    /\ Goto(c, "down")
    /\ outcome' = [e \in Entries |->
                      IF \E i \in DOMAIN batch[c] : batch[c][i] = e
                      THEN "abandoned" ELSE outcome[e]]
    /\ batch' = [batch EXCEPT ![c] = <<>>]
    /\ failures' = [failures EXCEPT ![c] = [r \in Ratings |-> 0]]
    /\ attempt' = [attempt EXCEPT ![c] = 0]
    /\ seen' = [seen EXCEPT ![c] = <<>>]
    /\ buried' = [buried EXCEPT ![c] = {}]
    /\ UNCHANGED <<redisVars, applied, evicted, misread, faults>>

Handle(c) ==
    \/ Take(c) \/ TakeUndecodable(c) \/ HandlerFails(c) \/ HandleMalformed(c)
    \/ HandleDuplicate(c) \/ HandleNew(c) \/ Recorded(c) \/ RecordFails(c)
    \/ RecordRefused(c) \/ Ack(c) \/ AckFails(c) \/ DeadLetter(c) \/ DeadLetterFails(c)

Next ==
    \/ Publish
    \/ \E c \in Consumers : Boot(c) \/ Read(c) \/ ReadLost(c) \/ Handle(c) \/ Crash(c)

Spec == Init /\ [][Next]_vars

(* A worker that runs goes on reading and handling; RecordRating is        *)
(* assumed to answer.                                                      *)
Fairness == \A c \in Consumers : WF_vars(Read(c)) /\ WF_vars(Handle(c))
FairSpec == Spec /\ Fairness

(***************************************************************************)
(* Properties                                                              *)
(***************************************************************************)

(* Entry e is in the sink of worker c, or a full sink dropped it for later *)
(* ones.                                                                   *)
Captured(c, e) ==
    \/ e \in buried[c]
    \/ Cardinality(buried[c]) >= MaxBuried /\ \A f \in buried[c] : e < f

(* "We ACK only on" a terminal outcome: an acknowledged entry was applied, *)
(* was a duplicate, is durable on the dead-letter stream, or was captured  *)
(* in the memory of a worker, where a crash loses it and a full sink drops *)
(* it for later ones.                                                      *)
AckedIsSettled ==
    \A e \in acked :
        \/ e \in dlq
        \/ outcome[e] \in {"applied", "duplicate"}
        \/ /\ outcome[e] \in {"dead_letter_permanent", "dead_letter_exhausted"}
           /\ crashes > 0 \/ \E c \in Consumers : Captured(c, e)

(* A rating is recorded again only because a worker lost or outgrew its    *)
(* dedupe window, because the record was reported as an error, or because  *)
(* another worker got the repeat.                                          *)
RepeatsAccounted ==
    \A r \in Ratings :
        applied[r] <= Cardinality(Consumers) + crashes + evicted[r] + misread[r]

(* The PEL holds what is being worked on and what a failure left there,    *)
(* and every delivered entry is acknowledged or in the PEL.                *)
PendingExplained ==
    \A e \in Entries :
        /\ origin < e /\ e <= cursor => e \in acked \/ pending[e] # None
        /\ pending[e] # None =>
              \/ \E i \in DOMAIN batch[pending[e]] : batch[pending[e]][i] = e
              \/ outcome[e] \in {"failed", "dlq_failed", "ack_failed", "abandoned", "undelivered"}

(* What a worker read is settled, or still pending for a reason: no entry  *)
(* is lost between the stream, the handler and the acknowledgement.        *)
EntriesAccounted == AckedIsSettled /\ PendingExplained

(* Every entry a worker read is acknowledged, or stays in the PEL for one  *)
(* of the reasons above; none keeps the loop from the entries behind it.   *)
ReadIsFinished ==
    \A c \in Consumers : batch[c] # <<>> ~> batch[c] = <<>>
=============================================================================
