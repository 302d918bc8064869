----------------------- MODULE FixtureLifecycleProofs -----------------------
(***************************************************************************)
(* That a match is followed while it is played, for every kickoff, length, *)
(* delay, interval, TTL and bound.                                         *)
(*                                                                         *)
(* An answer may be hours old and answers overtake one another, so what    *)
(* the loop holds of the fixture says little of what the fixture is now.   *)
(* But a status that was heard was true once: while the match has not      *)
(* ended, nothing the loop has recorded, cached or under way says that it  *)
(* has (Heard).  A record that is routed by the clock is routed by the     *)
(* kickoff a list gave it, for a detail brings none and keeps the one that *)
(* is there, and the prune takes no record that the clock calls live       *)
(* (Dated).                                                                *)
(*                                                                         *)
(* The second part is about time: a final whistle reaches the bridge       *)
(* within a live tick.  After the whistle all the live tick can still hold *)
(* of before is a call made before it or a cached answer that runs out     *)
(* (Clocked, Outdated), so there is a moment after which the next tick     *)
(* that asks hears the final.  A call that brings nothing puts it off, and *)
(* so does the body without a status that it may leave in the cache, until *)
(* that has run out and the tick has asked again (Blanked, Followed).      *)
(*                                                                         *)
(* The third part is about the end: a match that is over is let go of.     *)
(* By a moment m the cached answers of before the end have run out, live   *)
(* polling has heard of it, and neither the clock nor a list has news.     *)
(* What then keeps the fixture tracked is a final, seen by m, and the      *)
(* window after it (Ended).  A detail asked for in that window may return  *)
(* after the prune and track it once more, but only early in a period of   *)
(* the discovery, so that its own window is over before the next prune     *)
(* (Periods) and there is no third time.                                   *)
(***************************************************************************)
EXTENDS FixtureLifecycle, TLAPS

StatusKeys == Keys \ {"lineups"}
StatusTasks == Tasks \ {"lineups", "prune"}

(* Every status the loop has recorded, cached or is about to learn is in   *)
(* S, and an answer without one is void.                                   *)
Heard(S) ==
    /\ record # None => record.status \in S
    /\ \A k \in StatusKeys : cache[k] # None => cache[k].answer \in S \union {"void"}
    /\ \A t \in StatusTasks : flight[t] # None => flight[t].answer \in S \union {"void"}

(* Of lineups the loop hears that they are out, or not.                    *)
LineupsHeard ==
    /\ cache["lineups"] # None => cache["lineups"].answer \in {"empty", "full"}
    /\ flight["lineups"] # None => flight["lineups"].answer \in {"empty", "full"}

LifecycleTypes == TypeOK /\ Heard(Statuses) /\ LineupsHeard

(* What the loop can have heard follows the match. *)
HeardWhatWas ==
    /\ provider = "NS" => Heard({"NS"})
    /\ provider = "LIVE" => Heard({"NS", "LIVE"})

(* The match is over exactly when its status says so, and not before its   *)
(* kickoff is it played.                                                   *)
MatchRuns ==
    /\ over = None <=> provider \in {"NS", "LIVE"}
    /\ provider = "LIVE" => now >= kickoff

(* The loop that adopted the match keeps its kickoff. *)
Dated ==
    adopted /\ over = None /\ now <= kickoff + MaxLive
        => record # None /\ record.kickoff = kickoff

IInv == LifecycleTypes /\ HeardWhatWas /\ MatchRuns /\ Dated

(* The keys and tasks that carry a status go together. *)
LEMMA StatusTasksHaveStatusKeys ==
    /\ StatusKeys = {"list", "preKO", "live", "fullTime"}
    /\ StatusTasks = {"discovery", "preKO", "live", "fullTime", "fallback"}
    /\ \A t \in StatusTasks : KeyOf[t] \in StatusKeys
    /\ \A t \in Tasks : KeyOf[t] \in Keys
BY DEF StatusKeys, StatusTasks, Keys, Tasks, Timed, KeyOf

(* What a call brings was heard before, or is the status of the moment.    *)
LEMMA AskedIsHeard ==
    ASSUME NEW S, Heard(S), provider \in S, NEW t \in StatusTasks, NEW time \in Int
    PROVE  Asked(t, time).answer \in S \union {"void"}
<1>1. KeyOf[t] \in StatusKeys /\ KeyOf[t] # "lineups"
  BY StatusTasksHaveStatusKeys
<1> QED
  BY <1>1 DEF Asked, Fresh, Heard

(* A call is a call. *)
LEMMA AskedIsCall ==
    ASSUME TypeOK, NEW t \in Tasks, NEW time \in Nat
    PROVE  Asked(t, time) \in Calls /\ Asked(t, time) # None
<1>1. KeyOf[t] \in Keys
  BY StatusTasksHaveStatusKeys
<1>2. cache[KeyOf[t]] \in OrNone(Entries)
  BY <1>1 DEF TypeOK
<1>3. Asked(t, time) \in Calls
  <2>1. CASE Fresh(KeyOf[t], time)
    BY <1>2, <2>1 DEF Asked, Fresh, OrNone, Entries, Calls
  <2>2. CASE ~Fresh(KeyOf[t], time)
    BY <2>2 DEF TypeOK, Asked, Calls, OrNone, Answers, Statuses
  <2> QED
    BY <2>1, <2>2
<1> QED
  BY <1>3, NoneIsNothing

(* An answer that lands is stored as it is, under a key of its own.        *)
LEMMA StoreKeepsTypes ==
    ASSUME TypeOK, NEW t \in Tasks \ {"prune"}, flight[t] # None, flight[t].answer \in Answers,
           Store(t)
    PROVE  cache' \in [Keys -> OrNone(Entries)]
<1>1. KeyOf[t] \in Keys /\ flight[t] \in Calls
  BY StatusTasksHaveStatusKeys DEF TypeOK, OrNone
<1>2. now + TtlOf(KeyOf[t], flight[t].answer) \in Int
  BY <1>1, WindowsAssumption DEF TypeOK, TtlOf, Times
<1>3. [answer |-> flight[t].answer, expires |-> now + TtlOf(KeyOf[t], flight[t].answer)] \in Entries
  BY <1>2 DEF Entries
<1> QED
  BY <1>1, <1>3 DEF Store, Stored, TypeOK, OrNone

LEMMA StoreKeepsHeard ==
    ASSUME TypeOK, NEW S, Heard(S), NEW t \in StatusTasks, flight[t] # None, Store(t)
    PROVE  \A k \in StatusKeys : cache'[k] # None => cache'[k].answer \in S \union {"void"}
<1>1. flight[t].answer \in S \union {"void"}
  BY DEF Heard
<1>2. cache \in [Keys -> OrNone(Entries)] /\ StatusKeys \subseteq Keys
  BY DEF TypeOK, StatusKeys
<1> QED
  BY <1>1, <1>2 DEF Store, Stored, Heard

(* What is left of a call that brings nothing.                             *)
LEMMA NothingIs ==
    ASSUME TypeOK, NEW t \in Tasks, BringNothing(t)
    PROVE  /\ KeyOf[t] \in Keys /\ t # "prune" /\ flight[t] # None
           /\ KeyOf[t] = "lineups" <=> t = "lineups"
           /\ \A k \in Keys : cache'[k] =
                  IF k # KeyOf[t] THEN cache[k]
                  ELSE IF t = "lineups" THEN [answer |-> "empty", expires |-> now + EmptyTtl]
                  ELSE [answer |-> "void", expires |-> now + Ttl[k]]
           /\ cache' \in [Keys -> OrNone(Entries)]
           /\ \A u \in Tasks : \/ flight'[u] = flight[u]
                               \/ u = t /\ flight'[u] = None
                               \/ u = "prune" /\ t = "discovery" /\ flight'[u] = Question(None, TRUE)
                               \/ u = "fallback" /\ t = "lineups" /\ flight'[u] = Asked("fallback", now)
           /\ t = "discovery" => flight' = BackFromDiscovery
           /\ t \notin {"discovery", "lineups"} => flight' = Back(t)
<1> DEFINE answer == IF t = "lineups" THEN "empty" ELSE "void"
           entry == [answer |-> answer, expires |-> now + TtlOf(KeyOf[t], answer)]
<1>0. KeyOf[t] \in Keys
  BY StatusTasksHaveStatusKeys
<1>1. /\ t # "prune" /\ flight[t] # None
      /\ cache' = [cache EXCEPT ![KeyOf[t]] = entry]
  BY DEF BringNothing, Stored
<1>2. KeyOf[t] = "lineups" <=> t = "lineups"
  BY DEF KeyOf, Tasks, Timed
<1>3. /\ flight \in [Tasks -> OrNone(Calls)] /\ cache \in [Keys -> OrNone(Entries)]
      /\ now \in Nat /\ EmptyTtl \in Nat /\ Ttl[KeyOf[t]] \in Nat
  BY <1>0, WindowsAssumption DEF TypeOK, Times
<1>4. TtlOf(KeyOf[t], answer) = IF t = "lineups" THEN EmptyTtl ELSE Ttl[KeyOf[t]]
  BY DEF TtlOf
<1>5. entry \in Entries
  BY <1>3, <1>4 DEF Entries, Answers
<1>6. /\ \A k \in Keys : cache'[k] = IF k = KeyOf[t] THEN entry ELSE cache[k]
      /\ cache' \in [Keys -> OrNone(Entries)]
  BY <1>0, <1>1, <1>3, <1>5 DEF OrNone
<1>7. /\ t = "discovery" => flight' = BackFromDiscovery
      /\ t = "lineups" => flight' = BackFromLineups("empty")
      /\ t \notin {"discovery", "lineups"} => flight' = Back(t)
  BY DEF BringNothing
<1>8. \A u \in Tasks : \/ flight'[u] = flight[u]
                       \/ u = t /\ flight'[u] = None
                       \/ u = "prune" /\ t = "discovery" /\ flight'[u] = Question(None, TRUE)
                       \/ u = "fallback" /\ t = "lineups" /\ flight'[u] = Asked("fallback", now)
  <2>1. CASE t = "discovery"
    BY <1>3, <1>7, <2>1 DEF BackFromDiscovery, Back
  <2>2. CASE t = "lineups"
    BY <1>3, <1>7, <2>2 DEF BackFromLineups, Back
  <2>3. CASE t \notin {"discovery", "lineups"}
    BY <1>3, <1>7, <2>3 DEF Back
  <2> QED
    BY <2>1, <2>2, <2>3
<1> QED
  BY <1>0, <1>1, <1>2, <1>4, <1>6, <1>7, <1>8

(* What upsertFixtures leaves is a record.                                 *)
LEMMA UpsertedType ==
    ASSUME TypeOK, NEW status \in Statuses, NEW k \in OrNone(Int)
    PROVE  Upserted(status, k) \in Records /\ Upserted(status, k) # None
<1>1. Upserted(status, k) \in Records
  <2>1. record = None \/ (record.kickoff \in OrNone(Int) /\ record.finalSince \in OrNone(Int))
    BY DEF TypeOK, OrNone, Records
  <2>2. now \in Int
    BY DEF TypeOK, Times
  <2> QED
    BY <2>1, <2>2 DEF Upserted, Records, OrNone
<1> QED
  BY <1>1, NoneIsNothing

(* What was heard stays among what could be heard: no answer changes on    *)
(* its way, and a new one is the status of the moment.                     *)
LEMMA HeardKept ==
    ASSUME LifecycleTypes, NEW S, Heard(S), provider \in S, [Next]_vars
    PROVE  Heard(S)'
<1> USE StatusTasksHaveStatusKeys DEF Heard
<1>0. /\ TypeOK /\ flight \in [Tasks -> OrNone(Calls)] /\ cache \in [Keys -> OrNone(Entries)]
      /\ StatusKeys \subseteq Keys /\ StatusTasks \subseteq Tasks
  BY DEF LifecycleTypes, TypeOK, StatusKeys, StatusTasks
<1>1. CASE LandDiscovery
  <2>1. \A k \in StatusKeys : cache'[k] # None => cache'[k].answer \in S \union {"void"}
    BY <1>0, <1>1, StoreKeepsHeard DEF LandDiscovery
  <2>2. \A t \in StatusTasks : flight'[t] # None => flight'[t].answer \in S \union {"void"}
    BY <1>0, <1>1 DEF LandDiscovery, BackFromDiscovery, Back, Tasks, StatusTasks
  <2>3. record' # None => record'.status \in S
    BY <1>1 DEF LandDiscovery, Upserted
  <2> QED
    BY <2>1, <2>2, <2>3
<1>2. CASE Prune
  BY <1>0, <1>2 DEF Prune, Back
<1>3. ASSUME NEW t \in {"preKO", "live", "fullTime"}, LandDetail(t) PROVE Heard(S)'
  <2>1. \A k \in StatusKeys : cache'[k] # None => cache'[k].answer \in S \union {"void"}
    BY <1>0, <1>3, StoreKeepsHeard DEF LandDetail
  <2> QED
    BY <1>0, <1>3, <2>1 DEF LandDetail, Back, Upserted
<1>4. CASE LandLineups
  <2>1. \A k \in StatusKeys : cache'[k] # None => cache'[k].answer \in S \union {"void"}
    BY <1>0, <1>4 DEF LandLineups, Store, Stored, KeyOf, StatusKeys
  <2>2. Asked("fallback", now).answer \in S \union {"void"}
    BY <1>0, AskedIsHeard DEF TypeOK, Times
  <2> QED
    BY <1>0, <1>4, <2>1, <2>2 DEF LandLineups, BackFromLineups, Back, StatusTasks
<1>5. CASE LandFallback
  <2>1. \A k \in StatusKeys : cache'[k] # None => cache'[k].answer \in S \union {"void"}
    BY <1>0, <1>5, StoreKeepsHeard DEF LandFallback
  <2> QED
    BY <1>0, <1>5, <2>1 DEF LandFallback, Back
<1>6. ASSUME NEW t \in Tasks, Fail(t) PROVE Heard(S)'
  BY <1>0, <1>6 DEF Fail, BackFromDiscovery, Back, StatusTasks
<1>7. CASE KickOff \/ Whistle \/ CallOff \/ UNCHANGED vars
  BY <1>7 DEF KickOff, Whistle, CallOff, vars, worker
<1>8. CASE Restart
  BY <1>0, <1>8 DEF Restart, Question
<1>9. CASE Pass
  <2>1. \A t \in StatusTasks : Asked(t, now + 1).answer \in S \union {"void"}
    BY <1>0, AskedIsHeard DEF TypeOK, Times
  <2>2. \A t \in StatusTasks : flight'[t] # None => flight'[t].answer \in S \union {"void"}
    BY <1>0, <1>9, <2>1 DEF Pass
  <2>3. \A k \in StatusKeys : cache'[k] # None => cache'[k].answer \in S \union {"void"}
    BY <1>0, <1>9 DEF Pass, Unexpired
  <2> QED
    BY <1>9, <2>2, <2>3 DEF Pass
<1>10. ASSUME NEW t \in Tasks, BringNothing(t) PROVE Heard(S)'
  <2>1. Asked("fallback", now).answer \in S \union {"void"}
    BY <1>0, AskedIsHeard DEF TypeOK, Times
  <2>2. \A u \in StatusTasks : flight'[u] # None => flight'[u].answer \in S \union {"void"}
    BY <1>0, <1>10, <2>1, NothingIs, ZenonT(30) DEF StatusTasks
  <2>3. \A k \in StatusKeys : cache'[k] # None => cache'[k].answer \in S \union {"void"}
    <3> SUFFICES ASSUME NEW k \in StatusKeys, cache'[k] # None
                 PROVE  cache'[k].answer \in S \union {"void"}
        OBVIOUS
    <3>1. k \in Keys /\ k # "lineups" /\ (KeyOf[t] = "lineups" <=> t = "lineups")
      BY <1>0, <1>10, NothingIs DEF StatusKeys
    <3>2. cache'[k] = IF k # KeyOf[t] THEN cache[k]
                      ELSE IF t = "lineups" THEN [answer |-> "empty", expires |-> now + EmptyTtl]
                      ELSE [answer |-> "void", expires |-> now + Ttl[k]]
      BY <1>0, <1>10, <3>1, NothingIs, ZenonT(30)
    <3>3. CASE k = KeyOf[t]
      BY <3>1, <3>2, <3>3
    <3>4. CASE k # KeyOf[t]
      BY <3>2, <3>4
    <3> QED
      BY <3>3, <3>4
  <2> QED
    BY <1>10, <2>2, <2>3 DEF BringNothing
<1> QED
  BY <1>1, <1>2, <1>3, <1>4, <1>5, <1>6, <1>7, <1>8, <1>9, <1>10 DEF Next

(* Only lineups are asked for under their key.                             *)
LEMMA LineupsKept ==
    ASSUME LifecycleTypes, [Next]_vars
    PROVE  LineupsHeard'
<1> USE DEF LineupsHeard
<1>1. /\ flight \in [Tasks -> OrNone(Calls)] /\ cache \in [Keys -> OrNone(Entries)]
      /\ "lineups" \in Tasks /\ "lineups" \in Keys /\ KeyOf["lineups"] = "lineups"
      /\ lineup \in {"empty", "full"} /\ LineupsHeard
  BY DEF LifecycleTypes, TypeOK, Tasks, Timed, Keys, KeyOf
<1>2. \A time : Asked("lineups", time).answer \in {"empty", "full"}
  BY <1>1 DEF Asked, Fresh
<1>3. CASE LandDiscovery
  BY <1>1, <1>3 DEF LandDiscovery, BackFromDiscovery, Back, Store, Stored, KeyOf
<1>4. CASE Prune
  BY <1>1, <1>4 DEF Prune, Back
<1>5. ASSUME NEW t \in {"preKO", "live", "fullTime"}, LandDetail(t) PROVE LineupsHeard'
  BY <1>1, <1>5 DEF LandDetail, Back, Store, Stored, KeyOf
<1>6. CASE LandLineups
  BY <1>1, <1>6 DEF LandLineups, BackFromLineups, Back, Store, Stored
<1>7. CASE LandFallback
  BY <1>1, <1>7 DEF LandFallback, Back, Store, Stored, KeyOf
<1>8. ASSUME NEW t \in Tasks, Fail(t) PROVE LineupsHeard'
  BY <1>1, <1>8 DEF Fail, BackFromDiscovery, Back
<1>9. CASE KickOff \/ Whistle \/ CallOff \/ UNCHANGED vars
  BY <1>1, <1>9 DEF KickOff, Whistle, CallOff, vars, worker
<1>10. CASE Restart
  BY <1>1, <1>10 DEF Restart
<1>11. CASE Pass
  BY <1>1, <1>2, <1>11 DEF Pass, Unexpired
<1>12. ASSUME NEW t \in Tasks, BringNothing(t) PROVE LineupsHeard'
  <2>1. TypeOK
    BY DEF LifecycleTypes
  <2>2. /\ KeyOf[t] = "lineups" <=> t = "lineups"
        /\ cache'["lineups"] =
               IF "lineups" # KeyOf[t] THEN cache["lineups"]
               ELSE IF t = "lineups" THEN [answer |-> "empty", expires |-> now + EmptyTtl]
               ELSE [answer |-> "void", expires |-> now + Ttl["lineups"]]
        /\ flight'["lineups"] = flight["lineups"] \/ flight'["lineups"] = None
    BY <1>1, <1>12, <2>1, NothingIs
  <2>3. cache'["lineups"] = cache["lineups"] \/ cache'["lineups"].answer = "empty"
    BY <2>2
  <2> QED
    BY <1>1, <2>2, <2>3
<1> QED
  BY <1>3, <1>4, <1>5, <1>6, <1>7, <1>8, <1>9, <1>10, <1>11, <1>12 DEF Next

(* Every variable keeps its type. *)
LEMMA TypesKept == LifecycleTypes /\ [Next]_vars => LifecycleTypes'
<1> SUFFICES ASSUME LifecycleTypes, [Next]_vars PROVE LifecycleTypes'
    OBVIOUS
<1>1. TypeOK /\ provider \in Statuses /\ Heard(Statuses)
  BY DEF LifecycleTypes, TypeOK
<1>2. Heard(Statuses)'
  BY <1>1, HeardKept
<1>3. TypeOK'
  <2> USE StatusTasksHaveStatusKeys
  <2>0. /\ flight \in [Tasks -> OrNone(Calls)]
        /\ now \in Nat /\ now + 1 \in Nat /\ kickoff \in OrNone(Int)
        /\ {"discovery", "preKO", "live", "fullTime", "fallback", "lineups", "prune"} \subseteq Tasks
        /\ Statuses \union {"void"} \subseteq Answers
    BY <1>1, MatchAssumption DEF TypeOK, Times, OrNone, Tasks, Timed, Answers
  <2>q. \A a \in OrNone(Answers), c \in BOOLEAN : Question(a, c) \in Calls
    BY <2>0 DEF Question, Calls
  <2>1. CASE LandDiscovery
    <3>1. flight["discovery"].answer \in Statuses \union {"void"}
      BY <1>1, <2>1 DEF LandDiscovery, Heard
    <3>2. cache' \in [Keys -> OrNone(Entries)]
      BY <1>1, <2>0, <2>1, <3>1, StoreKeepsTypes DEF LandDiscovery
    <3>3. Question(None, TRUE) \in Calls
      BY <2>q DEF OrNone
    <3>4. flight' \in [Tasks -> OrNone(Calls)]
      BY <2>0, <2>1, <3>3 DEF LandDiscovery, BackFromDiscovery, Back, OrNone
    <3>5. record' \in OrNone(Records)
      BY <1>1, <2>0, <2>1, <3>1, UpsertedType DEF LandDiscovery, TypeOK, OrNone
    <3> QED
      BY <1>1, <2>1, <3>2, <3>4, <3>5 DEF LandDiscovery, TypeOK, match
  <2>2. CASE Prune
    BY <1>1, <2>0, <2>2 DEF Prune, Back, TypeOK, OrNone, match, seen
  <2>3. ASSUME NEW t \in {"preKO", "live", "fullTime"}, LandDetail(t) PROVE TypeOK'
    <3>1. flight[t].answer \in Statuses \union {"void"}
      BY <1>1, <2>3 DEF LandDetail, Heard
    <3>2. cache' \in [Keys -> OrNone(Entries)]
      BY <1>1, <2>0, <2>3, <3>1, StoreKeepsTypes DEF LandDetail
    <3>3. flight' \in [Tasks -> OrNone(Calls)]
      BY <2>0, <2>3 DEF LandDetail, Back, OrNone
    <3>4. record' \in OrNone(Records)
      <4>1. CASE flight[t].answer = "void"
        BY <1>1, <2>3, <4>1 DEF LandDetail, TypeOK
      <4>2. CASE flight[t].answer # "void"
        <5>1. flight[t].answer \in Statuses /\ None \in OrNone(Int)
          BY <3>1, <4>2 DEF OrNone
        <5>2. Upserted(flight[t].answer, None) \in Records
          BY <1>1, <5>1, UpsertedType
        <5> QED
          BY <2>3, <4>2, <5>2 DEF LandDetail, OrNone
      <4> QED
        BY <4>1, <4>2
    <3> QED
      BY <1>1, <2>3, <3>2, <3>3, <3>4 DEF LandDetail, TypeOK, match
  <2>4. CASE LandLineups
    <3>1. Asked("fallback", now) \in Calls
      BY <1>1, <2>0, AskedIsCall
    <3>2. flight' \in [Tasks -> OrNone(Calls)]
      BY <2>0, <2>4, <3>1 DEF LandLineups, BackFromLineups, Back, OrNone
    <3>3. cache' \in [Keys -> OrNone(Entries)]
      <4>1. flight["lineups"].answer \in Answers
        BY <2>4 DEF LandLineups, LifecycleTypes, LineupsHeard, Answers
      <4> QED
        BY <1>1, <2>0, <2>4, <4>1, StoreKeepsTypes DEF LandLineups
    <3> QED
      BY <1>1, <2>4, <3>2, <3>3 DEF LandLineups, TypeOK, match, seen
  <2>5. CASE LandFallback
    <3>1. flight["fallback"].answer \in Statuses \union {"void"}
      BY <1>1, <2>5 DEF LandFallback, Heard
    <3>2. cache' \in [Keys -> OrNone(Entries)]
      BY <1>1, <2>0, <2>5, <3>1, StoreKeepsTypes DEF LandFallback
    <3>3. flight' \in [Tasks -> OrNone(Calls)]
      BY <2>0, <2>5 DEF LandFallback, Back, OrNone
    <3> QED
      BY <1>1, <2>5, <3>2, <3>3 DEF LandFallback, TypeOK, match
  <2>6. ASSUME NEW t \in Tasks, Fail(t) PROVE TypeOK'
    <3>1. Question(None, TRUE) \in Calls
      BY <2>q DEF OrNone
    <3>2. flight' \in [Tasks -> OrNone(Calls)]
      BY <2>0, <2>6, <3>1 DEF Fail, BackFromDiscovery, Back, OrNone
    <3>3. failures' \in 0..MaxFaults
      BY <1>1, <2>6, LifecycleBounds DEF Fail, TypeOK
    <3> QED
      BY <1>1, <2>6, <3>2, <3>3 DEF Fail, TypeOK, match, seen
  <2>7. CASE KickOff \/ Whistle \/ CallOff
    BY <1>1, <2>7 DEF KickOff, Whistle, CallOff, TypeOK, OrNone, Statuses, worker, seen
  <2>8. CASE Restart
    <3>1. Question(provider, FALSE) \in Calls
      BY <1>1, <2>0, <2>q DEF OrNone
    <3>2. booted' \in Nat
      BY <2>0, <2>8, WindowsAssumption DEF Restart, Timed
    <3>3. flight' \in [Tasks -> OrNone(Calls)] /\ cache' \in [Keys -> OrNone(Entries)]
      BY <2>8, <3>1 DEF Restart, OrNone
    <3>4. restarts' \in 0..MaxFaults
      BY <1>1, <2>8, LifecycleBounds DEF Restart, TypeOK
    <3> QED
      BY <1>1, <2>8, <3>2, <3>3, <3>4 DEF Restart, TypeOK, OrNone, match
  <2>9. CASE Pass
    <3>1. \A t \in Tasks : Asked(t, now + 1) \in Calls
      BY <1>1, <2>0, AskedIsCall
    <3>2. flight' \in [Tasks -> OrNone(Calls)]
      BY <2>0, <2>9, <3>1 DEF Pass, OrNone
    <3>3. cache' \in [Keys -> OrNone(Entries)]
      BY <1>1, <2>9 DEF Pass, Unexpired, TypeOK, OrNone
    <3>4. now' \in Times
      BY <2>0, <2>9, LifecycleBounds DEF Pass, Times
    <3> QED
      BY <1>1, <2>9, <3>2, <3>3, <3>4 DEF Pass, TypeOK, match, seen
  <2>10. CASE UNCHANGED vars
    BY <1>1, <2>10 DEF vars, TypeOK, worker, match, seen
  <2>11. ASSUME NEW t \in Tasks, BringNothing(t) PROVE TypeOK'
    <3>1. Asked("fallback", now) \in Calls /\ Question(None, TRUE) \in Calls
      BY <1>1, <2>0, <2>q, AskedIsCall DEF OrNone
    <3>2. flight' \in [Tasks -> OrNone(Calls)]
      BY <2>0, <2>11, <3>1 DEF BringNothing, BackFromDiscovery, BackFromLineups, Back, OrNone
    <3>3. failures' \in 0..MaxFaults
      BY <1>1, <2>11, LifecycleBounds DEF BringNothing, TypeOK
    <3>4. cache' \in [Keys -> OrNone(Entries)]
      BY <1>1, <2>11, NothingIs
    <3> QED
      BY <1>1, <2>11, <3>2, <3>3, <3>4 DEF BringNothing, TypeOK, match, seen
  <2> QED
    BY <2>1, <2>2, <2>3, <2>4, <2>5, <2>6, <2>7, <2>8, <2>9, <2>10, <2>11 DEF Next
<1>4. LineupsHeard'
  BY LineupsKept
<1> QED
  BY <1>2, <1>3, <1>4 DEF LifecycleTypes

(* While it is played or not yet, nothing the loop hears says it is over.  *)
LEMMA HistoryKept ==
    LifecycleTypes /\ HeardWhatWas /\ MatchRuns /\ [Next]_vars => (HeardWhatWas /\ MatchRuns)'
<1> SUFFICES ASSUME LifecycleTypes, HeardWhatWas, MatchRuns, [Next]_vars
             PROVE  (HeardWhatWas /\ MatchRuns)'
    OBVIOUS
<1>1. /\ now \in Nat /\ kickoff \in Nat /\ provider \in Statuses
      /\ None \notin Int
  BY MatchAssumption, NoneIsNothing DEF LifecycleTypes, TypeOK, Times
<1>2. Heard({"NS"}) => Heard({"NS", "LIVE"})
  BY DEF Heard
<1>3. CASE KickOff
  <2>1. Heard({"NS", "LIVE"})'
    BY <1>1, <1>2, <1>3 DEF KickOff, HeardWhatWas, Heard, worker
  <2> QED
    BY <1>1, <1>3, <2>1 DEF KickOff, HeardWhatWas, MatchRuns
<1>4. CASE Whistle \/ CallOff
  BY <1>1, <1>4 DEF Whistle, CallOff, HeardWhatWas, MatchRuns
<1>5. CASE ~KickOff /\ ~Whistle /\ ~CallOff
  <2>1. provider' = provider /\ over' = over /\ kickoff' = kickoff /\ (now' = now \/ now' = now + 1)
    BY <1>5 DEF Next, LandDiscovery, Prune, LandDetail, LandLineups, LandFallback, Fail, BringNothing,
         Restart, Pass, match, vars
  <2>2. provider = "NS" => Heard({"NS"})'
    BY HeardKept DEF HeardWhatWas
  <2>3. provider = "LIVE" => Heard({"NS", "LIVE"})'
    BY HeardKept DEF HeardWhatWas
  <2> QED
    BY <1>1, <2>1, <2>2, <2>3 DEF HeardWhatWas, MatchRuns
<1> QED
  BY <1>3, <1>4, <1>5

(* A dated record of a match that is not over is not settled.              *)
LEMMA DatedIsRouted ==
    ASSUME LifecycleTypes, HeardWhatWas, MatchRuns, Dated,
           adopted, over = None, now <= kickoff + MaxLive
    PROVE  /\ record # None /\ record.kickoff = kickoff /\ record.status \in {"NS", "LIVE"}
           /\ Phase # "settled"
           /\ now >= kickoff => Phase = "live"
<1>1. record # None /\ record.kickoff = kickoff
  BY DEF Dated
<1>2. record.status \in {"NS", "LIVE"}
  BY <1>1 DEF MatchRuns, HeardWhatWas, Heard
<1>3. now \in Nat /\ kickoff \in Nat /\ kickoff # None
  BY MatchAssumption, NoneIsNothing DEF LifecycleTypes, TypeOK, Times
<1>4. CASE record.status = "LIVE"
  BY <1>1, <1>4 DEF Phase, PhaseAt
<1>5. CASE record.status = "NS"
  <2>1. Phase = ByClock(kickoff, now)
    BY <1>1, <1>5 DEF Phase, PhaseAt
  <2>2. ByClock(kickoff, now) # "settled" /\ (now >= kickoff => ByClock(kickoff, now) = "live")
    BY <1>3, WindowsAssumption DEF ByClock
  <2> QED
    BY <1>1, <1>5, <2>1, <2>2
<1> QED
  BY <1>1, <1>2, <1>4, <1>5

(* The kickoff of an adopted match is not lost: a list brings it again, a  *)
(* detail keeps it, and the prune leaves the record alone.                 *)
LEMMA DatedKept ==
    LifecycleTypes /\ HeardWhatWas /\ MatchRuns /\ Dated /\ [Next]_vars => Dated'
<1> SUFFICES ASSUME LifecycleTypes, HeardWhatWas, MatchRuns, Dated, [Next]_vars,
                    adopted', over' = None, now' <= kickoff' + MaxLive
             PROVE  record' # None /\ record'.kickoff = kickoff'
    BY DEF Dated
<1>1. /\ TypeOK /\ now \in Nat /\ kickoff \in Nat /\ kickoff \in OrNone(Int) /\ None \in OrNone(Int)
      /\ kickoff # None /\ MaxLive \in Nat /\ None \notin Int
  BY MatchAssumption, WindowsAssumption, NoneIsNothing DEF LifecycleTypes, TypeOK, Times, OrNone
<1>2. CASE LandDiscovery
  <2>1. over = None /\ kickoff' = kickoff /\ now' = now /\ flight["discovery"].answer \in Statuses \union {"void"}
    BY <1>2 DEF LandDiscovery, match, LifecycleTypes, Heard, StatusTasks, Tasks, Timed
  <2>2. CASE flight["discovery"].answer # "void" /\ Discoverable(flight["discovery"].answer)
    <3>1. record' = Upserted(flight["discovery"].answer, kickoff)
      BY <1>2, <2>2 DEF LandDiscovery
    <3>2. record' # None
      BY <1>1, <2>1, <2>2, <3>1, UpsertedType
    <3>3. record'.kickoff = kickoff
      BY <1>1, <3>1 DEF Upserted
    <3> QED
      BY <2>1, <3>2, <3>3
  <2>3. CASE ~(flight["discovery"].answer # "void" /\ Discoverable(flight["discovery"].answer))
    BY <1>2, <2>1, <2>3 DEF LandDiscovery, Dated
  <2> QED
    BY <2>2, <2>3
<1>3. CASE Prune
  <2>1. adopted /\ over = None /\ now <= kickoff + MaxLive /\ kickoff' = kickoff
    BY <1>3 DEF Prune, match, seen
  <2> QED
    BY <1>3, <2>1, DatedIsRouted DEF Prune
<1>4. ASSUME NEW t \in {"preKO", "live", "fullTime"}, LandDetail(t)
      PROVE  record' # None /\ record'.kickoff = kickoff'
  <2>1. adopted /\ over = None /\ now <= kickoff + MaxLive /\ kickoff' = kickoff
    BY <1>4 DEF LandDetail, match
  <2>2. record # None /\ record.kickoff = kickoff
    BY <2>1 DEF Dated
  <2>3. flight[t].answer \in Statuses \union {"void"}
    BY <1>4 DEF LandDetail, LifecycleTypes, Heard, StatusTasks, Tasks, Timed
  <2>4. record' # None
    BY <1>1, <1>4, <2>2, <2>3, UpsertedType DEF LandDetail
  <2>5. record'.kickoff = record.kickoff
    BY <1>4, <2>2 DEF LandDetail, Upserted
  <2> QED
    BY <2>1, <2>2, <2>4, <2>5
<1>5. CASE Whistle \/ CallOff \/ Restart
  BY <1>1, <1>5 DEF Whistle, CallOff, Restart
<1>6. CASE LandLineups \/ LandFallback \/ KickOff \/ Pass \/ UNCHANGED vars
             \/ \E t \in Tasks : Fail(t) \/ BringNothing(t)
  <2>1. record' = record /\ adopted' = adopted /\ over' = over /\ kickoff' = kickoff
        /\ (now' = now \/ now' = now + 1)
    BY <1>6 DEF LandLineups, LandFallback, KickOff, Pass, Fail, BringNothing, vars, worker, match, seen
  <2>2. now <= kickoff + MaxLive
    BY <1>1, <2>1
  <2> QED
    BY <2>1, <2>2 DEF Dated
<1> QED
  BY <1>2, <1>3, <1>4, <1>5, <1>6 DEF Next

(* The invariant holds at boot, when only the discovery is under way.      *)
LEMMA Initially == Init => IInv
<1> SUFFICES ASSUME Init PROVE IInv
    OBVIOUS
<1>1. TypeOK
  <2>1. Question(provider, FALSE) \in Calls
    BY DEF Init, Question, Calls, OrNone, Answers, Statuses
  <2>2. flight \in [Tasks -> OrNone(Calls)] /\ cache \in [Keys -> OrNone(Entries)]
    BY <2>1 DEF Init, OrNone
  <2>3. now \in Times /\ 0 \in 0..MaxFaults
    BY LifecycleBounds DEF Init, Times
  <2> QED
    BY <2>2, <2>3 DEF Init, TypeOK, Statuses, OrNone
<1>2. Heard({"NS"})
  BY StatusTasksHaveStatusKeys DEF Init, Heard, Question, Keys, Tasks, Timed
<1>3. Heard(Statuses)
  BY <1>2 DEF Heard, Statuses
<1>4. LineupsHeard
  BY DEF Init, LineupsHeard, Keys, Tasks, Timed
<1> QED
  BY <1>1, <1>2, <1>3, <1>4 DEF Init, IInv, LifecycleTypes, HeardWhatWas, MatchRuns, Dated

THEOREM Invariance == Spec => []IInv
<1>1. IInv /\ [Next]_vars => IInv'
  BY TypesKept, HistoryKept, DatedKept DEF IInv
<1> QED
  BY Initially, <1>1, PTL DEF Spec

(* The live tick asks for an adopted match as long as it is played, however *)
(* old and however ordered the answers are that the loop has heard since.  *)
THEOREM FollowedWhilePlayed == Spec => []InPlayRouted
<1>1. IInv => InPlayRouted
  <2> SUFFICES ASSUME IInv, adopted, provider = "LIVE", now <= kickoff + MaxLive
               PROVE  Phase = "live"
      BY DEF InPlayRouted
  <2>1. over = None /\ now >= kickoff
    BY DEF IInv, MatchRuns
  <2> QED
    BY <2>1, DatedIsRouted DEF IInv
<1> QED
  BY Invariance, <1>1, PTL

(* Every variable of the lifecycle keeps its type. *)
THEOREM TypeCorrect == Spec => []TypeOK
<1>1. IInv => TypeOK
  BY DEF IInv, LifecycleTypes
<1> QED
  BY Invariance, <1>1, PTL

---------------------------------------------------------------------------
(* The final whistle.                                                      *)

(* Since when, at the latest, the live tick is free to ask again after n   *)
(* failures, and when it last could.                                       *)
Slack(n) == LiveCached + Latency + n * Setback
FreeBy == over + Slack(failures)
LastTick == now - ((now - booted) % Every["live"])

(* What is in the cache or on its way of before the end.                   *)
Before == {"NS", "LIVE"}

(* A call is out no longer than calls are, an answer is cached no longer   *)
(* than answers are, and a final one has been through the bridge; a call   *)
(* that turns out to bring nothing is known for it only out of the cache.  *)
Clocked ==
    /\ over # None => over <= now
    /\ flight["live"] # None =>
           /\ flight["live"].since <= now /\ now <= flight["live"].since + Latency
           /\ flight["live"].answer = "void" => flight["live"].cached
    /\ cache["live"] # None =>
           /\ cache["live"].expires <= now + Ttl["live"]
           /\ cache["live"].answer = "FT" => delivered

(* After the whistle, what the live tick holds of before is from before.   *)
Outdated ==
    provider = "FT" =>
        /\ over >= kickoff /\ Heard({"NS", "LIVE", "FT"})
        /\ flight["live"] # None /\ flight["live"].answer \in Before =>
               /\ flight["live"].since <= over + LiveCached
               /\ ~flight["live"].cached => flight["live"].since <= over
        /\ cache["live"] # None /\ cache["live"].answer \in Before =>
               Ttl["live"] = 0 \/ cache["live"].expires <= over + LiveCached

(* The answers without a status that the live tick holds are served by m.  *)
Blanked(m) ==
    /\ flight["live"] # None /\ flight["live"].answer = "void" =>
           flight["live"].since + Latency <= m
    /\ cache["live"] # None /\ cache["live"].answer = "void" =>
           Ttl["live"] = 0 \/ cache["live"].expires + Latency <= m

(* The final is still to be delivered, and there is time left for it.      *)
Awaited ==
    /\ provider = "FT" /\ adopted /\ ~listFinal /\ ~delivered
    /\ over + LiveAnswer <= kickoff + MaxLive

(* Then the record is in the live phase, and the live tick has asked as    *)
(* soon as it could, or will at the next one.                              *)
Followed ==
    Awaited =>
        /\ record # None /\ record.kickoff = kickoff /\ record.status \in {"NS", "LIVE"}
        /\ flight["live"] = None => LastTick <= FreeBy
        /\ flight["live"] # None => flight["live"].since <= FreeBy + Every["live"]
        /\ Blanked(FreeBy)

DeliveryInv == IInv /\ Clocked /\ Outdated /\ Followed

(* The next moment is one of the tick, or one further away from the last.  *)
LEMMA NextTick ==
    ASSUME NEW x \in Int, NEW n \in Nat \ {0}
    PROVE  /\ x % n \in 0 .. n - 1
           /\ (x + 1) % n = 0 \/ (x + 1) % n = (x % n) + 1
           /\ (x + 1) % n = 0 => x % n = n - 1
<1> DEFINE q == x \div n
           r == x % n
           q1 == (x + 1) \div n
           r1 == (x + 1) % n
<1>1. /\ q \in Int /\ r \in 0 .. n - 1 /\ x = n * q + r
      /\ q1 \in Int /\ r1 \in 0 .. n - 1 /\ x + 1 = n * q1 + r1
  OBVIOUS
<1> HIDE DEF q, r, q1, r1
<1> DEFINE d == q1 - q
<1>2. d \in Int /\ n * d = n * q1 - n * q
  BY <1>1
<1> HIDE DEF d
<1>3. n * d = r + 1 - r1
  BY <1>1, <1>2
<1>4. d >= 2 => n * d >= n * 2
  BY <1>2
<1>5. d <= -1 => n * d <= n * (-1)
  BY <1>2
<1>6. d \in {0, 1}
  BY <1>1, <1>2, <1>3, <1>4, <1>5
<1>7. r1 = 0 \/ r1 = r + 1
  BY <1>1, <1>3, <1>6
<1>8. r1 = 0 => r = n - 1
  BY <1>1, <1>3, <1>6
<1> QED
  BY <1>1, <1>7, <1>8 DEF r, r1

(* A moment of the tick is one when taken for the start of the timers.     *)
LEMMA Aligned ==
    ASSUME NEW x \in Int, NEW n \in Nat \ {0}
    PROVE  (x - (x % n)) % n = 0
<1> DEFINE q == x \div n
           r == x % n
           q1 == (x - r) \div n
           r1 == (x - r) % n
<1>1. q \in Int /\ r \in 0 .. n - 1 /\ x = n * q + r
  OBVIOUS
<1>2. x - r \in Int
  BY <1>1
<1>3. q1 \in Int /\ r1 \in 0 .. n - 1 /\ x - r = n * q1 + r1
  <2> DEFINE y == x - r
  <2>1. y \in Int
    BY <1>2
  <2> HIDE DEF y
  <2>2. (y \div n) \in Int /\ (y % n) \in 0 .. n - 1 /\ y = n * (y \div n) + (y % n)
    BY <2>1
  <2> QED
    BY <2>2 DEF y
<1> HIDE DEF q, r, q1, r1
<1> DEFINE d == q - q1
<1>4. d \in Int /\ n * d = n * q - n * q1
  BY <1>1, <1>3
<1> HIDE DEF d
<1>5. n * d = r1
  BY <1>1, <1>3, <1>4
<1>6. d >= 1 => n * d >= n
  BY <1>4
<1>7. d <= -1 => n * d <= -n
  BY <1>4
<1>8. d = 0
  BY <1>3, <1>4, <1>5, <1>6, <1>7
<1>9. r1 = 0
  BY <1>5, <1>8
<1> QED
  BY <1>9 DEF r1, r

LEMMA SlackIs ==
    /\ LiveCached \in Nat /\ Latency \in Nat /\ Every["live"] \in Nat \ {0} /\ Ttl["live"] \in Nat
    /\ Ttl["live"] # 0 => LiveCached = Latency + Ttl["live"]
    /\ Setback \in Nat /\ Setback = Every["live"] + Ttl["live"] + 2 * Latency
    /\ \A n \in Nat : /\ Slack(n) \in Nat /\ Slack(n) >= LiveCached + Latency
                       /\ Slack(n + 1) = Slack(n) + Setback
    /\ failures \in Nat => LiveAnswer = Slack(failures) + Every["live"] + Latency
<1> DEFINE e == Every["live"]
           l == Latency
           w == Setback
<1>1. /\ e \in Nat \ {0} /\ l \in Nat /\ Ttl["live"] \in Nat
      /\ w \in Nat /\ w = e + Ttl["live"] + 2 * l
  BY WindowsAssumption, LifecycleBounds DEF Timed, Keys, Setback
<1>2. LiveCached \in Nat /\ (Ttl["live"] # 0 => LiveCached = l + Ttl["live"])
  BY <1>1 DEF LiveCached
<1>3. \A n \in Nat : n * w \in Nat /\ (n + 1) * w = n * w + w
  BY <1>1
<1> HIDE DEF e, l, w
<1>4. \A n \in Nat : /\ LiveCached + l + n * w \in Nat
                     /\ LiveCached + l + n * w >= LiveCached + l
                     /\ LiveCached + l + (n + 1) * w = (LiveCached + l + n * w) + w
  <2> TAKE n \in Nat
  <2> DEFINE x == n * w
             y == (n + 1) * w
  <2>1. x \in Nat /\ y = x + w
    BY <1>3
  <2> HIDE DEF x, y
  <2>2. /\ LiveCached + l + x \in Nat /\ LiveCached + l + x >= LiveCached + l
        /\ LiveCached + l + y = (LiveCached + l + x) + w
    BY <1>1, <1>2, <2>1
  <2> QED
    BY <2>2 DEF x, y
<1>5. failures \in Nat => LiveCached + failures * w + e + 2 * l
                             = (LiveCached + l + failures * w) + e + l
  BY <1>1, <1>2, <1>3
<1> QED
  BY <1>1, <1>2, <1>4, <1>5 DEF Slack, LiveAnswer, e, l, w

(* What the arguments on time use of the types.                            *)
LEMMA TimeTypes ==
    ASSUME LifecycleTypes
    PROVE  /\ now \in Nat /\ booted \in Nat /\ kickoff \in Nat /\ failures \in Nat /\ MaxLive \in Nat
           /\ over # None => over \in Nat
           /\ flight \in [Tasks -> OrNone(Calls)] /\ cache \in [Keys -> OrNone(Entries)]
           /\ flight["live"] # None => flight["live"].since \in Nat /\ flight["live"].answer \in Statuses \union {"void"}
           /\ cache["live"] # None => cache["live"].expires \in Int
           /\ {"discovery", "preKO", "live", "fullTime", "lineups", "prune", "fallback"} = Tasks
           /\ {"list", "preKO", "live", "fullTime", "lineups"} = Keys
<1>1. TypeOK /\ Heard(Statuses)
  BY DEF LifecycleTypes
<1>2. /\ {"discovery", "preKO", "live", "fullTime", "lineups", "prune", "fallback"} = Tasks
      /\ {"list", "preKO", "live", "fullTime", "lineups"} = Keys
      /\ "live" \in StatusTasks
  BY DEF Tasks, Timed, Keys, StatusTasks
<1>3. flight["live"] # None => flight["live"].since \in Nat /\ flight["live"].answer \in Statuses \union {"void"}
  BY <1>1, <1>2 DEF TypeOK, OrNone, Calls, Heard
<1>4. cache["live"] # None => cache["live"].expires \in Int
  BY <1>1, <1>2 DEF TypeOK, OrNone, Entries
<1> QED
  BY <1>1, <1>2, <1>3, <1>4, WindowsAssumption, MatchAssumption DEF TypeOK, Times, OrNone

(* A record that the clock or its status calls live.                       *)
LEMMA LiveWhile ==
    ASSUME LifecycleTypes, record # None, record.kickoff = kickoff, record.status \in {"NS", "LIVE"},
           NEW time \in Nat, time >= kickoff, time <= kickoff + MaxLive
    PROVE  PhaseAt(time) = "live"
<1>1. kickoff \in Nat /\ kickoff # None /\ Grace \in Nat /\ MaxLive \in Nat
  BY TimeTypes, NoneIsNothing, WindowsAssumption
<1> QED
  BY <1>1 DEF PhaseAt, ByClock

(* While the final is awaited there is time left for it.                   *)
LEMMA InTime ==
    ASSUME DeliveryInv, Awaited
    PROVE  /\ now <= over + LiveAnswer /\ now <= kickoff + MaxLive /\ now >= kickoff
           /\ flight["live"] = None => now + 1 <= kickoff + MaxLive /\ now + 1 <= FreeBy + Every["live"]
           /\ Phase = "live"
<1> DEFINE e == Every["live"]
           l == Latency
           s == Slack(failures)
           r == (now - booted) % e
<1>1. /\ now \in Nat /\ booted \in Nat /\ kickoff \in Nat /\ failures \in Nat /\ MaxLive \in Nat
      /\ over # None => over \in Nat
      /\ flight["live"] # None => flight["live"].since \in Nat
  BY TimeTypes DEF DeliveryInv, IInv
<1>2. over # None /\ over <= now /\ over >= kickoff
  BY DEF DeliveryInv, IInv, MatchRuns, Clocked, Outdated, Awaited
<1>3. /\ e \in Nat \ {0} /\ l \in Nat /\ s \in Nat /\ LiveAnswer = s + e + l /\ FreeBy = over + s
  BY <1>1, SlackIs DEF FreeBy
<1>4. r \in 0 .. e - 1
  <2>1. now - booted \in Int /\ e \in Nat \ {0}
    BY <1>1, <1>3
  <2> HIDE DEF e
  <2> QED
    BY <2>1, NextTick
<1>5. /\ flight["live"] = None => now - r <= FreeBy
      /\ flight["live"] # None => flight["live"].since <= FreeBy + e /\ now <= flight["live"].since + l
      /\ over + LiveAnswer <= kickoff + MaxLive
  BY DEF DeliveryInv, Followed, Clocked, Awaited, LastTick
<1> HIDE DEF e, l, s, r
<1>6. /\ flight["live"] = None => now + 1 <= FreeBy + e
      /\ now <= over + LiveAnswer
      /\ over + LiveAnswer >= FreeBy + e
  BY <1>1, <1>2, <1>3, <1>4, <1>5
<1>7. /\ now <= kickoff + MaxLive /\ now >= kickoff
      /\ flight["live"] = None => now + 1 <= kickoff + MaxLive
  BY <1>1, <1>2, <1>3, <1>5, <1>6
<1>8. Phase = "live"
  BY <1>1, <1>7, LiveWhile DEF DeliveryInv, IInv, Followed, Phase
<1> QED
  BY <1>6, <1>7, <1>8 DEF e

(* Steps that have nothing to do with the live tick, its call or its cache. *)
LiveAside ==
    /\ now' = now /\ booted' = booted
    /\ flight'["live"] = flight["live"] /\ cache'["live"] = cache["live"]

LEMMA LeftAside ==
    ASSUME LifecycleTypes,
           \/ LandDiscovery \/ Prune \/ LandLineups \/ LandFallback
           \/ \E t \in {"preKO", "fullTime"} : LandDetail(t)
           \/ \E t \in Tasks \ {"live"} : Fail(t) \/ BringNothing(t)
           \/ KickOff \/ Whistle \/ CallOff \/ UNCHANGED vars
    PROVE  LiveAside
<1>1. /\ flight \in [Tasks -> OrNone(Calls)] /\ cache \in [Keys -> OrNone(Entries)]
      /\ {"discovery", "preKO", "live", "fullTime", "lineups", "prune", "fallback"} = Tasks
      /\ {"list", "preKO", "live", "fullTime", "lineups"} = Keys
  BY TimeTypes
<1>2. \A t \in Tasks : Store(t) /\ KeyOf[t] # "live" => cache'["live"] = cache["live"]
  BY <1>1 DEF Store, Stored
<1>3. /\ KeyOf["discovery"] # "live" /\ KeyOf["preKO"] # "live" /\ KeyOf["fullTime"] # "live"
      /\ KeyOf["lineups"] # "live" /\ KeyOf["fallback"] # "live"
  BY DEF KeyOf
<1>4. CASE LandDiscovery
  BY <1>1, <1>2, <1>3, <1>4 DEF LandDiscovery, BackFromDiscovery, Back, LiveAside
<1>5. CASE Prune
  BY <1>1, <1>5 DEF Prune, Back, LiveAside
<1>6. CASE LandLineups
  BY <1>1, <1>2, <1>3, <1>6 DEF LandLineups, BackFromLineups, Back, LiveAside
<1>7. CASE LandFallback
  BY <1>1, <1>2, <1>3, <1>7 DEF LandFallback, Back, LiveAside
<1>8. ASSUME NEW t \in {"preKO", "fullTime"}, LandDetail(t) PROVE LiveAside
  BY <1>1, <1>2, <1>3, <1>8 DEF LandDetail, Back, LiveAside
<1>9. ASSUME NEW t \in Tasks \ {"live"}, Fail(t) PROVE LiveAside
  BY <1>1, <1>9 DEF Fail, BackFromDiscovery, Back, LiveAside
<1>10. CASE KickOff \/ Whistle \/ CallOff \/ UNCHANGED vars
  BY <1>10 DEF KickOff, Whistle, CallOff, vars, worker, LiveAside
<1>11. ASSUME NEW t \in Tasks \ {"live"}, BringNothing(t) PROVE LiveAside
  <2>1. TypeOK /\ KeyOf[t] # "live"
    BY <1>1 DEF LifecycleTypes, KeyOf
  <2>2. cache'["live"] = cache["live"] /\ flight'["live"] = flight["live"]
    BY <1>1, <1>11, <2>1, NothingIs
  <2> QED
    BY <1>11, <2>2 DEF BringNothing, LiveAside
<1> QED
  BY <1>4, <1>5, <1>6, <1>7, <1>8, <1>9, <1>10, <1>11

(* The steps of the loop, as the live tick sees them.                      *)
LEMMA StepsOfTheLiveTick ==
    ASSUME LifecycleTypes, [Next]_vars
    PROVE  LiveAside \/ LandDetail("live") \/ Fail("live") \/ BringNothing("live") \/ Restart \/ Pass
BY LeftAside DEF Next

(* What only some of them change.                                          *)
LEMMA ChangesOfTheMatch ==
    ASSUME LifecycleTypes, [Next]_vars
    PROVE  /\ kickoff' = kickoff
           /\ ~KickOff /\ ~Whistle /\ ~CallOff => provider' = provider /\ over' = over
           /\ delivered => delivered'
           /\ failures' = failures \/ failures' = failures + 1
<1> DEFINE Kept == match' = match /\ failures' = failures /\ (delivered => delivered')
<1>1. CASE LandDiscovery
  <2>1. Kept
    BY <1>1 DEF LandDiscovery
  <2> QED
    BY <2>1 DEF match
<1>2. CASE Prune
  <2>1. Kept
    BY <1>2 DEF Prune, seen
  <2> QED
    BY <2>1 DEF match
<1>3. CASE \E t \in {"preKO", "live", "fullTime"} : LandDetail(t)
  <2>1. Kept
    BY <1>3 DEF LandDetail
  <2> QED
    BY <2>1 DEF match
<1>4. CASE LandLineups
  <2>1. Kept
    BY <1>4 DEF LandLineups, seen
  <2> QED
    BY <2>1 DEF match
<1>5. CASE LandFallback
  <2>1. Kept
    BY <1>5 DEF LandFallback
  <2> QED
    BY <2>1 DEF match
<1>6. CASE \E t \in Tasks : Fail(t) \/ BringNothing(t)
  <2>1. match' = match /\ failures' = failures + 1 /\ (delivered => delivered')
    BY <1>6 DEF Fail, BringNothing, seen
  <2> QED
    BY <2>1 DEF match
<1>7. CASE KickOff \/ Whistle \/ CallOff
  <2>1. kickoff' = kickoff /\ failures' = failures /\ (delivered => delivered')
    BY <1>7 DEF KickOff, Whistle, CallOff, seen
  <2> QED
    BY <1>7, <2>1
<1>8. CASE Restart
  <2>1. Kept
    BY <1>8 DEF Restart
  <2> QED
    BY <2>1 DEF match
<1>9. CASE Pass
  <2>1. Kept
    BY <1>9 DEF Pass, seen
  <2> QED
    BY <2>1 DEF match
<1>10. CASE UNCHANGED vars
  <2>1. Kept
    BY <1>10 DEF vars, seen
  <2> QED
    BY <2>1 DEF match
<1> QED
  BY <1>1, <1>2, <1>3, <1>4, <1>5, <1>6, <1>7, <1>8, <1>9, <1>10 DEF Next

(* An answer to the live tick lands or does not, under its own key.        *)
LEMMA LiveLands ==
    ASSUME LifecycleTypes, LandDetail("live")
    PROVE  /\ now' = now /\ booted' = booted /\ flight'["live"] = None
           /\ flight["live"].cached => cache'["live"] = cache["live"]
           /\ ~flight["live"].cached =>
                  cache'["live"] = [answer |-> flight["live"].answer, expires |-> now + Ttl["live"]]
           /\ flight["live"] # None
           /\ flight["live"].answer = "FT" => delivered'
<1>1. /\ flight \in [Tasks -> OrNone(Calls)] /\ cache \in [Keys -> OrNone(Entries)]
      /\ "live" \in Tasks /\ "live" \in Keys /\ KeyOf["live"] = "live"
      /\ flight["live"] # None => flight["live"].answer \in Statuses \union {"void"}
  BY TimeTypes DEF KeyOf
<1>2. flight["live"] # None /\ flight["live"].answer # "empty"
  BY <1>1 DEF LandDetail, Statuses
<1>3. TtlOf(KeyOf["live"], flight["live"].answer) = Ttl["live"]
  BY <1>1, <1>2 DEF TtlOf
<1> QED
  BY <1>1, <1>2, <1>3 DEF LandDetail, Store, Stored, Back

(* Or the call brings nothing, which is kept like an answer.               *)
LEMMA LiveBlank ==
    ASSUME LifecycleTypes, BringNothing("live")
    PROVE  /\ now' = now /\ booted' = booted /\ record' = record /\ failures' = failures + 1
           /\ flight["live"] # None /\ flight'["live"] = None
           /\ cache'["live"] = [answer |-> "void", expires |-> now + Ttl["live"]]
<1>1. /\ TypeOK /\ "live" \in Tasks /\ "live" \in Keys /\ KeyOf["live"] = "live"
      /\ flight \in [Tasks -> OrNone(Calls)]
  BY TimeTypes DEF LifecycleTypes, KeyOf
<1>2. cache'["live"] = [answer |-> "void", expires |-> now + Ttl["live"]]
  BY <1>1, NothingIs
<1>3. flight' = Back("live")
  BY <1>1, NothingIs
<1> QED
  BY <1>1, <1>2, <1>3 DEF BringNothing, Back

(* With the clock the live tick asks again, or keeps what it has.          *)
LEMMA LivePasses ==
    ASSUME LifecycleTypes, Pass
    PROVE  /\ now' = now + 1 /\ booted' = booted /\ failures' = failures /\ record' = record
           /\ flight["live"] # None => now < flight["live"].since + Latency
           /\ \/ flight'["live"] = flight["live"]
              \/ /\ flight["live"] = None
                 /\ flight'["live"] = Asked("live", now + 1)
           /\ \/ flight'["live"] = Asked("live", now + 1)
              \/ flight["live"] # None
              \/ ((now + 1) - booted) % Every["live"] # 0
              \/ PhaseAt(now + 1) # "live"
           /\ cache'["live"] = None \/ cache'["live"] = cache["live"]
<1>1. /\ flight \in [Tasks -> OrNone(Calls)] /\ cache \in [Keys -> OrNone(Entries)]
      /\ "live" \in Tasks /\ "live" \in Keys /\ "live" \in Timed /\ PhasesOf["live"] = {"live"}
      /\ "live" # "discovery"
  BY TimeTypes DEF PhasesOf, Timed
<1>2. flight'["live"] = IF "live" \in Calling(now + 1) THEN Asked("live", now + 1) ELSE flight["live"]
  BY <1>1 DEF Pass
<1>3. "live" \in Calling(now + 1) <=>
          /\ ((now + 1) - booted) % Every["live"] = 0
          /\ flight["live"] = None /\ PhaseAt(now + 1) = "live"
  <2>1. "live" \in Calling(now + 1) <=>
            /\ "live" \in Fired(now + 1)
            /\ flight["live"] = None /\ PhaseAt(now + 1) \in PhasesOf["live"]
    BY <1>1, Zenon DEF Calling
  <2>2. "live" \in Fired(now + 1) <=> ((now + 1) - booted) % Every["live"] = 0
    BY <1>1 DEF Fired
  <2> QED
    BY <1>1, <2>1, <2>2
<1>4. cache'["live"] = None \/ cache'["live"] = cache["live"]
  BY <1>1 DEF Pass, Unexpired
<1>5. flight["live"] # None => now < flight["live"].since + Latency
  BY <1>1 DEF Pass
<1> QED
  BY <1>2, <1>3, <1>4, <1>5 DEF Pass

(* What the live tick asks for comes from its cache or the provider.       *)
LEMMA LiveAsks ==
    ASSUME LifecycleTypes, NEW time \in Nat
    PROVE  /\ Asked("live", time) # None /\ Asked("live", time).since = time
           /\ \/ /\ cache["live"] # None /\ time < cache["live"].expires
                 /\ Asked("live", time).answer = cache["live"].answer /\ Asked("live", time).cached
              \/ Asked("live", time).answer = provider
<1>1. KeyOf["live"] = "live" /\ "live" \in Tasks /\ TypeOK
  BY TimeTypes DEF KeyOf, LifecycleTypes
<1>2. Asked("live", time) # None
  BY <1>1, AskedIsCall
<1> QED
  BY <1>1, <1>2 DEF Asked, Fresh

LEMMA ClockedKept ==
    ASSUME DeliveryInv, [Next]_vars
    PROVE  Clocked'
<1>1. /\ LifecycleTypes /\ Clocked
      /\ None \notin Int
  BY NoneIsNothing DEF DeliveryInv, IInv
<1>2. /\ now \in Nat
      /\ over # None => over \in Nat
      /\ flight["live"] # None => flight["live"].since \in Nat
      /\ cache["live"] # None => cache["live"].expires \in Int
  BY <1>1, TimeTypes
<1>3. Latency \in Nat /\ Ttl["live"] \in Nat
  BY SlackIs
<1>4. now' = now \/ now' = now + 1
  BY DEF Next, LandDiscovery, Prune, LandDetail, LandLineups, LandFallback, Fail, BringNothing, KickOff,
       Whistle, CallOff, Restart, Pass, vars
<1>5. over' # None => over' <= now'
  <2>1. CASE Whistle \/ CallOff
    BY <1>2, <2>1 DEF Whistle, CallOff
  <2>2. CASE KickOff
    BY <1>1, <1>2, <2>2 DEF KickOff, Clocked
  <2>3. CASE ~Whistle /\ ~CallOff /\ ~KickOff
    BY <1>1, <1>2, <1>4, <2>3, ChangesOfTheMatch DEF Clocked
  <2> QED
    BY <2>1, <2>2, <2>3
<1>6. delivered => delivered'
  BY <1>1, ChangesOfTheMatch
<1>7. CASE LiveAside
  BY <1>1, <1>5, <1>6, <1>7 DEF LiveAside, Clocked
<1>8. CASE LandDetail("live")
  <2>1. cache'["live"] # None =>
           /\ cache'["live"].expires <= now' + Ttl["live"]
           /\ cache'["live"].answer = "FT" => delivered'
    BY <1>1, <1>2, <1>3, <1>6, <1>8, LiveLands DEF Clocked
  <2> QED
    BY <1>1, <1>5, <1>8, <2>1, LiveLands DEF Clocked
<1>9. CASE Fail("live")
  <2>1. flight'["live"] = None /\ cache' = cache /\ now' = now
    BY <1>1, <1>9, TimeTypes DEF Fail, Back
  <2> QED
    BY <1>1, <1>5, <1>6, <2>1 DEF Clocked
<1>10. CASE Restart
  <2>1. flight'["live"] = None /\ cache'["live"] = None
    BY <1>1, <1>10, TimeTypes DEF Restart
  <2> QED
    BY <1>5, <2>1 DEF Clocked
<1>12. CASE BringNothing("live")
  <2>1. cache'["live"].expires <= now' + Ttl["live"] /\ cache'["live"].answer # "FT"
    BY <1>1, <1>2, <1>3, <1>12, LiveBlank
  <2> QED
    BY <1>1, <1>5, <1>12, <2>1, LiveBlank DEF Clocked
<1>11. CASE Pass
  <2>1. flight'["live"] # None => /\ flight'["live"].since <= now' /\ now' <= flight'["live"].since + Latency
                                  /\ flight'["live"].answer = "void" => flight'["live"].cached
    <3>1. /\ Asked("live", now + 1).since = now + 1
          /\ Asked("live", now + 1).answer = "void" => Asked("live", now + 1).cached
      <4>1. provider # "void"
        BY <1>1 DEF LifecycleTypes, TypeOK, Statuses
      <4> QED
        BY <1>1, <1>2, <4>1, LiveAsks
    <3> QED
      BY <1>1, <1>2, <1>3, <1>11, <3>1, LivePasses DEF Clocked
  <2>2. cache'["live"] # None =>
           /\ cache'["live"].expires <= now' + Ttl["live"]
           /\ cache'["live"].answer = "FT" => delivered'
    BY <1>1, <1>2, <1>3, <1>6, <1>11, LivePasses DEF Clocked
  <2> QED
    BY <1>5, <2>1, <2>2 DEF Clocked
<1> QED
  BY <1>1, <1>7, <1>8, <1>9, <1>10, <1>11, <1>12, StepsOfTheLiveTick

LEMMA OutdatedKept ==
    ASSUME DeliveryInv, [Next]_vars
    PROVE  Outdated'
<1> SUFFICES ASSUME provider' = "FT" PROVE Outdated'
    BY DEF Outdated
<1> DEFINE S == {"NS", "LIVE", "FT"}
<1>1. /\ LifecycleTypes /\ Clocked /\ HeardWhatWas /\ MatchRuns
      /\ None \notin Int
  BY NoneIsNothing DEF DeliveryInv, IInv
<1>2. /\ now \in Nat
      /\ over # None => over \in Nat
      /\ flight["live"] # None => flight["live"].since \in Nat
      /\ cache["live"] # None => cache["live"].expires \in Int
  BY <1>1, TimeTypes
<1>3. /\ Latency \in Nat /\ Ttl["live"] \in Nat /\ LiveCached \in Nat
      /\ Ttl["live"] # 0 => LiveCached = Latency + Ttl["live"]
  BY SlackIs
<1>4. CASE Whistle
  <2>1. provider = "LIVE" /\ over' = now
    BY <1>4 DEF Whistle
  <2>2. now >= kickoff /\ kickoff' = kickoff
    BY <1>1, <1>4, <2>1 DEF MatchRuns, Whistle
  <2>3. Heard(S)'
    BY <1>1, <1>4, <2>1 DEF HeardWhatWas, Heard, Whistle, worker
  <2>4. LiveAside
    BY <1>1, <1>4, LeftAside
  <2>5. flight'["live"] # None =>
            flight'["live"].since <= over' + LiveCached /\ flight'["live"].since <= over'
    BY <1>1, <1>2, <1>3, <2>1, <2>4 DEF LiveAside, Clocked
  <2>6. cache'["live"] # None => Ttl["live"] = 0 \/ cache'["live"].expires <= over' + LiveCached
    BY <1>1, <1>2, <1>3, <2>1, <2>4 DEF LiveAside, Clocked
  <2> QED
    BY <2>1, <2>2, <2>3, <2>5, <2>6 DEF Outdated
<1>5. CASE ~Whistle
  <2>1. ~KickOff /\ ~CallOff
    BY DEF KickOff, CallOff
  <2>2. provider = "FT" /\ over' = over /\ kickoff' = kickoff
    BY <1>1, <1>5, <2>1, ChangesOfTheMatch
  <2>3. over # None /\ over \in Nat /\ over <= now
    BY <1>1, <1>2, <2>2 DEF MatchRuns, Clocked
  <2>4. over >= kickoff /\ Heard(S)
    BY <2>2 DEF DeliveryInv, Outdated
  <2>5. Heard(S)'
    BY <1>1, <2>2, <2>4, HeardKept
  <2>6. /\ flight["live"] # None /\ flight["live"].answer \in Before =>
               /\ flight["live"].since <= over + LiveCached
               /\ ~flight["live"].cached => flight["live"].since <= over
        /\ cache["live"] # None /\ cache["live"].answer \in Before =>
               Ttl["live"] = 0 \/ cache["live"].expires <= over + LiveCached
    BY <2>2 DEF DeliveryInv, Outdated
  <2> DEFINE Late == /\ flight'["live"] # None /\ flight'["live"].answer \in Before =>
                            /\ flight'["live"].since <= over + LiveCached
                            /\ ~flight'["live"].cached => flight'["live"].since <= over
                     /\ cache'["live"] # None /\ cache'["live"].answer \in Before =>
                            Ttl["live"] = 0 \/ cache'["live"].expires <= over + LiveCached
  <2> SUFFICES Late
      BY <2>2, <2>4, <2>5 DEF Outdated
  <2>7. CASE LiveAside
    BY <2>6, <2>7 DEF LiveAside
  <2>8. CASE LandDetail("live")
    <3>1. now <= flight["live"].since + Latency
      BY <1>1, <2>8, LiveLands DEF Clocked
    <3>2. ~flight["live"].cached /\ flight["live"].answer \in Before =>
            Ttl["live"] = 0 \/ now + Ttl["live"] <= over + LiveCached
      BY <1>1, <1>2, <1>3, <2>3, <2>6, <2>8, <3>1, LiveLands
    <3> QED
      BY <1>1, <2>6, <2>8, <3>2, LiveLands
  <2>9. CASE Fail("live")
    <3>1. flight'["live"] = None /\ cache' = cache
      BY <1>1, <2>9, TimeTypes DEF Fail, Back
    <3> QED
      BY <2>6, <3>1
  <2>12. CASE BringNothing("live")
    <3>1. cache'["live"].answer \notin Before
      BY <1>1, <2>12, LiveBlank DEF Before
    <3> QED
      BY <1>1, <2>12, <3>1, LiveBlank
  <2>10. CASE Restart
    <3>1. flight'["live"] = None /\ cache'["live"] = None
      BY <1>1, <2>10, TimeTypes DEF Restart
    <3> QED
      BY <3>1
  <2>11. CASE Pass
    <3> DEFINE a == Asked("live", now + 1)
    <3>1. /\ a.since = now + 1
          /\ \/ /\ cache["live"] # None /\ now + 1 < cache["live"].expires
                /\ a.answer = cache["live"].answer /\ a.cached
             \/ a.answer = "FT"
      BY <1>1, <1>2, <2>2, LiveAsks
    <3> HIDE DEF a
    <3>2. a.answer \in Before => a.since <= over + LiveCached /\ a.cached
      <4> SUFFICES ASSUME a.answer \in Before PROVE a.since <= over + LiveCached /\ a.cached
          OBVIOUS
      <4>1. cache["live"] # None /\ now + 1 < cache["live"].expires /\ cache["live"].answer \in Before /\ a.cached
        BY <3>1 DEF Before
      <4>2. cache["live"].expires <= now + Ttl["live"]
        BY <1>1, <4>1 DEF Clocked
      <4>3. Ttl["live"] # 0
        BY <1>2, <1>3, <4>1, <4>2
      <4> QED
        BY <1>2, <1>3, <2>3, <2>6, <3>1, <4>1, <4>3
    <3>3. flight'["live"] = flight["live"] \/ flight'["live"] = a
      BY <1>1, <2>11, LivePasses DEF a
    <3>4. cache'["live"] = None \/ cache'["live"] = cache["live"]
      BY <1>1, <2>11, LivePasses
    <3> QED
      BY <2>6, <3>2, <3>3, <3>4
  <2> QED
    BY <1>1, <2>7, <2>8, <2>9, <2>10, <2>11, <2>12, StepsOfTheLiveTick
<1> QED
  BY <1>4, <1>5

(* Failures only put the deadline off.                                     *)
LEMMA SlackGrows ==
    ASSUME LifecycleTypes, failures' = failures \/ failures' = failures + 1
    PROVE  /\ LiveAnswer \in Nat /\ LiveAnswer' \in Nat /\ LiveAnswer' >= LiveAnswer
           /\ LiveAnswer' = Slack(failures') + Every["live"] + Latency
           /\ Slack(failures) \in Nat /\ Slack(failures') \in Nat
           /\ Slack(failures') >= Slack(failures)
<1>1. failures \in Nat /\ failures + 1 \in Nat
  BY TimeTypes
<1>2. LiveAnswer = Slack(failures) + Every["live"] + Latency
  BY <1>1, SlackIs
<1>3. LiveAnswer' = Slack(failures') + Every["live"] + Latency
  <2>1. CASE failures' = failures
    BY <1>2, <2>1 DEF LiveAnswer, LiveCached
  <2>2. CASE failures' = failures + 1
    <3> DEFINE c == LiveCached
               w == Setback
               e == Every["live"]
    <3>1. LiveAnswer' = c + (failures + 1) * w + e + 2 * Latency
      BY <2>2 DEF LiveAnswer, LiveCached, Setback
    <3>2. Slack(failures') = c + Latency + (failures + 1) * w
      BY <2>2 DEF Slack
    <3>3. c \in Nat /\ w \in Nat /\ Latency \in Nat /\ e \in Nat
      BY SlackIs
    <3>4. (failures + 1) * w \in Nat
      BY <1>1, <3>3
    <3> DEFINE x == (failures + 1) * w
    <3> HIDE DEF c, w, x
    <3>5. c + x + e + 2 * Latency = (c + Latency + x) + e + Latency
      BY <3>3, <3>4 DEF x
    <3> QED
      BY <3>1, <3>2, <3>5 DEF x
  <2> QED
    BY <2>1, <2>2
<1>4. Slack(failures) \in Nat /\ Slack(failures') \in Nat /\ Slack(failures') >= Slack(failures)
  BY <1>1, SlackIs
<1> DEFINE s == Slack(failures)
           s1 == Slack(failures')
           e == Every["live"]
           d == LiveAnswer
           d1 == LiveAnswer'
<1>5. /\ s \in Nat /\ s1 \in Nat /\ s1 >= s /\ e \in Nat /\ Latency \in Nat
      /\ d = s + e + Latency /\ d1 = s1 + e + Latency
  BY <1>2, <1>3, <1>4, SlackIs
<1> HIDE DEF s, s1, e, d, d1
<1>6. d \in Nat /\ d1 \in Nat /\ d1 >= d
  BY <1>5
<1> QED
  BY <1>3, <1>4, <1>6 DEF s, s1, e, d, d1

(* A final that is awaited after a step was awaited before, but for the    *)
(* whistle itself.                                                         *)
LEMMA AwaitedBefore ==
    ASSUME DeliveryInv, [Next]_vars, Awaited', ~Whistle
    PROVE  Awaited /\ over' = over /\ ~Restart
<1>1. LifecycleTypes /\ MatchRuns
  BY DEF DeliveryInv, IInv
<1>2. ~KickOff /\ ~CallOff /\ ~Restart
  BY DEF KickOff, CallOff, Restart, Awaited
<1>3. /\ provider = "FT" /\ over' = over /\ kickoff' = kickoff /\ (delivered => delivered')
      /\ failures' = failures \/ failures' = failures + 1
  BY <1>1, <1>2, ChangesOfTheMatch DEF Awaited
<1>4. over # None /\ over \in Nat /\ kickoff \in Nat /\ MaxLive \in Nat
  BY <1>1, <1>3, TimeTypes DEF MatchRuns
<1>5. adopted /\ ~listFinal
  <2>1. CASE LandDiscovery
    BY <1>4, <2>1 DEF LandDiscovery, Awaited
  <2>2. CASE ~LandDiscovery
    <3>1. Prune \/ LandLineups \/ Pass \/ UNCHANGED vars \/ (\E t \in Tasks : Fail(t) \/ BringNothing(t))
            => adopted' = adopted /\ listFinal' = listFinal
      BY DEF Prune, LandLineups, Pass, vars, seen, Fail, BringNothing
    <3>2. LandFallback \/ (\E t \in {"preKO", "live", "fullTime"} : LandDetail(t))
            => adopted' = adopted /\ listFinal' = listFinal
      BY DEF LandFallback, LandDetail
    <3>3. adopted' = adopted /\ listFinal' = listFinal
      BY <1>2, <2>2, <3>1, <3>2 DEF Next
    <3> QED
      BY <3>3 DEF Awaited
  <2> QED
    BY <2>1, <2>2
<1>6. over + LiveAnswer <= kickoff + MaxLive
  <2>1. over + LiveAnswer' <= kickoff + MaxLive
    BY <1>3 DEF Awaited
  <2> QED
    BY <1>1, <1>3, <1>4, <2>1, SlackGrows
<1>7. ~delivered
  BY <1>3 DEF Awaited
<1> QED
  BY <1>2, <1>3, <1>5, <1>6, <1>7 DEF Awaited

(* While the final is awaited the record stays dated and in play: a list   *)
(* that knew it is over would have told, and so would a detail have.       *)
LEMMA RecordFollows ==
    ASSUME DeliveryInv, [Next]_vars, Awaited'
    PROVE  record' # None /\ record'.kickoff = kickoff' /\ record'.status \in {"NS", "LIVE"}
<1>1. /\ LifecycleTypes /\ HeardWhatWas /\ MatchRuns /\ Dated /\ TypeOK
      /\ kickoff' = kickoff /\ kickoff \in Nat /\ kickoff \in OrNone(Int) /\ None \in OrNone(Int)
      /\ kickoff # None
      /\ "discovery" \in StatusTasks /\ "preKO" \in StatusTasks /\ "live" \in StatusTasks
      /\ "fullTime" \in StatusTasks
  BY ChangesOfTheMatch, TimeTypes, NoneIsNothing
     DEF DeliveryInv, IInv, OrNone, LifecycleTypes, StatusTasks, Tasks, Timed
<1>2. CASE Whistle
  <2>1. /\ provider = "LIVE" /\ over' = now /\ record' = record /\ adopted
        /\ failures' = failures /\ now' = now
    BY <1>2 DEF Whistle, worker, seen, Awaited
  <2>2. over = None
    BY <1>1, <2>1 DEF MatchRuns
  <2>3. now <= kickoff + MaxLive
    <3>1. now + LiveAnswer' <= kickoff + MaxLive
      BY <1>1, <2>1 DEF Awaited
    <3> QED
      BY <1>1, <2>1, <3>1, SlackGrows, TimeTypes
  <2> QED
    BY <1>1, <2>1, <2>2, <2>3, DatedIsRouted
<1>3. CASE ~Whistle
  <2>1. Awaited /\ ~Restart
    BY <1>3, AwaitedBefore
  <2>2. record # None /\ record.kickoff = kickoff /\ record.status \in {"NS", "LIVE"}
    BY <2>1 DEF DeliveryInv, Followed
  <2>3. Heard({"NS", "LIVE", "FT"})
    BY <2>1 DEF DeliveryInv, Outdated, Awaited
  <2>4. CASE LandDiscovery
    <3>1. CASE flight["discovery"].answer # "void" /\ Discoverable(flight["discovery"].answer)
      <4>1. flight["discovery"].answer \in {"NS", "LIVE"}
        BY <1>1, <2>3, <2>4, <3>1 DEF LandDiscovery, Heard, Awaited
      <4>2. record' = Upserted(flight["discovery"].answer, kickoff)
        BY <2>4, <3>1 DEF LandDiscovery
      <4>3. record' # None
        BY <1>1, <4>1, <4>2, UpsertedType DEF Statuses
      <4> QED
        BY <1>1, <4>1, <4>2, <4>3 DEF Upserted
    <3>2. CASE ~(flight["discovery"].answer # "void" /\ Discoverable(flight["discovery"].answer))
      BY <1>1, <2>2, <2>4, <3>2 DEF LandDiscovery
    <3> QED
      BY <3>1, <3>2
  <2>5. CASE Prune
    <3>1. Phase = "live"
      BY <2>1, InTime
    <3> QED
      BY <1>1, <2>2, <2>5, <3>1 DEF Prune
  <2>6. ASSUME NEW t \in {"preKO", "live", "fullTime"}, LandDetail(t)
        PROVE  record' # None /\ record'.kickoff = kickoff' /\ record'.status \in {"NS", "LIVE"}
    <3>0. CASE flight[t].answer = "void"
      BY <1>1, <2>2, <2>6, <3>0 DEF LandDetail
    <3> SUFFICES ASSUME flight[t].answer # "void"
                 PROVE  record' # None /\ record'.kickoff = kickoff' /\ record'.status \in {"NS", "LIVE"}
        BY <3>0
    <3>1. flight[t].answer \in {"NS", "LIVE"}
      <4>1. flight[t].answer \in {"NS", "LIVE", "FT"}
        BY <1>1, <2>3, <2>6 DEF LandDetail, Heard
      <4>2. flight[t].answer # "FT"
        BY <2>6 DEF LandDetail, Awaited
      <4> QED
        BY <4>1, <4>2
    <3>2. record' = Upserted(flight[t].answer, None)
      BY <2>6 DEF LandDetail
    <3>3. record' # None
      BY <1>1, <3>1, <3>2, UpsertedType DEF Statuses
    <3> QED
      BY <1>1, <2>2, <3>1, <3>2, <3>3 DEF Upserted
  <2>7. CASE LandLineups \/ LandFallback \/ KickOff \/ CallOff \/ Pass \/ UNCHANGED vars
             \/ \E t \in Tasks : Fail(t) \/ BringNothing(t)
    <3>1. record' = record
      BY <2>7 DEF LandLineups, LandFallback, KickOff, CallOff, Pass, vars, worker, Fail,
         BringNothing
    <3> QED
      BY <1>1, <2>2, <3>1
  <2> QED
    BY <1>3, <2>1, <2>4, <2>5, <2>6, <2>7 DEF Next
<1> QED
  BY <1>2, <1>3

(* An answer without a status is served for so long after the call that    *)
(* brought it, which puts the deadline off by as much.                     *)
LEMMA BlankedKept ==
    ASSUME DeliveryInv, [Next]_vars, Awaited'
    PROVE  Blanked(FreeBy)'
<1> DEFINE e == Every["live"]
           l == Latency
           ttl == Ttl["live"]
<1>1. LifecycleTypes /\ Clocked /\ MatchRuns
  BY DEF DeliveryInv, IInv
<1>2. /\ now \in Nat
      /\ over # None => over \in Nat
      /\ flight["live"] # None =>
             /\ flight["live"].since \in Nat
             /\ flight["live"].since <= now /\ now <= flight["live"].since + l
             /\ flight["live"].answer = "void" => flight["live"].cached
      /\ cache["live"] # None =>
             cache["live"].expires \in Int /\ cache["live"].expires <= now + ttl
      /\ failures' = failures \/ failures' = failures + 1
  BY <1>1, TimeTypes, ChangesOfTheMatch DEF Clocked
<1>3. /\ l \in Nat /\ e \in Nat /\ ttl \in Nat /\ LiveCached \in Nat
      /\ ttl # 0 => LiveCached = l + ttl
      /\ Slack(failures) \in Nat /\ Slack(failures') \in Nat /\ Slack(failures') >= Slack(failures)
      /\ Slack(failures) >= LiveCached + l
      /\ Slack(failures + 1) = Slack(failures) + e + ttl + 2 * l
      /\ FreeBy = over + Slack(failures) /\ FreeBy' = over' + Slack(failures')
  <2>1. failures \in Nat
    BY <1>1, TimeTypes
  <2>2. FreeBy' = over' + Slack(failures')
    BY DEF FreeBy, Slack, LiveCached, Setback
  <2> DEFINE s == Slack(failures)
             s1 == Slack(failures + 1)
  <2>3. /\ s \in Nat /\ s >= LiveCached + l /\ s1 = s + Setback
        /\ Setback \in Nat /\ Setback = e + ttl + 2 * l
        /\ l \in Nat /\ e \in Nat /\ ttl \in Nat
    BY <2>1, SlackIs
  <2> HIDE DEF s, s1, e, l, ttl
  <2>4. s1 = s + e + ttl + 2 * l
    BY <2>3
  <2> QED
    BY <1>1, <1>2, <2>1, <2>2, <2>3, <2>4, SlackIs, SlackGrows DEF s, s1, e, l, ttl, FreeBy
<1> HIDE DEF e, l, ttl
<1> DEFINE Goal == /\ flight'["live"] # None /\ flight'["live"].answer = "void" =>
                          flight'["live"].since + l <= FreeBy'
                   /\ cache'["live"] # None /\ cache'["live"].answer = "void" =>
                          ttl = 0 \/ cache'["live"].expires + l <= FreeBy'
<1> SUFFICES Goal
    BY DEF Blanked, l, ttl
<1>4. CASE Whistle
  <2>1. LiveAside /\ over' = now
    BY <1>1, <1>4, LeftAside DEF Whistle
  <2>2. FreeBy' \in Nat /\ now + LiveCached + l <= FreeBy'
    BY <1>2, <1>3, <2>1
  <2>3. flight["live"] # None => flight["live"].since + l <= FreeBy'
    BY <1>2, <1>3, <2>2
  <2>4. cache["live"] # None => ttl = 0 \/ cache["live"].expires + l <= FreeBy'
    BY <1>2, <1>3, <2>2
  <2> QED
    BY <2>1, <2>3, <2>4 DEF LiveAside
<1>5. CASE ~Whistle
  <2>1. Awaited /\ over' = over /\ ~Restart
    BY <1>5, AwaitedBefore
  <2>2. over # None /\ over \in Nat
    BY <1>1, <1>2, <2>1 DEF Awaited, MatchRuns
  <2>3. /\ flight["live"] # None => flight["live"].since <= FreeBy + e
        /\ flight["live"] # None /\ flight["live"].answer = "void" => flight["live"].since + l <= FreeBy
        /\ cache["live"] # None /\ cache["live"].answer = "void" =>
               ttl = 0 \/ cache["live"].expires + l <= FreeBy
    BY <2>1 DEF DeliveryInv, Followed, Blanked, e, l, ttl
  <2>4. FreeBy \in Nat /\ FreeBy' \in Nat /\ FreeBy' >= FreeBy
    BY <1>3, <2>1, <2>2
  <2>5. flight["live"] # None /\ flight["live"].answer = "void" => flight["live"].since + l <= FreeBy'
    BY <1>2, <1>3, <2>3, <2>4
  <2>6. cache["live"] # None /\ cache["live"].answer = "void" =>
            ttl = 0 \/ cache["live"].expires + l <= FreeBy'
    BY <1>2, <1>3, <2>3, <2>4
  <2>7. CASE LiveAside
    BY <2>5, <2>6, <2>7 DEF LiveAside
  <2>8. CASE LandDetail("live")
    BY <1>1, <1>2, <2>6, <2>8, LiveLands
  <2>9. CASE Fail("live")
    <3>1. flight'["live"] = None /\ cache' = cache
      BY <1>1, <2>9, TimeTypes DEF Fail, Back
    <3> QED
      BY <2>6, <3>1
  <2>10. CASE BringNothing("live")
    <3>1. /\ flight["live"] # None /\ flight'["live"] = None /\ failures' = failures + 1
          /\ cache'["live"].expires = now + ttl
      BY <1>1, <2>10, LiveBlank DEF ttl
    <3>2. FreeBy' = FreeBy + e + ttl + 2 * l
      BY <1>3, <2>1, <2>2, <3>1
    <3>3. (now + ttl) + l <= FreeBy'
      BY <1>2, <1>3, <2>3, <2>4, <3>1, <3>2
    <3> QED
      BY <3>1, <3>3
  <2>11. CASE Pass
    <3> DEFINE a == Asked("live", now + 1)
    <3>1. /\ a.since = now + 1
          /\ \/ /\ cache["live"] # None /\ now + 1 < cache["live"].expires
                /\ a.answer = cache["live"].answer
             \/ a.answer # "void"
      <4>1. provider # "void"
        BY <1>1 DEF LifecycleTypes, TypeOK, Statuses
      <4> QED
        BY <1>1, <1>2, <4>1, LiveAsks
    <3>2. flight'["live"] = flight["live"] \/ flight'["live"] = a
      BY <1>1, <2>11, LivePasses DEF a
    <3>3. cache'["live"] = None \/ cache'["live"] = cache["live"]
      BY <1>1, <2>11, LivePasses
    <3> HIDE DEF a
    <3>4. a.answer = "void" => a.since + l <= FreeBy'
      <4> SUFFICES ASSUME a.answer = "void" PROVE (now + 1) + l <= FreeBy'
          BY <3>1
      <4>1. /\ cache["live"] # None /\ cache["live"].answer = "void"
            /\ now + 1 < cache["live"].expires
        BY <3>1
      <4>2. ttl # 0
        BY <1>2, <1>3, <4>1
      <4> QED
        BY <1>2, <1>3, <2>4, <2>6, <4>1, <4>2
    <3> QED
      BY <2>5, <2>6, <3>2, <3>3, <3>4
  <2> QED
    BY <1>1, <2>1, <2>7, <2>8, <2>9, <2>10, <2>11, StepsOfTheLiveTick
<1> QED
  BY <1>4, <1>5

LEMMA FollowedKept ==
    ASSUME DeliveryInv, [Next]_vars
    PROVE  Followed'
<1> SUFFICES ASSUME Awaited'
             PROVE  /\ flight'["live"] = None => LastTick' <= FreeBy'
                    /\ flight'["live"] # None => flight'["live"].since <= FreeBy' + Every["live"]
    BY RecordFollows, BlankedKept DEF Followed
<1>1. LifecycleTypes /\ Clocked /\ MatchRuns
  BY DEF DeliveryInv, IInv
<1>2. /\ now \in Nat /\ booted \in Nat /\ kickoff \in Nat
      /\ over # None => over \in Nat
      /\ flight["live"] # None => flight["live"].since \in Nat
      /\ flight["live"] # None =>
             flight["live"].since <= now /\ now <= flight["live"].since + Latency
      /\ failures' = failures \/ failures' = failures + 1
  BY <1>1, TimeTypes, ChangesOfTheMatch DEF Clocked
<1>3. /\ Latency \in Nat /\ Every["live"] \in Nat \ {0} /\ LiveCached \in Nat
      /\ Slack(failures) \in Nat /\ Slack(failures') \in Nat /\ Slack(failures') >= Slack(failures)
      /\ Slack(failures) >= LiveCached + Latency
      /\ Setback \in Nat /\ Setback >= Every["live"] + Latency
      /\ Slack(failures + 1) = Slack(failures) + Setback
      /\ FreeBy = over + Slack(failures) /\ FreeBy' = over' + Slack(failures')
  <2>1. failures \in Nat
    BY <1>1, TimeTypes
  <2>2. FreeBy' = over' + Slack(failures')
    BY DEF FreeBy, Slack, LiveCached, Setback
  <2> QED
    BY <1>1, <1>2, <2>1, <2>2, SlackIs, SlackGrows DEF FreeBy
<1> DEFINE e == Every["live"]
           r == (now - booted) % e
<1>4. r \in 0 .. e - 1 /\ LastTick = now - r
  <2>1. r \in 0 .. e - 1
    <3>1. now - booted \in Int /\ e \in Nat \ {0}
      BY <1>2, <1>3
    <3> HIDE DEF e
    <3> QED
      BY <3>1, NextTick
  <2> QED
    BY <2>1 DEF LastTick
<1>5. now' = now /\ booted' = booted => LastTick' = now - r
  BY DEF LastTick
<1> HIDE DEF e, r
<1>6. CASE Whistle
  <2>1. LiveAside /\ over' = now
    BY <1>1, <1>6, LeftAside DEF Whistle
  <2>2. now <= FreeBy'
    BY <1>2, <1>3, <2>1
  <2>3. flight["live"] # None => flight["live"].since <= FreeBy' + Every["live"]
    BY <1>2, <1>3, <2>1
  <2>4. now - r <= FreeBy'
    BY <1>2, <1>3, <1>4, <2>1 DEF e
  <2> QED
    BY <1>5, <2>1, <2>3, <2>4 DEF LiveAside
<1>7. CASE ~Whistle
  <2>1. Awaited /\ over' = over /\ ~Restart
    BY <1>7, AwaitedBefore
  <2>2. over # None /\ over \in Nat
    BY <1>1, <1>2, <2>1 DEF Awaited, MatchRuns
  <2>3. /\ flight["live"] = None => now - r <= FreeBy
        /\ flight["live"] # None => flight["live"].since <= FreeBy + e
    BY <1>4, <2>1 DEF DeliveryInv, Followed, e
  <2>4. FreeBy \in Nat /\ FreeBy' \in Nat /\ FreeBy' >= FreeBy
    BY <1>3, <2>1, <2>2
  <2>5. CASE LiveAside
    <3>1. flight["live"] = None => now - r <= FreeBy'
      BY <1>2, <1>3, <1>4, <2>3, <2>4 DEF e
    <3>2. flight["live"] # None => flight["live"].since <= FreeBy' + Every["live"]
      BY <1>2, <1>3, <2>3, <2>4 DEF e
    <3> QED
      BY <1>5, <2>5, <3>1, <3>2 DEF LiveAside
  <2>6. CASE LandDetail("live")
    <3>1. /\ now' = now /\ booted' = booted /\ flight'["live"] = None
          /\ flight["live"] # None /\ flight["live"].answer # "FT"
      BY <1>1, <2>6, LiveLands DEF Awaited
    <3>2. ASSUME flight["live"].answer = "void" PROVE now <= FreeBy'
      <4>1. flight["live"].since + Latency <= FreeBy
        BY <2>1, <3>1, <3>2 DEF DeliveryInv, Followed, Blanked
      <4> QED
        BY <1>2, <1>3, <2>4, <3>1, <4>1
    <3>5. ASSUME flight["live"].answer # "void" PROVE now <= FreeBy'
      <4>1. flight["live"].answer \in Before
        BY <1>1, <2>1, <3>1, <3>5 DEF Before, DeliveryInv, Outdated, Awaited, Heard, StatusTasks, Tasks, Timed
      <4>2. flight["live"].since <= over + LiveCached
        BY <2>1, <3>1, <4>1 DEF DeliveryInv, Outdated, Awaited
      <4> QED
        BY <1>2, <1>3, <2>1, <2>2, <3>1, <4>2
    <3>3. now <= FreeBy'
      BY <3>2, <3>5
    <3>4. now - r <= FreeBy'
      BY <1>2, <1>3, <1>4, <2>4, <3>3 DEF e
    <3> QED
      BY <1>5, <3>1, <3>4
  <2>7. CASE Fail("live")
    <3>1. /\ now' = now /\ booted' = booted /\ flight'["live"] = None
          /\ flight["live"] # None /\ failures' = failures + 1
      BY <1>1, <2>7, TimeTypes DEF Fail, Back
    <3>2. FreeBy' = FreeBy + Setback
      BY <1>3, <2>1, <2>2, <3>1
    <3>3. now <= FreeBy'
      BY <1>2, <1>3, <2>3, <2>4, <3>1, <3>2 DEF e
    <3>4. now - r <= FreeBy'
      BY <1>2, <1>3, <1>4, <2>4, <3>3 DEF e
    <3> QED
      BY <1>5, <3>1, <3>4
  <2>9. CASE BringNothing("live")
    <3>1. /\ now' = now /\ booted' = booted /\ flight'["live"] = None
          /\ flight["live"] # None /\ failures' = failures + 1
      BY <1>1, <2>9, LiveBlank
    <3>2. FreeBy' = FreeBy + Setback
      BY <1>3, <2>1, <2>2, <3>1
    <3>3. now <= FreeBy'
      BY <1>2, <1>3, <2>3, <2>4, <3>1, <3>2 DEF e
    <3>4. now - r <= FreeBy'
      BY <1>2, <1>3, <1>4, <2>4, <3>3 DEF e
    <3> QED
      BY <1>5, <3>1, <3>4
  <2>8. CASE Pass
    <3>1. /\ now' = now + 1 /\ booted' = booted /\ failures' = failures
          /\ \/ flight'["live"] = flight["live"]
             \/ /\ flight["live"] = None
                /\ flight'["live"] = Asked("live", now + 1)
          /\ \/ flight'["live"] = Asked("live", now + 1)
             \/ flight["live"] # None
             \/ ((now + 1) - booted) % Every["live"] # 0
             \/ PhaseAt(now + 1) # "live"
          /\ Asked("live", now + 1) # None /\ Asked("live", now + 1).since = now + 1
      BY <1>1, <1>2, <2>8, LivePasses, LiveAsks
    <3>2. FreeBy' = FreeBy
      BY <1>3, <2>1, <3>1
    <3>3. CASE flight["live"] # None
      BY <2>3, <3>1, <3>2, <3>3 DEF e
    <3>4. CASE flight["live"] = None
      <4>1. now + 1 <= kickoff + MaxLive /\ now + 1 <= FreeBy + Every["live"] /\ now >= kickoff
        BY <2>1, <3>4, InTime
      <4>2. CASE flight'["live"] = Asked("live", now + 1)
        BY <3>1, <3>2, <4>1, <4>2
      <4>3. CASE flight'["live"] # Asked("live", now + 1)
        <5>1. PhaseAt(now + 1) = "live"
          <6>1. record # None /\ record.kickoff = kickoff /\ record.status \in {"NS", "LIVE"}
            BY <2>1 DEF DeliveryInv, Followed
          <6>2. now + 1 \in Nat /\ now + 1 >= kickoff
            BY <1>2, <4>1
          <6> QED
            BY <1>1, <4>1, <6>1, <6>2, LiveWhile
        <5>2. flight'["live"] = None /\ ((now + 1) - booted) % Every["live"] # 0
          BY <3>1, <3>4, <4>3, <5>1
        <5>3. ((now + 1) - booted) % Every["live"] = r + 1
          <6>1. now - booted \in Int /\ (now - booted) + 1 = (now + 1) - booted
            BY <1>2
          <6> QED
            BY <1>3, <5>2, <6>1, NextTick DEF r, e
        <5>4. LastTick' = (now + 1) - (r + 1)
          BY <3>1, <5>3 DEF LastTick
        <5>5. LastTick' = now - r
          BY <1>2, <1>3, <1>4, <5>4 DEF e
        <5> QED
          BY <2>3, <3>2, <3>4, <5>2, <5>5
      <4> QED
        BY <4>2, <4>3
    <3> QED
      BY <3>3, <3>4
  <2> QED
    BY <1>1, <2>1, <2>5, <2>6, <2>7, <2>8, <2>9, StepsOfTheLiveTick
<1> QED
  BY <1>6, <1>7

(* Nothing has been played at boot, and the live tick has not asked.       *)
LEMMA InitiallyQuiet == Init => DeliveryInv
<1> SUFFICES ASSUME Init PROVE DeliveryInv
    OBVIOUS
<1>1. IInv
  BY Initially
<1>2. flight["live"] = None /\ cache["live"] = None /\ provider = "NS" /\ over = None
  BY DEF Init, Tasks, Timed, Keys
<1> QED
  BY <1>1, <1>2 DEF DeliveryInv, Clocked, Outdated, Followed, Awaited

(* A final whistle reaches the bridge within a live tick of the loop that  *)
(* follows the match, whatever answers it still has of before and however  *)
(* many calls fail, unless a list has told the loop before.                *)
THEOREM FinalsDelivered == Spec => []FinalDelivered
<1>1. IInv /\ [Next]_vars => IInv'
  BY TypesKept, HistoryKept, DatedKept DEF IInv
<1>2. DeliveryInv /\ [Next]_vars => DeliveryInv'
  <2> SUFFICES ASSUME DeliveryInv, [Next]_vars PROVE DeliveryInv'
      OBVIOUS
  <2>1. IInv'
    BY <1>1 DEF DeliveryInv
  <2>2. Clocked' /\ Outdated' /\ Followed'
    BY ClockedKept, OutdatedKept, FollowedKept
  <2> QED
    BY <2>1, <2>2 DEF DeliveryInv
<1>3. DeliveryInv => FinalDelivered
  <2> SUFFICES ASSUME DeliveryInv, Awaited, now > over + LiveAnswer
               PROVE  FALSE
      BY DEF FinalDelivered, Awaited
  <2>1. now <= over + LiveAnswer
    BY InTime
  <2>2. now \in Nat /\ over \in Nat /\ LiveAnswer \in Nat
    <3>1. LifecycleTypes /\ MatchRuns /\ provider = "FT"
      BY DEF DeliveryInv, IInv, Awaited
    <3>2. over \in Nat /\ now \in Nat /\ failures \in Nat
      BY <3>1, TimeTypes DEF MatchRuns
    <3>3. /\ Slack(failures) \in Nat /\ Every["live"] \in Nat /\ Latency \in Nat
          /\ LiveAnswer = Slack(failures) + Every["live"] + Latency
      BY <3>2, SlackIs
    <3> QED
      BY <3>2, <3>3
  <2> QED
    BY <2>1, <2>2
<1> QED
  BY InitiallyQuiet, <1>2, <1>3, PTL DEF Spec

---------------------------------------------------------------------------
(* That a match is let go of.                                              *)

Details == {"preKO", "live", "fullTime"}
Final == {"FT", "PST"}
Round == Every["live"] + Latency
LastPeriod == now - ((now - booted) % Every["discovery"])

(* A match ends in one way, and the loop hears of no other.                *)
OneEnd == \A s \in Final : provider # s => Heard(Statuses \ {s})

(* A record has the kickoff of the match or none, and since when it is     *)
(* final if it is.                                                         *)
Dates ==
    record # None => /\ record.kickoff \in {None, kickoff}
                     /\ record.finalSince # None <=> record.status = "FT"

(* Calls and cached answers are as old as they can be.                     *)
Aged ==
    /\ \A t \in StatusTasks : flight[t] # None =>
           /\ flight[t].since <= now /\ now <= flight[t].since + Latency
           /\ flight[t].answer = "void" => flight[t].cached
    /\ \A k \in StatusKeys : cache[k] # None => cache[k].expires <= now + Ttl[k]

(* After the end, those of before are of before.                           *)
Stale ==
    over # None =>
        /\ \A k \in StatusKeys : cache[k] # None /\ cache[k].answer \in Before =>
               cache[k].expires <= over + Latency + Ttl[k]
        /\ \A t \in StatusTasks : flight[t] # None /\ flight[t].answer \in Before =>
               /\ ~flight[t].cached => flight[t].since <= over
               /\ flight[t].since <= over + Latency + Ttl[KeyOf[t]]

(* By m all answers of before are in, and the live ticks after them.       *)
AnswersEnd(m) ==
    \A k \in StatusKeys : over + Ttl[k] + 2 * Latency + (failures + 1) * Setback <= m

(* And neither the clock nor a list has the match in play.                 *)
NewsEnd(m) == AnswersEnd(m) /\ kickoff + MaxLive <= m /\ kickoff + Behind <= m

(* A record that says it is in play is asked for by the live tick, once    *)
(* what it was told without a status has been served.                      *)
InPlayEnds ==
    \A m \in Int : over # None /\ AnswersEnd(m) /\ record # None /\ record.status = "LIVE" =>
        /\ flight["live"] = None => LastTick + Round <= m
        /\ flight["live"] # None => flight["live"].since + Latency <= m
        /\ Blanked(m - Round)

(* A discovery and its prune are early in a period of the discovery.       *)
Periods ==
    CallsAreShort =>
        /\ flight["discovery"] # None => flight["discovery"].since = LastPeriod
        /\ flight["prune"] # None => /\ LastPeriod <= flight["prune"].since
                                     /\ flight["prune"].since <= LastPeriod + Latency
                                     /\ now <= flight["prune"].since + Latency

(* A record has become final by then or, tracked once more, soon after a   *)
(* prune.                                                                  *)
FinalBy(m) ==
    record # None /\ record.status = "FT" =>
        \/ record.finalSince <= m + Latency
        \/ /\ record.finalSince <= m + 2 * Latency + FinalWindow
           /\ (record.finalSince - booted) % Every["discovery"] < 3 * Latency

(* A detail was asked for by then, in the window after the final, or in    *)
(* that of a record that was pruned.                                       *)
AskedBy(m, t) ==
    flight[t] # None =>
        \/ flight[t].since <= m
        \/ /\ record # None /\ record.status = "FT"
           /\ flight[t].since <= record.finalSince + FinalWindow
        \/ /\ record = None /\ provider = "FT"
           /\ flight[t].since <= m + Latency + FinalWindow
           /\ flight[t].since < LastPeriod + 2 * Latency

EndedBy(m) == FinalBy(m) /\ \A t \in Details : AskedBy(m, t)

Ended == CallsAreShort => \A m \in Int : over # None /\ NewsEnd(m) => EndedBy(m)

EndInv == IInv /\ OneEnd /\ Dates /\ Aged /\ Stale /\ InPlayEnds /\ Periods /\ Ended

(* What these arguments use of the types.                                  *)
LEMMA EndTypes ==
    ASSUME LifecycleTypes
    PROVE  /\ now \in Nat /\ booted \in Nat /\ kickoff \in Nat /\ failures \in Nat
           /\ over # None => over \in Nat
           /\ flight \in [Tasks -> OrNone(Calls)] /\ cache \in [Keys -> OrNone(Entries)]
           /\ \A t \in Tasks : flight[t] # None => flight[t].since \in Nat
           /\ \A t \in StatusTasks : flight[t] # None => flight[t].answer \in Statuses \union {"void"}
           /\ \A k \in Keys : cache[k] # None => cache[k].expires \in Int
           /\ record # None => record \in Records /\ record.status \in Statuses
           /\ record # None => record.finalSince = None \/ record.finalSince \in Int
           /\ Details \subseteq StatusTasks /\ StatusTasks \subseteq Tasks /\ StatusKeys \subseteq Keys
           /\ \A t \in StatusTasks : KeyOf[t] \in StatusKeys
           /\ {"discovery", "prune", "live"} \subseteq Tasks /\ "discovery" \in StatusTasks
<1>1. TypeOK /\ Heard(Statuses)
  BY DEF LifecycleTypes
<1>2. /\ Details \subseteq StatusTasks /\ StatusTasks \subseteq Tasks /\ StatusKeys \subseteq Keys
      /\ \A t \in StatusTasks : KeyOf[t] \in StatusKeys
      /\ {"discovery", "prune", "live"} \subseteq Tasks /\ "discovery" \in StatusTasks
  BY StatusTasksHaveStatusKeys DEF Details, Tasks, Timed, StatusTasks, StatusKeys
<1>3. /\ \A t \in Tasks : flight[t] # None => flight[t].since \in Nat
      /\ \A k \in Keys : cache[k] # None => cache[k].expires \in Int
  BY <1>1 DEF TypeOK, OrNone, Calls, Entries
<1>4. \A t \in StatusTasks : flight[t] # None => flight[t].answer \in Statuses \union {"void"}
  BY <1>1 DEF Heard
<1>5. /\ record # None => record \in Records /\ record.status \in Statuses
      /\ record # None => record.finalSince = None \/ record.finalSince \in Int
  BY <1>1 DEF TypeOK, OrNone, Records
<1> QED
  BY <1>1, <1>2, <1>3, <1>4, <1>5, TimeTypes DEF TypeOK

LEMMA EndConstants ==
    /\ Latency \in Nat /\ FinalWindow \in Nat /\ MaxLive \in Nat /\ Behind \in Nat
    /\ Every["live"] \in Nat \ {0} /\ Every["discovery"] \in Nat \ {0}
    /\ Round \in Nat \ {0} /\ Round = Every["live"] + Latency
    /\ Setback \in Nat /\ Ttl["live"] \in Nat /\ Setback = Round + Ttl["live"] + Latency
    /\ \A k \in Keys : Ttl[k] \in Nat
BY WindowsAssumption, LifecycleBounds DEF Timed, Keys, Round, Setback

(* Failures only put the end of the answers off, by a setback each.        *)
LEMMA AnswersEndLater ==
    ASSUME LifecycleTypes, over # None, NEW m \in Int, AnswersEnd(m)'
    PROVE  /\ over' = over /\ (failures' = failures \/ failures' = failures + 1) => AnswersEnd(m)
           /\ over' = over /\ failures' = failures + 1 => AnswersEnd(m - Setback)
<1>1. failures \in Nat /\ over \in Nat /\ now \in Nat /\ StatusKeys \subseteq Keys
  BY EndTypes
<1>2. Latency \in Nat /\ Setback \in Nat /\ \A k \in Keys : Ttl[k] \in Nat
  BY EndConstants
<1> DEFINE f == (failures + 1) * Setback
           f1 == (failures' + 1) * Setback
<1>3. \A k \in StatusKeys : over' + Ttl[k] + 2 * Latency + f1 <= m
  BY DEF AnswersEnd, Setback
<1>4. f \in Nat /\ f >= Setback
  BY <1>1, <1>2
<1>5. failures' = failures => f1 = f
  OBVIOUS
<1>6. failures' = failures + 1 => f1 = f + Setback
  BY <1>1, <1>2
<1> HIDE DEF f, f1
<1>7. ASSUME over' = over, failures' = failures PROVE AnswersEnd(m)
  BY <1>3, <1>5, <1>7 DEF AnswersEnd, f
<1>8. ASSUME over' = over, failures' = failures + 1
      PROVE  AnswersEnd(m) /\ AnswersEnd(m - Setback)
  <2>1. \A k \in StatusKeys : /\ over + Ttl[k] + 2 * Latency + f <= m
                              /\ over + Ttl[k] + 2 * Latency + f <= m - Setback
    BY <1>1, <1>2, <1>3, <1>4, <1>6, <1>8
  <2> QED
    BY <2>1 DEF AnswersEnd, f
<1> QED
  BY <1>7, <1>8

LEMMA AnswersEndAfter ==
    ASSUME LifecycleTypes, NEW m \in Int
    PROVE  /\ over # None /\ AnswersEnd(m) =>
                  \A k \in StatusKeys : over + Ttl[k] + 2 * Latency + Setback <= m
           /\ over' = now /\ failures' = failures /\ AnswersEnd(m)' => now + Setback <= m /\ now <= m
<1>1. failures \in Nat /\ (over # None => over \in Nat) /\ now \in Nat /\ StatusKeys \subseteq Keys
  BY EndTypes
<1>2. Latency \in Nat /\ Setback \in Nat /\ \A k \in Keys : Ttl[k] \in Nat
  BY EndConstants
<1> DEFINE f == (failures + 1) * Setback
<1>3. f \in Nat /\ f >= Setback
  BY <1>1, <1>2
<1> HIDE DEF f
<1>4. ASSUME over # None, AnswersEnd(m)
      PROVE  \A k \in StatusKeys : over + Ttl[k] + 2 * Latency + Setback <= m
  <2>1. \A k \in StatusKeys : over + Ttl[k] + 2 * Latency + f <= m
    BY <1>4 DEF AnswersEnd, f
  <2> QED
    BY <1>1, <1>2, <1>3, <1>4, <2>1
<1>5. ASSUME over' = now, failures' = failures, AnswersEnd(m)'
      PROVE  now + Setback <= m /\ now <= m
  <2>1. \A k \in StatusKeys : now + Ttl[k] + 2 * Latency + f <= m
    BY <1>5 DEF AnswersEnd, f, Setback
  <2>2. "list" \in StatusKeys
    BY DEF StatusKeys, Keys
  <2>3. now + Ttl["list"] + 2 * Latency + f <= m /\ Ttl["list"] \in Nat
    BY <1>1, <1>2, <2>1, <2>2
  <2> QED
    BY <1>1, <1>2, <1>3, <2>3
<1> QED
  BY <1>4, <1>5

(* A call that is new reads the provider, or what is fresh in the cache.   *)
NewCall(t) ==
    /\ flight'[t].since = now'
    /\ \/ flight'[t].answer = provider
       \/ /\ cache[KeyOf[t]] # None /\ now' < cache[KeyOf[t]].expires
          /\ flight'[t].answer = cache[KeyOf[t]].answer /\ flight'[t].cached

KeptCall(t) ==
    flight'[t] = flight[t] /\ (flight[t] # None => now' = now \/ now < flight[t].since + Latency)

LEMMA NewCallIs ==
    ASSUME NEW t \in StatusTasks, NEW time, time = now', flight'[t] = Asked(t, time)
    PROVE  NewCall(t)
<1>1. KeyOf[t] # "lineups"
  BY StatusTasksHaveStatusKeys
<1> QED
  BY <1>1 DEF NewCall, Asked, Fresh

(* What becomes of a call in a step.                                       *)
LEMMA CallsAfter ==
    ASSUME LifecycleTypes, [Next]_vars, NEW t \in StatusTasks
    PROVE  flight'[t] = None \/ KeptCall(t) \/ NewCall(t)
<1>1. /\ flight \in [Tasks -> OrNone(Calls)] /\ t \in Tasks /\ t # "lineups" /\ t # "prune"
      /\ {"discovery", "preKO", "live", "fullTime", "lineups", "prune", "fallback"} = Tasks
  BY EndTypes, TimeTypes DEF StatusTasks
<1>2. CASE LandDiscovery
  BY <1>1, <1>2 DEF LandDiscovery, BackFromDiscovery, Back, KeptCall
<1>3. CASE Prune
  BY <1>1, <1>3 DEF Prune, Back, KeptCall
<1>4. ASSUME NEW u \in {"preKO", "live", "fullTime"}, LandDetail(u)
      PROVE  flight'[t] = None \/ KeptCall(t) \/ NewCall(t)
  BY <1>1, <1>4 DEF LandDetail, Back, KeptCall
<1>5. CASE LandLineups
  <2>1. CASE t = "fallback" /\ flight'[t] = Asked("fallback", now)
    BY <1>5, <2>1, NewCallIs DEF LandLineups
  <2>2. CASE ~(t = "fallback" /\ flight'[t] = Asked("fallback", now))
    BY <1>1, <1>5, <2>2 DEF LandLineups, BackFromLineups, Back, KeptCall
  <2> QED
    BY <2>1, <2>2
<1>6. CASE LandFallback
  BY <1>1, <1>6 DEF LandFallback, Back, KeptCall
<1>7. ASSUME NEW u \in Tasks, Fail(u)
      PROVE  flight'[t] = None \/ KeptCall(t) \/ NewCall(t)
  BY <1>1, <1>7 DEF Fail, BackFromDiscovery, Back, KeptCall
<1>8. CASE KickOff \/ Whistle \/ CallOff \/ UNCHANGED vars
  BY <1>8 DEF KickOff, Whistle, CallOff, vars, worker, KeptCall
<1>9. CASE Restart
  <2>1. CASE t = "discovery"
    <3>1. flight'[t] = Question(provider, FALSE) /\ now' = now
      BY <1>1, <1>9, <2>1 DEF Restart
    <3> QED
      BY <3>1 DEF NewCall, Question
  <2>2. CASE t # "discovery"
    BY <1>1, <1>9, <2>2 DEF Restart
  <2> QED
    BY <2>1, <2>2
<1>10. CASE Pass
  <2>1. CASE t \in Calling(now + 1)
    <3>1. flight'[t] = Asked(t, now + 1) /\ now' = now + 1
      BY <1>1, <1>10, <2>1 DEF Pass
    <3> QED
      BY <3>1, NewCallIs
  <2>2. CASE t \notin Calling(now + 1)
    BY <1>1, <1>10, <2>2 DEF Pass, KeptCall
  <2> QED
    BY <2>1, <2>2
<1>11. ASSUME NEW u \in Tasks, BringNothing(u)
       PROVE  flight'[t] = None \/ KeptCall(t) \/ NewCall(t)
  <2>1. TypeOK /\ now' = now
    BY <1>11 DEF BringNothing, LifecycleTypes
  <2>2. CASE t = "fallback" /\ flight'[t] = Asked("fallback", now)
    BY <2>1, <2>2, NewCallIs
  <2>3. CASE ~(t = "fallback" /\ flight'[t] = Asked("fallback", now))
    BY <1>1, <1>11, <2>1, <2>3, NothingIs DEF KeptCall
  <2> QED
    BY <2>2, <2>3
<1> QED
  BY <1>2, <1>3, <1>4, <1>5, <1>6, <1>7, <1>8, <1>9, <1>10, <1>11 DEF Next

(* What becomes of a cached status.                                        *)
Landed(t) ==
    /\ flight[t] # None /\ ~flight[t].cached /\ now' = now
    /\ cache'[KeyOf[t]] = [answer |-> flight[t].answer, expires |-> now + Ttl[KeyOf[t]]]

LEMMA StoreIs ==
    ASSUME LifecycleTypes, NEW t \in StatusTasks, flight[t] # None, Store(t), now' = now,
           NEW k \in StatusKeys
    PROVE  cache'[k] = cache[k] \/ (KeyOf[t] = k /\ Landed(t))
<1>1. /\ cache \in [Keys -> OrNone(Entries)] /\ KeyOf[t] \in Keys /\ k \in Keys
      /\ flight[t].answer \in Statuses \union {"void"}
  BY EndTypes
<1>2. TtlOf(KeyOf[t], flight[t].answer) = Ttl[KeyOf[t]]
  BY <1>1 DEF TtlOf, Statuses
<1> QED
  BY <1>1, <1>2 DEF Store, Stored, Landed

Emptied(k) == now' = now /\ cache'[k] = [answer |-> "void", expires |-> now + Ttl[k]]

LEMMA CacheAfter ==
    ASSUME LifecycleTypes, [Next]_vars, NEW k \in StatusKeys
    PROVE  \/ cache'[k] = None \/ cache'[k] = cache[k] \/ Emptied(k)
           \/ \E t \in StatusTasks : KeyOf[t] = k /\ Landed(t)
<1>1. /\ cache \in [Keys -> OrNone(Entries)] /\ k \in Keys /\ k # "lineups"
      /\ {"discovery", "preKO", "live", "fullTime", "fallback"} = StatusTasks
  BY EndTypes, StatusTasksHaveStatusKeys
<1>2. CASE LandDiscovery
  BY <1>1, <1>2, StoreIs DEF LandDiscovery
<1>3. CASE Prune
  BY <1>3 DEF Prune
<1>4. ASSUME NEW u \in {"preKO", "live", "fullTime"}, LandDetail(u)
      PROVE  cache'[k] = cache[k] \/ \E t \in StatusTasks : KeyOf[t] = k /\ Landed(t)
  BY <1>1, <1>4, StoreIs DEF LandDetail
<1>5. CASE LandLineups
  BY <1>1, <1>5 DEF LandLineups, Store, Stored, KeyOf
<1>6. CASE LandFallback
  BY <1>1, <1>6, StoreIs DEF LandFallback
<1>7. ASSUME NEW u \in Tasks, Fail(u) PROVE cache' = cache
  BY <1>7 DEF Fail
<1>8. CASE KickOff \/ Whistle \/ CallOff \/ UNCHANGED vars
  BY <1>8 DEF KickOff, Whistle, CallOff, vars, worker
<1>9. CASE Restart
  BY <1>1, <1>9 DEF Restart
<1>10. CASE Pass
  BY <1>1, <1>10 DEF Pass, Unexpired
<1>11. ASSUME NEW u \in Tasks, BringNothing(u) PROVE cache'[k] = cache[k] \/ Emptied(k)
  <2>1. TypeOK /\ now' = now
    BY <1>11 DEF BringNothing, LifecycleTypes
  <2> QED
    BY <1>1, <1>11, <2>1, NothingIs DEF Emptied
<1> QED
  BY <1>2, <1>3, <1>4, <1>5, <1>6, <1>7, <1>8, <1>9, <1>10, <1>11 DEF Next

(* What becomes of the record.                                             *)
LEMMA RecordAfter ==
    ASSUME LifecycleTypes, [Next]_vars
    PROVE  \/ record' = record
           \/ record' = None /\ (Restart \/ (Prune /\ Phase = "settled"))
           \/ /\ LandDiscovery /\ flight["discovery"].answer # "void"
              /\ Discoverable(flight["discovery"].answer)
              /\ record' = Upserted(flight["discovery"].answer, kickoff)
           \/ \E t \in Details : /\ LandDetail(t) /\ flight[t].answer # "void"
                               /\ record' = Upserted(flight[t].answer, None)
<1>1. CASE LandDiscovery
  BY <1>1 DEF LandDiscovery
<1>2. CASE Prune
  BY <1>2 DEF Prune
<1>3. ASSUME NEW t \in {"preKO", "live", "fullTime"}, LandDetail(t)
      PROVE  \/ record' = record
             \/ /\ t \in Details /\ flight[t].answer # "void"
                /\ record' = Upserted(flight[t].answer, None)
  BY <1>3 DEF LandDetail, Details
<1>4. ASSUME NEW t \in Tasks, Fail(t) \/ BringNothing(t) PROVE record' = record
  BY <1>4 DEF Fail, BringNothing
<1>5. CASE LandLineups \/ LandFallback \/ KickOff \/ Whistle \/ CallOff \/ Pass \/ UNCHANGED vars
  BY <1>5 DEF LandLineups, LandFallback, KickOff, Whistle, CallOff, Pass, vars, worker
<1>6. CASE Restart
  BY <1>6 DEF Restart
<1> QED
  BY <1>1, <1>2, <1>3, <1>4, <1>5, <1>6 DEF Next

LEMMA TimePasses ==
    ASSUME [Next]_vars
    PROVE  now' = now \/ now' = now + 1
BY DEF Next, LandDiscovery, Prune, LandDetail, LandLineups, LandFallback, Fail, BringNothing, KickOff,
       Whistle, CallOff, Restart, Pass, vars

(* The end comes once, and the loop does not stir.                         *)
Ends == over = None /\ over' = now /\ now' = now /\ worker' = worker /\ failures' = failures

LEMMA OverAfter ==
    ASSUME LifecycleTypes, MatchRuns, [Next]_vars, over' # None
    PROVE  \/ Ends /\ (Whistle \/ CallOff)
           \/ /\ over # None /\ over' = over /\ provider' = provider /\ provider \in Final
              /\ ~Whistle /\ ~CallOff /\ ~KickOff
<1>1. provider \in Statuses /\ None \notin Int /\ now \in Nat
  BY EndTypes, NoneIsNothing DEF LifecycleTypes, TypeOK
<1>2. CASE Whistle \/ CallOff
  BY <1>1, <1>2 DEF Whistle, CallOff, MatchRuns, Ends
<1>3. CASE KickOff
  BY <1>3 DEF KickOff, MatchRuns
<1>4. CASE ~Whistle /\ ~CallOff /\ ~KickOff
  BY <1>1, <1>4, ChangesOfTheMatch DEF MatchRuns, Final, Statuses
<1> QED
  BY <1>2, <1>3, <1>4

LEMMA OneEndKept ==
    ASSUME LifecycleTypes, HeardWhatWas, MatchRuns, OneEnd, [Next]_vars
    PROVE  OneEnd'
<1> SUFFICES ASSUME NEW s \in Final, provider' # s PROVE Heard(Statuses \ {s})'
    BY DEF OneEnd
<1>1. CASE Whistle \/ CallOff \/ KickOff
  <2>1. Heard({"NS", "LIVE"}) \/ Heard({"NS"})
    BY <1>1 DEF Whistle, CallOff, KickOff, HeardWhatWas
  <2>2. {"NS", "LIVE"} \subseteq Statuses \ {s} /\ {"NS"} \subseteq Statuses \ {s}
    BY DEF Statuses, Final
  <2>3. Heard(Statuses \ {s})
    BY <2>1, <2>2 DEF Heard
  <2> QED
    BY <1>1, <2>3 DEF Whistle, CallOff, KickOff, worker, Heard
<1>2. CASE ~Whistle /\ ~CallOff /\ ~KickOff
  <2>1. provider \in Statuses \ {s}
    BY <1>2, ChangesOfTheMatch DEF LifecycleTypes, TypeOK
  <2>2. Heard(Statuses \ {s})
    BY <2>1 DEF OneEnd
  <2> QED
    BY <2>1, <2>2, HeardKept
<1> QED
  BY <1>1, <1>2

(* What upsertFixtures makes of the dates.                                 *)
LEMMA UpsertedDates ==
    ASSUME LifecycleTypes, Dates, NEW status \in Statuses, NEW k \in {None, kickoff}
    PROVE  /\ Upserted(status, k) # None
           /\ Upserted(status, k).status = status
           /\ Upserted(status, k).kickoff \in {None, kickoff}
           /\ Upserted(status, k).finalSince # None <=> status = "FT"
           /\ status = "FT" => Upserted(status, k).finalSince =
                 IF record # None /\ record.status = "FT" THEN record.finalSince ELSE now
<1>1. /\ now \in Nat /\ kickoff \in Nat /\ None \notin Int /\ TypeOK
      /\ k \in OrNone(Int)
  BY EndTypes, NoneIsNothing DEF LifecycleTypes, OrNone
<1>2. Upserted(status, k) # None
  BY <1>1, UpsertedType
<1> QED
  BY <1>1, <1>2 DEF Upserted, Dates

LEMMA DatesKept ==
    ASSUME LifecycleTypes, Dates, [Next]_vars
    PROVE  Dates'
<1>1. /\ kickoff' = kickoff
      /\ \A t \in StatusTasks : flight[t] # None => flight[t].answer \in Statuses \union {"void"}
      /\ Details \subseteq StatusTasks /\ "discovery" \in StatusTasks
  BY EndTypes, ChangesOfTheMatch
<1>2. CASE record' = record \/ record' = None
  BY <1>1, <1>2 DEF Dates
<1>3. ASSUME NEW t \in StatusTasks, flight[t] # None, flight[t].answer # "void", NEW k \in {None, kickoff},
             record' = Upserted(flight[t].answer, k)
      PROVE  Dates'
  BY <1>1, <1>3, UpsertedDates DEF Dates
<1>4. CASE /\ LandDiscovery /\ flight["discovery"].answer # "void"
          /\ record' = Upserted(flight["discovery"].answer, kickoff)
  BY <1>1, <1>3, <1>4 DEF LandDiscovery
<1>5. ASSUME NEW t \in Details, LandDetail(t), flight[t].answer # "void",
             record' = Upserted(flight[t].answer, None)
      PROVE  Dates'
  BY <1>1, <1>3, <1>5 DEF LandDetail
<1> QED
  BY <1>2, <1>4, <1>5, RecordAfter

LEMMA AgedKept ==
    ASSUME LifecycleTypes, Aged, [Next]_vars
    PROVE  Aged'
<1>1. /\ now \in Nat /\ Latency \in Nat /\ StatusKeys \subseteq Keys /\ StatusTasks \subseteq Tasks
      /\ \A t \in Tasks : flight[t] # None => flight[t].since \in Nat
      /\ \A k \in Keys : cache[k] # None => cache[k].expires \in Int
      /\ \A k \in Keys : Ttl[k] \in Nat
  BY EndTypes, EndConstants
<1>2. now' = now \/ now' = now + 1
  BY TimePasses
<1>5. provider # "void"
  BY DEF LifecycleTypes, TypeOK, Statuses
<1>3. ASSUME NEW t \in StatusTasks, flight'[t] # None
      PROVE  /\ flight'[t].since <= now' /\ now' <= flight'[t].since + Latency
             /\ flight'[t].answer = "void" => flight'[t].cached
  <2>1. CASE KeptCall(t)
    BY <1>1, <1>2, <1>3, <2>1 DEF KeptCall, Aged
  <2>2. CASE NewCall(t)
    BY <1>1, <1>2, <1>5, <2>2 DEF NewCall
  <2> QED
    BY <1>3, <2>1, <2>2, CallsAfter
<1>4. ASSUME NEW k \in StatusKeys, cache'[k] # None
      PROVE  cache'[k].expires <= now' + Ttl[k]
  <2>1. CASE cache'[k] = cache[k]
    <3>1. cache[k].expires <= now + Ttl[k] /\ cache[k].expires \in Int /\ Ttl[k] \in Nat
      BY <1>1, <1>4, <2>1 DEF Aged
    <3> QED
      BY <1>1, <1>2, <2>1, <3>1
  <2>2. CASE \E t \in StatusTasks : KeyOf[t] = k /\ Landed(t)
    BY <1>1, <2>2 DEF Landed
  <2>3. CASE Emptied(k)
    BY <1>1, <2>3 DEF Emptied
  <2> QED
    BY <1>4, <2>1, <2>2, <2>3, CacheAfter
<1> QED
  BY <1>3, <1>4 DEF Aged

LEMMA StaleKept ==
    ASSUME LifecycleTypes, MatchRuns, Aged, Stale, [Next]_vars
    PROVE  Stale'
<1> SUFFICES ASSUME over' # None PROVE Stale'
    BY DEF Stale
<1>1. /\ now \in Nat /\ Latency \in Nat /\ StatusKeys \subseteq Keys /\ StatusTasks \subseteq Tasks
      /\ over # None => over \in Nat
      /\ \A t \in StatusTasks : KeyOf[t] \in StatusKeys
      /\ \A t \in Tasks : flight[t] # None => flight[t].since \in Nat
      /\ \A k \in Keys : cache[k] # None => cache[k].expires \in Int
      /\ \A k \in Keys : Ttl[k] \in Nat
  BY EndTypes, EndConstants
<1>2. CASE Ends
  <2>1. cache' = cache /\ flight' = flight /\ over' = now
    BY <1>2 DEF Ends, worker
  <2>2. \A k \in StatusKeys : cache[k] # None => cache[k].expires <= now + Latency + Ttl[k]
    BY <1>1 DEF Aged
  <2>3. \A t \in StatusTasks : flight[t] # None =>
            flight[t].since <= now /\ flight[t].since <= now + Latency + Ttl[KeyOf[t]]
    BY <1>1 DEF Aged
  <2> QED
    BY <2>1, <2>2, <2>3 DEF Stale
<1>3. CASE over # None /\ over' = over /\ provider \in Final
  <2>1. ASSUME NEW k \in StatusKeys, cache'[k] # None, cache'[k].answer \in Before
        PROVE  cache'[k].expires <= over' + Latency + Ttl[k]
    <3>1. CASE cache'[k] = cache[k]
      BY <1>3, <2>1, <3>1 DEF Stale
    <3>2. ASSUME NEW t \in StatusTasks, KeyOf[t] = k, Landed(t)
          PROVE  cache'[k].expires <= over' + Latency + Ttl[k]
      <4>1. flight[t] # None /\ ~flight[t].cached /\ flight[t].answer \in Before
        BY <2>1, <3>2 DEF Landed
      <4>2. flight[t].since <= over /\ now <= flight[t].since + Latency /\ flight[t].since \in Nat
        BY <1>1, <1>3, <4>1 DEF Stale, Aged
      <4>3. cache'[k].expires = now + Ttl[k] /\ Ttl[k] \in Nat
        BY <1>1, <3>2 DEF Landed
      <4> QED
        BY <1>1, <1>3, <4>2, <4>3
    <3>3. ~Emptied(k)
      BY <2>1 DEF Emptied, Before
    <3> QED
      BY <2>1, <3>1, <3>2, <3>3, CacheAfter
  <2>2. ASSUME NEW t \in StatusTasks, flight'[t] # None, flight'[t].answer \in Before
        PROVE  /\ ~flight'[t].cached => flight'[t].since <= over'
               /\ flight'[t].since <= over' + Latency + Ttl[KeyOf[t]]
    <3>1. CASE KeptCall(t)
      BY <1>3, <2>2, <3>1 DEF KeptCall, Stale
    <3>2. CASE NewCall(t)
      <4>1. /\ cache[KeyOf[t]] # None /\ now' < cache[KeyOf[t]].expires
            /\ cache[KeyOf[t]].answer \in Before /\ flight'[t].cached /\ flight'[t].since = now'
        BY <1>3, <2>2, <3>2 DEF NewCall, Final, Before
      <4>2. /\ KeyOf[t] \in StatusKeys /\ cache[KeyOf[t]].expires \in Int /\ Ttl[KeyOf[t]] \in Nat
            /\ now' \in Nat
        <5>1. now' = now \/ now' = now + 1
          BY TimePasses
        <5> QED
          BY <1>1, <4>1, <5>1
      <4>3. cache[KeyOf[t]].expires <= over + Latency + Ttl[KeyOf[t]]
        BY <1>3, <4>1, <4>2 DEF Stale
      <4> QED
        BY <1>1, <1>3, <4>1, <4>2, <4>3
    <3> QED
      BY <2>2, <3>1, <3>2, CallsAfter
  <2> QED
    BY <2>1, <2>2 DEF Stale
<1> QED
  BY <1>2, <1>3, OverAfter

(* A status of before the end lands before the end of the answers.         *)
LEMMA StaleIsEarly ==
    ASSUME LifecycleTypes, Aged, Stale, over # None, NEW m \in Int, AnswersEnd(m),
           NEW t \in StatusTasks, flight[t] # None, flight[t].answer \in Before
    PROVE  now + Setback <= m /\ now <= m
<1>1. /\ now \in Nat /\ over \in Nat /\ flight[t].since \in Nat /\ KeyOf[t] \in StatusKeys
      /\ StatusKeys \subseteq Keys
  BY EndTypes
<1>2. Latency \in Nat /\ Setback \in Nat /\ Ttl[KeyOf[t]] \in Nat
  BY <1>1, EndConstants
<1>3. /\ flight[t].since <= over + Latency + Ttl[KeyOf[t]]
      /\ now <= flight[t].since + Latency
  BY DEF Stale, Aged
<1>4. over + Ttl[KeyOf[t]] + 2 * Latency + Setback <= m
  BY <1>1, AnswersEndAfter
<1> QED
  BY <1>1, <1>2, <1>3, <1>4

(* The last tick was less than an interval ago.                            *)
LEMMA LastTickIs ==
    ASSUME LifecycleTypes
    PROVE  /\ LastTick \in Int /\ LastTick <= now /\ now < LastTick + Every["live"]
           /\ now' = now /\ booted' = booted => LastTick' = LastTick
           /\ now' = now + 1 /\ booted' = booted /\ ((now + 1) - booted) % Every["live"] # 0 =>
                  LastTick' = LastTick
<1> DEFINE e == Every["live"]
           r == (now - booted) % e
           r1 == ((now + 1) - booted) % e
<1>1. now \in Nat /\ now - booted \in Int /\ (now - booted) + 1 = (now + 1) - booted
  BY EndTypes
<1>2. e \in Nat \ {0}
  BY EndConstants
<1>3. LastTick = now - r /\ (now' = now /\ booted' = booted => LastTick' = now - r)
      /\ (now' = now + 1 /\ booted' = booted => LastTick' = (now + 1) - r1)
  BY DEF LastTick
<1>4. r \in 0 .. e - 1 /\ (r1 = 0 \/ r1 = r + 1)
  <2> HIDE DEF e
  <2> QED
    BY <1>1, <1>2, NextTick
<1>5. ((now + 1) - booted) % Every["live"] = r1
  OBVIOUS
<1>6. Every["live"] = e
  OBVIOUS
<1> HIDE DEF e, r, r1
<1>7. now - r \in Int /\ now - r <= now /\ now < (now - r) + e
  BY <1>1, <1>2, <1>4
<1>8. r1 = r + 1 => (now + 1) - r1 = now - r
  BY <1>1, <1>2, <1>4
<1> QED
  BY <1>3, <1>4, <1>5, <1>6, <1>7, <1>8

(* A record in play is asked for within a round of the last tick.          *)
LEMMA InPlayEndsKept ==
    ASSUME EndInv, [Next]_vars
    PROVE  InPlayEnds'
<1> SUFFICES ASSUME NEW m \in Int, over' # None, AnswersEnd(m)', record' # None,
                    record'.status = "LIVE"
             PROVE  /\ flight'["live"] = None => LastTick' + Round <= m
                    /\ flight'["live"] # None => flight'["live"].since + Latency <= m
                    /\ Blanked(m - Round)'
    BY DEF InPlayEnds, Round, Blanked
<1>1. /\ LifecycleTypes /\ MatchRuns /\ Aged /\ Stale /\ Dates
  BY DEF EndInv, IInv
<1>2. /\ now \in Nat
      /\ flight["live"] # None => /\ flight["live"].since \in Nat
                                  /\ flight["live"].since <= now
                                  /\ now <= flight["live"].since + Latency
      /\ LastTick \in Int /\ LastTick <= now /\ now < LastTick + Every["live"]
      /\ cache["live"] # None => cache["live"].expires <= now + Ttl["live"]
      /\ cache["live"] # None => cache["live"].expires \in Int
      /\ flight["live"] # None /\ flight["live"].answer = "void" => flight["live"].cached
      /\ "live" \in StatusKeys /\ "live" \in StatusTasks
  BY <1>1, EndTypes, LastTickIs DEF Aged, Details, StatusKeys, Keys
<1>3. /\ Latency \in Nat /\ Round \in Nat /\ Round = Every["live"] + Latency /\ Every["live"] \in Nat
      /\ Ttl["live"] \in Nat /\ Setback \in Nat /\ Setback = Round + Ttl["live"] + Latency
  BY EndConstants
<1> DEFINE Goal == /\ flight'["live"] = None => LastTick' + Round <= m
                   /\ flight'["live"] # None => flight'["live"].since + Latency <= m
                   /\ flight'["live"] # None /\ flight'["live"].answer = "void" =>
                          flight'["live"].since + Latency <= m - Round
                   /\ cache'["live"] # None /\ cache'["live"].answer = "void" =>
                          Ttl["live"] = 0 \/ cache'["live"].expires + Latency <= m - Round
<1> SUFFICES Goal
    BY DEF Blanked, Round
(* when it is early, all is well *)
<1>4. ASSUME now + Setback <= m, now' = now, booted' = booted,
             flight'["live"] = None \/ flight'["live"] = flight["live"]
      PROVE  Goal
  <2>1. LastTick' = LastTick
    BY <1>1, <1>4, LastTickIs
  <2>2. cache'["live"] # None => \/ cache'["live"].expires = now + Ttl["live"]
                                 \/ cache'["live"] = cache["live"]
    <3>1. \/ cache'["live"] = None \/ cache'["live"] = cache["live"] \/ Emptied("live")
          \/ \E t \in StatusTasks : KeyOf[t] = "live" /\ Landed(t)
      BY <1>1, <1>2, CacheAfter
    <3>2. ASSUME NEW t \in StatusTasks, KeyOf[t] = "live", Landed(t)
          PROVE  cache'["live"].expires = now + Ttl["live"]
      BY <3>2 DEF Landed
    <3>3. Emptied("live") => cache'["live"].expires = now + Ttl["live"]
      BY DEF Emptied
    <3> QED
      BY <3>1, <3>2, <3>3
  <2>3. /\ flight'["live"] # None /\ flight'["live"].answer = "void" =>
               flight'["live"].since + Latency <= m - Round
        /\ flight'["live"] # None => flight'["live"].since + Latency <= m
        /\ flight'["live"] = None => LastTick' + Round <= m
    BY <1>2, <1>3, <1>4, <2>1
  <2>4. cache'["live"] # None => cache'["live"].expires + Latency <= m - Round
    <3> DEFINE x == cache'["live"].expires
               c == cache["live"].expires
    <3>1. cache'["live"] # None => x = now + Ttl["live"] \/ (x = c /\ c \in Int /\ c <= now + Ttl["live"])
      BY <1>2, <2>2
    <3> HIDE DEF x, c
    <3> QED
      BY <1>2, <1>3, <1>4, <3>1 DEF x
  <2> QED
    BY <2>3, <2>4
<1>5. CASE Ends
  <2>1. now + Setback <= m
    BY <1>1, <1>5, AnswersEndAfter DEF Ends
  <2> QED
    BY <1>4, <1>5, <2>1 DEF Ends, worker
<1>6. CASE over # None /\ over' = over
  <2>1. AnswersEnd(m)
    BY <1>1, <1>6, AnswersEndLater, ChangesOfTheMatch
  <2>2. ASSUME NEW t \in StatusTasks, flight[t] # None, flight[t].answer = "LIVE",
               now' = now, booted' = booted,
               flight'["live"] = None \/ flight'["live"] = flight["live"]
        PROVE  Goal
    <3>1. now + Setback <= m
      BY <1>1, <1>6, <2>1, <2>2, StaleIsEarly DEF Before
    <3> QED
      BY <1>4, <2>2, <3>1
  <2>3. CASE /\ LandDiscovery /\ flight["discovery"].answer # "void"
             /\ record' = Upserted(flight["discovery"].answer, kickoff)
    <3>1. flight["discovery"] # None /\ "discovery" \in StatusTasks /\ LiveAside
      BY <1>1, <2>3, EndTypes, LeftAside DEF LandDiscovery
    <3>2. flight["discovery"].answer = "LIVE"
      BY <2>3 DEF Upserted
    <3> QED
      BY <2>2, <3>1, <3>2 DEF LiveAside
  <2>4. ASSUME NEW t \in Details, LandDetail(t), flight[t].answer # "void",
               record' = Upserted(flight[t].answer, None)
        PROVE  Goal
    <3>1. /\ flight[t] # None /\ t \in StatusTasks /\ now' = now /\ booted' = booted
          /\ flight'["live"] = None \/ flight'["live"] = flight["live"]
      BY <1>1, <2>4, EndTypes DEF LandDetail, Back
    <3>2. flight[t].answer = "LIVE"
      BY <2>4 DEF Upserted
    <3> QED
      BY <2>2, <3>1, <3>2
  <2>5. CASE record' = record
    <3>1. \A n \in Int : AnswersEnd(n) =>
             /\ flight["live"] = None => LastTick + Round <= n
             /\ flight["live"] # None => flight["live"].since + Latency <= n
             /\ Blanked(n - Round)
      BY <1>6, <2>5 DEF EndInv, InPlayEnds
    <3>2. /\ flight["live"] = None => LastTick + Round <= m
          /\ flight["live"] # None => flight["live"].since + Latency <= m
          /\ flight["live"] # None /\ flight["live"].answer = "void" =>
                 flight["live"].since + Latency <= m - Round
          /\ cache["live"] # None /\ cache["live"].answer = "void" =>
                 Ttl["live"] = 0 \/ cache["live"].expires + Latency <= m - Round
      BY <2>1, <3>1 DEF Blanked
    <3>3. CASE LiveAside
      BY <1>1, <3>2, <3>3, LastTickIs DEF LiveAside
    <3>4. CASE LandDetail("live")
      <4>1. CASE flight["live"].answer # "void"
        <5>1. "live" \in Details /\ record' = Upserted(flight["live"].answer, None)
          BY <3>4, <4>1 DEF LandDetail, Details
        <5> QED
          BY <2>4, <3>4, <4>1, <5>1
      <4>2. CASE flight["live"].answer = "void"
        <5>1. /\ now' = now /\ booted' = booted /\ flight'["live"] = None /\ flight["live"] # None
              /\ cache'["live"] = cache["live"]
          BY <1>1, <1>2, <3>4, <4>2, LiveLands
        <5>2. now + Round <= m
          BY <1>2, <1>3, <3>2, <4>2, <5>1
        <5>3. LastTick' + Round <= m
          BY <1>1, <1>2, <1>3, <5>1, <5>2, LastTickIs
        <5> QED
          BY <3>2, <5>1, <5>3
      <4> QED
        BY <4>1, <4>2
    <3>5. CASE Fail("live")
      <4>1. /\ now' = now /\ booted' = booted /\ flight'["live"] = None /\ flight["live"] # None
            /\ failures' = failures + 1
        BY <1>1, <3>5, EndTypes DEF Fail, Back
      <4>2. AnswersEnd(m - Setback) /\ m - Setback \in Int
        BY <1>1, <1>3, <1>6, <4>1, AnswersEndLater
      <4>3. flight["live"].since + Latency <= m - Setback
        BY <3>1, <4>1, <4>2
      <4> QED
        BY <1>2, <1>3, <1>4, <4>1, <4>3
    <3>8. CASE BringNothing("live")
      <4>1. /\ now' = now /\ booted' = booted /\ flight'["live"] = None /\ flight["live"] # None
            /\ failures' = failures + 1
        BY <1>1, <3>8, LiveBlank
      <4>2. AnswersEnd(m - Setback) /\ m - Setback \in Int
        BY <1>1, <1>3, <1>6, <4>1, AnswersEndLater
      <4>3. flight["live"].since + Latency <= m - Setback
        BY <3>1, <4>1, <4>2
      <4> QED
        BY <1>2, <1>3, <1>4, <4>1, <4>3
    <3>6. CASE Restart
      BY <3>6 DEF Restart
    <3>7. CASE Pass
      <4>1. /\ now' = now + 1 /\ booted' = booted
            /\ \/ flight'["live"] = flight["live"]
               \/ /\ flight["live"] = None
                  /\ flight'["live"] = Asked("live", now + 1)
            /\ \/ flight'["live"] = Asked("live", now + 1)
               \/ flight["live"] # None
               \/ ((now + 1) - booted) % Every["live"] # 0
               \/ PhaseAt(now + 1) # "live"
            /\ Asked("live", now + 1) # None /\ Asked("live", now + 1).since = now + 1
            /\ cache'["live"] = None \/ cache'["live"] = cache["live"]
        BY <1>1, <1>2, <3>7, LivePasses, LiveAsks
      <4>6. Asked("live", now + 1).answer = "void" => (now + 1) + Latency <= m - Round
        <5> SUFFICES ASSUME Asked("live", now + 1).answer = "void"
                     PROVE  (now + 1) + Latency <= m - Round
            OBVIOUS
        <5>1. provider # "void"
          BY <1>1 DEF LifecycleTypes, TypeOK, Statuses
        <5>2. /\ cache["live"] # None /\ cache["live"].answer = "void"
              /\ now + 1 < cache["live"].expires
          BY <1>1, <1>2, <5>1, LiveAsks
        <5>3. Ttl["live"] # 0
          BY <1>2, <1>3, <5>2
        <5> QED
          BY <1>2, <1>3, <3>2, <5>2, <5>3
      <4>2. PhaseAt(now + 1) = "live"
        BY <2>5 DEF PhaseAt
      <4>3. CASE flight["live"] # None
        BY <3>2, <4>1, <4>3
      <4>4. CASE flight["live"] = None /\ flight'["live"] = Asked("live", now + 1)
        BY <1>2, <1>3, <3>2, <4>1, <4>4, <4>6
      <4>5. CASE flight["live"] = None /\ flight'["live"] # Asked("live", now + 1)
        <5>1. LastTick' = LastTick
          BY <1>1, <4>1, <4>2, <4>5, LastTickIs
        <5> QED
          BY <3>2, <4>1, <4>5, <5>1
      <4> QED
        BY <4>3, <4>4, <4>5
    <3> QED
      BY <1>1, <3>3, <3>4, <3>5, <3>6, <3>7, <3>8, StepsOfTheLiveTick
  <2> QED
    BY <1>1, <2>3, <2>4, <2>5, RecordAfter
<1> QED
  BY <1>1, <1>5, <1>6, OverAfter

(* Where in a period of the discovery a moment is.                         *)
LEMMA LastPeriodIs ==
    ASSUME LifecycleTypes
    PROVE  /\ LastPeriod \in Int /\ LastPeriod <= now /\ now < LastPeriod + Every["discovery"]
           /\ now - LastPeriod = (now - booted) % Every["discovery"]
           /\ now' = now /\ booted' = booted => LastPeriod' = LastPeriod
           /\ now' = now + 1 /\ booted' = booted =>
                  \/ /\ ((now + 1) - booted) % Every["discovery"] = 0
                     /\ LastPeriod' = now + 1 /\ now + 1 = LastPeriod + Every["discovery"]
                  \/ /\ ((now + 1) - booted) % Every["discovery"] # 0
                     /\ LastPeriod' = LastPeriod
<1> DEFINE e == Every["discovery"]
           r == (now - booted) % e
           r1 == ((now + 1) - booted) % e
<1>1. now \in Nat /\ now - booted \in Int /\ (now - booted) + 1 = (now + 1) - booted
  BY EndTypes
<1>2. e \in Nat \ {0}
  BY EndConstants
<1>3. LastPeriod = now - r /\ (now' = now /\ booted' = booted => LastPeriod' = now - r)
      /\ (now' = now + 1 /\ booted' = booted => LastPeriod' = (now + 1) - r1)
  BY DEF LastPeriod
<1>4. r \in 0 .. e - 1 /\ (r1 = 0 \/ r1 = r + 1) /\ (r1 = 0 => r = e - 1)
  <2> HIDE DEF e
  <2> QED
    BY <1>1, <1>2, NextTick
<1>5. ((now + 1) - booted) % Every["discovery"] = r1 /\ (now - booted) % Every["discovery"] = r
  OBVIOUS
<1>6. Every["discovery"] = e
  OBVIOUS
<1> HIDE DEF e, r, r1
<1>7. now - r \in Int /\ now - r <= now /\ now < (now - r) + e /\ now - (now - r) = r
  BY <1>1, <1>2, <1>4
<1>8. r1 # 0 => (now + 1) - r1 = now - r
  BY <1>1, <1>2, <1>4
<1>9. r1 = 0 => (now + 1) - r1 = now + 1 /\ now + 1 = (now - r) + e
  BY <1>1, <1>2, <1>4
<1> QED
  BY <1>3, <1>5, <1>6, <1>7, <1>8, <1>9

(* A boot starts a period.                                                 *)
LEMMA PeriodOfBoot ==
    ASSUME LifecycleTypes, now' = now, booted' = now % Every["discovery"]
    PROVE  LastPeriod' = now
<1> DEFINE e == Every["discovery"]
<1>1. now \in Int /\ e \in Nat \ {0}
  BY EndTypes, EndConstants
<1>2. LastPeriod' = now - ((now - (now % e)) % e)
  BY DEF LastPeriod
<1> HIDE DEF e
<1>3. (now - (now % e)) % e = 0
  BY <1>1, Aligned
<1> QED
  BY <1>1, <1>2, <1>3

LEMMA ShortCalls ==
    ASSUME CallsAreShort
    PROVE  /\ 2 * Latency <= FinalWindow
           /\ 4 * Latency + FinalWindow <= Every["discovery"]
           /\ 2 * Latency < Every["discovery"]
<1>1. Latency \in Nat /\ FinalWindow \in Nat /\ Every["discovery"] \in Nat \ {0}
  BY EndConstants
<1> QED
  BY <1>1 DEF CallsAreShort

(* When a discovery is called, and its prune after it.                     *)
DiscoveryGoes ==
    \/ flight'["discovery"] = None \/ KeptCall("discovery")
    \/ Restart /\ flight'["discovery"].since = now
    \/ /\ Pass /\ ((now + 1) - booted) % Every["discovery"] = 0
       /\ flight'["discovery"].since = now + 1

PruneGoes ==
    \/ flight'["prune"] = None \/ KeptCall("prune")
    \/ /\ flight["discovery"] # None /\ now' = now /\ booted' = booted
       /\ flight'["prune"].since = now

LEMMA DiscoveryAndPrune ==
    ASSUME LifecycleTypes, [Next]_vars
    PROVE  DiscoveryGoes /\ PruneGoes
<1>1. /\ flight \in [Tasks -> OrNone(Calls)]
      /\ {"discovery", "preKO", "live", "fullTime", "lineups", "prune", "fallback"} = Tasks
  BY TimeTypes
<1>2. CASE LandDiscovery
  BY <1>1, <1>2 DEF LandDiscovery, BackFromDiscovery, Back, DiscoveryGoes, PruneGoes, KeptCall, Question
<1>3. CASE Prune
  BY <1>1, <1>3 DEF Prune, Back, DiscoveryGoes, PruneGoes, KeptCall
<1>4. ASSUME NEW u \in {"preKO", "live", "fullTime"}, LandDetail(u)
      PROVE  DiscoveryGoes /\ PruneGoes
  BY <1>1, <1>4 DEF LandDetail, Back, DiscoveryGoes, PruneGoes, KeptCall
<1>5. CASE LandLineups
  BY <1>1, <1>5 DEF LandLineups, BackFromLineups, Back, DiscoveryGoes, PruneGoes, KeptCall
<1>6. CASE LandFallback
  BY <1>1, <1>6 DEF LandFallback, Back, DiscoveryGoes, PruneGoes, KeptCall
<1>7. ASSUME NEW u \in Tasks, Fail(u)
      PROVE  DiscoveryGoes /\ PruneGoes
  <2>1. CASE u = "discovery"
    BY <1>1, <1>7, <2>1 DEF Fail, BackFromDiscovery, Back, DiscoveryGoes, PruneGoes, KeptCall, Question
  <2>2. CASE u # "discovery"
    BY <1>1, <1>7, <2>2 DEF Fail, BackFromDiscovery, Back, DiscoveryGoes, PruneGoes, KeptCall
  <2> QED
    BY <2>1, <2>2
<1>8. CASE KickOff \/ Whistle \/ CallOff \/ UNCHANGED vars
  BY <1>8 DEF KickOff, Whistle, CallOff, vars, worker, DiscoveryGoes, PruneGoes, KeptCall
<1>9. CASE Restart
  BY <1>1, <1>9 DEF Restart, DiscoveryGoes, PruneGoes, Question
<1>10. CASE Pass
  <2>1. "prune" \notin Calling(now + 1)
    BY DEF Calling, Fired, Timed
  <2>2. PruneGoes
    BY <1>1, <1>10, <2>1 DEF Pass, PruneGoes, KeptCall
  <2>3. CASE "discovery" \in Calling(now + 1)
    <3>1. flight'["discovery"].since = now + 1
      BY <1>1, <1>10, <2>3 DEF Pass, Asked
    <3>2. ((now + 1) - booted) % Every["discovery"] = 0
      BY <2>3 DEF Calling, Fired
    <3> QED
      BY <1>10, <2>2, <3>1, <3>2 DEF DiscoveryGoes
  <2>4. CASE "discovery" \notin Calling(now + 1)
    BY <1>1, <1>10, <2>2, <2>4 DEF Pass, DiscoveryGoes, KeptCall
  <2> QED
    BY <2>3, <2>4
<1>11. ASSUME NEW u \in Tasks, BringNothing(u)
       PROVE  DiscoveryGoes /\ PruneGoes
  <2>1. TypeOK /\ now' = now /\ booted' = booted
    BY <1>11 DEF BringNothing, LifecycleTypes
  <2>2. DiscoveryGoes
    BY <1>1, <1>11, <2>1, NothingIs DEF DiscoveryGoes, KeptCall
  <2>3. PruneGoes
    BY <1>1, <1>11, <2>1, NothingIs DEF PruneGoes, KeptCall, Question
  <2> QED
    BY <2>2, <2>3
<1> QED
  BY <1>2, <1>3, <1>4, <1>5, <1>6, <1>7, <1>8, <1>9, <1>10, <1>11 DEF Next

LEMMA PeriodsKept ==
    ASSUME LifecycleTypes, Aged, Periods, [Next]_vars
    PROVE  Periods'
<1> SUFFICES ASSUME CallsAreShort
             PROVE  /\ flight'["discovery"] # None => flight'["discovery"].since = LastPeriod'
                    /\ flight'["prune"] # None => /\ LastPeriod' <= flight'["prune"].since
                                                  /\ flight'["prune"].since <= LastPeriod' + Latency
                                                  /\ now' <= flight'["prune"].since + Latency
    BY DEF Periods, CallsAreShort
<1>1. /\ now \in Nat /\ Latency \in Nat /\ Every["discovery"] \in Nat
      /\ 2 * Latency < Every["discovery"]
      /\ LastPeriod \in Int /\ LastPeriod <= now
      /\ flight["prune"] # None => flight["prune"].since \in Nat
  BY EndTypes, EndConstants, ShortCalls, LastPeriodIs
<1>2. /\ flight["discovery"] # None => /\ flight["discovery"].since = LastPeriod
                                       /\ now <= LastPeriod + Latency
      /\ flight["prune"] # None => /\ LastPeriod <= flight["prune"].since
                                   /\ flight["prune"].since <= LastPeriod + Latency
                                   /\ now <= flight["prune"].since + Latency
  BY EndTypes DEF Periods, Aged
<1>3. DiscoveryGoes /\ PruneGoes
  BY DiscoveryAndPrune
<1>4. CASE Restart
  <2>1. LastPeriod' = now /\ flight'["prune"] = None
    BY <1>4, PeriodOfBoot, TimeTypes DEF Restart
  <2>2. flight'["discovery"].since = now
    BY <1>4, TimeTypes DEF Restart, Question
  <2> QED
    BY <2>1, <2>2
<1>5. CASE Pass
  <2>1. now' = now + 1 /\ booted' = booted
    BY <1>5 DEF Pass
  <2>0. ~Restart
    <3>1. now + 1 # now
      BY <1>1
    <3>2. Restart => now' = now
      BY DEF Restart
    <3> QED
      BY <2>1, <3>1, <3>2
  <2>2. flight'["prune"] = None \/ KeptCall("prune")
    BY <1>1, <1>3, <2>1 DEF PruneGoes
  <2>3. CASE /\ ((now + 1) - booted) % Every["discovery"] = 0
             /\ LastPeriod' = now + 1 /\ now + 1 = LastPeriod + Every["discovery"]
    <3>1. KeptCall("prune") => flight["prune"] = None
      BY <1>1, <1>2, <2>1, <2>3 DEF KeptCall
    <3>2. KeptCall("discovery") => flight["discovery"] = None
      BY <1>1, <1>2, <2>1, <2>3 DEF KeptCall
    <3>3. flight'["prune"] = None
      BY <2>2, <3>1 DEF KeptCall
    <3>4. ~Restart
      BY <2>0
    <3>5. flight'["discovery"] = None \/ flight'["discovery"].since = now + 1
      BY <1>3, <3>2, <3>4 DEF DiscoveryGoes, KeptCall
    <3> QED
      BY <2>3, <3>3, <3>5
  <2>4. CASE ((now + 1) - booted) % Every["discovery"] # 0 /\ LastPeriod' = LastPeriod
    <3>1. ~Restart
      BY <2>0
    <3>2. flight'["discovery"] = None \/ KeptCall("discovery")
      BY <1>3, <2>4, <3>1 DEF DiscoveryGoes
    <3>3. flight'["prune"] # None => now + 1 <= flight'["prune"].since + Latency
      BY <1>1, <2>1, <2>2 DEF KeptCall
    <3>4. flight'["discovery"] # None => flight'["discovery"].since = LastPeriod
      BY <1>2, <3>2 DEF KeptCall
    <3>5. flight'["prune"] # None => /\ LastPeriod <= flight'["prune"].since
                                     /\ flight'["prune"].since <= LastPeriod + Latency
      BY <1>2, <2>2 DEF KeptCall
    <3> QED
      BY <2>1, <2>4, <3>3, <3>4, <3>5
  <2> QED
    BY <2>1, <2>3, <2>4, LastPeriodIs
<1>6. CASE ~Restart /\ ~Pass
  <2>1. now' = now /\ booted' = booted
    BY <1>6 DEF Next, LandDiscovery, Prune, LandDetail, LandLineups, LandFallback, Fail,
       BringNothing, KickOff, Whistle, CallOff, vars, worker
  <2>2. LastPeriod' = LastPeriod
    BY <2>1, LastPeriodIs
  <2>3. flight'["discovery"] # None => flight'["discovery"].since = LastPeriod
    BY <1>2, <1>3, <1>6 DEF DiscoveryGoes, KeptCall
  <2>4. flight'["prune"] # None =>
           /\ LastPeriod <= flight'["prune"].since
           /\ flight'["prune"].since <= LastPeriod + Latency
           /\ now <= flight'["prune"].since + Latency
    BY <1>1, <1>2, <1>3 DEF PruneGoes, KeptCall
  <2> QED
    BY <2>1, <2>2, <2>3, <2>4
<1> QED
  BY <1>4, <1>5, <1>6

(* Two moments less than a period apart from its start are in one period.  *)
LEMMA SamePeriod ==
    ASSUME NEW x \in Int, NEW y \in Int, NEW n \in Nat \ {0},
           x <= y, y < (x - (x % n)) + n
    PROVE  y - (y % n) = x - (x % n)
<1> DEFINE q == x \div n
           r == x % n
           q1 == y \div n
           r1 == y % n
<1>1. /\ q \in Int /\ r \in 0 .. n - 1 /\ x = n * q + r
      /\ q1 \in Int /\ r1 \in 0 .. n - 1 /\ y = n * q1 + r1
  OBVIOUS
<1>2. y < (x - r) + n
  OBVIOUS
<1> HIDE DEF q, r, q1, r1
<1> DEFINE d == q1 - q
<1>3. d \in Int /\ n * d = n * q1 - n * q
  BY <1>1
<1> HIDE DEF d
<1>4. d >= 1 => n * d >= n
  BY <1>3
<1>5. d <= -1 => n * d <= -n
  BY <1>3
<1>6. n * d = (y - r1) - (x - r)
  BY <1>1, <1>3
<1>7. d = 0
  BY <1>1, <1>2, <1>3, <1>4, <1>5, <1>6
<1>8. n * d = 0
  BY <1>7
<1>9. y - r1 = x - r
  BY <1>1, <1>6, <1>8
<1> QED
  BY <1>9 DEF r1, r

(* The loop knows of no end but that of the match.                         *)
LEMMA EndIsOne ==
    ASSUME LifecycleTypes, OneEnd
    PROVE  /\ record # None /\ record.status \in Final => record.status = provider
           /\ \A t \in StatusTasks : flight[t] # None /\ flight[t].answer \in Final =>
                  flight[t].answer = provider
<1> SUFFICES ASSUME NEW s \in Final, s # provider
             PROVE  /\ ~(record # None /\ record.status = s)
                    /\ \A t \in StatusTasks : ~(flight[t] # None /\ flight[t].answer = s)
    OBVIOUS
<1>1. /\ record # None => record.status \in Statuses \ {s}
      /\ \A t \in StatusTasks :
             flight[t] # None => flight[t].answer \in (Statuses \ {s}) \union {"void"}
  BY DEF OneEnd, Heard
<1>2. s # "void"
  BY DEF Final
<1> QED
  BY <1>1, <1>2

(* A step that neither asks nor changes the record keeps the end,          *)
LEMMA EndedAside ==
    ASSUME LifecycleTypes, NEW m \in Int, EndedBy(m),
           record' = record, now' = now, booted' = booted, provider' = provider,
           \A t \in Details : flight'[t] = None \/ flight'[t] = flight[t]
    PROVE  EndedBy(m)'
<1>1. LastPeriod' = LastPeriod
  BY LastPeriodIs
<1>2. FinalBy(m)'
  BY DEF EndedBy, FinalBy
<1>3. ASSUME NEW t \in Details PROVE AskedBy(m, t)'
  BY <1>1, <1>3 DEF EndedBy, AskedBy
<1> QED
  BY <1>2, <1>3 DEF EndedBy

(* as does one that upserts the fixture                                    *)
LEMMA EndedUpserted ==
    ASSUME LifecycleTypes, OneEnd, Dates, Aged, Stale, over # None,
           NEW m \in Int, AnswersEnd(m), EndedBy(m),
           now' = now, booted' = booted,
           \A t \in Details : flight'[t] = None \/ flight'[t] = flight[t],
           NEW t \in StatusTasks, flight[t] # None, flight[t].answer # "void",
           NEW k \in {None, kickoff}, record' = Upserted(flight[t].answer, k),
           flight[t].answer = "FT" /\ ~(record # None /\ record.status = "FT") =>
               \/ now <= m + Latency
               \/ /\ now <= m + 2 * Latency + FinalWindow
                  /\ (now - booted) % Every["discovery"] < 3 * Latency
    PROVE  EndedBy(m)'
<1>1. /\ now \in Nat /\ flight[t].answer \in Statuses /\ Details \subseteq StatusTasks
      /\ \A u \in Details : flight[u] # None => flight[u].since \in Nat /\ flight[u].since <= now
  BY EndTypes DEF Aged
<1>2. /\ record' # None /\ record'.status = flight[t].answer
      /\ flight[t].answer = "FT" => record'.finalSince =
             IF record # None /\ record.status = "FT" THEN record.finalSince ELSE now
  BY <1>1, UpsertedDates
<1>3. Latency \in Nat /\ FinalWindow \in Nat
  BY EndConstants
<1>4. CASE flight[t].answer \notin Final
  <2>1. now <= m
    BY <1>1, <1>4, StaleIsEarly DEF Final, Before, Statuses
  <2>2. FinalBy(m)'
    BY <1>2, <1>4 DEF FinalBy, Final
  <2>3. ASSUME NEW u \in Details, flight'[u] # None PROVE flight'[u].since <= m
    <3>1. flight'[u] = flight[u]
      BY <2>3
    <3>2. flight[u].since \in Nat /\ flight[u].since <= now
      BY <1>1, <2>3, <3>1
    <3> QED
      BY <1>1, <2>1, <3>1, <3>2
  <2> QED
    BY <2>2, <2>3 DEF EndedBy, AskedBy
<1>5. CASE flight[t].answer = "PST"
  <2>1. provider = "PST" /\ ~(record # None /\ record.status = "FT")
    BY <1>5, EndIsOne DEF Final
  <2>2. FinalBy(m)'
    BY <1>2, <1>5 DEF FinalBy
  <2>3. ASSUME NEW u \in Details, flight'[u] # None PROVE flight'[u].since <= m
    <3>1. flight'[u] = flight[u] /\ AskedBy(m, u)
      BY <2>3 DEF EndedBy
    <3> QED
      BY <2>1, <2>3, <3>1 DEF AskedBy
  <2> QED
    BY <2>2, <2>3 DEF EndedBy, AskedBy
<1>6. CASE flight[t].answer = "FT" /\ record # None /\ record.status = "FT"
  <2>1. record'.finalSince = record.finalSince /\ record'.status = "FT"
    BY <1>2, <1>6
  <2>2. FinalBy(m)'
    BY <1>6, <2>1 DEF EndedBy, FinalBy
  <2>3. ASSUME NEW u \in Details, flight'[u] # None
        PROVE  flight'[u].since <= m \/ flight'[u].since <= record.finalSince + FinalWindow
    <3>1. flight'[u] = flight[u] /\ AskedBy(m, u)
      BY <2>3 DEF EndedBy
    <3> QED
      BY <1>6, <2>3, <3>1 DEF AskedBy
  <2> QED
    BY <1>2, <2>1, <2>2, <2>3 DEF EndedBy, AskedBy
<1>7. CASE flight[t].answer = "FT" /\ ~(record # None /\ record.status = "FT")
  <2>1. record'.finalSince = now /\ record'.status = "FT"
    BY <1>2, <1>7
  <2>2. FinalBy(m)'
    BY <1>7, <2>1 DEF FinalBy
  <2>3. ASSUME NEW u \in Details, flight'[u] # None
        PROVE  flight'[u].since <= record'.finalSince + FinalWindow
    <3>1. flight'[u] = flight[u]
      BY <2>3
    <3>2. flight[u].since \in Nat /\ flight[u].since <= now
      BY <1>1, <2>3, <3>1
    <3> QED
      BY <1>1, <1>3, <2>1, <3>1, <3>2
  <2> QED
    BY <1>2, <2>1, <2>2, <2>3 DEF EndedBy, AskedBy
<1> QED
  BY <1>4, <1>5, <1>6, <1>7 DEF Final

(* from a list                                                             *)
LEMMA EndedListed ==
    ASSUME LifecycleTypes, OneEnd, Dates, Aged, Stale, over # None,
           NEW m \in Int, NewsEnd(m), EndedBy(m), LandDiscovery,
           flight["discovery"].answer # "void", Discoverable(flight["discovery"].answer),
           record' = Upserted(flight["discovery"].answer, kickoff)
    PROVE  EndedBy(m)'
<1>1. /\ now \in Nat /\ kickoff \in Nat /\ Behind \in Nat /\ Latency \in Nat
      /\ "discovery" \in StatusTasks /\ "discovery" \notin Details /\ Details \subseteq Tasks
      /\ flight \in [Tasks -> OrNone(Calls)]
  BY EndTypes, EndConstants DEF Details
<1>2. flight["discovery"] # None /\ now' = now /\ booted' = booted
  BY DEF LandDiscovery
<1>3. \A t \in Details : flight'[t] = flight[t]
  BY <1>1 DEF LandDiscovery, BackFromDiscovery, Back, Details
<1>4. flight["discovery"].answer = "FT" => now <= m + Latency
  <2>1. flight["discovery"].answer = "FT" => kickoff >= now - Behind
    BY DEF Discoverable
  <2>2. kickoff + Behind <= m
    BY DEF NewsEnd
  <2> QED
    BY <1>1, <2>1, <2>2
<1>5. AnswersEnd(m)
  BY DEF NewsEnd
<1> QED
  BY <1>1, <1>2, <1>3, <1>4, <1>5, EndedUpserted

(* or a detail,                                                            *)
LEMMA EndedDetailed ==
    ASSUME LifecycleTypes, OneEnd, Dates, Aged, Stale, over # None,
           NEW m \in Int, NewsEnd(m), EndedBy(m),
           NEW t \in Details, LandDetail(t), flight[t].answer # "void",
           record' = Upserted(flight[t].answer, None)
    PROVE  EndedBy(m)'
<1>1. /\ now \in Nat /\ Latency \in Nat /\ FinalWindow \in Nat
      /\ Details \subseteq StatusTasks /\ Details \subseteq Tasks
      /\ flight \in [Tasks -> OrNone(Calls)]
  BY EndTypes, EndConstants
<1>2. flight[t] # None /\ now' = now /\ booted' = booted
  BY DEF LandDetail
<1>3. \A u \in Details : flight'[u] = None \/ flight'[u] = flight[u]
  BY <1>1 DEF LandDetail, Back
<1>4. /\ flight[t].since \in Nat /\ now <= flight[t].since + Latency /\ AskedBy(m, t)
  BY <1>1, <1>2, EndTypes DEF Aged, EndedBy
<1>5. ASSUME ~(record # None /\ record.status = "FT")
      PROVE  \/ now <= m + Latency
             \/ /\ now <= m + 2 * Latency + FinalWindow
                /\ (now - booted) % Every["discovery"] < 3 * Latency
  <2>1. CASE flight[t].since <= m
    BY <1>1, <1>4, <2>1
  <2>2. CASE /\ flight[t].since <= m + Latency + FinalWindow
             /\ flight[t].since < LastPeriod + 2 * Latency
    <3> DEFINE r == (now - booted) % Every["discovery"]
    <3>1. LastPeriod \in Int /\ now - LastPeriod = r
      BY LastPeriodIs
    <3> HIDE DEF r
    <3>2. now < LastPeriod + 3 * Latency /\ now <= m + 2 * Latency + FinalWindow
      BY <1>1, <1>4, <2>2, <3>1
    <3>3. r < 3 * Latency
      BY <1>1, <3>1, <3>2
    <3> QED
      BY <3>2, <3>3 DEF r
  <2> QED
    BY <1>2, <1>4, <1>5, <2>1, <2>2 DEF AskedBy
<1>6. AnswersEnd(m)
  BY DEF NewsEnd
<1> QED
  BY <1>1, <1>2, <1>3, <1>5, <1>6, EndedUpserted

(* one that prunes it: a call that is under way was made in the window     *)
(* after a final that was not seen early in this period, for then there    *)
(* would be no prune that late,                                            *)
LEMMA EndedPruned ==
    ASSUME LifecycleTypes, OneEnd, Dates, Aged, Periods, CallsAreShort,
           NEW m \in Int, EndedBy(m), Prune, Phase = "settled", provider' = provider
    PROVE  EndedBy(m)'
<1> DEFINE e == Every["discovery"]
           p == LastPeriod
           f == record.finalSince
           r == (f - booted) % e
           b == booted
<1>1. /\ record' = None /\ now' = now /\ booted' = booted /\ flight["prune"] # None
      /\ \A t \in Details : flight'[t] = flight[t]
  BY EndTypes DEF Prune, Back, Details
<1>2. /\ now \in Nat /\ b \in Nat /\ Latency \in Nat /\ FinalWindow \in Nat /\ e \in Nat \ {0}
      /\ 2 * Latency <= FinalWindow /\ 4 * Latency + FinalWindow <= e
      /\ p \in Int
  BY EndTypes, EndConstants, ShortCalls, LastPeriodIs
<1>3. now <= p + 2 * Latency
  <2>1. /\ flight["prune"].since \in Nat
        /\ flight["prune"].since <= p + Latency /\ now <= flight["prune"].since + Latency
    BY <1>1, EndTypes DEF Periods
  <2> HIDE DEF p
  <2> QED
    BY <1>2, <2>1
<1>4. LastPeriod' = p
  BY <1>1, LastPeriodIs
<1>5. FinalBy(m)'
  BY <1>1 DEF FinalBy
<1>6. ASSUME NEW t \in Details, flight[t] # None
      PROVE  \/ flight[t].since <= m
             \/ /\ provider = "FT" /\ flight[t].since <= m + Latency + FinalWindow
                /\ flight[t].since < p + 2 * Latency
  <2>1. AskedBy(m, t) /\ flight[t].since \in Nat /\ now <= flight[t].since + Latency
    BY <1>6, EndTypes DEF EndedBy, Aged
  <2>2. CASE record # None /\ record.status = "FT" /\ flight[t].since <= f + FinalWindow
    <3>1. provider = "FT" /\ f \in Int
      BY <2>2, EndIsOne, EndTypes DEF Final, Dates
    <3>2. now > f + FinalWindow
      <4>1. PhaseAt(now) = "settled"
        BY DEF Phase
      <4>2. ~(now <= f + FinalWindow)
        BY <2>2, <4>1 DEF PhaseAt
      <4> QED
        BY <1>2, <3>1, <4>2
    <3>3. flight[t].since < p + 2 * Latency
      <4> HIDE DEF p, f
      <4> QED
        BY <1>2, <1>3, <2>1, <2>2, <3>1, <3>2
    <3>4. CASE f <= m + Latency
      <4> HIDE DEF p, f
      <4> QED
        BY <1>2, <2>1, <2>2, <3>1, <3>3, <3>4
    <3>5. CASE f <= m + 2 * Latency + FinalWindow /\ r < 3 * Latency
      <4> DEFINE x == f - b
                 y == now - b
      <4>1. x \in Int /\ y \in Int /\ x <= y
        <5> HIDE DEF f, b
        <5> QED
          BY <1>2, <3>1, <3>2
      <4>2. x % e = r /\ r \in 0 .. e - 1
        <5> HIDE DEF x, e
        <5>1. x % e \in 0 .. e - 1
          BY <1>2, <4>1, NextTick
        <5> QED
          BY <5>1 DEF x
      <4>3. y - (y % e) = p - b
        <5>1. y % e \in 0 .. e - 1
          <6> HIDE DEF y, e
          <6> QED
            BY <1>2, <4>1, NextTick
        <5>2. p = now - (y % e)
          BY DEF LastPeriod
        <5> DEFINE z == y % e
        <5>3. z \in Int /\ p = now - z
          BY <5>1, <5>2
        <5> HIDE DEF z, p, b, e
        <5>4. (now - b) - z = p - b
          BY <1>2, <5>3
        <5> QED
          BY <5>4 DEF z
      <4>4. y < (x - r) + e
        <5> HIDE DEF f, r, b, e
        <5> QED
          BY <1>2, <2>1, <2>2, <3>1, <3>5, <4>2
      <4>5. y - (y % e) = x - (x % e)
        <5>1. y < (x - (x % e)) + e
          BY <4>2, <4>4
        <5> HIDE DEF x, y, e
        <5> QED
          BY <1>2, <4>1, <5>1, SamePeriod
      <4>6. p - b = x - r
        BY <4>2, <4>3, <4>5
      <4> HIDE DEF p, f, r, b, e
      <4> QED
        BY <1>2, <1>3, <3>1, <3>2, <4>2, <4>6
    <3> QED
      BY <2>2, <3>4, <3>5 DEF EndedBy, FinalBy
  <2> QED
    BY <1>6, <2>1, <2>2 DEF AskedBy
<1>7. ASSUME NEW t \in Details PROVE AskedBy(m, t)'
  BY <1>1, <1>4, <1>6, <1>7 DEF AskedBy
<1> QED
  BY <1>5, <1>7 DEF EndedBy

(* and the passing of time, which asks for the phases that are polled.     *)
LEMMA EndedPasses ==
    ASSUME LifecycleTypes, Dates, over # None, InPlayEnds,
           NEW m \in Int, NewsEnd(m), EndedBy(m), Pass, provider' = provider
    PROVE  EndedBy(m)'
<1>1. /\ now \in Nat /\ Latency \in Nat /\ FinalWindow \in Nat /\ MaxLive \in Nat
      /\ kickoff \in Nat /\ flight \in [Tasks -> OrNone(Calls)] /\ Details \subseteq Tasks
      /\ Every["live"] \in Nat /\ Round = Every["live"] + Latency
      /\ {"preKO", "live", "fullTime"} = Details /\ LastPeriod \in Int /\ LastTick \in Int
      /\ now < LastTick + Every["live"]
  BY EndTypes, EndConstants, LastPeriodIs, LastTickIs DEF Details, StatusTasks
<1>2. record' = record /\ now' = now + 1 /\ booted' = booted
  BY DEF Pass
<1>3. LastPeriod' \in Int /\ LastPeriod <= LastPeriod'
  BY <1>1, <1>2, LastPeriodIs
<1>4. FinalBy(m)'
  BY <1>2 DEF EndedBy, FinalBy
<1>5. ASSUME NEW t \in Details, flight[t] # None, flight'[t] = flight[t]
      PROVE  AskedBy(m, t)'
  <2>1. AskedBy(m, t) /\ flight[t].since \in Nat
    BY <1>1, <1>5, EndTypes DEF EndedBy
  <2>2. flight[t].since < LastPeriod + 2 * Latency => flight[t].since < LastPeriod' + 2 * Latency
    BY <1>1, <1>3, <2>1
  <2> QED
    BY <1>2, <1>5, <2>1, <2>2 DEF AskedBy
<1>6. ASSUME NEW t \in Details, t \in Calling(now + 1)
      PROVE  AskedBy(m, t)'
  <2>1. flight'[t] = Asked(t, now + 1) /\ flight'[t].since = now + 1
    BY <1>1, <1>6 DEF Pass, Asked
  <2>2. PhaseAt(now + 1) \in {"preKO", "live", "postFinal"}
    BY <1>1, <1>6 DEF Calling, PhasesOf
  <2>3. record # None /\ record.status \in Statuses
    BY <2>2, EndTypes DEF PhaseAt
  <2>4. CASE record.status = "LIVE"
    <3>1. AnswersEnd(m)
      BY DEF NewsEnd
    <3>2. /\ flight["live"] = None => LastTick + Round <= m
          /\ flight["live"] # None => flight["live"].since + Latency <= m
      BY <2>3, <2>4, <3>1 DEF InPlayEnds
    <3>3. "live" \in Tasks /\ (flight["live"] # None => flight["live"].since \in Nat)
      BY <1>1, EndTypes
    <3>4. flight["live"] # None => now < flight["live"].since + Latency
      BY <3>3 DEF Pass
    <3>5. now + 1 <= m
      BY <1>1, <3>2, <3>3, <3>4
    <3> QED
      BY <2>1, <3>5 DEF AskedBy
  <2>5. CASE record.status = "NS"
    <3>1. record.kickoff = kickoff /\ now + 1 <= kickoff + MaxLive
      <4>1. ByClock(record.kickoff, now + 1) \in {"preKO", "live", "postFinal"}
        BY <2>2, <2>3, <2>5 DEF PhaseAt
      <4>2. record.kickoff # None /\ ~(now + 1 > record.kickoff + MaxLive)
        BY <4>1 DEF ByClock
      <4>3. record.kickoff = kickoff
        BY <2>3, <4>2 DEF Dates
      <4> QED
        BY <1>1, <4>2, <4>3
    <3>2. kickoff + MaxLive <= m
      BY DEF NewsEnd
    <3> QED
      BY <1>1, <2>1, <3>1, <3>2 DEF AskedBy
  <2>6. CASE record.status = "FT"
    <3>1. now + 1 <= record.finalSince + FinalWindow
      BY <2>2, <2>3, <2>6 DEF PhaseAt
    <3> QED
      BY <1>2, <2>1, <2>3, <2>6, <3>1 DEF AskedBy
  <2>7. CASE record.status = "PST"
    BY <2>2, <2>3, <2>7 DEF PhaseAt
  <2> QED
    BY <2>3, <2>4, <2>5, <2>6, <2>7 DEF Statuses
<1>7. ASSUME NEW t \in Details PROVE AskedBy(m, t)'
  <2>1. CASE t \in Calling(now + 1)
    BY <1>6, <2>1
  <2>2. CASE t \notin Calling(now + 1)
    <3>1. flight'[t] = flight[t]
      BY <1>1, <2>2 DEF Pass
    <3> QED
      BY <1>5, <3>1 DEF AskedBy
  <2> QED
    BY <2>1, <2>2
<1> QED
  BY <1>4, <1>7 DEF EndedBy

(* So a step keeps the end of every moment that was one, and the end of    *)
(* the match itself finds only calls and records of before.                *)
LEMMA EndedKept ==
    ASSUME EndInv, [Next]_vars
    PROVE  Ended'
<1> SUFFICES ASSUME CallsAreShort, NEW m \in Int, over' # None, NewsEnd(m)'
             PROVE  EndedBy(m)'
    BY DEF Ended, CallsAreShort
<1>1. /\ LifecycleTypes /\ MatchRuns /\ HeardWhatWas /\ OneEnd /\ Dates /\ Aged /\ Stale
      /\ InPlayEnds /\ Periods
  BY DEF EndInv, IInv
<1>2. /\ flight \in [Tasks -> OrNone(Calls)] /\ Details \subseteq Tasks
      /\ Details \subseteq StatusTasks
      /\ {"discovery", "preKO", "live", "fullTime", "lineups", "prune", "fallback"} = Tasks
      /\ now \in Nat /\ provider \in Statuses
  BY <1>1, EndTypes, TimeTypes DEF LifecycleTypes, TypeOK
<1>3. CASE Ends
  <2>1. now <= m
    BY <1>1, <1>3, AnswersEndAfter DEF NewsEnd, Ends
  <2>2. record' = record /\ flight' = flight
    BY <1>3 DEF Ends, worker
  <2>3. record # None => record.status # "FT"
    <3>1. provider \in {"NS", "LIVE"}
      BY <1>1, <1>3 DEF MatchRuns, Ends
    <3> QED
      BY <1>1, <3>1 DEF HeardWhatWas, Heard
  <2>4. FinalBy(m)'
    BY <2>2, <2>3 DEF FinalBy
  <2>5. ASSUME NEW t \in Details, flight[t] # None PROVE flight[t].since <= m
    <3>1. flight[t].since \in Nat /\ flight[t].since <= now
      BY <1>1, <1>2, <2>5, EndTypes DEF Aged
    <3> QED
      BY <1>2, <2>1, <3>1
  <2> QED
    BY <2>2, <2>4, <2>5 DEF EndedBy, AskedBy
<1>4. CASE /\ over # None /\ over' = over /\ provider' = provider
           /\ ~Whistle /\ ~CallOff /\ ~KickOff
  <2>1. NewsEnd(m)
    <3>1. AnswersEnd(m)
      BY <1>1, <1>4, AnswersEndLater, ChangesOfTheMatch DEF NewsEnd
    <3>2. kickoff' = kickoff
      BY <1>1, ChangesOfTheMatch
    <3> QED
      BY <3>1, <3>2 DEF NewsEnd
  <2>2. EndedBy(m)
    BY <1>4, <2>1 DEF EndInv, Ended
  <2>3. CASE record' = record /\ ~Pass /\ ~Restart
    <3>1. now' = now /\ booted' = booted
      BY <1>4, <2>3 DEF Next, LandDiscovery, Prune, LandDetail, LandLineups, LandFallback, Fail,
         BringNothing, vars, worker
    <3>2. \A t \in Details : flight'[t] = None \/ flight'[t] = flight[t]
      <4>1. CASE LandDiscovery \/ Prune \/ LandLineups \/ LandFallback
        BY <1>2, <4>1 DEF LandDiscovery, Prune, LandLineups, LandFallback, BackFromDiscovery,
           BackFromLineups, Back, Details
      <4>2. ASSUME NEW u \in {"preKO", "live", "fullTime"}, LandDetail(u)
            PROVE  \A t \in Details : flight'[t] = None \/ flight'[t] = flight[t]
        BY <1>2, <4>2 DEF LandDetail, Back
      <4>3. ASSUME NEW u \in Tasks, Fail(u)
            PROVE  \A t \in Details : flight'[t] = None \/ flight'[t] = flight[t]
        BY <1>2, <4>3 DEF Fail, BackFromDiscovery, Back, Details
      <4>5. ASSUME NEW u \in Tasks, BringNothing(u)
            PROVE  \A t \in Details : flight'[t] = None \/ flight'[t] = flight[t]
        <5>1. TypeOK /\ "prune" \notin Details /\ "fallback" \notin Details
          BY <1>1 DEF LifecycleTypes, Details
        <5> QED
          BY <1>2, <4>5, <5>1, NothingIs, ZenonT(30)
      <4>4. CASE UNCHANGED vars
        BY <4>4 DEF vars, worker
      <4> QED
        BY <1>4, <2>3, <4>1, <4>2, <4>3, <4>4, <4>5 DEF Next
    <3> QED
      BY <1>1, <1>4, <2>2, <2>3, <3>1, <3>2, EndedAside
  <2>4. CASE Pass
    BY <1>1, <1>4, <2>1, <2>2, <2>4, EndedPasses
  <2>5. CASE Restart
    <3>1. record' = None /\ \A t \in Details : flight'[t] = None
      BY <1>2, <2>5 DEF Restart, Details
    <3> QED
      BY <3>1 DEF EndedBy, FinalBy, AskedBy
  <2>6. CASE Prune /\ Phase = "settled"
    BY <1>1, <1>4, <2>2, <2>6, EndedPruned
  <2>7. CASE /\ LandDiscovery /\ flight["discovery"].answer # "void"
             /\ Discoverable(flight["discovery"].answer)
             /\ record' = Upserted(flight["discovery"].answer, kickoff)
    BY <1>1, <1>4, <2>1, <2>2, <2>7, EndedListed
  <2>8. ASSUME NEW t \in Details, LandDetail(t), flight[t].answer # "void",
               record' = Upserted(flight[t].answer, None)
        PROVE  EndedBy(m)'
    BY <1>1, <1>4, <2>1, <2>2, <2>8, EndedDetailed
  <2> QED
    BY <1>1, <2>3, <2>4, <2>5, <2>6, <2>7, <2>8, RecordAfter
<1> QED
  BY <1>1, <1>3, <1>4, OverAfter

(* At boot the match has not ended, and a list is on its way.              *)
LEMMA InitiallyTracked == Init => EndInv
<1> SUFFICES ASSUME Init PROVE EndInv
    OBVIOUS
<1>1. IInv /\ LifecycleTypes
  BY Initially DEF IInv
<1>2. /\ over = None /\ record = None /\ now = 0 /\ booted = 0 /\ provider = "NS"
      /\ \A k \in Keys : cache[k] = None
      /\ \A t \in Tasks \ {"discovery"} : flight[t] = None
      /\ flight["discovery"] = [answer |-> "NS", cached |-> FALSE, since |-> 0]
  BY TimeTypes, <1>1 DEF Init, Question
<1>3. StatusKeys \subseteq Keys /\ StatusTasks \subseteq Tasks /\ "prune" \in Tasks
      /\ Latency \in Nat /\ Every["discovery"] \in Nat \ {0}
  BY <1>1, EndTypes, EndConstants
<1>4. OneEnd
  BY <1>2, <1>3 DEF OneEnd, Heard, Final, Statuses
<1>5. Aged
  BY <1>2, <1>3 DEF Aged
<1>6. LastPeriod = 0
  <2> DEFINE e == Every["discovery"]
  <2>1. LastPeriod = 0 - ((0 - 0) % e)
    BY <1>2 DEF LastPeriod
  <2>2. e \in Nat \ {0}
    BY <1>3
  <2> HIDE DEF e
  <2>3. (0 - 0) % e = 0
    BY <2>2
  <2> QED
    BY <2>1, <2>3
<1>7. Periods
  BY <1>2, <1>3, <1>6 DEF Periods
<1>8. Dates /\ Stale /\ InPlayEnds /\ Ended
  BY <1>2 DEF Dates, Stale, InPlayEnds, Ended
<1> QED
  BY <1>1, <1>4, <1>5, <1>7, <1>8 DEF EndInv

(* A match that is over is polled no more a while after the last news of   *)
(* it, for every interval, TTL, window and number of failures.             *)
THEOREM LetsGo == Spec => []LetGo
<1>1. EndInv /\ [Next]_vars => EndInv'
  <2> SUFFICES ASSUME EndInv, [Next]_vars PROVE EndInv'
      OBVIOUS
  <2>1. LifecycleTypes /\ HeardWhatWas /\ MatchRuns /\ OneEnd /\ Dates /\ Aged /\ Stale /\ Periods
    BY DEF EndInv, IInv
  <2>2. IInv'
    BY TypesKept, HistoryKept, DatedKept DEF EndInv, IInv
  <2>3. OneEnd' /\ Dates' /\ Aged' /\ Stale' /\ Periods'
    BY <2>1, OneEndKept, DatesKept, AgedKept, StaleKept, PeriodsKept
  <2>4. InPlayEnds' /\ Ended'
    BY InPlayEndsKept, EndedKept
  <2> QED
    BY <2>2, <2>3, <2>4 DEF EndInv
<1>2. EndInv => LetGo
  <2> SUFFICES ASSUME EndInv, CallsAreShort, over # None,
                      \A k \in StatusKeys : now > over + Ttl[k] + 2 * Latency
                          + (failures + 1) * Setback + Aftermath,
                      now > kickoff + MaxLive + Aftermath, now > kickoff + Behind + Aftermath
               PROVE  Phase \in {"settled", "upcoming"}
      BY DEF LetGo, StatusKeys
  <2> DEFINE m == now - Aftermath - 1
  <2>1. LifecycleTypes /\ Dates /\ Aged /\ InPlayEnds /\ Ended
    BY DEF EndInv, IInv
  <2>2. /\ now \in Nat /\ kickoff \in Nat /\ failures \in Nat /\ over \in Nat
        /\ Latency \in Nat /\ FinalWindow \in Nat /\ MaxLive \in Nat /\ Behind \in Nat
        /\ Round \in Nat /\ Round = Every["live"] + Latency /\ Setback \in Nat
        /\ \A k \in StatusKeys : Ttl[k] \in Nat
        /\ LastTick \in Int /\ now < LastTick + Every["live"] /\ Every["live"] \in Nat
    BY <2>1, EndTypes, EndConstants, LastTickIs
  <2>3. Aftermath \in Nat /\ Aftermath = 2 * Latency + 2 * FinalWindow
    BY <2>2 DEF Aftermath
  <2>4. m \in Int /\ m < now /\ m + 2 * Latency + 2 * FinalWindow < now
    BY <2>2, <2>3
  <2>5. AnswersEnd(m)
    <3> DEFINE q == (failures + 1) * Setback
    <3>1. q \in Nat
      BY <2>2
    <3>2. \A k \in StatusKeys : now > over + Ttl[k] + 2 * Latency + q + Aftermath
      BY <2>2
    <3> HIDE DEF q
    <3>3. \A k \in StatusKeys : over + Ttl[k] + 2 * Latency + q <= m
      BY <2>2, <2>3, <3>1, <3>2
    <3> QED
      BY <3>3 DEF AnswersEnd, q
  <2>6. NewsEnd(m)
    <3>1. kickoff + MaxLive <= m /\ kickoff + Behind <= m
      BY <2>2, <2>3
    <3> QED
      BY <2>5, <3>1 DEF NewsEnd
  <2> HIDE DEF m
  <2>7. CASE record = None
    BY <2>7 DEF Phase, PhaseAt
  <2>8. CASE record # None /\ record.status = "LIVE"
    <3>1. /\ flight["live"] = None => LastTick + Round <= m
          /\ flight["live"] # None => flight["live"].since + Latency <= m
      BY <2>1, <2>4, <2>5, <2>8 DEF InPlayEnds
    <3>2. flight["live"] # None => /\ flight["live"].since \in Nat
                                   /\ now <= flight["live"].since + Latency
      BY <2>1, EndTypes DEF Aged, Details
    <3> QED
      BY <2>2, <2>4, <3>1, <3>2
  <2>9. CASE record # None /\ record.status = "NS"
    <3>1. Phase = ByClock(record.kickoff, now)
      BY <2>9 DEF Phase, PhaseAt
    <3>2. record.kickoff = None \/ (record.kickoff = kickoff /\ now > kickoff + MaxLive)
      BY <2>1, <2>2, <2>3, <2>9 DEF Dates
    <3> QED
      BY <3>1, <3>2 DEF ByClock
  <2>10. CASE record # None /\ record.status = "FT"
    <3>1. record.finalSince \in Int
      BY <2>1, <2>10, EndTypes DEF Dates
    <3>2. FinalBy(m)
      BY <2>1, <2>4, <2>6 DEF Ended, EndedBy
    <3>3. record.finalSince + FinalWindow < now
      BY <2>2, <2>4, <2>10, <3>1, <3>2 DEF FinalBy
    <3>4. ~(now <= record.finalSince + FinalWindow)
      BY <2>2, <3>1, <3>3
    <3> QED
      BY <2>10, <3>4 DEF Phase, PhaseAt
  <2>11. CASE record # None /\ record.status = "PST"
    BY <2>11 DEF Phase, PhaseAt
  <2> QED
    <3>1. record # None => record.status \in Statuses
      BY <2>1, EndTypes
    <3> QED
      BY <2>7, <2>8, <2>9, <2>10, <2>11, <3>1 DEF Statuses
<1> QED
  BY InitiallyTracked, <1>1, <1>2, PTL DEF Spec
=============================================================================
