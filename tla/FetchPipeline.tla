---------------------------- MODULE FetchPipeline ----------------------------
(***************************************************************************)
(* The one path from a caller to the provider: fetchWorkload of            *)
(* worker/ingestion.ts, over the cache (worker/cache.ts), the singleflight *)
(* (worker/singleflight.ts), the call budget (ProviderQuota) and           *)
(* fetchApiFootballJson (worker/provider-http.ts).                         *)
(*                                                                         *)
(* One step is the code between two awaits.  A payload is the number of    *)
(* the provider's answer that carried it, so larger is newer.  The cache   *)
(* is the memory of the one worker or a Redis shared by all of them; the   *)
(* singleflight is always in the memory of its worker.                     *)
(***************************************************************************)
EXTENDS ProviderQuota

CONSTANTS Keys,        \* cache keys, one per workload and resource
          None,        \* no client
          MaxAnswers,  \* bound: provider answers per key
          MaxExpiries, \* bound: TTL expiries per key
          MaxRejects   \* bound: commands of flights Redis rejects

ASSUME NoneIsNoClient == None \notin Clients
ASSUME PipelineBounds == /\ MaxAnswers \in Nat /\ MaxExpiries \in Nat
                         /\ MaxRejects \in Nat

VARIABLES
    cache,   \* cache[k]: the answer stored under k, 0 if there is none
    flight,  \* flight[w][k]: the client leading the flight of k in worker w
    pc,      \* pc[c]: what caller c awaits
    key,     \* key[c]: the key c asks for
    value,   \* value[c]: the answer in c's hands
    answers, \* answers[k]: the provider's answers for k so far
    led,     \* led[w][k]: last answer a flight of w gave to the bridge (history)
    calls,   \* calls[w][k]: provider calls of w for k (history)
    wasted,  \* wasted[w][k]: calls of w for k that left nothing cached (history)
    expired, \* expired[k]: TTL expiries of k (history)
    rejects  \* commands of flights rejected so far

pipeVars == <<cache, flight, pc, key, value, answers, led, calls, wasted,
              expired, rejects>>
vars == <<pipeVars, quotaVars>>
books == <<answers, led, calls, wasted, expired>>

InFlight == {"recheck", "raced", "reserve", "over", "call", "calling",
             "store", "notify", "bridging"}

PipelineTypeOK ==
    /\ cache \in [Keys -> Nat]
    /\ flight \in [Workers -> [Keys -> Clients \union {None}]]
    /\ pc \in [Clients -> {"idle", "hit", "missed", "waiting"} \union InFlight]
    /\ key \in [Clients -> Keys]
    /\ value \in [Clients -> Nat]
    /\ answers \in [Keys -> 0..MaxAnswers]
    /\ led \in [Workers -> [Keys -> Nat]]
    /\ calls \in [Workers -> [Keys -> Nat]]
    /\ wasted \in [Workers -> [Keys -> Nat]]
    /\ expired \in [Keys -> 0..MaxExpiries]
    /\ rejects \in 0..MaxRejects

Init ==
    /\ QuotaInit
    /\ cache = [k \in Keys |-> 0]
    /\ flight = [w \in Workers |-> [k \in Keys |-> None]]
    /\ pc = [c \in Clients |-> "idle"]
    /\ key \in [Clients -> Keys] /\ \A c, e \in Clients : key[c] = key[e]
    /\ value = [c \in Clients |-> 0]
    /\ answers = [k \in Keys |-> 0]
    /\ led = [w \in Workers |-> [k \in Keys |-> 0]]
    /\ calls = [w \in Workers |-> [k \in Keys |-> 0]]
    /\ wasted = [w \in Workers |-> [k \in Keys |-> 0]]
    /\ expired = [k \in Keys |-> 0]
    /\ rejects = 0

Goto(c, next) == pc' = [pc EXCEPT ![c] = next]

(* fetchWorkload reads the cache outside the singleflight. *)
Lookup(c, k) ==
    /\ pc[c] = "idle"
    /\ key' = [key EXCEPT ![c] = k]
    /\ value' = [value EXCEPT ![c] = cache[k]]
    /\ Goto(c, IF cache[k] = 0 THEN "missed" ELSE "hit")
    /\ UNCHANGED <<cache, flight, books, rejects, quotaVars>>

(* A hit is handed to the bridge after the quota snapshot, outside any     *)
(* flight, and returned.                                                   *)
DeliverHit(c) ==
    /\ pc[c] = "hit"
    /\ Goto(c, "idle")
    /\ value' = [value EXCEPT ![c] = 0]
    /\ UNCHANGED <<cache, flight, key, books, rejects, quotaVars>>

(* Singleflight.do: a flight for the key is under way, its promise is      *)
(* awaited.                                                                *)
Join(c) ==
    /\ pc[c] = "missed"
    /\ flight[Host[c]][key[c]] # None
    /\ Goto(c, "waiting")
    /\ UNCHANGED <<cache, flight, key, value, books, rejects, quotaVars>>

(* Mutant: the flight map is not consulted. *)
LeadAlways(c) ==
    /\ pc[c] = "missed"
    /\ flight' = [flight EXCEPT ![Host[c]][key[c]] = c]
    /\ Goto(c, "recheck")
    /\ UNCHANGED <<cache, key, value, books, rejects, quotaVars>>

(* Singleflight.do: no flight for the key, this caller's loader starts. *)
Lead(c) ==
    /\ pc[c] = "missed"
    /\ flight[Host[c]][key[c]] = None
    /\ flight' = [flight EXCEPT ![Host[c]][key[c]] = c]
    /\ Goto(c, "recheck")
    /\ UNCHANGED <<cache, key, value, books, rejects, quotaVars>>

(* The flight's promise settles, resolved or rejected: its map entry goes  *)
(* and every caller that awaited it returns.                               *)
Settle(c) ==
    /\ flight' = [flight EXCEPT ![Host[c]][key[c]] = None]
    /\ pc' = [e \in Clients |->
                 IF \/ e = c
                    \/ pc[e] = "waiting" /\ Host[e] = Host[c] /\ key[e] = key[c]
                 THEN "idle" ELSE pc[e]]
    /\ value' = [value EXCEPT ![c] = 0]

(* Mutant: the cache is not read again inside the flight. *)
RecheckSkipped(c) ==
    /\ pc[c] = "recheck"
    /\ Goto(c, "reserve")
    /\ UNCHANGED <<cache, flight, key, value, books, rejects, quotaVars>>

(* The flight reads the cache again: another flight may have filled it     *)
(* between this caller's miss and its turn.  It then awaits the quota      *)
(* snapshot before the bridge.                                             *)
Recheck(c) ==
    /\ pc[c] = "recheck"
    /\ value' = [value EXCEPT ![c] = cache[key[c]]]
    /\ Goto(c, IF cache[key[c]] = 0 THEN "reserve" ELSE "raced")
    /\ UNCHANGED <<cache, flight, key, books, rejects, quotaVars>>

(* One call of the budget is reserved, within the cap or over it. *)
Reserve(c) ==
    /\ pc[c] = "reserve"
    /\ \/ ReserveAllowed(c) /\ Goto(c, "call")
       \/ ReserveOver(c) /\ Goto(c, "over")
    /\ UNCHANGED <<cache, flight, key, value, books, rejects>>

(* Over the cap: the reservation is taken back and the flight resolves     *)
(* with 'denied'.                                                          *)
Deny(c) ==
    /\ pc[c] = "over"
    /\ UndoOver(c)
    /\ Settle(c)
    /\ UNCHANGED <<cache, key, books, rejects>>

(* Mutant: the reservation of a skipped call is kept. *)
SkipUnrefunded(c) ==
    /\ pc[c] = "call"
    /\ Host[c] \in Replay
    /\ Settle(c)
    /\ UNCHANGED <<cache, key, books, rejects, quotaVars>>

(* The call is skipped before the network: the reservation is refunded.    *)
Skip(c) ==
    /\ pc[c] = "call"
    /\ Refund(c)
    /\ Settle(c)
    /\ UNCHANGED <<cache, key, books, rejects>>

(* reserve() or refund() throws: the flight rejects. *)
QuotaRejects(c) ==
    /\ \/ pc[c] = "reserve" /\ ReserveRejected(c)
       \/ pc[c] = "over" /\ UndoRejected(c)
       \/ pc[c] = "call" /\ RefundRejected(c)
    /\ rejects < MaxRejects
    /\ rejects' = rejects + 1
    /\ Settle(c)
    /\ UNCHANGED <<cache, key, books>>

(* The request leaves the worker. *)
Call(c) ==
    /\ pc[c] = "call"
    /\ Depart(c)
    /\ Goto(c, "calling")
    /\ calls' = [calls EXCEPT ![Host[c]][key[c]] = @ + 1]
    /\ UNCHANGED <<cache, flight, key, value, answers, led, wasted, expired, rejects>>

(* The answer of c's call is the next one of its key. *)
Answer(c) ==
    /\ pc[c] = "calling"
    /\ answers[key[c]] < MaxAnswers
    /\ answers' = [answers EXCEPT ![key[c]] = @ + 1]
    /\ Return(c)
    /\ UNCHANGED <<cache, key, led, calls, expired, rejects>>

(* A JSON body without a rate-limit error counts as fetched, whatever the  *)
(* HTTP status: response.ok is recorded and not looked at.                 *)
Fetched(c) ==
    /\ Answer(c)
    /\ value' = [value EXCEPT ![c] = answers'[key[c]]]
    /\ Goto(c, "store")
    /\ UNCHANGED <<flight, wasted>>

(* An envelope with errors.rateLimit is returned, not cached and not       *)
(* bridged.                                                                *)
RateLimited(c) ==
    /\ Answer(c)
    /\ wasted' = [wasted EXCEPT ![Host[c]][key[c]] = @ + 1]
    /\ Settle(c)

(* The call fails: no connection, or a body that is not JSON. *)
Failed(c) ==
    /\ pc[c] = "calling"
    /\ Return(c)
    /\ wasted' = [wasted EXCEPT ![Host[c]][key[c]] = @ + 1]
    /\ Settle(c)
    /\ UNCHANGED <<cache, key, answers, led, calls, expired, rejects>>

(* Mutant: the flight ends with the cache write, before the bridge ran. *)
StoreAndRelease(c) ==
    /\ pc[c] = "store"
    /\ cache' = [cache EXCEPT ![key[c]] = value[c]]
    /\ Goto(c, "notify")
    /\ flight' = [flight EXCEPT ![Host[c]][key[c]] = None]
    /\ UNCHANGED <<key, value, books, rejects, quotaVars>>

(* The payload is cached for the TTL of its workload. *)
Store(c) ==
    /\ pc[c] = "store"
    /\ cache' = [cache EXCEPT ![key[c]] = value[c]]
    /\ Goto(c, "notify")
    /\ UNCHANGED <<flight, key, value, books, rejects, quotaVars>>

(* #notifyFixtureFetched starts the bridge, inside the flight. *)
Notify(c) ==
    /\ pc[c] \in {"raced", "notify"}
    /\ led' = [led EXCEPT ![Host[c]][key[c]] = value[c]]
    /\ Goto(c, "bridging")
    /\ UNCHANGED <<cache, flight, key, value, answers, calls, wasted, expired,
                   rejects, quotaVars>>

(* The bridge returned, or threw and was caught: the flight resolves. *)
Finish(c) ==
    /\ pc[c] = "bridging"
    /\ Settle(c)
    /\ UNCHANGED <<cache, key, books, rejects, quotaVars>>

(* Mutant: Singleflight.do clears the map entry on success only. *)
CacheRejectsKeepingFlight(c) ==
    /\ Backend = "redis" /\ rejects < MaxRejects
    /\ rejects' = rejects + 1
    /\ pc[c] \in {"recheck", "raced", "store"}
    /\ wasted' = IF pc[c] = "store"
                 THEN [wasted EXCEPT ![Host[c]][key[c]] = @ + 1] ELSE wasted
    /\ Goto(c, "idle")
    /\ value' = [value EXCEPT ![c] = 0]
    /\ UNCHANGED <<cache, flight, key, answers, led, calls, expired, quotaVars>>

(* Redis rejects a GET of a flight, of the cache or of the quota snapshot, *)
(* or the SET: the flight rejects, and the provider's answer it may hold   *)
(* is lost.                                                                *)
CacheRejects(c) ==
    /\ Backend = "redis" /\ rejects < MaxRejects
    /\ rejects' = rejects + 1
    /\ pc[c] \in {"recheck", "raced", "store"}
    /\ wasted' = IF pc[c] = "store"
                 THEN [wasted EXCEPT ![Host[c]][key[c]] = @ + 1] ELSE wasted
    /\ Settle(c)
    /\ UNCHANGED <<cache, key, answers, led, calls, expired, quotaVars>>

(* A cached payload outlives its TTL. *)
Expire(k) ==
    /\ cache[k] # 0 /\ expired[k] < MaxExpiries
    /\ cache' = [cache EXCEPT ![k] = 0]
    /\ expired' = [expired EXCEPT ![k] = @ + 1]
    /\ UNCHANGED <<flight, pc, key, value, answers, led, calls, wasted, rejects,
                   quotaVars>>

(* Worker w dies and restarts: its callers and flights are gone, and with  *)
(* them the cache if it was in memory.                                     *)
Crash(w) ==
    /\ WorkerCrash(w)
    /\ pc' = [c \in Clients |-> IF Host[c] = w THEN "idle" ELSE pc[c]]
    /\ value' = [c \in Clients |-> IF Host[c] = w THEN 0 ELSE value[c]]
    /\ flight' = [flight EXCEPT ![w] = [k \in Keys |-> None]]
    /\ cache' = IF Backend = "memory" THEN [k \in Keys |-> 0] ELSE cache
    /\ UNCHANGED <<key, books, rejects>>

NextDay == Midnight /\ UNCHANGED pipeVars

(* What caller c does by itself once it has asked. *)
Proceed(c) ==
    \/ DeliverHit(c) \/ Join(c) \/ Lead(c) \/ Recheck(c) \/ Reserve(c)
    \/ Deny(c) \/ Skip(c) \/ Call(c) \/ Fetched(c) \/ RateLimited(c) \/ Failed(c)
    \/ Store(c) \/ Notify(c) \/ Finish(c) \/ CacheRejects(c) \/ QuotaRejects(c)

Next ==
    \/ \E c \in Clients : (\E k \in Keys : Lookup(c, k)) \/ Proceed(c)
    \/ \E k \in Keys : Expire(k)
    \/ \E w \in Workers : Crash(w)
    \/ NextDay

Spec == Init /\ [][Next]_vars

(* The event loop runs every continuation; the provider and the bridge are *)
(* assumed to settle, for the code puts no timeout on either.              *)
Fairness == \A c \in Clients : WF_vars(Proceed(c))
FairSpec == Spec /\ Fairness

(***************************************************************************)
(* Properties                                                              *)
(***************************************************************************)

(* "Only one provider call ever leaves the worker": however callers        *)
(* interleave, a worker never has two calls for one key under way.         *)
OneCallPerKey ==
    \A c, e \in Clients :
        /\ pc[c] = "calling" /\ pc[e] = "calling"
        /\ Host[c] = Host[e] /\ key[c] = key[e]
        => c = e

(* Viewer count does not multiply provider calls: a worker calls again for *)
(* a key only because a payload expired, a call of its own left nothing    *)
(* cached, or a crash.                                                     *)
CallsAccounted ==
    \A w \in Workers, k \in Keys :
        calls[w][k] <= 1 + expired[k] + wasted[w][k] + crashes

(* A reservation is undecided only in the hands of the flight that made    *)
(* it: no way out of fetchWorkload, not even a rejected command of the     *)
(* quota store, leaves one that would be settled later or twice.           *)
ReservationsInHand ==
    \A c \in Clients :
        phase[c] = CASE pc[c] = "over" -> "over" [] pc[c] = "call" -> "reserved"
                     [] pc[c] = "calling" -> "calling" [] OTHER -> "idle"

(* The bridge runs inside the flight, so that in a worker with its cache   *)
(* in memory the flights of a key never bridge an older payload after a    *)
(* newer one (until a crash).                                              *)
FlightsBridgeInOrder ==
    [][\A w \in Workers, k \in Keys : Backend = "memory" => led'[w][k] >= led[w][k]]_vars

(* Every caller gets its result. *)
CallersReturn == \A c \in Clients : pc[c] # "idle" ~> pc[c] = "idle"

=============================================================================
