--------------------------- MODULE ProviderQuota ---------------------------
(***************************************************************************)
(* The daily provider call budget (worker/quota.ts) as the ingestion loop  *)
(* uses it (worker/ingestion.ts, fetchWorkload): reserve before a call,    *)
(* refund when the call was skipped, keep the reservation otherwise.       *)
(*                                                                         *)
(* A denied reservation takes two awaited increments, +1 and -1.  reserve  *)
(* and refund each read the clock, so midnight may fall between them.  The *)
(* counter is either one Redis key per day, shared by all workers, or a    *)
(* map in the memory of the one worker.  Redis may reject a command,       *)
(* having run it or not; reserve and refund then throw.                    *)
(***************************************************************************)
EXTENDS Integers, FiniteSets

CONSTANTS Clients,      \* concurrent reservations
          Workers,      \* worker processes
          Host,         \* Host[c]: the worker of client c
          Replay,       \* workers whose provider calls are skipped
          Backend,      \* "redis" or "memory"
          HardCap,      \* calls allowed per window
          SoftCap,      \* calls after which the posture is no longer normal
          LastWindow,   \* bound: days modelled
          MaxCrashes    \* bound: worker crashes

Windows == 0..LastWindow

ASSUME ClientsFinite == IsFiniteSet(Clients)
ASSUME QuotaHosts == Host \in [Clients -> Workers] /\ Replay \subseteq Workers
ASSUME BackendType == Backend \in {"redis", "memory"}
ASSUME OneMemory == Backend = "memory" => \A v, w \in Workers : v = w
ASSUME CapsType == HardCap \in Nat /\ SoftCap \in Nat /\ SoftCap <= HardCap
ASSUME QuotaBounds == LastWindow \in Nat /\ MaxCrashes \in Nat

VARIABLES
    window,     \* today
    count,      \* count[d]: the counter of day d
    phase,      \* phase[c]: what client c waits for
    reservedOn, \* reservedOn[c]: the day client c reserved on
    posture,    \* posture[c]: posture of the snapshot reserve() returned to c
    sent,       \* sent[d]: calls that left a worker on a reservation of day d (history)
    leaked,     \* leaked[d]: reservations of d never spent nor refunded to d (history)
    strays,     \* strays[d]: refunds to d of reservations of another day (history)
    forgotten,  \* forgotten[d]: count of d wiped by restarts (history)
    refused,    \* refused[d]: commands rejected on the counter of d (history)
    crashes     \* crashes so far

quotaVars == <<window, count, phase, reservedOn, posture,
               sent, leaked, strays, forgotten, refused, crashes>>
ledger == <<sent, leaked, strays, forgotten, refused, crashes>>

QuotaTypeOK ==
    /\ window \in Windows
    /\ count \in [Windows -> Int]
    /\ Backend = "memory" => count \in [Windows -> Nat]
    /\ phase \in [Clients -> {"idle", "over", "reserved", "calling"}]
    /\ reservedOn \in [Clients -> Windows]
    /\ posture \in [Clients -> {"normal", "soft_cap_reached", "hard_cap_reached"}]
    /\ sent \in [Windows -> Nat]
    /\ leaked \in [Windows -> Nat]
    /\ strays \in [Windows -> Nat]
    /\ forgotten \in [Windows -> Nat]
    /\ refused \in [Windows -> Nat]
    /\ crashes \in 0..MaxCrashes

QuotaInit ==
    /\ window = 0
    /\ count = [d \in Windows |-> 0]
    /\ phase = [c \in Clients |-> "idle"]
    /\ reservedOn = [c \in Clients |-> 0]
    /\ posture = [c \in Clients |-> "normal"]
    /\ sent = [d \in Windows |-> 0]
    /\ leaked = [d \in Windows |-> 0]
    /\ strays = [d \in Windows |-> 0]
    /\ forgotten = [d \in Windows |-> 0]
    /\ refused = [d \in Windows |-> 0]
    /\ crashes = 0

(* snapshotFromCount *)
Posture(calls) ==
    IF calls >= HardCap THEN "hard_cap_reached"
    ELSE IF calls >= SoftCap THEN "soft_cap_reached"
    ELSE "normal"

(* increment(window, -1): the memory store never goes below zero, the      *)
(* Redis key does, and only the reply is clamped.                          *)
Decremented(calls) ==
    IF Backend = "memory" /\ calls = 0 THEN 0 ELSE calls - 1

(* Client c's reservation is settled; its snapshot is used no more. *)
Settled(c) ==
    /\ phase' = [phase EXCEPT ![c] = "idle"]
    /\ reservedOn' = [reservedOn EXCEPT ![c] = 0]
    /\ posture' = [posture EXCEPT ![c] = "normal"]

(* Mutant: a denied reservation is taken for an allowed one at the cap. *)
ReserveOffByOne(c) ==
    /\ phase[c] = "idle"
    /\ count[window] <= HardCap
    /\ count' = [count EXCEPT ![window] = @ + 1]
    /\ phase' = [phase EXCEPT ![c] = "reserved"]
    /\ reservedOn' = [reservedOn EXCEPT ![c] = window]
    /\ posture' = [posture EXCEPT ![c] = Posture(count[window] + 1)]
    /\ UNCHANGED <<window, ledger>>

(* reserve(): the new total is within the hard cap, the call may go.  The  *)
(* soft cap only colours the snapshot.                                     *)
ReserveAllowed(c) ==
    /\ phase[c] = "idle"
    /\ count[window] + 1 <= HardCap
    /\ count' = [count EXCEPT ![window] = @ + 1]
    /\ phase' = [phase EXCEPT ![c] = "reserved"]
    /\ reservedOn' = [reservedOn EXCEPT ![c] = window]
    /\ posture' = [posture EXCEPT ![c] = Posture(count[window] + 1)]
    /\ UNCHANGED <<window, ledger>>

(* reserve(): the new total breaks the hard cap; the counter keeps it      *)
(* until the second increment.                                             *)
ReserveOver(c) ==
    /\ phase[c] = "idle"
    /\ count[window] + 1 > HardCap
    /\ count' = [count EXCEPT ![window] = @ + 1]
    /\ phase' = [phase EXCEPT ![c] = "over"]
    /\ reservedOn' = [reservedOn EXCEPT ![c] = window]
    /\ posture' = [posture EXCEPT ![c] = Posture(count[window])]
    /\ UNCHANGED <<window, ledger>>

(* Redis rejects a command on the counter of day d, run or not. *)
RejectedCommand(d, by) ==
    /\ Backend = "redis"
    /\ refused' = [refused EXCEPT ![d] = @ + 1]
    /\ \/ UNCHANGED count
       \/ count' = [count EXCEPT ![d] = @ + by]

(* The INCRBY of reserve() is rejected, or the EXPIRE after it: reserve()  *)
(* throws, and what it may have added stays on the counter.                *)
ReserveRejected(c) ==
    /\ phase[c] = "idle"
    /\ RejectedCommand(window, 1)
    /\ UNCHANGED <<window, phase, reservedOn, posture, sent, leaked, strays,
                   forgotten, crashes>>

(* Mutant: the denied reservation is not taken back. *)
UndoForgotten(c) ==
    /\ phase[c] = "over"
    /\ Settled(c)
    /\ UNCHANGED <<window, count, ledger>>

(* The second increment of reserve(), on the day of the first; the caller  *)
(* is denied.                                                              *)
UndoOver(c) ==
    /\ phase[c] = "over"
    /\ count' = [count EXCEPT ![reservedOn[c]] = Decremented(@)]
    /\ Settled(c)
    /\ UNCHANGED <<window, ledger>>

(* The second increment is rejected: reserve() throws. *)
UndoRejected(c) ==
    /\ phase[c] = "over"
    /\ RejectedCommand(reservedOn[c], -1)
    /\ Settled(c)
    /\ UNCHANGED <<window, sent, leaked, strays, forgotten, crashes>>

(* fetchApiFootballJson sends the request. *)
Depart(c) ==
    /\ phase[c] = "reserved"
    /\ Host[c] \notin Replay
    /\ phase' = [phase EXCEPT ![c] = "calling"]
    /\ sent' = [sent EXCEPT ![reservedOn[c]] = @ + 1]
    /\ UNCHANGED <<window, count, reservedOn, posture, leaked, strays,
                   forgotten, refused, crashes>>

(* The provider answered, or failed: either way the reservation is spent. *)
Return(c) ==
    /\ phase[c] = "calling"
    /\ Settled(c)
    /\ UNCHANGED <<window, count, ledger>>

(* fetchApiFootballJson skips the call (replay mode, no key, another       *)
(* provider) and fetchWorkload awaits refund(), which takes one off the    *)
(* counter of the day it runs on.                                          *)
Refund(c) ==
    /\ phase[c] = "reserved"
    /\ Host[c] \in Replay
    /\ Settled(c)
    /\ count' = [count EXCEPT ![window] = Decremented(@)]
    /\ \/ /\ reservedOn[c] = window
          /\ UNCHANGED <<leaked, strays>>
       \/ /\ reservedOn[c] # window
          /\ leaked' = [leaked EXCEPT ![reservedOn[c]] = @ + 1]
          /\ strays' = [strays EXCEPT ![window] = @ + 1]
    /\ UNCHANGED <<window, sent, forgotten, refused, crashes>>

(* The decrement of refund() is rejected: refund() throws. *)
RefundRejected(c) ==
    /\ phase[c] = "reserved"
    /\ Host[c] \in Replay
    /\ RejectedCommand(window, -1)
    /\ Settled(c)
    /\ \/ /\ reservedOn[c] = window
          /\ UNCHANGED <<leaked, strays>>
       \/ /\ reservedOn[c] # window
          /\ leaked' = [leaked EXCEPT ![reservedOn[c]] = @ + 1]
          /\ strays' = [strays EXCEPT ![window] = @ + (count[window] - count'[window])]
    /\ UNCHANGED <<window, sent, forgotten, crashes>>

(* Midnight UTC. *)
Midnight ==
    /\ window < LastWindow
    /\ window' = window + 1
    /\ UNCHANGED <<count, phase, reservedOn, posture, ledger>>

(* The clients whose increment of day d is still undecided. *)
Open(d) == {c \in Clients : phase[c] \in {"over", "reserved"} /\ reservedOn[c] = d}

(* A worker dies and restarts.  Redis keeps its counters, memory does not. *)
WorkerCrash(w) ==
    /\ crashes < MaxCrashes
    /\ crashes' = crashes + 1
    /\ phase' = [c \in Clients |-> IF Host[c] = w THEN "idle" ELSE phase[c]]
    /\ \/ /\ Backend = "memory"
          /\ count' = [d \in Windows |-> 0]
          /\ forgotten' = [d \in Windows |-> forgotten[d] + count[d]]
          /\ UNCHANGED leaked
       \/ /\ Backend = "redis"
          /\ leaked' = [d \in Windows |->
                 leaked[d] + Cardinality({c \in Open(d) : Host[c] = w})]
          /\ UNCHANGED <<count, forgotten>>
    /\ reservedOn' = [c \in Clients |-> IF Host[c] = w THEN 0 ELSE reservedOn[c]]
    /\ posture' = [c \in Clients |-> IF Host[c] = w THEN "normal" ELSE posture[c]]
    /\ UNCHANGED <<window, sent, strays, refused>>

QuotaNext ==
    \/ \E c \in Clients : \/ ReserveAllowed(c) \/ ReserveOver(c) \/ UndoOver(c)
                          \/ Depart(c) \/ Return(c) \/ Refund(c)
                          \/ ReserveRejected(c) \/ UndoRejected(c) \/ RefundRejected(c)
    \/ Midnight
    \/ \E w \in Workers : WorkerCrash(w)

QuotaSpec == QuotaInit /\ [][QuotaNext]_quotaVars

(***************************************************************************)
(* Properties                                                              *)
(***************************************************************************)

Granted(d) == {c \in Clients : phase[c] = "reserved" /\ reservedOn[c] = d}

(* The cap binds however reservations interleave: the calls sent and those *)
(* about to be sent on a day stay within the hard cap, but for refunds     *)
(* that strayed into that day and counts a restart wiped.                  *)
HardCapExcused ==
    \A d \in Windows :
        sent[d] + Cardinality(Granted(d)) <= HardCap + strays[d] + forgotten[d]

(* "The counter must reflect calls that actually left the worker": on a    *)
(* day with no stray refund and no wiped count, the counter is the calls   *)
(* sent, the increments still undecided, and the reservations leaked by    *)
(* crashes or refunded to another day.  Only a command Redis rejected can  *)
(* make it drift, by one each, and only upwards: too few calls, never too  *)
(* many.                                                                   *)
MeterConserved ==
    \A d \in Windows :
        strays[d] = 0 /\ forgotten[d] = 0
            => LET booked == sent[d] + Cardinality(Open(d)) + leaked[d]
               IN booked <= count[d] /\ count[d] <= booked + refused[d]

=============================================================================
