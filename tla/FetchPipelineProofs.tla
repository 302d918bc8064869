------------------------- MODULE FetchPipelineProofs -------------------------
(***************************************************************************)
(* The call budget, and the fetch path above it, for any callers, clients, *)
(* workers, keys, caps, days and bounds, over either store.                *)
(*                                                                         *)
(* One balance per day carries the argument on the budget:                 *)
(*                                                                         *)
(*    sent + open increments <= counter + stray refunds + forgotten        *)
(*                                                                         *)
(* An allowed reservation reads the counter it has just raised, so the cap *)
(* on the counter caps what was sent and what is about to be.              *)
(*                                                                         *)
(* FlightInv ties a caller inside the singleflight to the map entry of its *)
(* key, which no other caller can then own.  CallsInv counts the calls of  *)
(* one worker for one key: a surplus call is either cached or still in the *)
(* hands of the flight, and a flight about to call has no surplus.         *)
(***************************************************************************)
EXTENDS FetchPipeline, FiniteSetTheorems, TLAPS

---------------------------------------------------------------------------
(* The budget. *)

Balance ==
    \A d \in Windows :
        sent[d] + Cardinality(Open(d)) <= count[d] + strays[d] + forgotten[d]

QuotaInv == QuotaTypeOK /\ Balance /\ HardCapExcused

(* Adding or removing one element moves a cardinality by at most one. *)
LEMMA OneMoves ==
  ASSUME NEW S, NEW T, NEW x, IsFiniteSet(S), IsFiniteSet(T), S \ {x} = T \ {x}
  PROVE  /\ (x \in S <=> x \in T) => Cardinality(T) = Cardinality(S)
         /\ x \notin S /\ x \in T => Cardinality(T) = Cardinality(S) + 1
         /\ x \in S /\ x \notin T => Cardinality(S) = Cardinality(T) + 1
<1>1. CASE x \in S <=> x \in T
  <2>1. S = T
    BY <1>1
  <2> QED
    BY <1>1, <2>1
<1>2. CASE x \notin S /\ x \in T
  <2>1. T = S \union {x}
    BY <1>2
  <2> QED
    BY <1>2, <2>1, FS_AddElement
<1>3. CASE x \in S /\ x \notin T
  <2>1. S = T \union {x}
    BY <1>3
  <2> QED
    BY <1>3, <2>1, FS_AddElement
<1> QED
  BY <1>1, <1>2, <1>3

(* The sets of open and granted reservations are finite. *)
LEMMA ReservationsFinite ==
  ASSUME NEW d \in Windows
  PROVE  /\ IsFiniteSet(Open(d)) /\ Cardinality(Open(d)) \in Nat
         /\ IsFiniteSet(Open(d)') /\ Cardinality(Open(d)') \in Nat
         /\ IsFiniteSet(Granted(d)) /\ Cardinality(Granted(d)) \in Nat
         /\ IsFiniteSet(Granted(d)') /\ Cardinality(Granted(d)') \in Nat
         /\ Cardinality(Granted(d)) <= Cardinality(Open(d))
<1>1. /\ Open(d) \subseteq Clients /\ Open(d)' \subseteq Clients
      /\ Granted(d) \subseteq Open(d) /\ Granted(d)' \subseteq Open(d)'
  BY DEF Open, Granted
<1>2. IsFiniteSet(Open(d)) /\ IsFiniteSet(Open(d)')
  BY <1>1, ClientsFinite, FS_Subset
<1> QED
  BY <1>1, <1>2, FS_Subset, FS_CardinalityType

(* A step of one client moves at most that client between the sets. *)
LEMMA ClientMoves ==
  ASSUME NEW c \in Clients, NEW d \in Windows,
         \A e \in Clients \ {c} :
             phase'[e] = phase[e] /\ reservedOn'[e] = reservedOn[e]
  PROVE  LET O == Cardinality(Open(d))
             G == Cardinality(Granted(d))
         IN /\ (c \in Open(d) <=> c \in Open(d)') => O' = O
            /\ c \notin Open(d) /\ c \in Open(d)' => O' = O + 1
            /\ c \in Open(d) /\ c \notin Open(d)' => O = O' + 1
            /\ (c \in Granted(d) <=> c \in Granted(d)') => G' = G
            /\ c \notin Granted(d) /\ c \in Granted(d)' => G' = G + 1
            /\ c \in Granted(d) /\ c \notin Granted(d)' => G = G' + 1
<1>1. Open(d) \ {c} = Open(d)' \ {c}
  BY DEF Open
<1>2. Granted(d) \ {c} = Granted(d)' \ {c}
  BY DEF Granted
<1> QED
  BY <1>1, <1>2, ReservationsFinite, OneMoves

(* Every variable of the budget keeps its type; the memory counter never   *)
(* goes below zero.                                                        *)
LEMMA QuotaTypeInvariant == QuotaTypeOK /\ [QuotaNext]_quotaVars => QuotaTypeOK'
<1> SUFFICES ASSUME QuotaTypeOK, [QuotaNext]_quotaVars PROVE QuotaTypeOK'
    OBVIOUS
<1>0. 0 \in Windows /\ window \in Windows
  BY QuotaBounds DEF QuotaTypeOK, Windows
<1>p. \A n \in Int : Posture(n) \in {"normal", "soft_cap_reached", "hard_cap_reached"}
  BY DEF Posture
<1>d. /\ \A n \in Int : Decremented(n) \in Int
      /\ Backend = "memory" => \A n \in Nat : Decremented(n) \in Nat
  BY DEF Decremented
<1> USE DEF QuotaTypeOK
<1>1. ASSUME NEW c \in Clients, ReserveAllowed(c) \/ ReserveOver(c)
      PROVE  QuotaTypeOK'
  <2>1. /\ count' = [count EXCEPT ![window] = @ + 1]
        /\ \/ phase' = [phase EXCEPT ![c] = "reserved"]
           \/ phase' = [phase EXCEPT ![c] = "over"]
        /\ reservedOn' = [reservedOn EXCEPT ![c] = window]
        /\ UNCHANGED <<window, sent, leaked, strays, forgotten, refused, crashes>>
    BY <1>1 DEF ReserveAllowed, ReserveOver, ledger
  <2>2. posture' \in [Clients -> {"normal", "soft_cap_reached", "hard_cap_reached"}]
    <3>1. Posture(count[window]) \in {"normal", "soft_cap_reached", "hard_cap_reached"}
          /\ Posture(count[window] + 1)
                \in {"normal", "soft_cap_reached", "hard_cap_reached"}
      BY <1>0, <1>p
    <3>2. \/ posture' = [posture EXCEPT ![c] = Posture(count[window] + 1)]
          \/ posture' = [posture EXCEPT ![c] = Posture(count[window])]
      BY <1>1 DEF ReserveAllowed, ReserveOver
    <3> QED
      BY <3>1, <3>2
  <2>3. /\ count' \in [Windows -> Int]
        /\ Backend = "memory" => count' \in [Windows -> Nat]
    BY <1>0, <2>1
  <2>4. phase' \in [Clients -> {"idle", "over", "reserved", "calling"}]
    BY <2>1
  <2>5. reservedOn' \in [Clients -> Windows]
    BY <1>0, <2>1
  <2> QED
    BY <2>1, <2>2, <2>3, <2>4, <2>5
<1>3. ASSUME NEW c \in Clients, UndoOver(c) PROVE QuotaTypeOK'
  BY <1>0, <1>d, <1>3 DEF UndoOver, Settled, ledger
<1>4. ASSUME NEW c \in Clients, Depart(c) PROVE QuotaTypeOK'
  BY <1>4 DEF Depart
<1>5. ASSUME NEW c \in Clients, Return(c) PROVE QuotaTypeOK'
  BY <1>0, <1>5 DEF Return, Settled, ledger
<1>6. ASSUME NEW c \in Clients, Refund(c) PROVE QuotaTypeOK'
  BY <1>0, <1>d, <1>6 DEF Refund, Settled
<1>r. ASSUME NEW c \in Clients, NEW by \in {1, -1},
             RejectedCommand(window, by) \/ RejectedCommand(reservedOn[c], by)
      PROVE  /\ count' \in [Windows -> Int] /\ Backend = "redis"
             /\ refused' \in [Windows -> Nat]
  <2>1. PICK d \in Windows : RejectedCommand(d, by)
    BY <1>0, <1>r
  <2> QED
    BY <2>1 DEF RejectedCommand
<1>r1. ASSUME NEW c \in Clients, ReserveRejected(c) PROVE QuotaTypeOK'
  BY <1>r, <1>r1, BackendType DEF ReserveRejected
<1>r2. ASSUME NEW c \in Clients, UndoRejected(c) PROVE QuotaTypeOK'
  BY <1>0, <1>r, <1>r2, BackendType DEF UndoRejected, Settled
<1>r3. ASSUME NEW c \in Clients, RefundRejected(c) PROVE QuotaTypeOK'
  <2>1. /\ count' \in [Windows -> Int] /\ Backend = "redis"
        /\ refused' \in [Windows -> Nat]
    BY <1>r, <1>r3 DEF RefundRejected
  <2>2. count[window] - count'[window] \in Nat
    BY <1>0, <1>r3 DEF RefundRejected, RejectedCommand
  <2>3. leaked' \in [Windows -> Nat] /\ strays' \in [Windows -> Nat]
    BY <1>0, <1>r3, <2>2 DEF RefundRejected
  <2> QED
    BY <1>0, <1>r3, <2>1, <2>3, BackendType DEF RefundRejected, Settled
<1>7. CASE Midnight
  <2>1. window' \in Windows
    BY <1>7, QuotaBounds DEF Midnight, Windows
  <2> QED
    BY <1>7, <2>1 DEF Midnight, ledger
<1>8. ASSUME NEW w \in Workers, WorkerCrash(w) PROVE QuotaTypeOK'
  <2>1. crashes' \in 0..MaxCrashes
    BY <1>8, QuotaBounds DEF WorkerCrash
  <2>2. CASE Backend = "memory"
    BY <1>0, <1>8, <2>1, <2>2 DEF WorkerCrash
  <2>3. CASE Backend = "redis"
    <3>1. \A d \in Windows : Cardinality({c \in Open(d) : Host[c] = w}) \in Nat
      <4>1. \A d \in Windows : {c \in Open(d) : Host[c] = w} \subseteq Open(d)
        OBVIOUS
      <4> QED
        BY <4>1, ReservationsFinite, FS_Subset, FS_CardinalityType
    <3>2. leaked' \in [Windows -> Nat]
      <4>1. leaked' = [d \in Windows |->
                 leaked[d] + Cardinality({c \in Open(d) : Host[c] = w})]
        BY <1>8, <2>3 DEF WorkerCrash
      <4>2. \A d \in Windows :
               leaked[d] + Cardinality({c \in Open(d) : Host[c] = w}) \in Nat
        <5> SUFFICES ASSUME NEW d \in Windows
                     PROVE  leaked[d] + Cardinality({c \in Open(d) : Host[c] = w}) \in Nat
            OBVIOUS
        <5> DEFINE dead == Cardinality({c \in Open(d) : Host[c] = w})
        <5>1. dead \in Nat /\ leaked[d] \in Nat
          BY <3>1
        <5> HIDE DEF dead
        <5>2. leaked[d] + dead \in Nat
          BY <5>1
        <5> QED
          BY <5>2 DEF dead
      <4> QED
        BY <4>1, <4>2, Zenon
    <3>3. /\ UNCHANGED <<window, count, sent, strays, forgotten, refused>>
          /\ phase' = [c \in Clients |-> IF Host[c] = w THEN "idle" ELSE phase[c]]
          /\ reservedOn' = [c \in Clients |-> IF Host[c] = w THEN 0 ELSE reservedOn[c]]
          /\ posture' = [c \in Clients |-> IF Host[c] = w THEN "normal" ELSE posture[c]]
      BY <1>8, <2>3 DEF WorkerCrash
    <3> QED
      BY <1>0, <2>1, <2>3, <3>2, <3>3
  <2> QED
    BY <2>2, <2>3, BackendType
<1>9. CASE UNCHANGED quotaVars
  BY <1>9 DEF quotaVars
<1> QED
  BY <1>1, <1>3, <1>4, <1>5, <1>6, <1>7, <1>8, <1>9, <1>r1, <1>r2, <1>r3
     DEF QuotaNext

(* What one step does to the books of day d: the counter, the open and     *)
(* granted reservations, and the ledger.                                   *)
LEMMA BooksAfterReserve ==
  ASSUME QuotaTypeOK, NEW c \in Clients, NEW d \in Windows,
         ReserveAllowed(c) \/ ReserveOver(c)
  PROVE  LET mine == IF d = window THEN 1 ELSE 0
         IN /\ count'[d] = count[d] + mine
            /\ Cardinality(Open(d))' = Cardinality(Open(d)) + mine
            /\ Cardinality(Granted(d))' = Cardinality(Granted(d))
                   + (IF ReserveAllowed(c) THEN mine ELSE 0)
            /\ ReserveAllowed(c) /\ d = window => count'[d] <= HardCap
            /\ UNCHANGED ledger
<1>1. /\ phase[c] = "idle"
      /\ reservedOn' = [reservedOn EXCEPT ![c] = window]
      /\ count' = [count EXCEPT ![window] = @ + 1]
      /\ UNCHANGED ledger
      /\ ReserveAllowed(c) => phase' = [phase EXCEPT ![c] = "reserved"]
      /\ ~ReserveAllowed(c) => phase' = [phase EXCEPT ![c] = "over"]
  BY DEF ReserveAllowed, ReserveOver
<1>2. \A e \in Clients \ {c} :
         phase'[e] = phase[e] /\ reservedOn'[e] = reservedOn[e]
  BY <1>1 DEF QuotaTypeOK
<1>3. c \notin Open(d) /\ c \notin Granted(d)
  BY <1>1 DEF Open, Granted
<1>4. /\ c \in Open(d)' <=> d = window
      /\ c \in Granted(d)' <=> d = window /\ ReserveAllowed(c)
  BY <1>1 DEF Open, Granted, QuotaTypeOK
<1>5. /\ Cardinality(Open(d)) \in Nat /\ Cardinality(Granted(d)) \in Nat
  BY ReservationsFinite
<1>6. /\ d = window => /\ Cardinality(Open(d)') = Cardinality(Open(d)) + 1
      /\ d # window => /\ Cardinality(Open(d)') = Cardinality(Open(d))
      /\ d = window /\ ReserveAllowed(c) =>
             Cardinality(Granted(d)') = Cardinality(Granted(d)) + 1
      /\ ~(d = window /\ ReserveAllowed(c)) =>
             Cardinality(Granted(d)') = Cardinality(Granted(d))
  BY <1>2, <1>3, <1>4, ClientMoves
<1>7. count'[d] = count[d] + (IF d = window THEN 1 ELSE 0)
  BY <1>1 DEF QuotaTypeOK
<1>8. ReserveAllowed(c) /\ d = window => count'[d] <= HardCap
  BY <1>7 DEF ReserveAllowed
<1> QED
  BY <1>1, <1>5, <1>6, <1>7, <1>8

(* A denied reservation is taken back on its day; a refund is on time if   *)
(* it runs on the day of its reservation and strays otherwise.             *)
LEMMA BooksAfterRelease ==
  ASSUME QuotaTypeOK, NEW c \in Clients, NEW d \in Windows,
         UndoOver(c) \/ Refund(c)
  PROVE  LET mine == IF d = reservedOn[c] THEN 1 ELSE 0
             day  == IF UndoOver(c) THEN reservedOn[c] ELSE window
             hit  == IF d = day THEN 1 ELSE 0
             off  == IF reservedOn[c] = day THEN 0 ELSE 1
         IN /\ count'[d] = IF d = day THEN Decremented(count[d]) ELSE count[d]
            /\ Cardinality(Open(d)) = Cardinality(Open(d))' + mine
            /\ Cardinality(Granted(d)) >= Cardinality(Granted(d))'
            /\ strays'[d] = strays[d] + hit * off
            /\ leaked'[d] = leaked[d] + mine * off
            /\ UNCHANGED <<sent, forgotten, refused>>
<1>1. /\ phase[c] \in {"over", "reserved"}
      /\ phase' = [phase EXCEPT ![c] = "idle"]
      /\ reservedOn' = [reservedOn EXCEPT ![c] = 0]
      /\ UNCHANGED <<sent, forgotten, refused>>
  BY DEF UndoOver, Refund, Settled, ledger
<1>2. \A e \in Clients \ {c} :
         phase'[e] = phase[e] /\ reservedOn'[e] = reservedOn[e]
  BY <1>1 DEF QuotaTypeOK
<1>3. /\ c \notin Open(d)' /\ c \notin Granted(d)'
      /\ c \in Open(d) <=> d = reservedOn[c]
  BY <1>1 DEF Open, Granted, QuotaTypeOK
<1>4. /\ Cardinality(Open(d)) \in Nat /\ Cardinality(Granted(d)) \in Nat
      /\ Cardinality(Open(d)') \in Nat /\ Cardinality(Granted(d)') \in Nat
  BY ReservationsFinite
<1>5. /\ d = reservedOn[c] => Cardinality(Open(d)) = Cardinality(Open(d)') + 1
      /\ d # reservedOn[c] => Cardinality(Open(d)) = Cardinality(Open(d)')
      /\ Cardinality(Granted(d)) >= Cardinality(Granted(d)')
  <2>1. \/ Cardinality(Granted(d)') = Cardinality(Granted(d))
        \/ Cardinality(Granted(d)) = Cardinality(Granted(d)') + 1
    BY <1>2, <1>3, ClientMoves
  <2> QED
    BY <1>2, <1>3, <1>4, <2>1, ClientMoves
<1>6. CASE UndoOver(c)
  <2>1. /\ count' = [count EXCEPT ![reservedOn[c]] = Decremented(@)]
        /\ UNCHANGED <<strays, leaked>>
    BY <1>6 DEF UndoOver, ledger
  <2>2. strays[d] \in Nat /\ leaked[d] \in Nat
    BY DEF QuotaTypeOK
  <2>3. /\ d = reservedOn[c] => count'[d] = Decremented(count[d])
        /\ d # reservedOn[c] => count'[d] = count[d]
    BY <2>1 DEF QuotaTypeOK
  <2> QED
    BY <1>1, <1>4, <1>5, <1>6, <2>1, <2>2, <2>3
<1>7. CASE Refund(c) /\ ~UndoOver(c)
  <2>1. count' = [count EXCEPT ![window] = Decremented(@)]
    BY <1>7 DEF Refund
  <2>2. /\ d = window => count'[d] = Decremented(count[d])
        /\ d # window => count'[d] = count[d]
    BY <2>1 DEF QuotaTypeOK
  <2>3. strays[d] \in Nat /\ leaked[d] \in Nat
    BY DEF QuotaTypeOK
  <2>4. CASE reservedOn[c] = window
    <3>1. UNCHANGED <<strays, leaked>>
      BY <1>7, <2>4 DEF Refund
    <3> QED
      BY <1>1, <1>4, <1>5, <1>7, <2>2, <2>3, <2>4, <3>1
  <2>5. CASE reservedOn[c] # window
    <3>1. /\ leaked' = [leaked EXCEPT ![reservedOn[c]] = @ + 1]
          /\ strays' = [strays EXCEPT ![window] = @ + 1]
      BY <1>7, <2>5 DEF Refund
    <3>2. /\ strays'[d] = strays[d] + (IF d = window THEN 1 ELSE 0)
          /\ leaked'[d] = leaked[d] + (IF d = reservedOn[c] THEN 1 ELSE 0)
      BY <3>1 DEF QuotaTypeOK
    <3> QED
      BY <1>1, <1>4, <1>5, <1>7, <2>2, <2>3, <2>5, <3>2
  <2> QED
    BY <2>4, <2>5
<1> QED
  BY <1>6, <1>7

(* The four ways a release shows in the books of a day: the increment of   *)
(* the day is taken back, is leaked, is none of its business, or another   *)
(* day's refund strays into it.                                            *)
LEMMA ReleaseCases ==
  ASSUME QuotaTypeOK, NEW c \in Clients, NEW d \in Windows,
         UndoOver(c) \/ Refund(c)
  PROVE  LET O == Cardinality(Open(d))
         IN /\ UNCHANGED <<sent, forgotten, refused>>
            /\ Cardinality(Granted(d))' <= Cardinality(Granted(d))
            /\ \/ /\ O = O' + 1 /\ count'[d] = Decremented(count[d])
                  /\ strays'[d] = strays[d] /\ leaked'[d] = leaked[d]
               \/ /\ O = O' + 1 /\ count'[d] = count[d]
                  /\ strays'[d] = strays[d] /\ leaked'[d] = leaked[d] + 1
               \/ /\ O = O' /\ count'[d] = count[d]
                  /\ strays'[d] = strays[d] /\ leaked'[d] = leaked[d]
               \/ /\ O = O' /\ count'[d] = Decremented(count[d])
                  /\ strays'[d] = strays[d] + 1 /\ leaked'[d] = leaked[d]
<1> DEFINE day == IF UndoOver(c) THEN reservedOn[c] ELSE window
           O == Cardinality(Open(d))
           G == Cardinality(Granted(d))
<1>1. /\ strays[d] \in Nat /\ leaked[d] \in Nat
      /\ O \in Nat /\ O' \in Nat /\ G \in Nat /\ G' \in Nat
  BY ReservationsFinite DEF QuotaTypeOK
<1>2. UNCHANGED <<sent, forgotten, refused>> /\ G' <= G
  BY <1>1, BooksAfterRelease
<1>3. CASE d = reservedOn[c] /\ d = day
  BY <1>1, <1>2, <1>3, BooksAfterRelease
<1>4. CASE d = reservedOn[c] /\ d # day
  BY <1>1, <1>2, <1>4, BooksAfterRelease
<1>5. CASE d # reservedOn[c] /\ d = day
  BY <1>1, <1>2, <1>5, BooksAfterRelease
<1>6. CASE d # reservedOn[c] /\ d # day
  BY <1>1, <1>2, <1>6, BooksAfterRelease
<1> QED
  BY <1>3, <1>4, <1>5, <1>6

(* What a rejected command shows in the books of a day.  The counter may   *)
(* end one too high, by a reservation that threw or a decrement that did   *)
(* not run, and the rejection is on record; it is never too low but where  *)
(* another day's refund strays into it.                                    *)
LEMMA RejectionCases ==
  ASSUME QuotaTypeOK, NEW c \in Clients, NEW d \in Windows,
         ReserveRejected(c) \/ UndoRejected(c) \/ RefundRejected(c)
  PROVE  LET O == Cardinality(Open(d))
         IN /\ UNCHANGED <<sent, forgotten>>
            /\ Cardinality(Granted(d))' <= Cardinality(Granted(d))
            /\ \/ /\ O = O' /\ count'[d] = count[d]
                  /\ strays'[d] = strays[d] /\ leaked'[d] = leaked[d]
                  /\ refused'[d] >= refused[d]
               \/ /\ O = O' /\ count'[d] = count[d] + 1
                  /\ strays'[d] = strays[d] /\ leaked'[d] = leaked[d]
                  /\ refused'[d] = refused[d] + 1
               \/ /\ O = O' + 1
                  /\ count'[d] = count[d] \/ count'[d] = count[d] - 1
                  /\ strays'[d] = strays[d] /\ leaked'[d] = leaked[d]
                  /\ refused'[d] = refused[d] + 1
               \/ /\ O = O' + 1 /\ count'[d] = count[d]
                  /\ strays'[d] = strays[d] /\ leaked'[d] = leaked[d] + 1
                  /\ refused'[d] = refused[d]
               \/ /\ O = O' /\ count'[d] = count[d] - 1
                  /\ strays'[d] = strays[d] + 1 /\ leaked'[d] = leaked[d]
                  /\ refused'[d] = refused[d] + 1
<1> DEFINE O == Cardinality(Open(d))
           G == Cardinality(Granted(d))
<1>0. /\ sent[d] \in Nat /\ leaked[d] \in Nat /\ strays[d] \in Nat
      /\ count[d] \in Int /\ count[window] \in Int /\ refused[d] \in Nat
      /\ window \in Windows /\ reservedOn[c] \in Windows
      /\ O \in Nat /\ O' \in Nat /\ G \in Nat /\ G' \in Nat
  BY ReservationsFinite DEF QuotaTypeOK
<1>1. CASE ReserveRejected(c)
  <2>1. UNCHANGED <<phase, reservedOn, sent, forgotten, strays, leaked>>
    BY <1>1 DEF ReserveRejected
  <2>2. Open(d)' = Open(d) /\ Granted(d)' = Granted(d)
    BY <2>1 DEF Open, Granted
  <2>3. /\ refused' = [refused EXCEPT ![window] = @ + 1]
        /\ count' = count \/ count' = [count EXCEPT ![window] = @ + 1]
    BY <1>1 DEF ReserveRejected, RejectedCommand
  <2>4. CASE count' = count
    BY <1>0, <2>1, <2>2, <2>3, <2>4 DEF QuotaTypeOK
  <2>5. CASE count' = [count EXCEPT ![window] = @ + 1]
    BY <1>0, <2>1, <2>2, <2>3, <2>5 DEF QuotaTypeOK
  <2> QED
    BY <2>3, <2>4, <2>5
<1>2. ASSUME UndoRejected(c) \/ RefundRejected(c)
      PROVE  /\ UNCHANGED <<sent, forgotten>>
             /\ G' <= G
             /\ d = reservedOn[c] => O = O' + 1
             /\ d # reservedOn[c] => O = O'
  <2>1. /\ phase[c] \in {"over", "reserved"}
        /\ phase' = [phase EXCEPT ![c] = "idle"]
        /\ reservedOn' = [reservedOn EXCEPT ![c] = 0]
        /\ UNCHANGED <<sent, forgotten>>
    BY <1>2 DEF UndoRejected, RefundRejected, Settled
  <2>2. \A e \in Clients \ {c} :
           phase'[e] = phase[e] /\ reservedOn'[e] = reservedOn[e]
    BY <2>1 DEF QuotaTypeOK
  <2>3. /\ c \notin Open(d)' /\ c \notin Granted(d)'
        /\ c \in Open(d) <=> d = reservedOn[c]
    BY <2>1 DEF Open, Granted, QuotaTypeOK
  <2>4. G' = G \/ G = G' + 1
    BY <2>2, <2>3, ClientMoves
  <2> QED
    BY <1>0, <2>1, <2>2, <2>3, <2>4, ClientMoves
<1>3. CASE UndoRejected(c)
  <2>1. /\ refused' = [refused EXCEPT ![reservedOn[c]] = @ + 1]
        /\ count' = count \/ count' = [count EXCEPT ![reservedOn[c]] = @ + (-1)]
        /\ UNCHANGED <<strays, leaked>>
    BY <1>3 DEF UndoRejected, RejectedCommand
  <2>2. /\ d = reservedOn[c] => /\ count'[d] = count[d] \/ count'[d] = count[d] - 1
                                /\ refused'[d] = refused[d] + 1
        /\ d # reservedOn[c] => count'[d] = count[d] /\ refused'[d] = refused[d]
    BY <1>0, <2>1 DEF QuotaTypeOK
  <2> HIDE DEF O, G
  <2> QED
    BY <1>0, <1>2, <1>3, <2>1, <2>2 DEF O, G
<1>4. CASE RefundRejected(c)
  <2>1. /\ refused' = [refused EXCEPT ![window] = @ + 1]
        /\ count' = count \/ count' = [count EXCEPT ![window] = @ + (-1)]
    BY <1>4 DEF RefundRejected, RejectedCommand
  <2>2. /\ d = window => /\ count'[d] = count[d] \/ count'[d] = count[d] - 1
                         /\ refused'[d] = refused[d] + 1
        /\ d # window => count'[d] = count[d] /\ refused'[d] = refused[d]
    BY <1>0, <2>1 DEF QuotaTypeOK
  <2>3. CASE reservedOn[c] = window
    <3>1. UNCHANGED <<strays, leaked>>
      BY <1>4, <2>3 DEF RefundRejected
    <3> HIDE DEF O, G
    <3> QED
      BY <1>0, <1>2, <1>4, <2>2, <2>3, <3>1 DEF O, G
  <2>4. CASE reservedOn[c] # window
    <3>1. /\ leaked' = [leaked EXCEPT ![reservedOn[c]] = @ + 1]
          /\ strays' = [strays EXCEPT ![window] = @ + (count[window] - count'[window])]
      BY <1>4, <2>4 DEF RefundRejected
    <3>2. /\ leaked'[d] = IF d = reservedOn[c] THEN leaked[d] + 1 ELSE leaked[d]
          /\ strays'[d] = IF d = window THEN strays[d] + (count[d] - count'[d])
                                        ELSE strays[d]
      BY <1>0, <3>1 DEF QuotaTypeOK
    <3>3. CASE d = window
      <4>1. O = O' /\ leaked'[d] = leaked[d] /\ refused'[d] = refused[d] + 1
        BY <1>2, <1>4, <2>2, <2>4, <3>2, <3>3
      <4>2. \/ count'[d] = count[d] /\ strays'[d] = strays[d]
            \/ count'[d] = count[d] - 1 /\ strays'[d] = strays[d] + 1
        BY <1>0, <2>2, <3>2, <3>3
      <4> QED
        BY <1>0, <1>2, <1>4, <4>1, <4>2
    <3>4. CASE d # window /\ d = reservedOn[c]
      BY <1>0, <1>2, <1>4, <2>2, <3>2, <3>4
    <3>5. CASE d # window /\ d # reservedOn[c]
      BY <1>0, <1>2, <1>4, <2>2, <3>2, <3>5
    <3> QED
      BY <3>3, <3>4, <3>5
  <2> QED
    BY <2>3, <2>4
<1> QED
  BY <1>1, <1>3, <1>4

(* A call that leaves turns a granted reservation into a sent call; an     *)
(* answer changes nothing.                                                 *)
LEMMA BooksAfterCall ==
  ASSUME QuotaTypeOK, NEW c \in Clients, NEW d \in Windows,
         Depart(c) \/ Return(c)
  PROVE  LET mine == IF Depart(c) /\ d = reservedOn[c] THEN 1 ELSE 0
         IN /\ sent'[d] = sent[d] + mine
            /\ Cardinality(Open(d)) = Cardinality(Open(d))' + mine
            /\ Cardinality(Granted(d)) = Cardinality(Granted(d))' + mine
            /\ UNCHANGED <<count, leaked, strays, forgotten, refused>>
<1>1. /\ \A e \in Clients \ {c} :
            phase'[e] = phase[e] /\ reservedOn'[e] = reservedOn[e]
      /\ UNCHANGED <<count, leaked, strays, forgotten, refused>>
  BY DEF Depart, Return, Settled, ledger, QuotaTypeOK
<1>2. /\ c \notin Open(d)' /\ c \notin Granted(d)'
      /\ c \in Open(d) <=> Depart(c) /\ d = reservedOn[c]
      /\ c \in Granted(d) <=> Depart(c) /\ d = reservedOn[c]
  BY DEF Depart, Return, Settled, Open, Granted, QuotaTypeOK
<1>3. /\ Cardinality(Open(d)') \in Nat /\ Cardinality(Granted(d)') \in Nat
  BY ReservationsFinite
<1>4. sent'[d] = sent[d] + (IF Depart(c) /\ d = reservedOn[c] THEN 1 ELSE 0)
  <2>1. CASE Depart(c)
    BY <2>1 DEF Depart, QuotaTypeOK
  <2>2. CASE Return(c) /\ ~Depart(c)
    BY <2>2 DEF Return, ledger, QuotaTypeOK
  <2> QED
    BY <2>1, <2>2
<1>5. /\ Depart(c) /\ d = reservedOn[c] =>
             /\ Cardinality(Open(d)) = Cardinality(Open(d)') + 1
             /\ Cardinality(Granted(d)) = Cardinality(Granted(d)') + 1
      /\ ~(Depart(c) /\ d = reservedOn[c]) =>
             /\ Cardinality(Open(d)) = Cardinality(Open(d)')
             /\ Cardinality(Granted(d)) = Cardinality(Granted(d)')
  BY <1>1, <1>2, ClientMoves
<1> QED
  BY <1>1, <1>3, <1>4, <1>5

(* A crash closes the reservations of its worker and moves no other; over  *)
(* Redis they are leaked, in memory the whole counter is forgotten.        *)
LEMMA BooksAfterCrash ==
  ASSUME QuotaTypeOK, NEW w \in Workers, NEW d \in Windows, WorkerCrash(w)
  PROVE  /\ Cardinality(Open(d))' <= Cardinality(Open(d))
         /\ Cardinality(Granted(d))' <= Cardinality(Granted(d))
         /\ sent'[d] = sent[d] /\ strays'[d] = strays[d] /\ refused'[d] = refused[d]
         /\ Backend = "memory" =>
                /\ count'[d] = 0 /\ leaked'[d] = leaked[d]
                /\ forgotten'[d] = forgotten[d] + count[d]
         /\ Backend = "redis" =>
                /\ count'[d] = count[d] /\ forgotten'[d] = forgotten[d]
                /\ leaked'[d] + Cardinality(Open(d))'
                       = leaked[d] + Cardinality(Open(d))
<1> DEFINE dead == {c \in Open(d) : Host[c] = w}
<1>1. /\ Open(d)' = Open(d) \ dead
      /\ Granted(d)' \subseteq Granted(d)
  BY DEF WorkerCrash, Open, Granted, QuotaTypeOK
<1>2. /\ Cardinality(Open(d))' <= Cardinality(Open(d))
      /\ Cardinality(Granted(d))' <= Cardinality(Granted(d))
  BY <1>1, ReservationsFinite, FS_Subset
<1>3. Cardinality(Open(d))' = Cardinality(Open(d)) - Cardinality(dead)
  <2>1. Open(d) \intersect dead = dead
    OBVIOUS
  <2>2. Cardinality(Open(d) \ dead) = Cardinality(Open(d)) - Cardinality(dead)
    BY <2>1, ReservationsFinite, FS_Difference
  <2> QED
    BY <1>1, <2>2
<1>4. Cardinality(dead) \in Nat
  <2>1. dead \subseteq Open(d)
    OBVIOUS
  <2> QED
    BY <2>1, ReservationsFinite, FS_Subset, FS_CardinalityType
<1>5. UNCHANGED <<sent, strays, refused>>
  BY DEF WorkerCrash
<1>6. CASE Backend = "memory"
  <2>1. /\ count' = [e \in Windows |-> 0]
        /\ forgotten' = [e \in Windows |-> forgotten[e] + count[e]]
        /\ UNCHANGED leaked
    BY <1>6 DEF WorkerCrash
  <2> QED
    BY <1>2, <1>5, <1>6, <2>1
<1>7. CASE Backend = "redis"
  <2>1. /\ UNCHANGED <<count, forgotten>>
        /\ leaked' = [e \in Windows |->
               leaked[e] + Cardinality({c \in Open(e) : Host[c] = w})]
    BY <1>7 DEF WorkerCrash
  <2>2. leaked'[d] = leaked[d] + Cardinality(dead)
    BY <2>1
  <2>3. leaked[d] \in Nat /\ Cardinality(Open(d)) \in Nat
    BY ReservationsFinite DEF QuotaTypeOK
  <2> QED
    BY <1>2, <1>3, <1>4, <1>5, <1>7, <2>1, <2>2, <2>3
<1> QED
  BY <1>6, <1>7, BackendType

(* The books of a day hold numbers. *)
LEMMA BooksType ==
  ASSUME QuotaTypeOK, NEW d \in Windows
  PROVE  /\ sent[d] \in Nat /\ leaked[d] \in Nat
         /\ strays[d] \in Nat /\ forgotten[d] \in Nat /\ refused[d] \in Nat
         /\ count[d] \in Int
         /\ Backend = "memory" => count[d] \in Nat
         /\ Cardinality(Open(d)) \in Nat /\ Cardinality(Granted(d)) \in Nat
         /\ Cardinality(Open(d))' \in Nat /\ Cardinality(Granted(d))' \in Nat
         /\ Cardinality(Granted(d)) <= Cardinality(Open(d))
BY ReservationsFinite DEF QuotaTypeOK

(* Nothing else touches the books. *)
LEMMA BooksKept ==
  ASSUME NEW d \in Windows, Midnight \/ UNCHANGED quotaVars
  PROVE  /\ UNCHANGED <<count, ledger>>
         /\ Cardinality(Open(d))' = Cardinality(Open(d))
         /\ Cardinality(Granted(d))' = Cardinality(Granted(d))
<1>1. UNCHANGED <<count, phase, reservedOn, ledger>>
  BY DEF Midnight, quotaVars, ledger
<1>2. Open(d)' = Open(d) /\ Granted(d)' = Granted(d)
  BY <1>1 DEF Open, Granted
<1> QED
  BY <1>1, <1>2

(* The balance of each day, and with it the cap, is kept by every step. *)
LEMMA BalanceInvariant == QuotaInv /\ [QuotaNext]_quotaVars => Balance' /\ HardCapExcused'
<1> SUFFICES ASSUME QuotaInv, [QuotaNext]_quotaVars, NEW d \in Windows
             PROVE  /\ (sent[d] + Cardinality(Open(d))
                            <= count[d] + strays[d] + forgotten[d])'
                    /\ (sent[d] + Cardinality(Granted(d))
                            <= HardCap + strays[d] + forgotten[d])'
    BY DEF Balance, HardCapExcused, Windows
<1> DEFINE O == Cardinality(Open(d))
           G == Cardinality(Granted(d))
           Goal == /\ sent'[d] + O' <= count'[d] + strays'[d] + forgotten'[d]
                   /\ sent'[d] + G' <= HardCap + strays'[d] + forgotten'[d]
<1>0. QuotaTypeOK
  BY DEF QuotaInv
<1>1. /\ sent[d] + O <= count[d] + strays[d] + forgotten[d]
      /\ sent[d] + G <= HardCap + strays[d] + forgotten[d]
  BY DEF QuotaInv, Balance, HardCapExcused
<1>2. /\ sent[d] \in Nat /\ leaked[d] \in Nat
      /\ strays[d] \in Nat /\ forgotten[d] \in Nat
      /\ count[d] \in Int
      /\ Backend = "memory" => count[d] \in Nat
      /\ O \in Nat /\ G \in Nat /\ O' \in Nat /\ G' \in Nat
      /\ G <= O /\ HardCap \in Nat
  BY <1>0, BooksType, CapsType
<1>3. ASSUME NEW c \in Clients, ReserveAllowed(c) \/ ReserveOver(c)
      PROVE  Goal
  <2>1. /\ d = window => count'[d] = count[d] + 1 /\ O' = O + 1
        /\ d # window => count'[d] = count[d] /\ O' = O /\ G' = G
        /\ \/ G' = G
           \/ G' = G + 1 /\ count'[d] <= HardCap /\ d = window
        /\ UNCHANGED <<sent, strays, forgotten>>
    <3>1. UNCHANGED ledger
      BY <1>0, <1>1, <1>3, BooksAfterReserve
    <3>2. CASE d = window
      BY <1>0, <1>1, <1>2, <1>3, <3>1, <3>2, BooksAfterReserve DEF ledger
    <3>3. CASE d # window
      BY <1>0, <1>1, <1>2, <1>3, <3>1, <3>3, BooksAfterReserve DEF ledger
    <3> QED
      BY <3>2, <3>3
  <2> HIDE DEF O, G
  <2> QED
    BY <1>1, <1>2, <2>1
<1>4. ASSUME NEW c \in Clients, UndoOver(c) \/ Refund(c)
      PROVE  Goal
  <2>1. /\ UNCHANGED <<sent, forgotten>>
        /\ G' <= G
        /\ \/ O = O' + 1 /\ count'[d] = Decremented(count[d]) /\ strays'[d] = strays[d]
           \/ O = O' + 1 /\ count'[d] = count[d] /\ strays'[d] = strays[d]
           \/ O = O' /\ count'[d] = count[d] /\ strays'[d] = strays[d]
           \/ O = O' /\ count'[d] = Decremented(count[d]) /\ strays'[d] = strays[d] + 1
    BY <1>0, <1>1, <1>4, ReleaseCases
  <2>2. Decremented(count[d]) >= count[d] - 1
    BY <1>2 DEF Decremented
  <2>3. Decremented(count[d]) \in Int
    BY <1>2 DEF Decremented
  <2> HIDE DEF O, G
  <2>4. sent'[d] = sent[d] /\ forgotten'[d] = forgotten[d]
    BY <2>1
  <2>5. sent'[d] + G' <= HardCap + strays'[d] + forgotten'[d]
    <3>1. G' <= G /\ (strays'[d] = strays[d] \/ strays'[d] = strays[d] + 1)
      BY <2>1
    <3> QED
      BY <1>1, <1>2, <2>4, <3>1
  <2>6. CASE O = O' + 1 /\ count'[d] = Decremented(count[d]) /\ strays'[d] = strays[d]
    BY <1>1, <1>2, <2>2, <2>3, <2>4, <2>5, <2>6
  <2>7. CASE O = O' + 1 /\ count'[d] = count[d] /\ strays'[d] = strays[d]
    BY <1>1, <1>2, <2>4, <2>5, <2>7
  <2>8. CASE O = O' /\ count'[d] = count[d] /\ strays'[d] = strays[d]
    BY <1>1, <1>2, <2>4, <2>5, <2>8
  <2>9. CASE O = O' /\ count'[d] = Decremented(count[d]) /\ strays'[d] = strays[d] + 1
    BY <1>1, <1>2, <2>2, <2>3, <2>4, <2>5, <2>9
  <2> QED
    BY <2>1, <2>6, <2>7, <2>8, <2>9
<1>5. ASSUME NEW c \in Clients, Depart(c) \/ Return(c)
      PROVE  Goal
  <2>1. /\ UNCHANGED <<count, strays, forgotten>>
        /\ \/ sent'[d] = sent[d] + 1 /\ O = O' + 1 /\ G = G' + 1
           \/ sent'[d] = sent[d] /\ O = O' /\ G = G'
    BY <1>0, <1>1, <1>2, <1>5, BooksAfterCall
  <2> HIDE DEF O, G
  <2>2. count'[d] = count[d] /\ strays'[d] = strays[d] /\ forgotten'[d] = forgotten[d]
    BY <2>1
  <2>3. CASE sent'[d] = sent[d] + 1 /\ O = O' + 1 /\ G = G' + 1
    BY <1>1, <1>2, <2>2, <2>3
  <2>4. CASE sent'[d] = sent[d] /\ O = O' /\ G = G'
    BY <1>1, <1>2, <2>2, <2>4
  <2> QED
    BY <2>1, <2>3, <2>4
<1>6. ASSUME NEW w \in Workers, WorkerCrash(w)
      PROVE  Goal
  <2>1. /\ O' <= O /\ G' <= G
        /\ sent'[d] = sent[d] /\ strays'[d] = strays[d]
        /\ \/ count'[d] = 0 /\ forgotten'[d] = forgotten[d] + count[d]
              /\ count[d] \in Nat
           \/ count'[d] = count[d] /\ forgotten'[d] = forgotten[d]
    BY <1>0, <1>1, <1>2, <1>6, BooksAfterCrash, BackendType
  <2> HIDE DEF O, G
  <2> QED
    BY <1>1, <1>2, <2>1
<1>7. CASE Midnight \/ UNCHANGED quotaVars
  BY <1>1, <1>7, BooksKept DEF ledger
<1>8. ASSUME NEW c \in Clients,
             ReserveRejected(c) \/ UndoRejected(c) \/ RefundRejected(c)
      PROVE  Goal
  <2>1. /\ sent'[d] = sent[d] /\ forgotten'[d] = forgotten[d] /\ G' <= G
        /\ \/ O = O' /\ count'[d] = count[d] /\ strays'[d] = strays[d]
           \/ O = O' /\ count'[d] = count[d] + 1 /\ strays'[d] = strays[d]
           \/ /\ O = O' + 1 /\ strays'[d] = strays[d]
              /\ count'[d] = count[d] \/ count'[d] = count[d] - 1
           \/ O = O' /\ count'[d] = count[d] - 1 /\ strays'[d] = strays[d] + 1
    BY <1>0, <1>8, RejectionCases
  <2> HIDE DEF O, G
  <2> QED
    BY <1>1, <1>2, <2>1
<1> QED
  BY <1>3, <1>4, <1>5, <1>6, <1>7, <1>8 DEF QuotaNext

(* The books are empty at the start. *)
LEMMA QuotaInitInvariant == QuotaInit => QuotaInv /\ MeterConserved
<1> SUFFICES ASSUME QuotaInit PROVE QuotaInv /\ MeterConserved
    OBVIOUS
<1>1. QuotaTypeOK
  BY QuotaBounds DEF QuotaInit, QuotaTypeOK, Windows
<1>2. \A d \in Windows : Open(d) = {} /\ Granted(d) = {}
  BY DEF QuotaInit, Open, Granted
<1>3. \A d \in Windows : Cardinality(Open(d)) = 0 /\ Cardinality(Granted(d)) = 0
  BY <1>2, FS_EmptySet
<1>4. \A d \in Windows : /\ sent[d] = 0 /\ count[d] = 0 /\ leaked[d] = 0
                         /\ strays[d] = 0 /\ forgotten[d] = 0 /\ refused[d] = 0
  BY DEF QuotaInit
<1>5. Balance /\ HardCapExcused /\ MeterConserved
  BY <1>3, <1>4, CapsType DEF Balance, HardCapExcused, MeterConserved
<1> QED
  BY <1>1, <1>5 DEF QuotaInv

(* The balance is an invariant of the budget. *)
THEOREM QuotaInvariance == QuotaSpec => []QuotaInv
<1>1. QuotaInv /\ [QuotaNext]_quotaVars => QuotaInv'
  BY QuotaTypeInvariant, BalanceInvariant DEF QuotaInv
<1> QED
  BY QuotaInitInvariant, <1>1, PTL DEF QuotaSpec

(* The types, and a memory counter that never goes below zero. *)
THEOREM QuotaTypeCorrect == QuotaSpec => []QuotaTypeOK
<1>1. QuotaInv => QuotaTypeOK
  BY DEF QuotaInv
<1> QED
  BY <1>1, QuotaInvariance, PTL

(* The hard cap binds the calls sent on a day, for any number of           *)
(* concurrent clients and workers, up to stray refunds and wiped counts.   *)
THEOREM CapHolds == QuotaSpec => []HardCapExcused
<1>1. QuotaInv => HardCapExcused
  BY DEF QuotaInv
<1> QED
  BY <1>1, QuotaInvariance, PTL

(* The conservation law of the counter is kept by every step. *)
LEMMA MeterInvariant ==
    QuotaTypeOK /\ MeterConserved /\ [QuotaNext]_quotaVars => MeterConserved'
<1> SUFFICES ASSUME QuotaTypeOK, MeterConserved, [QuotaNext]_quotaVars,
                    NEW d \in Windows, strays'[d] = 0, forgotten'[d] = 0
             PROVE  LET O == Cardinality(Open(d))
                    IN /\ sent'[d] + O' + leaked'[d] <= count'[d]
                       /\ count'[d] <= sent'[d] + O' + leaked'[d] + refused'[d]
    BY DEF MeterConserved, Windows
<1> DEFINE O == Cardinality(Open(d))
           Within(n, b, f) == b <= n /\ n <= b + f
           Before == Within(count[d], sent[d] + O + leaked[d], refused[d])
           Goal == Within(count'[d], sent'[d] + O' + leaked'[d], refused'[d])
<1>1. strays[d] = 0 /\ forgotten[d] = 0 => Before
  BY DEF MeterConserved
<1>2. /\ sent[d] \in Nat /\ leaked[d] \in Nat
      /\ strays[d] \in Nat /\ forgotten[d] \in Nat /\ refused[d] \in Nat
      /\ count[d] \in Int
      /\ Backend = "memory" => count[d] \in Nat
      /\ O \in Nat /\ O' \in Nat
  BY BooksType
<1>9. /\ sent'[d] \in Nat /\ leaked'[d] \in Nat /\ refused'[d] \in Nat
      /\ count'[d] \in Int
  BY QuotaTypeInvariant DEF QuotaTypeOK
<1>3. ASSUME NEW c \in Clients, ReserveAllowed(c) \/ ReserveOver(c)
      PROVE  Goal
  <2>1. /\ \/ count'[d] = count[d] + 1 /\ O' = O + 1
           \/ count'[d] = count[d] /\ O' = O
        /\ UNCHANGED <<sent, leaked, strays, forgotten, refused>>
    BY <1>2, <1>3, BooksAfterReserve DEF ledger
  <2> HIDE DEF O
  <2> QED
    BY <1>1, <1>2, <2>1
<1>4. ASSUME NEW c \in Clients, UndoOver(c) \/ Refund(c)
      PROVE  Goal
  <2>1. /\ sent'[d] = sent[d] /\ forgotten'[d] = forgotten[d] /\ refused'[d] = refused[d]
        /\ \/ /\ O = O' + 1 /\ count'[d] = Decremented(count[d])
              /\ strays'[d] = strays[d] /\ leaked'[d] = leaked[d]
           \/ /\ O = O' + 1 /\ count'[d] = count[d]
              /\ strays'[d] = strays[d] /\ leaked'[d] = leaked[d] + 1
           \/ /\ O = O' /\ count'[d] = count[d]
              /\ strays'[d] = strays[d] /\ leaked'[d] = leaked[d]
           \/ strays'[d] = strays[d] + 1
    BY <1>4, ReleaseCases
  <2>2. count[d] > 0 => Decremented(count[d]) = count[d] - 1
    BY <1>2 DEF Decremented
  <2>3. strays'[d] # strays[d] + 1
    BY <1>2
  <2>4. strays[d] = 0 /\ forgotten[d] = 0
    BY <2>1, <2>3
  <2> HIDE DEF O
  <2>5. Before
    BY <1>1, <2>4
  <2>6. O = O' + 1 => count[d] > 0
    BY <1>2, <2>5
  <2>7. \/ O = O' + 1 /\ count'[d] = count[d] - 1 /\ leaked'[d] = leaked[d]
        \/ O = O' + 1 /\ count'[d] = count[d] /\ leaked'[d] = leaked[d] + 1
        \/ O = O' /\ count'[d] = count[d] /\ leaked'[d] = leaked[d]
    BY <2>1, <2>2, <2>3, <2>6
  <2>8. CASE O = O' + 1 /\ count'[d] = count[d] - 1 /\ leaked'[d] = leaked[d]
    BY <1>2, <1>9, <2>1, <2>5, <2>8
  <2>9. CASE O = O' + 1 /\ count'[d] = count[d] /\ leaked'[d] = leaked[d] + 1
    BY <1>2, <1>9, <2>1, <2>5, <2>9
  <2>10. CASE O = O' /\ count'[d] = count[d] /\ leaked'[d] = leaked[d]
    BY <1>2, <1>9, <2>1, <2>5, <2>10
  <2> QED
    BY <2>7, <2>8, <2>9, <2>10
<1>5. ASSUME NEW c \in Clients, Depart(c) \/ Return(c)
      PROVE  Goal
  <2>1. /\ UNCHANGED <<count, leaked, strays, forgotten, refused>>
        /\ \/ sent'[d] = sent[d] + 1 /\ O = O' + 1
           \/ sent'[d] = sent[d] /\ O = O'
    BY <1>2, <1>5, BooksAfterCall
  <2> HIDE DEF O
  <2> QED
    BY <1>1, <1>2, <2>1
<1>6. ASSUME NEW w \in Workers, WorkerCrash(w)
      PROVE  Goal
  <2>1. /\ O' <= O /\ sent'[d] = sent[d] /\ strays'[d] = strays[d]
        /\ refused'[d] = refused[d]
        /\ \/ /\ Backend = "memory"
              /\ count'[d] = 0 /\ forgotten'[d] = forgotten[d] + count[d]
              /\ leaked'[d] = leaked[d] /\ count[d] \in Nat
           \/ /\ count'[d] = count[d] /\ forgotten'[d] = forgotten[d]
              /\ leaked'[d] + O' = leaked[d] + O
    BY <1>2, <1>6, BooksAfterCrash, BackendType
  <2> HIDE DEF O
  <2>2. CASE /\ count'[d] = 0 /\ forgotten'[d] = forgotten[d] + count[d]
             /\ leaked'[d] = leaked[d] /\ count[d] \in Nat
    <3>1. count[d] = 0 /\ forgotten[d] = 0 /\ strays[d] = 0
      BY <1>2, <2>1, <2>2
    <3>2. sent[d] = 0 /\ O = 0 /\ leaked[d] = 0
      BY <1>1, <1>2, <3>1
    <3>3. O' = 0
      BY <1>2, <2>1, <3>2
    <3> QED
      BY <1>2, <1>9, <2>1, <2>2, <3>1, <3>2, <3>3
  <2>3. CASE /\ count'[d] = count[d] /\ forgotten'[d] = forgotten[d]
             /\ leaked'[d] + O' = leaked[d] + O
    <3>1. Before
      BY <1>1, <2>1, <2>3
    <3> QED
      BY <1>2, <1>9, <2>1, <2>3, <3>1
  <2> QED
    BY <2>1, <2>2, <2>3
<1>7. CASE Midnight \/ UNCHANGED quotaVars
  BY <1>1, <1>7, BooksKept DEF ledger
<1>8. ASSUME NEW c \in Clients,
             ReserveRejected(c) \/ UndoRejected(c) \/ RefundRejected(c)
      PROVE  Goal
  <2>1. /\ sent'[d] = sent[d] /\ forgotten'[d] = forgotten[d]
        /\ \/ /\ O = O' /\ count'[d] = count[d] /\ strays'[d] = strays[d]
              /\ leaked'[d] = leaked[d] /\ refused'[d] >= refused[d]
           \/ /\ O = O' /\ count'[d] = count[d] + 1 /\ strays'[d] = strays[d]
              /\ leaked'[d] = leaked[d] /\ refused'[d] = refused[d] + 1
           \/ /\ O = O' + 1 /\ strays'[d] = strays[d]
              /\ count'[d] = count[d] \/ count'[d] = count[d] - 1
              /\ leaked'[d] = leaked[d] /\ refused'[d] = refused[d] + 1
           \/ /\ O = O' + 1 /\ count'[d] = count[d] /\ strays'[d] = strays[d]
              /\ leaked'[d] = leaked[d] + 1 /\ refused'[d] = refused[d]
           \/ strays'[d] = strays[d] + 1
    BY <1>8, RejectionCases
  <2>2. strays[d] = 0 /\ forgotten[d] = 0 /\ strays'[d] # strays[d] + 1
    BY <1>2, <2>1
  <2>3. Before
    BY <1>1, <2>2
  <2> HIDE DEF O
  <2>4. CASE /\ O = O' /\ count'[d] = count[d]
             /\ leaked'[d] = leaked[d] /\ refused'[d] >= refused[d]
    BY <1>2, <1>9, <2>1, <2>3, <2>4
  <2>5. CASE /\ O = O' /\ count'[d] = count[d] + 1
             /\ leaked'[d] = leaked[d] /\ refused'[d] = refused[d] + 1
    BY <1>2, <1>9, <2>1, <2>3, <2>5
  <2>6. CASE /\ O = O' + 1 /\ leaked'[d] = leaked[d] /\ refused'[d] = refused[d] + 1
             /\ count'[d] = count[d] \/ count'[d] = count[d] - 1
    BY <1>2, <1>9, <2>1, <2>3, <2>6
  <2>7. CASE /\ O = O' + 1 /\ count'[d] = count[d]
             /\ leaked'[d] = leaked[d] + 1 /\ refused'[d] = refused[d]
    BY <1>2, <1>9, <2>1, <2>3, <2>7
  <2> QED
    BY <2>1, <2>2, <2>4, <2>5, <2>6, <2>7
<1> QED
  BY <1>3, <1>4, <1>5, <1>6, <1>7, <1>8 DEF QuotaNext

(* The counter reflects the calls that left the workers, the increments    *)
(* still undecided and the reservations leaked, whatever is denied or      *)
(* refunded; a command Redis rejected is all that makes it run ahead.      *)
THEOREM MeterExact == QuotaSpec => []MeterConserved
<1>1. QuotaInit => MeterConserved
  BY QuotaInitInvariant
<1> QED
  BY <1>1, QuotaTypeCorrect, MeterInvariant, PTL DEF QuotaSpec

---------------------------------------------------------------------------
(* The fetch path. *)

(* Whoever is inside a flight owns the entry of its key. *)
FlightOwned ==
    \A c \in Clients : pc[c] \in InFlight => flight[Host[c]][key[c]] = c

(* Every caller that awaits a flight has one to wait for. *)
NoOrphanedWaiter ==
    \A c \in Clients : pc[c] = "waiting" => flight[Host[c]][key[c]] # None

FlightInv == PipelineTypeOK /\ FlightOwned /\ NoOrphanedWaiter

(* The fetch path moves the budget only by the budget's own steps. *)
LEMMA BudgetStep == [Next]_vars => [QuotaNext]_quotaVars
<1> SUFFICES ASSUME [Next]_vars PROVE [QuotaNext]_quotaVars
    OBVIOUS
<1>1. ASSUME NEW c \in Clients, NEW k \in Keys, Lookup(c, k)
      PROVE  [QuotaNext]_quotaVars
  BY <1>1 DEF Lookup
<1>2. ASSUME NEW c \in Clients, Proceed(c) PROVE [QuotaNext]_quotaVars
  <2>1. CASE DeliverHit(c) \/ Join(c) \/ Lead(c) \/ Recheck(c)
    BY <2>1 DEF DeliverHit, Join, Lead, Recheck
  <2>2. CASE Reserve(c) \/ Deny(c) \/ Skip(c) \/ Call(c)
    BY <2>2 DEF Reserve, Deny, Skip, Call, QuotaNext
  <2>3. CASE Fetched(c) \/ RateLimited(c) \/ Failed(c)
    BY <2>3 DEF Fetched, RateLimited, Failed, Answer, QuotaNext
  <2>4. CASE Store(c) \/ Notify(c) \/ Finish(c) \/ CacheRejects(c)
    BY <2>4 DEF Store, Notify, Finish, CacheRejects
  <2>5. CASE QuotaRejects(c)
    BY <2>5 DEF QuotaRejects, QuotaNext
  <2> QED
    BY <1>2, <2>1, <2>2, <2>3, <2>4, <2>5 DEF Proceed
<1>3. ASSUME NEW k \in Keys, Expire(k) PROVE [QuotaNext]_quotaVars
  BY <1>3 DEF Expire
<1>4. ASSUME NEW w \in Workers, Crash(w) PROVE [QuotaNext]_quotaVars
  BY <1>4 DEF Crash, QuotaNext
<1>5. CASE NextDay
  BY <1>5 DEF NextDay, QuotaNext
<1>6. CASE UNCHANGED vars
  BY <1>6 DEF vars
<1> QED
  BY <1>1, <1>2, <1>3, <1>4, <1>5, <1>6 DEF Next

(* The fetch path keeps the budget's specification, and with it the hard   *)
(* cap, whatever callers, crashes and rejected commands do.                *)
THEOREM PipelineKeepsBudget == Spec => QuotaSpec /\ []HardCapExcused
<1>1. Init => QuotaInit
  BY DEF Init
<1> QED
  BY <1>1, BudgetStep, CapHolds, PTL DEF Spec, QuotaSpec

(* Settling a flight empties one entry and wakes exactly its waiters. *)
LEMMA SettleKeepsFlights ==
  ASSUME FlightInv, NEW c \in Clients, pc[c] \in InFlight, Settle(c), key' = key
  PROVE  /\ FlightOwned' /\ NoOrphanedWaiter'
         /\ flight' \in [Workers -> [Keys -> Clients \union {None}]]
         /\ pc' \in [Clients -> {"idle", "hit", "missed", "waiting"} \union InFlight]
         /\ value' \in [Clients -> Nat]
<1> USE DEF FlightInv, PipelineTypeOK
<1>1. \A w \in Workers, k \in Keys :
         flight'[w][k] = IF w = Host[c] /\ k = key[c] THEN None ELSE flight[w][k]
  BY QuotaHosts DEF Settle
<1>2. \A e \in Clients :
         pc'[e] = IF \/ e = c
                     \/ pc[e] = "waiting" /\ Host[e] = Host[c] /\ key[e] = key[c]
                  THEN "idle" ELSE pc[e]
  BY DEF Settle
<1>3. ASSUME NEW e \in Clients, pc'[e] \in InFlight
      PROVE  flight'[Host[e]][key'[e]] = e
  <2>1. e # c /\ pc[e] \in InFlight
    BY <1>2, <1>3 DEF InFlight
  <2>2. flight[Host[e]][key[e]] = e /\ flight[Host[c]][key[c]] = c
    BY <2>1 DEF FlightOwned
  <2>3. ~(Host[e] = Host[c] /\ key[e] = key[c])
    BY <2>1, <2>2
  <2>4. Host[e] \in Workers /\ key[e] \in Keys
    BY QuotaHosts
  <2>5. flight'[Host[e]][key[e]] = flight[Host[e]][key[e]]
    BY <1>1, <2>3, <2>4
  <2> QED
    BY <2>2, <2>5
<1>4. ASSUME NEW e \in Clients, pc'[e] = "waiting"
      PROVE  flight'[Host[e]][key'[e]] # None
  <2>1. pc[e] = "waiting" /\ ~(Host[e] = Host[c] /\ key[e] = key[c])
    BY <1>2, <1>4
  <2>2. flight[Host[e]][key[e]] # None
    BY <2>1 DEF NoOrphanedWaiter
  <2> QED
    BY <1>1, <2>1, <2>2, QuotaHosts
<1>5. flight' \in [Workers -> [Keys -> Clients \union {None}]]
  BY QuotaHosts DEF Settle
<1>6. /\ pc' \in [Clients -> {"idle", "hit", "missed", "waiting"} \union InFlight]
      /\ value' \in [Clients -> Nat]
  BY DEF Settle
<1> QED
  BY <1>3, <1>4, <1>5, <1>6 DEF FlightOwned, NoOrphanedWaiter

(* A step of one caller that keeps the flights and its own place in or out *)
(* of them.                                                                *)
LEMMA MoveKeepsFlights ==
  ASSUME FlightInv, NEW c \in Clients, NEW next \in InFlight,
         pc[c] \in InFlight, Goto(c, next), flight' = flight, key' = key
  PROVE  FlightOwned' /\ NoOrphanedWaiter'
BY DEF FlightInv, PipelineTypeOK, FlightOwned, NoOrphanedWaiter, Goto, InFlight

(* Every step keeps the types and the ownership of flights. *)
LEMMA FlightInvariant == FlightInv /\ [Next]_vars => FlightInv'
<1> SUFFICES ASSUME FlightInv, [Next]_vars PROVE FlightInv'
    OBVIOUS
<1> USE PipelineBounds, NoneIsNoClient, QuotaHosts
<1>t. PipelineTypeOK /\ FlightOwned /\ NoOrphanedWaiter
  BY DEF FlightInv
<1>1. ASSUME NEW c \in Clients, NEW k \in Keys, Lookup(c, k) PROVE FlightInv'
  <2>1. PipelineTypeOK'
    BY <1>1, <1>t DEF Lookup, Goto, books, PipelineTypeOK
  <2>2. FlightOwned' /\ NoOrphanedWaiter'
    BY <1>1, <1>t DEF Lookup, Goto, PipelineTypeOK, FlightOwned,
                      NoOrphanedWaiter, InFlight
  <2> QED
    BY <2>1, <2>2 DEF FlightInv
<1>2. ASSUME NEW c \in Clients, DeliverHit(c) \/ Join(c) PROVE FlightInv'
  <2>1. PipelineTypeOK'
    <3>1. CASE DeliverHit(c)
      BY <3>1, <1>t DEF DeliverHit, Goto, books, PipelineTypeOK
    <3>2. CASE Join(c)
      BY <3>2, <1>t DEF Join, Goto, books, PipelineTypeOK
    <3> QED
      BY <1>2, <3>1, <3>2
  <2>2. FlightOwned' /\ NoOrphanedWaiter'
    BY <1>2, <1>t DEF DeliverHit, Join, Goto, PipelineTypeOK, FlightOwned,
                      NoOrphanedWaiter, InFlight
  <2> QED
    BY <2>1, <2>2 DEF FlightInv
<1>3. ASSUME NEW c \in Clients, Lead(c) PROVE FlightInv'
  <2>1. PipelineTypeOK'
    BY <1>3, <1>t DEF Lead, Goto, books, PipelineTypeOK, InFlight
  <2>2. \A w \in Workers, k \in Keys :
           flight'[w][k] = IF w = Host[c] /\ k = key[c] THEN c ELSE flight[w][k]
    BY <1>3, <1>t DEF Lead, PipelineTypeOK
  <2>3. \A e \in Clients : pc'[e] = IF e = c THEN "recheck" ELSE pc[e]
    BY <1>3, <1>t DEF Lead, Goto, PipelineTypeOK
  <2>4. key' = key /\ flight[Host[c]][key[c]] = None
    BY <1>3 DEF Lead
  <2>p. /\ \A e \in Clients : key[e] \in Keys /\ Host[e] \in Workers
        /\ c # None
    BY <1>t DEF PipelineTypeOK
  <2>5. FlightOwned'
    BY <1>t, <2>p, <2>2, <2>3, <2>4 DEF FlightOwned
  <2>6. NoOrphanedWaiter'
    BY <1>t, <2>p, <2>2, <2>3, <2>4 DEF NoOrphanedWaiter
  <2> QED
    BY <2>1, <2>5, <2>6 DEF FlightInv
<1>4. ASSUME NEW c \in Clients,
             Recheck(c) \/ Reserve(c) \/ Call(c) \/ Fetched(c) \/ Store(c) \/ Notify(c)
      PROVE  FlightInv'
  <2>1. flight' = flight /\ key' = key
    BY <1>4 DEF Recheck, Reserve, Call, Fetched, Answer, Store, Notify
  <2>2. pc[c] \in InFlight /\ \E next \in InFlight : Goto(c, next)
    BY <1>4 DEF Recheck, Reserve, Call, Fetched, Answer, Store, Notify, InFlight
  <2>3. FlightOwned' /\ NoOrphanedWaiter'
    BY <2>1, <2>2, MoveKeepsFlights
  <2>4. pc' \in [Clients -> {"idle", "hit", "missed", "waiting"} \union InFlight]
    BY <1>t, <2>2 DEF Goto, PipelineTypeOK
  <2>5. PipelineTypeOK'
    <3>1. CASE Recheck(c) \/ Reserve(c) \/ Store(c)
      BY <1>t, <2>1, <2>4, <3>1
         DEF Recheck, Reserve, Store, books, PipelineTypeOK
    <3>2. CASE Call(c) \/ Notify(c)
      <4>1. value[c] \in Nat /\ Host[c] \in Workers /\ key[c] \in Keys
        BY <1>t DEF PipelineTypeOK
      <4>2. /\ calls' \in [Workers -> [Keys -> Nat]]
            /\ led' \in [Workers -> [Keys -> Nat]]
        <5>1. CASE Call(c)
          BY <1>t, <5>1, <4>1 DEF Call, PipelineTypeOK
        <5>2. CASE Notify(c)
          BY <1>t, <5>2, <4>1 DEF Notify, PipelineTypeOK
        <5> QED
          BY <3>2, <5>1, <5>2
      <4> QED
        BY <1>t, <2>1, <2>4, <3>2, <4>2 DEF Call, Notify, PipelineTypeOK
    <3>3. CASE Fetched(c)
      <4>1. Answer(c)
        BY <3>3 DEF Fetched
      <4>2. /\ answers' \in [Keys -> 0..MaxAnswers]
            /\ answers'[key[c]] \in Nat
        BY <1>t, <4>1 DEF Answer, PipelineTypeOK
      <4>3. value' \in [Clients -> Nat]
        BY <1>t, <3>3, <4>2 DEF Fetched, PipelineTypeOK
      <4> QED
        BY <1>t, <2>1, <2>4, <3>3, <4>1, <4>2, <4>3
           DEF Fetched, Answer, PipelineTypeOK
    <3> QED
      BY <1>4, <3>1, <3>2, <3>3
  <2> QED
    BY <2>3, <2>5 DEF FlightInv
<1>5. ASSUME NEW c \in Clients,
             Deny(c) \/ Skip(c) \/ RateLimited(c) \/ Failed(c) \/ Finish(c)
                 \/ CacheRejects(c) \/ QuotaRejects(c)
      PROVE  FlightInv'
  <2>1. pc[c] \in InFlight /\ Settle(c) /\ key' = key
    BY <1>5 DEF Deny, Skip, RateLimited, Failed, Finish, CacheRejects, QuotaRejects,
                Answer, InFlight
  <2>2. /\ FlightOwned' /\ NoOrphanedWaiter'
        /\ flight' \in [Workers -> [Keys -> Clients \union {None}]]
        /\ pc' \in [Clients -> {"idle", "hit", "missed", "waiting"} \union InFlight]
        /\ value' \in [Clients -> Nat]
    BY <2>1, SettleKeepsFlights
  <2>3. PipelineTypeOK'
    <3>1. CASE Deny(c) \/ Skip(c) \/ Finish(c)
      BY <1>t, <2>1, <2>2, <3>1 DEF Deny, Skip, Finish, books, PipelineTypeOK
    <3>2. CASE RateLimited(c)
      <4>1. answers' \in [Keys -> 0..MaxAnswers]
        BY <1>t, <3>2 DEF RateLimited, Answer, PipelineTypeOK
      <4>2. wasted' \in [Workers -> [Keys -> Nat]]
        BY <1>t, <3>2 DEF RateLimited, PipelineTypeOK
      <4> QED
        BY <1>t, <2>1, <2>2, <3>2, <4>1, <4>2
           DEF RateLimited, Answer, PipelineTypeOK
    <3>3. CASE Failed(c)
      BY <1>t, <2>1, <2>2, <3>3 DEF Failed, PipelineTypeOK
    <3>4. CASE CacheRejects(c)
      <4>1. wasted' \in [Workers -> [Keys -> Nat]]
        <5>1. CASE wasted' = wasted
          BY <1>t, <5>1 DEF PipelineTypeOK
        <5>2. CASE wasted' = [wasted EXCEPT ![Host[c]][key[c]] = @ + 1]
          BY <1>t, <5>2 DEF PipelineTypeOK
        <5> QED
          BY <3>4, <5>1, <5>2 DEF CacheRejects
      <4>2. rejects' \in 0..MaxRejects
        BY <1>t, <3>4 DEF CacheRejects, PipelineTypeOK
      <4> QED
        BY <1>t, <2>1, <2>2, <3>4, <4>1, <4>2 DEF CacheRejects, PipelineTypeOK
    <3>5. CASE QuotaRejects(c)
      <4>1. rejects' \in 0..MaxRejects
        BY <1>t, <3>5 DEF QuotaRejects, PipelineTypeOK
      <4> QED
        BY <1>t, <2>1, <2>2, <3>5, <4>1 DEF QuotaRejects, books, PipelineTypeOK
    <3> QED
      BY <1>5, <3>1, <3>2, <3>3, <3>4, <3>5
  <2> QED
    BY <2>2, <2>3 DEF FlightInv
<1>6. ASSUME NEW k \in Keys, Expire(k) PROVE FlightInv'
  <2>1. PipelineTypeOK'
    BY <1>6, <1>t DEF Expire, PipelineTypeOK
  <2> QED
    BY <1>6, <1>t, <2>1 DEF Expire, FlightInv, FlightOwned, NoOrphanedWaiter
<1>7. ASSUME NEW w \in Workers, Crash(w) PROVE FlightInv'
  <2>1. PipelineTypeOK'
    BY <1>7, <1>t DEF Crash, books, PipelineTypeOK
  <2>2. \A e \in Clients : pc'[e] = IF Host[e] = w THEN "idle" ELSE pc[e]
    BY <1>7 DEF Crash
  <2>3. \A v \in Workers : v # w => flight'[v] = flight[v]
    BY <1>7, <1>t DEF Crash, PipelineTypeOK
  <2>4. key' = key
    BY <1>7 DEF Crash
  <2>5. FlightOwned'
    BY <1>t, <2>2, <2>3, <2>4 DEF FlightOwned, InFlight
  <2>6. NoOrphanedWaiter'
    BY <1>t, <2>2, <2>3, <2>4 DEF NoOrphanedWaiter
  <2> QED
    BY <2>1, <2>5, <2>6 DEF FlightInv
<1>8. CASE NextDay \/ UNCHANGED vars
  <2>1. UNCHANGED pipeVars
    BY <1>8 DEF NextDay, vars
  <2> QED
    BY <1>t, <2>1 DEF pipeVars, FlightInv, PipelineTypeOK, FlightOwned,
                      NoOrphanedWaiter
<1> QED
  BY <1>1, <1>2, <1>3, <1>4, <1>5, <1>6, <1>7, <1>8 DEF Next, Proceed

(* No flight is under way at the start. *)
LEMMA FlightInit == Init => FlightInv
<1> SUFFICES ASSUME Init PROVE FlightInv
    OBVIOUS
<1>1. PipelineTypeOK
  BY PipelineBounds DEF Init, PipelineTypeOK
<1> QED
  BY <1>1 DEF Init, FlightInv, FlightOwned, NoOrphanedWaiter, InFlight

(* Flight ownership is an invariant of the fetch path. *)
THEOREM FlightInvariance == Spec => []FlightInv
  BY FlightInit, FlightInvariant, PTL DEF Spec

(* Every variable of the fetch path keeps its type. *)
THEOREM PipelineTypeCorrect == Spec => []PipelineTypeOK
<1>1. FlightInv => PipelineTypeOK
  BY DEF FlightInv
<1> QED
  BY <1>1, FlightInvariance, PTL

(* A worker never has two calls for one key under way. *)
THEOREM SingleCall == Spec => []OneCallPerKey
<1>1. FlightInv => OneCallPerKey
  BY DEF FlightInv, FlightOwned, OneCallPerKey, InFlight
<1> QED
  BY <1>1, FlightInvariance, PTL

(* No caller awaits a flight that is not there. *)
THEOREM WaitersHaveFlights == Spec => []NoOrphanedWaiter
<1>1. FlightInv => NoOrphanedWaiter
  BY DEF FlightInv
<1> QED
  BY <1>1, FlightInvariance, PTL

(***************************************************************************)
(* The calls of worker w for key k that nothing excuses.                   *)
(***************************************************************************)
Surplus(w, k) == calls[w][k] - (expired[k] + wasted[w][k] + crashes)

(* Caller c is in a flight of worker w for key k, at one of the places.    *)
At(c, w, k, places) == Host[c] = w /\ key[c] = k /\ pc[c] \in places

(* A surplus call is one whose payload is cached or on its way there, and  *)
(* a flight that saw an empty cache is about to call without a surplus.    *)
CallsInv ==
    /\ \A c \in Clients : pc[c] = "store" => value[c] # 0
    /\ \A w \in Workers, k \in Keys :
          /\ Surplus(w, k) <= 1
          /\ Surplus(w, k) = 1 =>
                \/ cache[k] # 0
                \/ \E c \in Clients : At(c, w, k, {"calling", "store"})
          /\ \A c \in Clients :
                At(c, w, k, {"reserve", "over", "call"}) => Surplus(w, k) <= 0

(* The books hold numbers. *)
LEMMA SurplusType ==
  ASSUME PipelineTypeOK, QuotaTypeOK, NEW w \in Workers, NEW k \in Keys
  PROVE  Surplus(w, k) \in Int
BY DEF PipelineTypeOK, QuotaTypeOK, Surplus

(* A step that leaves the books alone, keeps what the cache holds, moves   *)
(* only caller c and takes it from no place to another of its kind.        *)
LEMMA QuietStep ==
  ASSUME PipelineTypeOK, QuotaTypeOK, CallsInv, NEW c \in Clients,
         UNCHANGED <<calls, wasted, expired, crashes, cache>>,
         \A e \in Clients : e # c /\ pc'[e] \in {"reserve", "over", "call", "calling", "store"}
                                  => pc'[e] = pc[e],
         \A e \in Clients : e # c /\ pc[e] \in {"calling", "store"} => pc'[e] = pc[e],
         \A e \in Clients : pc'[e] \in InFlight => key'[e] = key[e],
         \A e \in Clients : e # c => value'[e] = value[e],
         pc[c] \notin {"calling", "store"},
         pc'[c] \notin {"calling", "store"},
         pc'[c] \in {"reserve", "over", "call"} =>
             pc[c] \in {"reserve", "over", "call"} \/ Surplus(Host[c], key[c]) <= 0
  PROVE  CallsInv'
<1>1. \A w \in Workers, k \in Keys : Surplus(w, k)' = Surplus(w, k)
  BY DEF Surplus
<1>2. \A e \in Clients : pc'[e] = "store" => value'[e] # 0
  BY DEF CallsInv
<1>3. ASSUME NEW w \in Workers, NEW k \in Keys
      PROVE  /\ Surplus(w, k)' <= 1
             /\ Surplus(w, k)' = 1 =>
                   \/ cache'[k] # 0
                   \/ \E e \in Clients : At(e, w, k, {"calling", "store"})'
             /\ \A e \in Clients :
                   At(e, w, k, {"reserve", "over", "call"})' => Surplus(w, k)' <= 0
  <2>1. Surplus(w, k)' <= 1
    BY <1>1 DEF CallsInv
  <2>2. ASSUME Surplus(w, k)' = 1, cache'[k] = 0
        PROVE  \E e \in Clients : At(e, w, k, {"calling", "store"})'
    <3>1. PICK e \in Clients : At(e, w, k, {"calling", "store"})
      BY <1>1, <2>2 DEF CallsInv
    <3>2. e # c /\ pc'[e] = pc[e] /\ key'[e] = key[e]
      BY <3>1 DEF At, InFlight
    <3> QED
      BY <3>1, <3>2 DEF At
  <2>3. ASSUME NEW e \in Clients, At(e, w, k, {"reserve", "over", "call"})'
        PROVE  Surplus(w, k)' <= 0
    <3>1. key'[e] = key[e] /\ Host[e] = w /\ key[e] = k
      BY <2>3 DEF At, InFlight
    <3>2. pc'[e] \in {"reserve", "over", "call"}
      BY <2>3 DEF At
    <3>3. At(e, w, k, {"reserve", "over", "call"}) => Surplus(w, k) <= 0
      BY DEF CallsInv
    <3>4. pc[e] \in {"reserve", "over", "call"} => Surplus(w, k) <= 0
      BY <3>1, <3>3 DEF At
    <3>5. pc[e] \notin {"reserve", "over", "call"} => Surplus(w, k) <= 0
      BY <3>1, <3>2
    <3> QED
      BY <1>1, <3>4, <3>5
  <2> QED
    BY <2>1, <2>2, <2>3
<1> QED
  BY <1>2, <1>3 DEF CallsInv

(* Two callers inside flights of one worker and key are one caller. *)
LEMMA FlightAlone ==
  ASSUME FlightOwned, NEW c \in Clients, NEW e \in Clients,
         pc[c] \in InFlight, pc[e] \in InFlight,
         Host[c] = Host[e], key[c] = key[e]
  PROVE  c = e
BY DEF FlightOwned

(* A step of the flight of c that touches the books of its own worker and  *)
(* key only.                                                               *)
LEMMA FocusStep ==
  ASSUME PipelineTypeOK, QuotaTypeOK, FlightOwned, CallsInv, NEW c \in Clients,
         UNCHANGED <<cache, key, expired, crashes>>,
         pc[c] \in InFlight,
         \A v \in Workers, j \in Keys :
             v # Host[c] \/ j # key[c] =>
                 calls'[v][j] = calls[v][j] /\ wasted'[v][j] = wasted[v][j],
         \A e \in Clients : e # c =>
             /\ pc'[e] = pc[e] \/ (pc[e] = "waiting" /\ pc'[e] = "idle")
             /\ value'[e] = value[e],
         pc'[c] = "store" => value'[c] # 0,
         pc'[c] \notin {"reserve", "over", "call"},
         Surplus(Host[c], key[c])' <= 1,
         Surplus(Host[c], key[c])' = 1 => pc'[c] \in {"calling", "store"}
  PROVE  CallsInv'
<1>1. \A e \in Clients : pc'[e] = "store" => value'[e] # 0
  BY DEF CallsInv
<1>2. ASSUME NEW w \in Workers, NEW k \in Keys
      PROVE  /\ Surplus(w, k)' <= 1
             /\ Surplus(w, k)' = 1 =>
                   \/ cache'[k] # 0
                   \/ \E e \in Clients : At(e, w, k, {"calling", "store"})'
             /\ \A e \in Clients :
                   At(e, w, k, {"reserve", "over", "call"})' => Surplus(w, k)' <= 0
  <2>1. CASE w = Host[c] /\ k = key[c]
    <3>1. \A e \in Clients : ~At(e, w, k, {"reserve", "over", "call"})'
      BY <2>1, FlightAlone DEF At, InFlight
    <3>2. Surplus(w, k)' = 1 => At(c, w, k, {"calling", "store"})'
      BY <2>1 DEF At
    <3> QED
      BY <2>1, <3>1, <3>2
  <2>2. CASE w # Host[c] \/ k # key[c]
    <3>1. Surplus(w, k)' = Surplus(w, k)
      BY <2>2 DEF Surplus
    <3>2. \A e \in Clients :
             /\ At(e, w, k, {"calling", "store"}) => At(e, w, k, {"calling", "store"})'
             /\ At(e, w, k, {"reserve", "over", "call"})' =>
                    At(e, w, k, {"reserve", "over", "call"})
      BY <2>2 DEF At
    <3> QED
      BY <3>1, <3>2 DEF CallsInv
  <2> QED
    BY <2>1, <2>2
<1> QED
  BY <1>1, <1>2 DEF CallsInv

(* A step that takes one off every surplus it may leave without cover. *)
LEMMA ExcusedStep ==
  ASSUME PipelineTypeOK, QuotaTypeOK, CallsInv, NEW K \in SUBSET Keys,
         \A w \in Workers, k \in K : Surplus(w, k)' = Surplus(w, k) - 1,
         \A w \in Workers, k \in Keys \ K :
             Surplus(w, k)' = Surplus(w, k) /\ cache'[k] = cache[k],
         key' = key,
         \A e \in Clients : pc'[e] = "idle" \/ (pc'[e] = pc[e] /\ value'[e] = value[e]),
         K = Keys \/ pc' = pc
  PROVE  CallsInv'
<1>1. \A e \in Clients : pc'[e] = "store" => value'[e] # 0
  BY DEF CallsInv
<1>2. ASSUME NEW w \in Workers, NEW k \in Keys
      PROVE  /\ Surplus(w, k)' <= 1
             /\ Surplus(w, k)' = 1 =>
                   \/ cache'[k] # 0
                   \/ \E e \in Clients : At(e, w, k, {"calling", "store"})'
             /\ \A e \in Clients :
                   At(e, w, k, {"reserve", "over", "call"})' => Surplus(w, k)' <= 0
  <2>0. Surplus(w, k) \in Int /\ Surplus(w, k) <= 1
    BY SurplusType DEF CallsInv
  <2>1. CASE k \in K
    <3>1. Surplus(w, k)' <= 0 /\ Surplus(w, k)' \in Int
      BY <2>0, <2>1
    <3> QED
      BY <3>1
  <2>2. CASE k \notin K
    <3>1. \A e \in Clients :
             /\ At(e, w, k, {"calling", "store"}) <=> At(e, w, k, {"calling", "store"})'
             /\ At(e, w, k, {"reserve", "over", "call"})' <=>
                    At(e, w, k, {"reserve", "over", "call"})
      BY <2>2 DEF At
    <3> QED
      BY <2>2, <3>1 DEF CallsInv
  <2> QED
    BY <2>1, <2>2
<1> QED
  BY <1>1, <1>2 DEF CallsInv

(* Everything the argument about calls rests on. *)
PipelineInv == FlightInv /\ QuotaInv /\ CallsInv

(* Every step keeps the account of calls. *)
LEMMA CallsInvariant == PipelineInv /\ [Next]_vars => CallsInv'
<1> SUFFICES ASSUME PipelineInv, [Next]_vars PROVE CallsInv'
    OBVIOUS
<1>t. PipelineTypeOK /\ QuotaTypeOK /\ FlightOwned /\ CallsInv
  BY DEF PipelineInv, FlightInv, QuotaInv
<1>s. ASSUME NEW c \in Clients
      PROVE  /\ Host[c] \in Workers /\ key[c] \in Keys
             /\ Surplus(Host[c], key[c]) \in Int /\ Surplus(Host[c], key[c]) <= 1
  BY <1>t, SurplusType, QuotaHosts DEF PipelineTypeOK, CallsInv
<1>n. \A w \in Workers, k \in Keys :
         calls[w][k] \in Nat /\ expired[k] \in Nat /\ wasted[w][k] \in Nat
  BY <1>t DEF PipelineTypeOK
<1>r. crashes \in Nat
  BY <1>t DEF QuotaTypeOK
<1>1. ASSUME NEW c \in Clients, NEW k \in Keys, Lookup(c, k) PROVE CallsInv'
  <2>1. UNCHANGED <<calls, wasted, expired, crashes, cache>>
    BY <1>1 DEF Lookup, books, quotaVars
  <2>2. /\ pc[c] = "idle" /\ pc'[c] \in {"missed", "hit"}
        /\ \A e \in Clients \ {c} :
               pc'[e] = pc[e] /\ key'[e] = key[e] /\ value'[e] = value[e]
    BY <1>1, <1>t DEF Lookup, Goto, PipelineTypeOK
  <2>3. \A e \in Clients : pc'[e] \in InFlight => key'[e] = key[e]
    BY <2>2 DEF InFlight
  <2> QED
    BY <1>t, <2>1, <2>2, <2>3, QuietStep
<1>2. ASSUME NEW c \in Clients, DeliverHit(c) \/ Join(c) \/ Lead(c) \/ Notify(c)
      PROVE  CallsInv'
  <2>1. UNCHANGED <<calls, wasted, expired, crashes, cache, key>>
    BY <1>2 DEF DeliverHit, Join, Lead, Notify, books, quotaVars
  <2>2. /\ pc[c] \notin {"calling", "store"}
        /\ pc'[c] \in {"idle", "waiting", "recheck", "bridging"}
        /\ \A e \in Clients \ {c} : pc'[e] = pc[e] /\ value'[e] = value[e]
    BY <1>2, <1>t DEF DeliverHit, Join, Lead, Notify, Goto, PipelineTypeOK
  <2> QED
    BY <1>t, <2>1, <2>2, QuietStep
<1>3. ASSUME NEW c \in Clients, Recheck(c) PROVE CallsInv'
  <2>1. UNCHANGED <<calls, wasted, expired, crashes, cache, key>>
    BY <1>3 DEF Recheck, books, quotaVars
  <2>2. /\ pc[c] = "recheck" /\ pc'[c] \in {"reserve", "raced"}
        /\ pc'[c] = "reserve" => cache[key[c]] = 0
        /\ \A e \in Clients \ {c} : pc'[e] = pc[e] /\ value'[e] = value[e]
    BY <1>3, <1>t DEF Recheck, Goto, PipelineTypeOK
  <2>3. ~ \E e \in Clients : At(e, Host[c], key[c], {"calling", "store"})
    BY <1>t, <2>2, FlightAlone DEF At, InFlight
  <2>4. pc'[c] = "reserve" => Surplus(Host[c], key[c]) # 1
    BY <1>s, <1>t, <2>2, <2>3 DEF CallsInv
  <2>5. pc'[c] = "reserve" => Surplus(Host[c], key[c]) <= 0
    BY <1>s, <2>4
  <2> QED
    BY <1>t, <2>1, <2>2, <2>5, QuietStep
<1>4. ASSUME NEW c \in Clients, Reserve(c) PROVE CallsInv'
  <2>1. UNCHANGED <<calls, wasted, expired, crashes, cache, key, value>>
    BY <1>4 DEF Reserve, ReserveAllowed, ReserveOver, books, ledger
  <2>2. /\ pc[c] = "reserve" /\ pc'[c] \in {"call", "over"}
        /\ \A e \in Clients \ {c} : pc'[e] = pc[e]
    BY <1>4, <1>t DEF Reserve, Goto, PipelineTypeOK
  <2> QED
    BY <1>t, <2>1, <2>2, QuietStep
<1>5. ASSUME NEW c \in Clients, Settle(c), key' = key, pc[c] \in InFlight,
             pc[c] \notin {"calling", "store"},
             UNCHANGED <<calls, wasted, expired, crashes, cache>>
      PROVE  CallsInv'
  <2>1. /\ pc'[c] = "idle"
        /\ \A e \in Clients \ {c} : /\ value'[e] = value[e]
                                    /\ pc'[e] = pc[e] \/ (pc[e] = "waiting" /\ pc'[e] = "idle")
    BY <1>5, <1>t DEF Settle, PipelineTypeOK
  <2> QED
    BY <1>5, <1>t, <2>1, QuietStep
<1>6. ASSUME NEW c \in Clients, Deny(c) \/ Skip(c) \/ Finish(c) PROVE CallsInv'
  <2>1. UNCHANGED <<calls, wasted, expired, crashes, cache, key>>
    BY <1>6 DEF Deny, UndoOver, Skip, Refund, Finish, books, ledger, quotaVars
  <2>2. Settle(c) /\ pc[c] \in {"over", "call", "bridging"}
    BY <1>6 DEF Deny, Skip, Finish
  <2> QED
    BY <1>5, <2>1, <2>2 DEF InFlight
<1>16. ASSUME NEW c \in Clients, QuotaRejects(c) PROVE CallsInv'
  <2>1. UNCHANGED <<calls, wasted, expired, crashes, cache, key>>
    BY <1>16 DEF QuotaRejects, ReserveRejected, UndoRejected, RefundRejected, books
  <2>2. Settle(c) /\ pc[c] \in {"reserve", "over", "call"}
    BY <1>16 DEF QuotaRejects
  <2> QED
    BY <1>5, <2>1, <2>2 DEF InFlight
<1>7. ASSUME NEW c \in Clients, Call(c) PROVE CallsInv'
  <2>1. UNCHANGED <<cache, key, value, wasted, expired, crashes>>
    BY <1>7 DEF Call, Depart
  <2>2. /\ pc[c] = "call" /\ pc'[c] = "calling"
        /\ \A e \in Clients \ {c} : pc'[e] = pc[e]
    BY <1>7, <1>t DEF Call, Goto, PipelineTypeOK
  <2>3. \A v \in Workers, j \in Keys :
           calls'[v][j] = IF v = Host[c] /\ j = key[c] THEN calls[v][j] + 1
                                                       ELSE calls[v][j]
    BY <1>7, <1>t, <1>s DEF Call, PipelineTypeOK
  <2>4. Surplus(Host[c], key[c]) <= 0
    BY <1>t, <1>s, <2>2 DEF CallsInv, At
  <2>5. Surplus(Host[c], key[c])' = Surplus(Host[c], key[c]) + 1
    BY <1>n, <1>r, <1>s, <2>1, <2>3 DEF Surplus
  <2>6. Surplus(Host[c], key[c])' <= 1
    BY <1>s, <2>4, <2>5
  <2> QED
    BY <1>t, <2>1, <2>2, <2>3, <2>6, FocusStep DEF InFlight
<1>8. ASSUME NEW c \in Clients, Fetched(c) PROVE CallsInv'
  <2>1. Answer(c)
    BY <1>8 DEF Fetched
  <2>2. UNCHANGED <<cache, key, calls, wasted, expired, crashes>>
    BY <1>8, <2>1 DEF Fetched, Answer, Return, ledger
  <2>3. /\ pc[c] = "calling" /\ pc'[c] = "store"
        /\ \A e \in Clients \ {c} : pc'[e] = pc[e] /\ value'[e] = value[e]
    BY <1>8, <2>1, <1>t DEF Fetched, Answer, Goto, PipelineTypeOK
  <2>4. value'[c] # 0
    <3>1. answers'[key[c]] = answers[key[c]] + 1 /\ answers[key[c]] \in Nat
      BY <1>t, <2>1, PipelineBounds DEF Answer, PipelineTypeOK
    <3> QED
      BY <1>8, <1>t, <3>1 DEF Fetched, PipelineTypeOK
  <2>5. Surplus(Host[c], key[c])' = Surplus(Host[c], key[c])
    BY <2>2 DEF Surplus
  <2> QED
    BY <1>t, <1>s, <2>2, <2>3, <2>4, <2>5, FocusStep DEF InFlight
<1>9. ASSUME NEW c \in Clients,
             RateLimited(c) \/ Failed(c) \/ (CacheRejects(c) /\ pc[c] = "store")
      PROVE  CallsInv'
  <2>1. UNCHANGED <<cache, key, calls, expired, crashes>>
    BY <1>9 DEF RateLimited, Answer, Failed, CacheRejects, Return, ledger, quotaVars
  <2>2. /\ pc[c] \in InFlight /\ Settle(c)
        /\ wasted' = [wasted EXCEPT ![Host[c]][key[c]] = @ + 1]
    BY <1>9 DEF RateLimited, Answer, Failed, CacheRejects, InFlight
  <2>3. \A v \in Workers, j \in Keys :
           wasted'[v][j] = IF v = Host[c] /\ j = key[c] THEN wasted[v][j] + 1
                                                        ELSE wasted[v][j]
    BY <2>2, <1>t, <1>s DEF PipelineTypeOK
  <2>4. /\ pc'[c] = "idle"
        /\ \A e \in Clients \ {c} : /\ value'[e] = value[e]
                                    /\ pc'[e] = pc[e] \/ (pc[e] = "waiting" /\ pc'[e] = "idle")
    BY <2>2, <1>t DEF Settle, PipelineTypeOK
  <2>5. Surplus(Host[c], key[c])' = Surplus(Host[c], key[c]) - 1
    BY <1>n, <1>r, <1>s, <2>1, <2>3 DEF Surplus
  <2>6. Surplus(Host[c], key[c])' <= 1 /\ Surplus(Host[c], key[c])' # 1
    BY <1>s, <2>5
  <2> QED
    BY <1>t, <2>1, <2>2, <2>3, <2>4, <2>6, FocusStep
<1>10. ASSUME NEW c \in Clients, CacheRejects(c), pc[c] # "store" PROVE CallsInv'
  <2>1. UNCHANGED <<calls, wasted, expired, crashes, cache, key>>
    BY <1>10 DEF CacheRejects, quotaVars
  <2>2. Settle(c) /\ pc[c] \in {"recheck", "raced"}
    BY <1>10 DEF CacheRejects
  <2> QED
    BY <1>5, <2>1, <2>2 DEF InFlight
<1>11. ASSUME NEW c \in Clients, Store(c) PROVE CallsInv'
  <2>1. UNCHANGED <<key, value, calls, wasted, expired, crashes>>
    BY <1>11 DEF Store, books, quotaVars
  <2>2. /\ pc[c] = "store" /\ pc'[c] = "notify"
        /\ \A e \in Clients \ {c} : pc'[e] = pc[e]
    BY <1>11, <1>t DEF Store, Goto, PipelineTypeOK
  <2>3. \A k \in Keys : cache'[k] = IF k = key[c] THEN value[c] ELSE cache[k]
    BY <1>11, <1>t DEF Store, PipelineTypeOK
  <2>4. value[c] # 0
    BY <1>t, <2>2 DEF CallsInv
  <2>5. \A w \in Workers, k \in Keys : Surplus(w, k)' = Surplus(w, k)
    BY <2>1 DEF Surplus
  <2>6. \A w \in Workers, k \in Keys, e \in Clients :
           /\ At(e, w, k, {"reserve", "over", "call"})' =>
                  At(e, w, k, {"reserve", "over", "call"})
           /\ At(e, w, k, {"calling", "store"}) =>
                  k = key[c] \/ At(e, w, k, {"calling", "store"})'
    BY <2>1, <2>2 DEF At
  <2>7. \A e \in Clients : pc'[e] = "store" => value'[e] # 0
    BY <1>t, <2>1, <2>2 DEF CallsInv
  <2> QED
    BY <1>t, <2>3, <2>4, <2>5, <2>6, <2>7 DEF CallsInv
<1>12. ASSUME NEW k \in Keys, Expire(k) PROVE CallsInv'
  <2>1. UNCHANGED <<pc, key, value, calls, wasted, crashes>>
    BY <1>12 DEF Expire, quotaVars
  <2>2. \A j \in Keys :
           /\ expired'[j] = IF j = k THEN expired[j] + 1 ELSE expired[j]
           /\ j # k => cache'[j] = cache[j]
    BY <1>12, <1>t DEF Expire, PipelineTypeOK
  <2>3. \A w \in Workers : Surplus(w, k)' = Surplus(w, k) - 1
    BY <1>n, <1>r, <2>1, <2>2 DEF Surplus
  <2>4. \A w \in Workers, j \in Keys \ {k} :
           Surplus(w, j)' = Surplus(w, j) /\ cache'[j] = cache[j]
    BY <2>1, <2>2 DEF Surplus
  <2>5. \A w \in Workers, j \in {k} : Surplus(w, j)' = Surplus(w, j) - 1
    BY <2>3
  <2>6. {k} \in SUBSET Keys
    OBVIOUS
  <2> QED
    BY <1>t, <2>1, <2>4, <2>5, <2>6, ExcusedStep
<1>13. ASSUME NEW w \in Workers, Crash(w) PROVE CallsInv'
  <2>1. UNCHANGED <<key, calls, wasted, expired>> /\ crashes' = crashes + 1
    BY <1>13 DEF Crash, WorkerCrash, books
  <2>2. \A e \in Clients : pc'[e] = "idle" \/ (pc'[e] = pc[e] /\ value'[e] = value[e])
    BY <1>13 DEF Crash
  <2>3. \A v \in Workers, k \in Keys : Surplus(v, k)' = Surplus(v, k) - 1
    BY <1>n, <1>r, <2>1 DEF Surplus
  <2>4. Keys \in SUBSET Keys /\ Keys \ Keys = {}
    OBVIOUS
  <2> QED
    BY <1>t, <2>1, <2>2, <2>3, <2>4, ExcusedStep
<1>14. CASE NextDay \/ UNCHANGED vars
  <2>1. UNCHANGED <<pc, key, value, calls, wasted, expired, crashes, cache>>
    BY <1>14 DEF NextDay, Midnight, ledger, vars, pipeVars, quotaVars
  <2> QED
    BY <1>t, <2>1 DEF CallsInv, At, Surplus
<1>15. ASSUME NEW c \in Clients, Proceed(c) PROVE CallsInv'
  BY <1>2, <1>3, <1>4, <1>6, <1>7, <1>8, <1>9, <1>10, <1>11, <1>15, <1>16
     DEF Proceed
<1> QED
  BY <1>1, <1>12, <1>13, <1>14, <1>15 DEF Next

(* A worker calls the provider once per key, plus once for every expiry,   *)
(* every call of its own that left nothing cached and every crash.         *)
THEOREM CallsBounded == Spec => []CallsAccounted
<1>1. Init => PipelineInv
  <2> SUFFICES ASSUME Init PROVE PipelineInv
    OBVIOUS
  <2>1. FlightInv /\ QuotaInv
    BY FlightInit, QuotaInitInvariant DEF Init
  <2>2. CallsInv
    <3>1. \A w \in Workers, k \in Keys : Surplus(w, k) = 0
      BY DEF Init, QuotaInit, Surplus
    <3>2. \A c \in Clients : pc[c] = "idle"
      BY DEF Init
    <3> QED
      BY <3>1, <3>2 DEF CallsInv, At
  <2> QED
    BY <2>1, <2>2 DEF PipelineInv
<1>2. PipelineInv /\ [Next]_vars => PipelineInv'
  <2>1. QuotaInv /\ [QuotaNext]_quotaVars => QuotaInv'
    BY QuotaTypeInvariant, BalanceInvariant DEF QuotaInv
  <2> QED
    BY <2>1, FlightInvariant, BudgetStep, CallsInvariant DEF PipelineInv
<1>3. PipelineInv => CallsAccounted
  <2> SUFFICES ASSUME PipelineInv, NEW w \in Workers, NEW k \in Keys
               PROVE  calls[w][k] <= 1 + expired[k] + wasted[w][k] + crashes
    BY DEF CallsAccounted
  <2>1. Surplus(w, k) <= 1 /\ PipelineTypeOK /\ QuotaTypeOK
    BY DEF PipelineInv, FlightInv, QuotaInv, CallsInv
  <2> QED
    BY <2>1 DEF Surplus, PipelineTypeOK, QuotaTypeOK
<1> QED
  BY <1>1, <1>2, <1>3, PTL DEF Spec

(***************************************************************************)
(* A reservation goes with the place of its client in the flight.          *)
(***************************************************************************)
LEMMA InHandKept ==
    PipelineTypeOK /\ QuotaTypeOK /\ ReservationsInHand /\ [Next]_vars => ReservationsInHand'
<1> SUFFICES ASSUME PipelineTypeOK, QuotaTypeOK, ReservationsInHand, [Next]_vars
             PROVE  ReservationsInHand'
    OBVIOUS
<1> USE DEF ReservationsInHand
<1>t. /\ pc \in [Clients -> {"idle", "hit", "missed", "waiting"} \union InFlight]
      /\ phase \in [Clients -> {"idle", "over", "reserved", "calling"}]
  BY DEF PipelineTypeOK, QuotaTypeOK
<1>1. ASSUME NEW c \in Clients, NEW k \in Keys, Lookup(c, k) PROVE ReservationsInHand'
  BY <1>1, <1>t DEF Lookup, Goto, quotaVars
<1>2. ASSUME NEW c \in Clients, Proceed(c) PROVE ReservationsInHand'
  <2>1. CASE DeliverHit(c) \/ Join(c) \/ Lead(c) \/ Recheck(c) \/ Store(c) \/ Notify(c)
    BY <2>1, <1>t DEF DeliverHit, Join, Lead, Recheck, Store, Notify, Goto, quotaVars
  <2>2. CASE Reserve(c)
    BY <2>2, <1>t DEF Reserve, ReserveAllowed, ReserveOver, Goto
  <2>3. CASE Deny(c)
    BY <2>3, <1>t DEF Deny, UndoOver, Settled, Settle
  <2>4. CASE Skip(c)
    BY <2>4, <1>t DEF Skip, Refund, Settled, Settle
  <2>5. CASE Call(c)
    BY <2>5, <1>t DEF Call, Depart, Goto
  <2>6. CASE Fetched(c)
    BY <2>6, <1>t DEF Fetched, Answer, Return, Settled, Goto
  <2>7. CASE RateLimited(c)
    BY <2>7, <1>t DEF RateLimited, Answer, Return, Settled, Settle
  <2>8. CASE Failed(c)
    BY <2>8, <1>t DEF Failed, Return, Settled, Settle
  <2>9. CASE Finish(c) \/ CacheRejects(c)
    BY <2>9, <1>t DEF Finish, CacheRejects, Settle, quotaVars
  <2>10. ASSUME pc[c] = "reserve", ReserveRejected(c), Settle(c)
         PROVE  ReservationsInHand'
    BY <2>10, <1>t DEF ReserveRejected, Settle
  <2>11. ASSUME pc[c] = "over", UndoRejected(c), Settle(c)
         PROVE  ReservationsInHand'
    BY <2>11, <1>t DEF UndoRejected, Settled, Settle
  <2>12. ASSUME pc[c] = "call", RefundRejected(c), Settle(c)
         PROVE  ReservationsInHand'
    BY <2>12, <1>t DEF RefundRejected, Settled, Settle
  <2>13. CASE QuotaRejects(c)
    BY <2>10, <2>11, <2>12, <2>13 DEF QuotaRejects
  <2> QED
    BY <1>2, <2>1, <2>2, <2>3, <2>4, <2>5, <2>6, <2>7, <2>8, <2>9, <2>13 DEF Proceed
<1>3. ASSUME NEW k \in Keys, Expire(k) PROVE ReservationsInHand'
  BY <1>3 DEF Expire, quotaVars
<1>4. ASSUME NEW w \in Workers, Crash(w) PROVE ReservationsInHand'
  BY <1>4 DEF Crash, WorkerCrash
<1>5. CASE NextDay
  BY <1>5 DEF NextDay, Midnight, pipeVars
<1>6. CASE UNCHANGED vars
  BY <1>6 DEF vars, pipeVars, quotaVars
<1> QED
  BY <1>1, <1>2, <1>3, <1>4, <1>5, <1>6 DEF Next

(* No way out of fetchWorkload, not even a rejected command of the quota   *)
(* store, leaves a reservation undecided.                                  *)
THEOREM ReservationsHeld == Spec => []ReservationsInHand
<1>1. Init => ReservationsInHand
  BY DEF Init, QuotaInit, ReservationsInHand
<1>2. QuotaInv => QuotaTypeOK
  BY DEF QuotaInv
<1>3. Spec => []QuotaTypeOK
  BY PipelineKeepsBudget, QuotaInvariance, <1>2, PTL
<1> QED
  BY <1>1, <1>3, PipelineTypeCorrect, InHandKept, PTL DEF Spec

(***************************************************************************)
(* With the cache in the memory of the one worker, the payload in a        *)
(* flight's hands is never older than the last one the bridge was given:   *)
(* it is the newest answer, or it was cached when the flight began, and    *)
(* the flight keeps every other of its key out until it is bridged.        *)
(***************************************************************************)
PayloadsInOrder ==
    Backend = "memory" =>
        /\ \A k \in Keys : cache[k] <= answers[k]
        /\ \A w \in Workers, k \in Keys :
              /\ led[w][k] <= answers[k]
              /\ cache[k] # 0 => led[w][k] <= cache[k]
        /\ \A c \in Clients : pc[c] \in {"store", "raced", "notify"} =>
              /\ led[Host[c]][key[c]] <= value[c]
              /\ value[c] <= answers[key[c]]
              /\ pc[c] # "store" /\ cache[key[c]] # 0 => cache[key[c]] = value[c]

LEMMA PayloadsKept ==
    FlightInv /\ PayloadsInOrder /\ [Next]_vars
        => /\ PayloadsInOrder'
           /\ \A w \in Workers, k \in Keys : Backend = "memory" => led'[w][k] >= led[w][k]
<1> SUFFICES ASSUME FlightInv, PayloadsInOrder, [Next]_vars, Backend = "memory"
             PROVE  /\ PayloadsInOrder'
                    /\ \A w \in Workers, k \in Keys : led'[w][k] >= led[w][k]
    BY DEF PayloadsInOrder
<1> DEFINE Goal == PayloadsInOrder' /\ \A w \in Workers, k \in Keys : led'[w][k] >= led[w][k]
<1> USE DEF PayloadsInOrder
<1>t. /\ cache \in [Keys -> Nat] /\ key \in [Clients -> Keys] /\ value \in [Clients -> Nat]
      /\ pc \in [Clients -> {"idle", "hit", "missed", "waiting"} \union InFlight]
      /\ answers \in [Keys -> Nat] /\ led \in [Workers -> [Keys -> Nat]]
      /\ Host \in [Clients -> Workers] /\ \A v, w \in Workers : v = w
  BY QuotaHosts, OneMemory, PipelineBounds DEF FlightInv, PipelineTypeOK
<1>a. \A c, e \in Clients :
         pc[c] \in InFlight /\ pc[e] \in InFlight /\ key[c] = key[e] => c = e
  <2>1. \A c, e \in Clients : Host[c] = Host[e]
    BY <1>t
  <2> QED
    BY <2>1 DEF FlightInv, FlightOwned
<1>q. ASSUME UNCHANGED <<cache, key, answers, led>>,
             \A e \in Clients : pc'[e] \in {"store", "raced", "notify"} =>
                 pc'[e] = pc[e] /\ value'[e] = value[e]
      PROVE  Goal
  <2>1. \A e \in Clients : pc'[e] \in {"store", "raced", "notify"} =>
           /\ led'[Host[e]][key'[e]] <= value'[e]
           /\ value'[e] <= answers'[key'[e]]
           /\ pc'[e] # "store" /\ cache'[key'[e]] # 0 => cache'[key'[e]] = value'[e]
    <3> SUFFICES ASSUME NEW e \in Clients, pc'[e] \in {"store", "raced", "notify"}
                 PROVE  /\ led[Host[e]][key[e]] <= value[e]
                        /\ value[e] <= answers[key[e]]
                        /\ pc[e] # "store" /\ cache[key[e]] # 0 => cache[key[e]] = value[e]
        BY <1>q
    <3> QED
      BY <1>q
  <2>2. \A w \in Workers, k \in Keys : led'[w][k] >= led[w][k]
    BY <1>q, <1>t
  <2> QED
    BY <1>q, <2>1, <2>2
<1>1. ASSUME NEW c \in Clients, NEW k \in Keys, Lookup(c, k) PROVE Goal
  BY <1>1, <1>t DEF Lookup, Goto, books
<1>2. ASSUME NEW c \in Clients, Proceed(c) PROVE Goal
  <2>1. CASE DeliverHit(c) \/ Join(c) \/ Lead(c) \/ Call(c)
    <3>1. /\ UNCHANGED <<cache, key, answers, led>>
          /\ \A e \in Clients : pc'[e] \in {"store", "raced", "notify"} =>
                 pc'[e] = pc[e] /\ value'[e] = value[e]
      BY <2>1, <1>t DEF DeliverHit, Join, Lead, Call, Goto, books
    <3> QED
      BY <3>1, <1>q
  <2>2. CASE Recheck(c)
    BY <2>2, <1>t DEF Recheck, Goto, books
  <2>3. CASE Reserve(c)
    BY <2>3, <1>t DEF Reserve, Goto, books
  <2>4. CASE Deny(c) \/ Skip(c) \/ Failed(c) \/ Finish(c)
             \/ CacheRejects(c) \/ QuotaRejects(c)
    <3>1. /\ UNCHANGED <<cache, key, answers, led>>
          /\ \A e \in Clients : pc'[e] \in {"store", "raced", "notify"} =>
                 pc'[e] = pc[e] /\ value'[e] = value[e]
      <4>1. Settle(c) /\ UNCHANGED <<cache, key, answers, led>>
        BY <2>4 DEF Deny, Skip, Failed, Finish, CacheRejects,
                    QuotaRejects, books
      <4> QED
        BY <4>1, <1>t DEF Settle
    <3> QED
      BY <3>1, <1>q
  <2>5. ASSUME Answer(c)
        PROVE  /\ \A k \in Keys : answers'[k] \in Nat /\ answers[k] <= answers'[k]
               /\ UNCHANGED <<cache, key, led>>
    BY <2>5, <1>t DEF Answer
  <2>6. CASE Fetched(c)
    <3>1. Answer(c)
      BY <2>6 DEF Fetched
    <3> QED
      BY <2>5, <2>6, <3>1, <1>t DEF Fetched, Goto
  <2>7. CASE RateLimited(c)
    <3>1. Answer(c)
      BY <2>7 DEF RateLimited
    <3> QED
      BY <2>5, <2>7, <3>1, <1>t DEF RateLimited, Settle
  <2>8. CASE Store(c)
    BY <2>8, <1>t, <1>a DEF Store, Goto, books, InFlight
  <2>9. CASE Notify(c)
    BY <2>9, <1>t, <1>a DEF Notify, Goto, InFlight
  <2> QED
    BY <1>2, <2>1, <2>2, <2>3, <2>4, <2>6, <2>7, <2>8, <2>9 DEF Proceed
<1>3. ASSUME NEW k \in Keys, Expire(k) PROVE Goal
  BY <1>3, <1>t DEF Expire
<1>4. ASSUME NEW w \in Workers, Crash(w) PROVE Goal
  BY <1>4, <1>t DEF Crash, books
<1>5. CASE NextDay \/ UNCHANGED vars
  BY <1>5, <1>t DEF NextDay, vars, pipeVars, books
<1> QED
  BY <1>1, <1>2, <1>3, <1>4, <1>5 DEF Next

(* The flights of a key never bridge an older payload after a newer one.   *)
THEOREM FlightsInOrder == Spec => FlightsBridgeInOrder
<1>1. Init => PayloadsInOrder
  BY DEF Init, PayloadsInOrder
<1>2. FlightInv /\ PayloadsInOrder /\ [Next]_vars
        => [\A w \in Workers, k \in Keys : Backend = "memory" => led'[w][k] >= led[w][k]]_vars
  BY PayloadsKept
<1> QED
  BY <1>1, <1>2, PayloadsKept, FlightInvariance, PTL DEF Spec, FlightsBridgeInOrder
=============================================================================
