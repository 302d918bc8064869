------------------------ MODULE SeasonBackfillProofs ------------------------
(***************************************************************************)
(* The promises of the season import, for any runs, however they overlap,  *)
(* and any seasons, budgets and bounds.  A cursor is true if it passes     *)
(* walked fixtures only and lists all that a discovery did not leave out.  *)
(* What was walked stays walked, so a true cursor stays true: runs may     *)
(* read, hold and write each other's cursors in any order, and old ones.   *)
(***************************************************************************)
EXTENDS SeasonBackfill, TLAPS

(* Cursor c of target t is true. *)
True(t, c) ==
    c # None => /\ \A f \in c.listed \ c.left : Walked(f)
                /\ Season[t] \ c.listed \subseteq unlisted

(* All fixtures of target t are accounted for. *)
Explained(t) == \A f \in Season[t] : Walked(f) \/ f \in unlisted

HandsFull ==
    \A r \in Runs : /\ at[r] \in {"save", "walk", "fetch"} => held[r] # None
                    /\ at[r] = "fetch" => current[r] \in Fixtures

CursorsTrue ==
    /\ \A t \in Targets : True(t, cursor[t])
    /\ \A r \in Runs : True(target[r], held[r])

ReportsTrue ==
    \A r \in Runs :
        /\ whole[r] => \A t \in Targets : t < target[r] => Explained(t)
        /\ reported[r] = "complete" => \A t \in Targets : Explained(t)

(* A run has calls left where it begins something, and takes the payloads  *)
(* of a fixture from a budget that was not empty before the first.         *)
BudgetKept ==
    \A r \in Runs :
        /\ budget[r] > -Parts
        /\ at[r] = "idle" => budget[r] = MaxCalls /\ stopped[r] = "no"
        /\ at[r] = "read" /\ stopped[r] = "no" => budget[r] > 0
        /\ at[r] \in {"standings", "discover"} => budget[r] > 0
        /\ at[r] = "fetch" => budget[r] + part[r] >= 2

BackfillTypes == TypeOK /\ HandsFull
BackfillInv == BackfillTypes /\ CursorsTrue /\ ReportsTrue

(* mostRestrictive picks one of the actions it is given. *)
LEMMA RestrictiveOfTwo ==
    ASSUME NEW a \in Actions, NEW b \in Actions
    PROVE  MostRestrictive({a, b}) \in {a, b}
<1>1. \A x \in Actions : Severity(x) \in 0..4
  BY DEF Severity, Actions
<1>2. \E x \in {a, b} : \A y \in {a, b} : Severity(x) >= Severity(y)
  <2>1. CASE Severity(a) >= Severity(b)
    <3>1. \A y \in {a, b} : Severity(a) >= Severity(y)
      BY <1>1, <2>1
    <3> QED
      BY <3>1
  <2>2. CASE Severity(b) >= Severity(a)
    <3>1. \A y \in {a, b} : Severity(b) >= Severity(y)
      BY <1>1, <2>2
    <3> QED
      BY <3>1
  <2> QED
    BY <1>1, <2>1, <2>2
<1> QED
  BY <1>2 DEF MostRestrictive

(* A fetch takes one call of the budget and leaves a mode. *)
LEMMA AccumulateType ==
    ASSUME TypeOK, NEW r \in Runs, NEW posture \in Observed, Accumulate(r, posture)
    PROVE  /\ budget' \in [Runs -> Int] /\ mode' \in [Runs -> Actions]
           /\ budget'[r] = budget[r] - 1
           /\ \A q \in Runs : q # r => budget'[q] = budget[q]
<1>1. QuotaAction(posture) \in Actions
  BY ObservedAssumption DEF QuotaAction, Actions, Postures
<1>2. mode[r] \in Actions
  BY DEF TypeOK
<1>3. MostRestrictive({mode[r], QuotaAction(posture)}) \in Actions
  BY <1>1, <1>2, RestrictiveOfTwo
<1> QED
  BY <1>3 DEF Accumulate, TypeOK

(* The fixtures of a season are fixtures, and fixtures are numbers. *)
LEMMA FixturesNumbered ==
    /\ Fixtures \subseteq Nat
    /\ \A t \in Targets : Season[t] \subseteq Fixtures
BY SeasonAssumption DEF Fixtures

(* A run that leaves, and one that is done with a target, keep the types. *)
LEMMA LeaveType ==
    ASSUME TypeOK, NEW r \in Runs,
           NEW status \in {"none", "aborted", "complete", "incomplete"}, Leave(r, status)
    PROVE  /\ at' \in [Runs -> Places] /\ target' \in [Runs -> Targets]
           /\ held' \in [Runs -> Cursors \union {None}] /\ current' \in [Runs -> Nat]
           /\ part' \in [Runs -> 1..Parts] /\ budget' \in [Runs -> Int]
           /\ mode' \in [Runs -> Actions] /\ fresh' \in [Runs -> BOOLEAN]
           /\ stopped' \in [Runs -> {"no", "aborted", "halted"}]
           /\ whole' \in [Runs -> BOOLEAN]
           /\ reported' \in [Runs -> {"none", "aborted", "complete", "incomplete"}]
           /\ at'[r] = "idle"
           /\ \A q \in Runs : q # r => at'[q] = at[q] /\ held'[q] = held[q] /\ current'[q] = current[q]
<1>1. 1 \in Targets /\ 1 \in 1..Parts /\ 0 \in Nat /\ MaxCalls \in Int /\ "continue" \in Actions
  BY TargetsAssumption, BackfillBounds DEF Targets, Parts, Actions
<1>2. "idle" \in Places
  BY DEF Places
<1> QED
  BY <1>1, <1>2 DEF Leave, Goto, TypeOK

LEMMA NextTargetType ==
    ASSUME TypeOK, NEW r \in Runs, NEW complete \in BOOLEAN,
           NEW why \in {"no", "aborted", "halted"}, NextTarget(r, complete, why)
    PROVE  /\ at' \in [Runs -> Places] /\ target' \in [Runs -> Targets]
           /\ held' \in [Runs -> Cursors \union {None}] /\ current' \in [Runs -> Nat]
           /\ part' \in [Runs -> 1..Parts] /\ budget' \in [Runs -> Int]
           /\ mode' \in [Runs -> Actions] /\ fresh' \in [Runs -> BOOLEAN]
           /\ stopped' \in [Runs -> {"no", "aborted", "halted"}]
           /\ whole' \in [Runs -> BOOLEAN]
           /\ reported' \in [Runs -> {"none", "aborted", "complete", "incomplete"}]
           /\ at'[r] \in {"idle", "read"}
           /\ \A q \in Runs : q # r => at'[q] = at[q] /\ held'[q] = held[q] /\ current'[q] = current[q]
<1>1. CASE target[r] = LastTarget /\ Leave(r, IF why = "aborted" THEN "aborted"
                   ELSE IF whole[r] /\ complete THEN "complete" ELSE "incomplete")
  BY <1>1, LeaveType
<1>2. CASE /\ target[r] < LastTarget
           /\ Goto(r, "read")
           /\ target' = [target EXCEPT ![r] = @ + 1]
           /\ held' = [held EXCEPT ![r] = None]
           /\ mode' = [mode EXCEPT ![r] = "continue"]
           /\ stopped' = [stopped EXCEPT ![r] = why]
           /\ whole' = [whole EXCEPT ![r] = @ /\ complete]
           /\ UNCHANGED <<current, part, budget, fresh, reported>>
  <2>1. target[r] + 1 \in Targets
    BY <1>2, TargetsAssumption, SMTT(30) DEF Targets, TypeOK
  <2>2. "read" \in Places /\ "continue" \in Actions
    BY DEF Places, Actions
  <2>3. (whole[r] /\ complete) \in BOOLEAN
    OBVIOUS
  <2> QED
    BY <1>2, <2>1, <2>2, <2>3 DEF TypeOK, Goto
<1> QED
  BY <1>1, <1>2 DEF NextTarget

(* Every action keeps the types, and a run that walks holds a cursor. *)
LEMMA TypeInvariant == BackfillTypes /\ [Next]_vars => BackfillTypes'
<1> SUFFICES ASSUME BackfillTypes, [Next]_vars PROVE BackfillTypes'
    OBVIOUS
<1> USE BackfillBounds, FixturesNumbered DEF BackfillTypes, TypeOK, HandsFull
<1>1. ASSUME NEW r \in Runs, NEW reset \in BOOLEAN, Begin(r, reset) PROVE BackfillTypes'
  BY <1>1 DEF Begin, Goto, Places
<1>2. ASSUME NEW r \in Runs, ReadCursor(r) PROVE BackfillTypes'
  <2>1. Cursor(r) \in Cursors \union {None}
    BY DEF Cursor
  <2> QED
    BY <1>2, <2>1 DEF ReadCursor, Goto, Places, history
<1>3. ASSUME NEW r \in Runs, SkipTarget(r) PROVE BackfillTypes'
  <2>1. Complete(Cursor(r)) \in BOOLEAN /\ stopped[r] \in {"no", "aborted", "halted"}
    BY DEF Complete
  <2>2. NextTarget(r, Complete(Cursor(r)), stopped[r])
    BY <1>3 DEF SkipTarget
  <2> QED
    BY <1>3, <2>1, <2>2, NextTargetType, SMTT(30) DEF SkipTarget, history
<1>4. ASSUME NEW r \in Runs, Standings(r) PROVE BackfillTypes'
  <2>1. budget' \in [Runs -> Int] /\ mode' \in [Runs -> Actions]
    BY <1>4, AccumulateType DEF Standings
  <2> QED
    BY <1>4, <2>1 DEF Standings, Goto, Places, history
<1>5. ASSUME NEW r \in Runs, Discover(r) PROVE BackfillTypes'
  <2>1. budget' \in [Runs -> Int] /\ mode' \in [Runs -> Actions]
    BY <1>5, AccumulateType DEF Discover
  <2>2. CASE mode'[r] = "abort" /\ Goto(r, "end") /\ UNCHANGED <<held, unlisted>>
    BY <1>5, <2>1, <2>2 DEF Discover, Goto, Places
  <2>3. ASSUME NEW final \in Finalised(target[r]), Goto(r, "save"),
               held' = [held EXCEPT ![r] = [listed |-> final, left |-> final]],
               unlisted' = unlisted \union (Season[target[r]] \ final)
        PROVE  BackfillTypes'
    <3>1. final \subseteq Fixtures /\ Season[target[r]] \subseteq Fixtures
      BY DEF Finalised
    <3>2. [listed |-> final, left |-> final] \in Cursors
      BY <3>1 DEF Cursors
    <3>3. held'[r] # None
      BY <2>3, <3>2, NoneIsNoCursor
    <3> QED
      BY <1>5, <2>1, <2>3, <3>1, <3>2, <3>3 DEF Discover, Goto, Places
  <2> QED
    BY <1>5, <2>2, <2>3 DEF Discover
<1>6. ASSUME NEW r \in Runs, Save(r) PROVE BackfillTypes'
  BY <1>6 DEF Save, Goto, Places, history
<1>7. ASSUME NEW r \in Runs, StartFixture(r) PROVE BackfillTypes'
  <2>1. PICK f \in held[r].left :
            /\ current' = [current EXCEPT ![r] = f]
            /\ again' = IF asked[f] = "none" \/ Excused THEN again
                        ELSE [again EXCEPT ![target[r]] = @ + 1]
    BY <1>7 DEF StartFixture
  <2>2. held[r] \in Cursors
    BY <1>7 DEF StartFixture
  <2>3. f \in Fixtures
    BY <2>1, <2>2 DEF Cursors
  <2>4. again' \in [Targets -> Nat]
    BY <2>1
  <2> QED
    BY <1>7, <2>1, <2>3, <2>4 DEF StartFixture, Goto, Places, Parts
<1>8. ASSUME NEW r \in Runs, FetchPart(r) PROVE BackfillTypes'
  <2>1. budget' \in [Runs -> Int] /\ mode' \in [Runs -> Actions]
    BY <1>8, AccumulateType DEF FetchPart
  <2>2. asked' \in [Fixtures -> {"none", "some", "all"}]
    BY <1>8 DEF FetchPart
  <2>3. CASE part[r] < Parts /\ part' = [part EXCEPT ![r] = @ + 1] /\ UNCHANGED <<at, held, cut>>
    BY <1>8, <2>1, <2>2, <2>3 DEF FetchPart, Parts
  <2>4. CASE /\ held' = [held EXCEPT ![r].left = @ \ {current[r]}]
             /\ cut' = IF part[r] < Parts THEN cut \union {current[r]} ELSE cut
             /\ Goto(r, "save") /\ UNCHANGED part
    <3>1. held[r] \in Cursors /\ current[r] \in Fixtures
      BY <1>8 DEF FetchPart
    <3>2. held'[r] = [held[r] EXCEPT !.left = @ \ {current[r]}]
      BY <2>4
    <3>3. held'[r] \in Cursors
      BY <3>1, <3>2 DEF Cursors
    <3>4. held' \in [Runs -> Cursors \union {None}] /\ held'[r] # None
      BY <2>4, <3>3, NoneIsNoCursor
    <3>5. \A q \in Runs : q # r => held'[q] = held[q]
      BY <2>4
    <3> QED
      BY <1>8, <2>1, <2>2, <2>4, <3>1, <3>4, <3>5 DEF FetchPart, Goto, Places
  <2> QED
    BY <1>8, <2>3, <2>4 DEF FetchPart
<1>9. ASSUME NEW r \in Runs, StopWalk(r) PROVE BackfillTypes'
  BY <1>9 DEF StopWalk, Goto, Places, history
<1>10. ASSUME NEW r \in Runs, EndTarget(r) PROVE BackfillTypes'
  <2> DEFINE why == IF mode[r] = "abort" THEN "aborted"
                    ELSE IF budget[r] <= 0 THEN "halted" ELSE "no"
             whether == Complete(held[r]) /\ mode[r] # "abort"
  <2>1. whether \in BOOLEAN /\ why \in {"no", "aborted", "halted"}
    OBVIOUS
  <2>2. NextTarget(r, whether, why)
    BY <1>10 DEF EndTarget
  <2> HIDE DEF why, whether
  <2> QED
    BY <1>10, <2>1, <2>2, NextTargetType, SMTT(30) DEF EndTarget, history
<1>11. ASSUME NEW r \in Runs, Break(r) PROVE BackfillTypes'
  <2>1. Leave(r, "none")
    BY <1>11 DEF Break
  <2>2. broken' \in [Targets -> Nat]
    BY <1>11 DEF Break
  <2> QED
    BY <1>11, <2>1, <2>2, LeaveType DEF Break
<1>12. ASSUME NEW t \in Targets, Expire(t) PROVE BackfillTypes'
  BY <1>12 DEF Expire, runVars, history
<1>13. CASE UNCHANGED vars
  BY <1>13 DEF vars, runVars, history
<1> QED
  BY <1>1, <1>2, <1>3, <1>4, <1>5, <1>6, <1>7, <1>8, <1>9, <1>10, <1>11, <1>12, <1>13
     DEF Next, Work

LEMMA TypesInitially == Init => BackfillTypes
<1>1. 1 \in Targets /\ 1 \in 1..Parts /\ MaxCalls \in Int /\ "continue" \in Actions
  BY TargetsAssumption, BackfillBounds DEF Targets, Parts, Actions
<1>2. 0 \in 0..MaxExpiries /\ 0 \in 0..MaxResets
  BY BackfillBounds
<1>3. "idle" \in Places
  BY DEF Places
<1> SUFFICES ASSUME Init PROVE BackfillTypes
    OBVIOUS
<1>4. /\ cursor \in [Targets -> Cursors \union {None}]
      /\ at \in [Runs -> Places] /\ target \in [Runs -> Targets]
      /\ held \in [Runs -> Cursors \union {None}] /\ current \in [Runs -> Nat]
      /\ part \in [Runs -> 1..Parts] /\ budget \in [Runs -> Int]
  BY <1>1, <1>3 DEF Init
<1>5. /\ mode \in [Runs -> Actions] /\ fresh \in [Runs -> BOOLEAN]
      /\ stopped \in [Runs -> {"no", "aborted", "halted"}]
      /\ whole \in [Runs -> BOOLEAN]
      /\ reported \in [Runs -> {"none", "aborted", "complete", "incomplete"}]
  BY <1>1 DEF Init
<1>6. /\ asked \in [Fixtures -> {"none", "some", "all"}]
      /\ cut \subseteq Fixtures /\ unlisted \subseteq Fixtures
      /\ again \in [Targets -> Nat] /\ broken \in [Targets -> Nat]
      /\ overlap \in BOOLEAN
      /\ expiries \in 0..MaxExpiries /\ resets \in 0..MaxResets
  BY <1>2 DEF Init
<1>7. HandsFull
  BY DEF Init, HandsFull
<1> QED
  BY <1>4, <1>5, <1>6, <1>7 DEF BackfillTypes, TypeOK

(* Every variable of the import keeps its type. *)
THEOREM TypeCorrect == Spec => []TypeOK
<1>1. BackfillTypes => TypeOK
  BY DEF BackfillTypes
<1> QED
  BY TypesInitially, TypeInvariant, <1>1, PTL DEF Spec

(* What was walked stays walked, and what was left out stays left out. *)
LEMMA HistoryGrows ==
    ASSUME BackfillTypes, [Next]_vars
    PROVE  /\ \A f \in Fixtures : Walked(f) => Walked(f)'
           /\ unlisted \subseteq unlisted'
<1> USE DEF Walked
<1>1. ASSUME NEW r \in Runs, FetchPart(r)
      PROVE  (\A f \in Fixtures : Walked(f) => Walked(f)') /\ unlisted \subseteq unlisted'
  <2>1. /\ asked' = [asked EXCEPT ![current[r]] = IF part[r] = Parts \/ @ = "all" THEN "all" ELSE "some"]
        /\ cut \subseteq cut' /\ unlisted' = unlisted
    BY <1>1 DEF FetchPart
  <2> QED
    BY <2>1 DEF BackfillTypes, TypeOK
<1>2. ASSUME NEW r \in Runs, Discover(r)
      PROVE  UNCHANGED <<asked, cut>> /\ unlisted \subseteq unlisted'
  BY <1>2 DEF Discover
<1>3. ASSUME NEW r \in Runs,
             \/ \E reset \in BOOLEAN : Begin(r, reset)
             \/ ReadCursor(r) \/ SkipTarget(r) \/ Standings(r) \/ Save(r)
             \/ StartFixture(r) \/ StopWalk(r) \/ EndTarget(r) \/ Break(r)
      PROVE  UNCHANGED <<asked, cut, unlisted>>
  BY <1>3 DEF Begin, ReadCursor, SkipTarget, Standings, Save, StartFixture, StopWalk,
              EndTarget, Break, history
<1>4. ASSUME (\E t \in Targets : Expire(t)) \/ UNCHANGED vars
      PROVE  UNCHANGED <<asked, cut, unlisted>>
  BY <1>4 DEF Expire, vars, history
<1> QED
  BY <1>1, <1>2, <1>3, <1>4 DEF Next, Work

(* A true cursor stays true, in Redis or in the hands of a run. *)
LEMMA TrueStays ==
    ASSUME BackfillTypes, [Next]_vars,
           NEW t \in Targets, NEW c \in Cursors \union {None}, True(t, c)
    PROVE  c # None => /\ \A f \in c.listed \ c.left : Walked(f)'
                       /\ Season[t] \ c.listed \subseteq unlisted'
BY HistoryGrows DEF True, Cursors

(* A run that is done with a target leaves it without a cursor. *)
LEMMA NextTargetHands ==
    ASSUME BackfillTypes, NEW r \in Runs, NEW complete \in BOOLEAN,
           NEW why \in {"no", "aborted", "halted"}, NextTarget(r, complete, why)
    PROVE  /\ held'[r] = None
           /\ \A q \in Runs : q # r => held'[q] = held[q] /\ target'[q] = target[q]
BY DEF NextTarget, Leave, Goto, BackfillTypes, TypeOK

(* Cursors that did not change stay true. *)
LEMMA UntouchedTrue ==
    ASSUME BackfillTypes, [Next]_vars, CursorsTrue
    PROVE  /\ \A t \in Targets : cursor'[t] \in {cursor[t], None} => True(t, cursor[t])'
           /\ \A r \in Runs : UNCHANGED <<held[r], target[r]>> => True(target[r], held[r])'
<1>1. ASSUME NEW t \in Targets, cursor'[t] \in {cursor[t], None} PROVE True(t, cursor[t])'
  <2>1. cursor[t] \in Cursors \union {None} /\ True(t, cursor[t])
    BY DEF BackfillTypes, TypeOK, CursorsTrue
  <2> QED
    BY <1>1, <2>1, TrueStays DEF True
<1>2. ASSUME NEW r \in Runs, UNCHANGED <<held[r], target[r]>> PROVE True(target[r], held[r])'
  <2>1. /\ held[r] \in Cursors \union {None} /\ target[r] \in Targets
        /\ True(target[r], held[r])
    BY DEF BackfillTypes, TypeOK, CursorsTrue
  <2> QED
    BY <1>2, <2>1, TrueStays DEF True
<1> QED
  BY <1>1, <1>2

(* Every action keeps the cursors true. *)
LEMMA CursorsStayTrue ==
    ASSUME BackfillTypes, CursorsTrue, [Next]_vars
    PROVE  CursorsTrue'
<1> SUFFICES /\ \A t \in Targets : True(t, cursor[t])'
             /\ \A r \in Runs : True(target[r], held[r])'
    BY DEF CursorsTrue
<1>1. ASSUME NEW r \in Runs, ReadCursor(r)
      PROVE  True(target[r], held[r])'
  <2>1. /\ held'[r] \in {cursor[target[r]], None} /\ target'[r] = target[r]
        /\ target[r] \in Targets
    BY <1>1 DEF ReadCursor, Cursor, BackfillTypes, TypeOK
  <2>2. cursor[target[r]] \in Cursors \union {None} /\ True(target[r], cursor[target[r]])
    BY <2>1 DEF BackfillTypes, TypeOK, CursorsTrue
  <2> QED
    BY <2>1, <2>2, TrueStays DEF True
<1>2. ASSUME NEW r \in Runs, Discover(r), held'[r] # held[r]
      PROVE  True(target[r], held[r])'
  <2>1. PICK final \in Finalised(target[r]) :
            /\ held' = [held EXCEPT ![r] = [listed |-> final, left |-> final]]
            /\ unlisted' = unlisted \union (Season[target[r]] \ final)
    BY <1>2 DEF Discover
  <2>2. held'[r] = [listed |-> final, left |-> final] /\ target'[r] = target[r]
    BY <1>2, <2>1 DEF Discover, BackfillTypes, TypeOK
  <2> QED
    BY <2>1, <2>2 DEF True
<1>3. ASSUME NEW r \in Runs, FetchPart(r), held'[r] # held[r]
      PROVE  True(target[r], held[r])'
  <2>1. /\ held[r] \in Cursors /\ current[r] \in Fixtures /\ target[r] \in Targets
        /\ True(target[r], held[r])
    BY <1>3 DEF FetchPart, BackfillTypes, TypeOK, HandsFull, CursorsTrue
  <2>2. /\ held' = [held EXCEPT ![r].left = @ \ {current[r]}]
        /\ cut' = IF part[r] < Parts THEN cut \union {current[r]} ELSE cut
        /\ asked' = [asked EXCEPT ![current[r]] = IF part[r] = Parts \/ @ = "all" THEN "all" ELSE "some"]
        /\ target' = target
    BY <1>3 DEF FetchPart
  <2>3. asked'[current[r]] = "all" \/ current[r] \in cut'
    <3>1. CASE part[r] < Parts
      BY <2>2, <3>1
    <3>2. CASE part[r] = Parts
      BY <2>1, <2>2, <3>2 DEF BackfillTypes, TypeOK
    <3> QED
      BY <3>1, <3>2 DEF BackfillTypes, TypeOK, Parts
  <2>4. held'[r] = [held[r] EXCEPT !.left = @ \ {current[r]}]
    BY <2>2 DEF BackfillTypes, TypeOK
  <2>5. /\ \A f \in held[r].listed \ held[r].left : Walked(f)'
        /\ Season[target[r]] \ held[r].listed \subseteq unlisted'
    BY <2>1, TrueStays, NoneIsNoCursor
  <2>6. held'[r].listed = held[r].listed /\ held'[r].left = held[r].left \ {current[r]}
    BY <2>1, <2>4 DEF Cursors
  <2> QED
    BY <2>2, <2>3, <2>5, <2>6 DEF True, Walked
<1>4. ASSUME NEW r \in Runs, Save(r)
      PROVE  /\ \A t \in Targets : True(t, cursor[t])'
             /\ UNCHANGED <<held, target>>
  <2>1. /\ target[r] \in Targets /\ held[r] \in Cursors \union {None}
        /\ True(target[r], held[r])
        /\ cursor' = [cursor EXCEPT ![target[r]] = held[r]]
        /\ UNCHANGED <<held, target>>
    BY <1>4 DEF Save, BackfillTypes, TypeOK, CursorsTrue
  <2>2. cursor'[target[r]] = held[r]
    BY <2>1 DEF BackfillTypes, TypeOK
  <2>3. \A t \in Targets : t # target[r] => cursor'[t] = cursor[t]
    BY <2>1 DEF BackfillTypes, TypeOK
  <2>4. True(target[r], cursor[target[r]])'
    BY <2>1, <2>2, TrueStays DEF True
  <2>5. ASSUME NEW t \in Targets PROVE True(t, cursor[t])'
    <3>1. CASE t = target[r]
      BY <2>1, <2>2, <3>1, TrueStays DEF True
    <3>2. CASE t # target[r]
      BY <2>3, <3>2, UntouchedTrue
    <3> QED
      BY <3>1, <3>2
  <2> QED
    BY <2>1, <2>5
<1>5. ASSUME NEW r \in Runs, SkipTarget(r) \/ EndTarget(r)
      PROVE  /\ held'[r] = None /\ UNCHANGED cursor
             /\ \A q \in Runs : q # r => UNCHANGED <<held[q], target[q]>>
  <2>1. PICK complete \in BOOLEAN, why \in {"no", "aborted", "halted"} :
            NextTarget(r, complete, why)
    <3>1. CASE SkipTarget(r)
      <4>1. /\ Complete(Cursor(r)) \in BOOLEAN /\ stopped[r] \in {"no", "aborted", "halted"}
            /\ NextTarget(r, Complete(Cursor(r)), stopped[r])
        BY <3>1 DEF SkipTarget, Complete, BackfillTypes, TypeOK
      <4> QED
        BY <4>1
    <3>2. CASE EndTarget(r)
      <4> DEFINE done == Complete(held[r]) /\ mode[r] # "abort"
                 reason == IF mode[r] = "abort" THEN "aborted"
                           ELSE IF budget[r] <= 0 THEN "halted" ELSE "no"
      <4>1. /\ done \in BOOLEAN /\ reason \in {"no", "aborted", "halted"}
            /\ NextTarget(r, done, reason)
        BY <3>2 DEF EndTarget
      <4> HIDE DEF done, reason
      <4> QED
        BY <4>1
    <3> QED
      BY <1>5, <3>1, <3>2
  <2>2. UNCHANGED cursor
    BY <1>5 DEF SkipTarget, EndTarget
  <2> QED
    BY <2>1, <2>2, NextTargetHands
<1>6. ASSUME NEW r \in Runs, Break(r)
      PROVE  /\ held'[r] = None /\ UNCHANGED cursor
             /\ \A q \in Runs : q # r => UNCHANGED <<held[q], target[q]>>
  BY <1>6 DEF Break, Leave, BackfillTypes, TypeOK
<1>7. ASSUME NEW r \in Runs,
             \/ ReadCursor(r)
             \/ Discover(r)
             \/ FetchPart(r)
      PROVE  /\ UNCHANGED <<cursor, target>>
             /\ \A q \in Runs : q # r => held'[q] = held[q]
  BY <1>7 DEF ReadCursor, Discover, FetchPart, BackfillTypes, TypeOK
<1>8. ASSUME NEW r \in Runs,
             \/ \E reset \in BOOLEAN : Begin(r, reset)
             \/ Standings(r) \/ StartFixture(r) \/ StopWalk(r)
      PROVE  UNCHANGED <<cursor, held, target>>
  BY <1>8 DEF Begin, Standings, StartFixture, StopWalk
<1>9. ASSUME NEW t \in Targets, Expire(t)
      PROVE  /\ UNCHANGED <<held, target>>
             /\ \A u \in Targets : cursor'[u] \in {cursor[u], None}
  BY <1>9 DEF Expire, runVars, BackfillTypes, TypeOK
<1>10. CASE \E r \in Runs : ReadCursor(r) \/ Discover(r) \/ FetchPart(r)
  <2>1. PICK r \in Runs : ReadCursor(r) \/ Discover(r) \/ FetchPart(r)
    BY <1>10
  <2>2. UNCHANGED <<cursor, target>> /\ \A q \in Runs : q # r => held'[q] = held[q]
    BY <1>7, <2>1
  <2>3. True(target[r], held[r])'
    <3>1. CASE held'[r] = held[r]
      BY <2>2, <3>1, UntouchedTrue
    <3> QED
      BY <1>1, <1>2, <1>3, <2>1, <3>1
  <2> QED
    BY <2>2, <2>3, UntouchedTrue
<1>11. CASE \E r \in Runs : SkipTarget(r) \/ EndTarget(r) \/ Break(r)
  <2>1. PICK r \in Runs : /\ held'[r] = None /\ UNCHANGED cursor
                          /\ \A q \in Runs : q # r => UNCHANGED <<held[q], target[q]>>
    BY <1>5, <1>6, <1>11
  <2>2. True(target[r], held[r])'
    BY <2>1 DEF True
  <2> QED
    BY <2>1, <2>2, UntouchedTrue
<1>12. CASE UNCHANGED vars
  BY <1>12, UntouchedTrue DEF vars, runVars
<1> QED
  BY <1>4, <1>8, <1>9, <1>10, <1>11, <1>12, UntouchedTrue DEF Next, Work

LEMMA CursorsInitiallyTrue == Init => CursorsTrue
BY DEF Init, CursorsTrue, True

(* However runs overlap, break off and hand on old cursors, a checkpoint   *)
(* passes walked fixtures only.                                            *)
THEOREM CheckpointsWalked == Spec => []CheckpointWalked
<1>1. Init => BackfillTypes /\ CursorsTrue
  BY TypesInitially, CursorsInitiallyTrue
<1>2. BackfillTypes /\ CursorsTrue /\ [Next]_vars => (BackfillTypes /\ CursorsTrue)'
  BY TypeInvariant, CursorsStayTrue
<1>3. CursorsTrue => CheckpointWalked
  BY DEF CursorsTrue, True, CheckpointWalked
<1> QED
  BY <1>1, <1>2, <1>3, PTL DEF Spec

(* A target whose true cursor has nothing left is accounted for. *)
LEMMA CompleteIsExplained ==
    ASSUME NEW t \in Targets, NEW c \in Cursors \union {None}, True(t, c), Complete(c)
    PROVE  Explained(t)
BY DEF True, Complete, Explained

(* What a run has been through stays accounted for. *)
LEMMA ExplainedStays ==
    ASSUME BackfillTypes, [Next]_vars, NEW t \in Targets, Explained(t)
    PROVE  Explained(t)'
BY HistoryGrows, FixturesNumbered DEF Explained

(* A run that is done with a target has accounted for it, if it says so. *)
LEMMA NextTargetReports ==
    ASSUME BackfillTypes, ReportsTrue, [Next]_vars, NEW r \in Runs, NEW complete \in BOOLEAN,
           NEW why \in {"no", "aborted", "halted"}, NextTarget(r, complete, why),
           complete => Explained(target[r])
    PROVE  /\ whole'[r] => \A t \in Targets : t < target'[r] => Explained(t)'
           /\ reported'[r] = "complete" => \A t \in Targets : Explained(t)'
           /\ \A q \in Runs : q # r => UNCHANGED <<whole[q], target[q], reported[q]>>
<1> USE DEF BackfillTypes, TypeOK
<1>1. CASE /\ target[r] < LastTarget
           /\ target' = [target EXCEPT ![r] = @ + 1]
           /\ whole' = [whole EXCEPT ![r] = @ /\ complete]
           /\ UNCHANGED reported
  <2>1. target'[r] = target[r] + 1 /\ whole'[r] = (whole[r] /\ complete) /\ reported'[r] = reported[r]
    BY <1>1
  <2>2. ASSUME whole[r], complete, NEW t \in Targets, t < target[r] + 1 PROVE Explained(t)
    <3>1. t < target[r] \/ t = target[r]
      BY <2>2 DEF Targets
    <3> QED
      BY <2>2, <3>1 DEF ReportsTrue
  <2>3. whole'[r] => \A t \in Targets : t < target'[r] => Explained(t)'
    BY <2>1, <2>2, ExplainedStays
  <2>4. reported'[r] = "complete" => \A t \in Targets : Explained(t)'
    BY <2>1, ExplainedStays DEF ReportsTrue
  <2>5. \A q \in Runs : q # r => UNCHANGED <<whole[q], target[q], reported[q]>>
    BY <1>1
  <2> QED
    BY <2>3, <2>4, <2>5
<1>2. CASE /\ target[r] = LastTarget
           /\ Leave(r, IF why = "aborted" THEN "aborted"
                       ELSE IF whole[r] /\ complete THEN "complete" ELSE "incomplete")
  <2>1. target'[r] = 1 /\ (reported'[r] = "complete" => whole[r] /\ complete)
    BY <1>2 DEF Leave
  <2>2. \A t \in Targets : ~(t < target'[r])
    BY <2>1 DEF Targets
  <2>3. ASSUME whole[r], complete, NEW t \in Targets PROVE Explained(t)
    <3>1. t < target[r] \/ t = target[r]
      BY <1>2, TargetsAssumption DEF Targets
    <3> QED
      BY <2>3, <3>1 DEF ReportsTrue
  <2>4. \A q \in Runs : q # r => UNCHANGED <<whole[q], target[q], reported[q]>>
    BY <1>2 DEF Leave
  <2> QED
    BY <2>1, <2>2, <2>3, <2>4, ExplainedStays
<1> QED
  BY <1>1, <1>2 DEF NextTarget

(* Every action keeps the reports true. *)
LEMMA ReportsStayTrue ==
    ASSUME BackfillInv, [Next]_vars
    PROVE  ReportsTrue'
<1> USE DEF BackfillInv
<1> DEFINE Kept(r) == UNCHANGED <<whole[r], target[r]>> /\ reported'[r] \in {reported[r], "none"}
<1>1. ASSUME NEW r \in Runs, Kept(r)
      PROVE  /\ whole'[r] => \A t \in Targets : t < target'[r] => Explained(t)'
             /\ reported'[r] = "complete" => \A t \in Targets : Explained(t)'
  BY <1>1, ExplainedStays DEF ReportsTrue
<1>2. ASSUME NEW r \in Runs, NEW complete \in BOOLEAN,
             NEW why \in {"no", "aborted", "halted"}, NextTarget(r, complete, why),
             complete => Explained(target[r])
      PROVE  ReportsTrue'
  <2>1. \A q \in Runs : q # r => Kept(q)
    BY <1>2, NextTargetReports
  <2> HIDE DEF Kept
  <2> QED
    BY <1>1, <1>2, <2>1, NextTargetReports DEF ReportsTrue
<1>3. ASSUME NEW r \in Runs, SkipTarget(r) PROVE ReportsTrue'
  <2>1. /\ Complete(Cursor(r)) \in BOOLEAN /\ stopped[r] \in {"no", "aborted", "halted"}
        /\ NextTarget(r, Complete(Cursor(r)), stopped[r])
    BY <1>3 DEF SkipTarget, Complete, BackfillTypes, TypeOK
  <2>2. /\ target[r] \in Targets
        /\ cursor[target[r]] \in Cursors \union {None} /\ True(target[r], cursor[target[r]])
    BY DEF BackfillTypes, TypeOK, CursorsTrue
  <2>3. Complete(Cursor(r)) => Explained(target[r])
    BY <2>2, CompleteIsExplained DEF Cursor, Complete
  <2> QED
    BY <1>2, <2>1, <2>3
<1>4. ASSUME NEW r \in Runs, EndTarget(r) PROVE ReportsTrue'
  <2> DEFINE done == Complete(held[r]) /\ mode[r] # "abort"
             reason == IF mode[r] = "abort" THEN "aborted"
                       ELSE IF budget[r] <= 0 THEN "halted" ELSE "no"
  <2>1. done \in BOOLEAN /\ reason \in {"no", "aborted", "halted"} /\ NextTarget(r, done, reason)
    BY <1>4 DEF EndTarget
  <2>2. done => Explained(target[r])
    BY CompleteIsExplained DEF BackfillTypes, TypeOK, CursorsTrue
  <2> HIDE DEF done, reason
  <2> QED
    BY <1>2, <2>1, <2>2
<1>5. ASSUME NEW r \in Runs, Break(r) PROVE ReportsTrue'
  <2>1. /\ target'[r] = 1 /\ reported'[r] = "none"
        /\ \A q \in Runs : q # r => Kept(q)
    BY <1>5 DEF Break, Leave, BackfillTypes, TypeOK
  <2>2. \A t \in Targets : ~(t < 1)
    BY DEF Targets
  <2> HIDE DEF Kept
  <2> QED
    BY <1>1, <2>1, <2>2 DEF ReportsTrue
<1>6. ASSUME NEW r \in Runs, NEW reset \in BOOLEAN, Begin(r, reset) PROVE \A q \in Runs : Kept(q)
  BY <1>6 DEF Begin, BackfillTypes, TypeOK
<1>7. ASSUME NEW r \in Runs,
             \/ ReadCursor(r) \/ Standings(r) \/ Discover(r) \/ Save(r)
             \/ StartFixture(r) \/ FetchPart(r) \/ StopWalk(r)
      PROVE  \A q \in Runs : Kept(q)
  BY <1>7 DEF ReadCursor, Standings, Discover, Save, StartFixture, FetchPart, StopWalk
<1>8. ASSUME (\E t \in Targets : Expire(t)) \/ UNCHANGED vars PROVE \A q \in Runs : Kept(q)
  BY <1>8 DEF Expire, vars, runVars
<1>9. (\A q \in Runs : Kept(q)) => ReportsTrue'
  <2> HIDE DEF Kept
  <2> QED
    BY <1>1 DEF ReportsTrue
<1> HIDE DEF Kept, BackfillInv
<1> QED
  BY <1>3, <1>4, <1>5, <1>6, <1>7, <1>8, <1>9 DEF Next, Work

(* A run that reports 'complete' has imported its seasons, but for what an *)
(* abort cut short and what a discovery left out: for any number of runs.  *)
THEOREM CompleteMeansImported == Spec => []CompleteExplained
<1>1. Init => ReportsTrue
  <2>1. \A t \in Targets : ~(t < 1)
    BY DEF Targets
  <2> QED
    BY <2>1 DEF Init, ReportsTrue
<1>2. Init => BackfillInv
  BY <1>1, TypesInitially, CursorsInitiallyTrue DEF BackfillInv
<1>3. BackfillInv /\ [Next]_vars => BackfillInv'
  BY TypeInvariant, CursorsStayTrue, ReportsStayTrue DEF BackfillInv
<1>4. BackfillInv => CompleteExplained
  <2>1. \A f \in Fixtures : \E t \in Targets : f \in Season[t]
    BY DEF Fixtures
  <2> QED
    BY <2>1 DEF BackfillInv, ReportsTrue, Explained, CompleteExplained
<1> QED
  BY <1>2, <1>3, <1>4, PTL DEF Spec

(* A run that is done with a target has calls left, unless it was stopped. *)
LEMMA NextTargetBudget ==
    ASSUME BackfillTypes, BudgetKept, NEW r \in Runs, NEW complete \in BOOLEAN,
           NEW why \in {"no", "aborted", "halted"}, NextTarget(r, complete, why),
           why = "no" => budget[r] > 0
    PROVE  BudgetKept'
<1> USE BackfillBounds DEF BackfillTypes, TypeOK, BudgetKept, Parts
<1>1. CASE /\ target[r] < LastTarget
           /\ Goto(r, "read")
           /\ stopped' = [stopped EXCEPT ![r] = why]
           /\ UNCHANGED <<budget, part>>
  BY <1>1 DEF Goto
<1>2. CASE Leave(r, IF why = "aborted" THEN "aborted"
                    ELSE IF whole[r] /\ complete THEN "complete" ELSE "incomplete")
  BY <1>2 DEF Leave, Goto
<1> QED
  BY <1>1, <1>2 DEF NextTarget

(* Every action keeps the budget. *)
LEMMA BudgetStays ==
    ASSUME BackfillTypes, BudgetKept, [Next]_vars
    PROVE  BudgetKept'
<1> USE BackfillBounds DEF BackfillTypes, TypeOK, BudgetKept, Parts
<1>1. ASSUME NEW r \in Runs, NEW reset \in BOOLEAN, Begin(r, reset) PROVE BudgetKept'
  BY <1>1 DEF Begin, Goto
<1>2. ASSUME NEW r \in Runs, ReadCursor(r) PROVE BudgetKept'
  BY <1>2 DEF ReadCursor, Goto
<1>3. ASSUME NEW r \in Runs, SkipTarget(r) PROVE BudgetKept'
  <2>1. /\ Complete(Cursor(r)) \in BOOLEAN /\ stopped[r] \in {"no", "aborted", "halted"}
        /\ stopped[r] # "no" /\ NextTarget(r, Complete(Cursor(r)), stopped[r])
    BY <1>3 DEF SkipTarget, Complete
  <2> QED
    BY <2>1, NextTargetBudget
<1>4. ASSUME NEW r \in Runs, Standings(r) PROVE BudgetKept'
  <2>1. /\ budget' \in [Runs -> Int] /\ budget'[r] = budget[r] - 1
        /\ \A q \in Runs : q # r => budget'[q] = budget[q]
    BY <1>4, AccumulateType DEF Standings
  <2>2. at'[r] = "end" \/ (at'[r] = "discover" /\ budget'[r] > 0)
    <3>1. at'[r] = IF mode'[r] = "abort" \/ budget'[r] <= 0 THEN "end" ELSE "discover"
      BY <1>4 DEF Standings, Goto
    <3>2. budget'[r] \in Int
      BY <2>1
    <3> QED
      BY <3>1, <3>2
  <2>3. /\ \A q \in Runs : q # r => at'[q] = at[q]
        /\ UNCHANGED <<stopped, part>> /\ budget[r] > 0
    BY <1>4 DEF Standings, Goto
  <2> QED
    BY <2>1, <2>2, <2>3
<1>5. ASSUME NEW r \in Runs, Discover(r) PROVE BudgetKept'
  <2>1. /\ budget' \in [Runs -> Int] /\ budget'[r] = budget[r] - 1
        /\ \A q \in Runs : q # r => budget'[q] = budget[q]
    BY <1>5, AccumulateType DEF Discover
  <2>2. /\ at'[r] \in {"end", "save"} /\ \A q \in Runs : q # r => at'[q] = at[q]
        /\ UNCHANGED <<stopped, part>> /\ budget[r] > 0
    BY <1>5 DEF Discover, Goto
  <2> QED
    BY <2>1, <2>2
<1>6. ASSUME NEW r \in Runs, Save(r) \/ StopWalk(r) PROVE BudgetKept'
  BY <1>6 DEF Save, StopWalk, Goto
<1>7. ASSUME NEW r \in Runs, StartFixture(r) PROVE BudgetKept'
  BY <1>7 DEF StartFixture, Goto
<1>8. ASSUME NEW r \in Runs, FetchPart(r) PROVE BudgetKept'
  <2>1. /\ budget' \in [Runs -> Int] /\ budget'[r] = budget[r] - 1
        /\ \A q \in Runs : q # r => budget'[q] = budget[q]
    BY <1>8, AccumulateType DEF FetchPart
  <2>2. /\ UNCHANGED stopped /\ at[r] = "fetch"
        /\ \A q \in Runs : q # r => at'[q] = at[q] /\ part'[q] = part[q]
        /\ \/ at'[r] = "fetch" /\ part'[r] = part[r] + 1
           \/ at'[r] = "save"
    BY <1>8 DEF FetchPart, Goto
  <2> QED
    BY <2>1, <2>2
<1>9. ASSUME NEW r \in Runs, EndTarget(r) PROVE BudgetKept'
  <2> DEFINE done == Complete(held[r]) /\ mode[r] # "abort"
             reason == IF mode[r] = "abort" THEN "aborted"
                       ELSE IF budget[r] <= 0 THEN "halted" ELSE "no"
  <2>1. /\ done \in BOOLEAN /\ reason \in {"no", "aborted", "halted"}
        /\ NextTarget(r, done, reason)
    BY <1>9 DEF EndTarget
  <2>2. reason = "no" => budget[r] > 0
    OBVIOUS
  <2> HIDE DEF done, reason
  <2> QED
    BY <2>1, <2>2, NextTargetBudget
<1>10. ASSUME NEW r \in Runs, Break(r) PROVE BudgetKept'
  BY <1>10 DEF Break, Leave, Goto
<1>11. ASSUME NEW t \in Targets, Expire(t) PROVE BudgetKept'
  BY <1>11 DEF Expire, runVars
<1>12. CASE UNCHANGED vars
  BY <1>12 DEF vars, runVars
<1> QED
  BY <1>1, <1>2, <1>3, <1>4, <1>5, <1>6, <1>7, <1>8, <1>9, <1>10, <1>11, <1>12
     DEF Next, Work

(* Whatever the budget, a run oversteps it by fewer calls than a fixture   *)
(* has payloads.                                                           *)
THEOREM OverrunIsBounded == Spec => []OverrunBounded
<1>1. Init => BackfillTypes /\ BudgetKept
  <2>1. Init => BudgetKept
    BY BackfillBounds DEF Init, BudgetKept, Parts
  <2> QED
    BY <2>1, TypesInitially
<1>2. BackfillTypes /\ BudgetKept /\ [Next]_vars => (BackfillTypes /\ BudgetKept)'
  BY TypeInvariant, BudgetStays
<1>3. BudgetKept => OverrunBounded
  BY DEF BudgetKept, OverrunBounded
<1> QED
  BY <1>1, <1>2, <1>3, PTL DEF Spec

(***************************************************************************)
(* What a broken run loses.  While runs do not overlap and no cursor is    *)
(* lost or thrown away, there is one run at most, it is in step with the   *)
(* persisted cursor, and the fixtures begun so far come before those the   *)
(* cursor has left: at most one fixture is begun and left, and a run is at *)
(* it or a run broke off at it that no walk has made good yet.             *)
(***************************************************************************)

Begun(f) == asked[f] # "none"

ListsOk ==
    /\ \A t \in Targets : cursor[t] # None =>
            cursor[t].listed \subseteq Season[t] /\ cursor[t].left \subseteq cursor[t].listed
    /\ \A r \in Runs : held[r] # None =>
            held[r].listed \subseteq Season[target[r]] /\ held[r].left \subseteq held[r].listed

Alone ==
    /\ \A q, r \in Runs : at[q] # "idle" /\ at[r] # "idle" => q = r
    /\ \A r \in Runs : ~fresh[r]

InStepAt(r) ==
    /\ at[r] \in {"standings", "discover"} => cursor[target[r]] = None
    /\ at[r] \in {"walk", "fetch"} => held[r] = cursor[target[r]]
    /\ at[r] = "fetch" =>
          /\ current[r] \in held[r].left
          /\ \A g \in held[r].left : current[r] <= g
    /\ at[r] = "save" =>
          /\ \A g \in held[r].left : ~Begun(g)
          /\ cursor[target[r]] # None =>
                /\ held[r].listed = cursor[target[r]].listed
                /\ held[r].left \subseteq cursor[target[r]].left
InStep == \A r \in Runs : InStepAt(r)

BegunFirst ==
    \A t \in Targets : \A f \in Season[t] : Begun(f) =>
        /\ cursor[t] # None
        /\ f \in cursor[t].listed
        /\ \A g \in cursor[t].left : f <= g

Walking(t) == \E r \in Runs : at[r] \in {"fetch", "save"} /\ target[r] = t
Pending(t) == cursor[t] # None /\ \E f \in cursor[t].left : Begun(f)
OwedByBreaks == \A t \in Targets : Pending(t) /\ ~Walking(t) => again[t] < broken[t]

LossInv ==
    /\ ListsOk /\ BreakLosesOne
    /\ ~Excused => Alone /\ InStep /\ BegunFirst /\ OwedByBreaks

(* Lists stay lists of their season. *)
LEMMA ListsStay ==
    ASSUME BackfillTypes, ListsOk, [Next]_vars
    PROVE  ListsOk'
<1> USE DEF BackfillTypes, TypeOK, ListsOk
<1>1. ASSUME NEW r \in Runs, ReadCursor(r) PROVE ListsOk'
  BY <1>1 DEF ReadCursor, Cursor
<1>2. ASSUME NEW r \in Runs, Discover(r) PROVE ListsOk'
  <2>1. \/ UNCHANGED held
        \/ \E final \in SUBSET Season[target[r]] :
              held' = [held EXCEPT ![r] = [listed |-> final, left |-> final]]
    BY <1>2 DEF Discover, Finalised
  <2> QED
    BY <1>2, <2>1 DEF Discover
<1>3. ASSUME NEW r \in Runs, Save(r) PROVE ListsOk'
  BY <1>3 DEF Save, HandsFull
<1>4. ASSUME NEW r \in Runs, FetchPart(r) PROVE ListsOk'
  <2>1. held[r] # None /\ held[r] \in Cursors
    BY <1>4 DEF FetchPart, HandsFull
  <2>2. \/ UNCHANGED held
        \/ held' = [held EXCEPT ![r].left = @ \ {current[r]}]
    BY <1>4 DEF FetchPart
  <2>3. CASE UNCHANGED held
    BY <1>4, <2>3 DEF FetchPart
  <2>4. CASE held' = [held EXCEPT ![r].left = @ \ {current[r]}]
    <3>1. /\ held'[r].listed = held[r].listed /\ held'[r].left \subseteq held[r].left
          /\ \A q \in Runs : q # r => held'[q] = held[q]
      BY <2>1, <2>4 DEF Cursors
    <3> QED
      BY <1>4, <2>1, <3>1 DEF FetchPart
  <2> QED
    BY <2>2, <2>3, <2>4
<1>5. ASSUME NEW r \in Runs, SkipTarget(r) \/ EndTarget(r) \/ Break(r)
      PROVE  /\ held'[r] = None /\ UNCHANGED cursor
             /\ \A q \in Runs : q # r => UNCHANGED <<held[q], target[q]>>
  BY <1>5 DEF SkipTarget, EndTarget, NextTarget, Break, Leave
<1>6. ASSUME NEW r \in Runs,
             \/ \E reset \in BOOLEAN : Begin(r, reset)
             \/ Standings(r) \/ StartFixture(r) \/ StopWalk(r)
      PROVE  UNCHANGED <<cursor, held, target>>
  BY <1>6 DEF Begin, Standings, StartFixture, StopWalk
<1>7. ASSUME NEW t \in Targets, Expire(t) PROVE ListsOk'
  BY <1>7 DEF Expire, runVars
<1>8. CASE UNCHANGED vars
  BY <1>8 DEF vars, runVars
<1> QED
  BY <1>1, <1>2, <1>3, <1>4, <1>5, <1>6, <1>7, <1>8 DEF Next, Work

(* A run that leaves the cursors and the history alone owes no more, if    *)
(* the targets that were walked are still walked.                          *)
LEMMA NothingBegun ==
    ASSUME UNCHANGED <<cursor, asked>>, \A t \in Targets : again'[t] = again[t] /\ broken'[t] = broken[t],
           \A t \in Targets : Walking(t) => Walking(t)'
    PROVE  (BegunFirst => BegunFirst') /\ (OwedByBreaks => OwedByBreaks')
BY DEF BegunFirst, OwedByBreaks, Begun, Pending

(* The one run there is goes on: the others stay idle. *)
LEMMA OthersIdle ==
    ASSUME Alone, NEW r \in Runs, at[r] # "idle",
           \A q \in Runs : q # r => at'[q] = at[q],
           \A q \in Runs : fresh'[q] \in {fresh[q], FALSE}
    PROVE  /\ Alone'
           /\ \A q \in Runs : q # r => at[q] = "idle" /\ at'[q] = "idle"
           /\ InStepAt(r)' => InStep'
BY DEF Alone, InStep, InStepAt

(* A run that is done with its target, and one that breaks off, has        *)
(* nothing in its hands.                                                   *)
LEMMA LeavingIsInStep ==
    ASSUME NEW r \in Runs, at'[r] \in {"idle", "read", "end"}
    PROVE  InStepAt(r)'
BY DEF InStepAt

(* Each step of the one run keeps the import in step. *)
LEMMA StepsInStep ==
    ASSUME BackfillTypes, LossInv, [Next]_vars, ~Excused'
    PROVE  (Alone /\ InStep /\ BegunFirst /\ OwedByBreaks)'
<1> USE DEF BackfillTypes, TypeOK
<1>0. overlap \in BOOLEAN /\ expiries \in Nat /\ resets \in Nat
  BY BackfillBounds
<1>1. ASSUME NEW r \in Runs, NEW reset \in BOOLEAN, Begin(r, reset), ~Excused
      PROVE  (Alone /\ InStep /\ BegunFirst /\ OwedByBreaks)'
  <2>0. ~overlap' /\ ~(resets' > 0)
    BY DEF Excused
  <2>1. ~reset
    BY <1>1, <1>0, <2>0 DEF Begin
  <2>4. \A q \in Runs : at[q] = "idle"
    <3> HIDE DEF BackfillTypes, TypeOK
    <3> QED
      BY <1>1, <2>0, Zenon DEF Begin
  <2>2. Alone' /\ InStep'
    BY <1>1, <2>1, <2>4 DEF LossInv, Alone, InStep, InStepAt, Begin, Goto
  <2>3. \A t \in Targets : ~Walking(t)
    BY <2>4 DEF Walking
  <2> QED
    BY <1>1, <2>2, <2>3, NothingBegun DEF Begin, LossInv
<1>2. ASSUME NEW r \in Runs, ~Excused,
             \/ ReadCursor(r) \/ SkipTarget(r) \/ Standings(r) \/ Discover(r) \/ Save(r)
             \/ StartFixture(r) \/ FetchPart(r) \/ StopWalk(r) \/ EndTarget(r) \/ Break(r)
      PROVE  /\ at[r] # "idle" /\ \A q \in Runs : q # r => at'[q] = at[q]
             /\ Alone' /\ (InStepAt(r)' => InStep')
             /\ \A q \in Runs : q # r => at[q] = "idle" /\ at'[q] = "idle"
  <2>1. at[r] # "idle" /\ \A q \in Runs : q # r => at'[q] = at[q]
    BY <1>2 DEF ReadCursor, SkipTarget, Standings, Discover, Save, StartFixture,
       FetchPart, StopWalk, EndTarget, Break, NextTarget, Leave, Goto
  <2>2. \A q \in Runs : fresh'[q] \in {fresh[q], FALSE}
    BY <1>2 DEF ReadCursor, SkipTarget, Standings, Discover, Save, StartFixture,
       FetchPart, StopWalk, EndTarget, Break, NextTarget, Leave
  <2> QED
    BY <1>2, <2>1, <2>2, OthersIdle DEF LossInv
<1>3. ASSUME NEW r \in Runs, ReadCursor(r), ~Excused
      PROVE  (Alone /\ InStep /\ BegunFirst /\ OwedByBreaks)'
  <2>0. /\ Alone' /\ (InStepAt(r)' => InStep')
        /\ \A q \in Runs : q # r => at[q] = "idle"
    BY <1>2, <1>3
  <2>1. InStepAt(r)'
    BY <1>3 DEF ReadCursor, Goto, Cursor, InStepAt, LossInv, Alone
  <2>2. \A t \in Targets : Walking(t) => Walking(t)'
    BY <1>3 DEF ReadCursor, Goto, Walking
  <2> QED
    BY <2>0, <1>3, <2>1, <2>2, NothingBegun DEF ReadCursor, history, LossInv
<1>4. ASSUME NEW r \in Runs, Standings(r), ~Excused
      PROVE  (Alone /\ InStep /\ BegunFirst /\ OwedByBreaks)'
  <2>0. /\ Alone' /\ (InStepAt(r)' => InStep')
        /\ \A q \in Runs : q # r => at[q] = "idle"
    BY <1>2, <1>4
  <2>1. InStepAt(r)'
    BY <1>4 DEF Standings, Goto, InStep, InStepAt, LossInv
  <2>2. \A t \in Targets : Walking(t) => Walking(t)'
    BY <1>4 DEF Standings, Goto, Walking
  <2> QED
    BY <2>0, <1>4, <2>1, <2>2, NothingBegun DEF Standings, history, LossInv
<1>5. ASSUME NEW r \in Runs, Discover(r), ~Excused
      PROVE  (Alone /\ InStep /\ BegunFirst /\ OwedByBreaks)'
  <2>0. /\ Alone' /\ (InStepAt(r)' => InStep')
        /\ \A q \in Runs : q # r => at[q] = "idle"
    BY <1>2, <1>5
  <2>1. cursor[target[r]] = None
    BY <1>5 DEF Discover, InStep, InStepAt, LossInv
  <2>2. \A f \in Season[target[r]] : ~Begun(f)
    BY <1>5, <2>1 DEF LossInv, BegunFirst
  <2>3. InStepAt(r)'
    <3>1. CASE at'[r] = "end"
      BY <3>1, LeavingIsInStep
    <3>2. ASSUME NEW final \in SUBSET Season[target[r]], Goto(r, "save"),
                 held' = [held EXCEPT ![r] = [listed |-> final, left |-> final]]
          PROVE  InStepAt(r)'
      <4>1. at'[r] = "save" /\ held'[r].left = final
        BY <3>2 DEF Goto
      <4>2. UNCHANGED <<asked, cursor, target>>
        BY <1>5 DEF Discover
      <4> QED
        BY <2>1, <2>2, <4>1, <4>2 DEF InStepAt, Begun
    <3> QED
      BY <1>5, <3>1, <3>2 DEF Discover, Goto, Finalised
  <2>4. \A t \in Targets : Walking(t) => Walking(t)'
    BY <1>5 DEF Discover, Goto, Walking
  <2> QED
    BY <2>0, <1>5, <2>3, <2>4, NothingBegun DEF Discover, LossInv
<1>6. ASSUME NEW r \in Runs, Save(r), ~Excused
      PROVE  (Alone /\ InStep /\ BegunFirst /\ OwedByBreaks)'
  <2>0. /\ Alone' /\ (InStepAt(r)' => InStep')
        /\ \A q \in Runs : q # r => at[q] = "idle"
    BY <1>2, <1>6
  <2> DEFINE t == target[r]
  <2>1. /\ held[r] # None /\ held[r] \in Cursors /\ t \in Targets
        /\ cursor' = [cursor EXCEPT ![t] = held[r]]
        /\ cursor'[t] = held[r] /\ \A u \in Targets : u # t => cursor'[u] = cursor[u]
        /\ at'[r] = "walk" /\ at[r] = "save"
        /\ UNCHANGED <<held, asked, again, broken, target>>
    BY <1>6 DEF Save, Goto, HandsFull, history
  <2>2. /\ \A g \in held[r].left : ~Begun(g)
        /\ cursor[t] # None => /\ held[r].listed = cursor[t].listed
                               /\ held[r].left \subseteq cursor[t].left
    BY <1>6, <2>1 DEF LossInv, InStep, InStepAt
  <2>3. InStepAt(r)'
    BY <2>1 DEF InStepAt
  <2>4. BegunFirst'
    BY <1>6, <2>1, <2>2 DEF LossInv, BegunFirst, Begun
  <2>5. ~Pending(t)'
    BY <2>1, <2>2 DEF Pending, Begun
  <2>6. \A u \in Targets : u # t => ~Walking(u)
    BY <2>0, <1>6 DEF Walking
  <2>7. OwedByBreaks'
    BY <1>6, <2>1, <2>5, <2>6 DEF LossInv, OwedByBreaks, Pending, Begun
  <2> QED
    BY <2>0, <1>6, <2>3, <2>4, <2>7
<1>7. ASSUME NEW r \in Runs, StartFixture(r), ~Excused
      PROVE  (Alone /\ InStep /\ BegunFirst /\ OwedByBreaks)'
  <2>0. /\ Alone' /\ (InStepAt(r)' => InStep')
        /\ \A q \in Runs : q # r => at[q] = "idle"
    BY <1>2, <1>7
  <2> DEFINE t == target[r]
  <2>1. PICK f \in held[r].left :
          /\ \A g \in held[r].left : f <= g
          /\ current' = [current EXCEPT ![r] = f]
          /\ again' = IF asked[f] = "none" \/ Excused THEN again
                      ELSE [again EXCEPT ![target[r]] = @ + 1]
    BY <1>7 DEF StartFixture
  <2>2. InStepAt(r)'
    BY <1>7, <2>1 DEF StartFixture, Goto, LossInv, InStep, InStepAt
  <2>3. BegunFirst'
    BY <1>7 DEF StartFixture, LossInv, BegunFirst, Begun
  <2>4. at'[r] = "fetch" /\ target'[r] = t /\ t \in Targets
    BY <1>7 DEF StartFixture, Goto
  <2>5. Walking(t)'
    BY <2>4 DEF Walking
  <2>6. \A u \in Targets : u # t => ~Walking(u)
    BY <2>0, <1>7 DEF Walking
  <2>7. \A u \in Targets : u # t => again'[u] = again[u]
    BY <2>1
  <2>8. OwedByBreaks'
    BY <1>7, <2>5, <2>6, <2>7 DEF StartFixture, LossInv, OwedByBreaks, Pending, Begun
  <2> QED
    BY <2>0, <1>7, <2>2, <2>3, <2>8
<1>8. ASSUME NEW r \in Runs, FetchPart(r), ~Excused
      PROVE  (Alone /\ InStep /\ BegunFirst /\ OwedByBreaks)'
  <2>0. /\ Alone' /\ (InStepAt(r)' => InStep')
        /\ \A q \in Runs : q # r => at[q] = "idle"
    BY <1>2, <1>8
  <2> DEFINE t == target[r]
             f == current[r]
  <2>1. /\ held[r] # None /\ held[r] = cursor[t] /\ held[r] \in Cursors /\ t \in Targets
        /\ f \in cursor[t].left /\ \A g \in cursor[t].left : f <= g
    BY <1>8 DEF FetchPart, HandsFull, LossInv, InStep, InStepAt
  <2>2. cursor[t].left \subseteq cursor[t].listed /\ cursor[t].listed \subseteq Season[t]
    BY <2>1 DEF LossInv, ListsOk
  <2>3. /\ UNCHANGED <<cursor, again, broken, target>>
        /\ \A g \in Fixtures : g # f => asked'[g] = asked[g]
    BY <1>8 DEF FetchPart
  <2>4. \A u \in Targets : u # t => f \notin Season[u]
    BY <2>1, <2>2, SeasonAssumption
  <2>5. \A u \in Targets : \A g \in Season[u] : g # f => (Begun(g)' <=> Begun(g))
    BY <2>3, FixturesNumbered DEF Begun
  <2>6. BegunFirst'
    BY <1>8, <2>1, <2>2, <2>3, <2>4, <2>5 DEF LossInv, BegunFirst
  <2>7. \/ at'[r] = "fetch" /\ UNCHANGED held
        \/ at'[r] = "save" /\ held'[r].left = cursor[t].left \ {f} /\ held'[r].listed = cursor[t].listed
    BY <1>8, <2>1 DEF FetchPart, Goto, Cursors
  <2>8. ASSUME at'[r] = "save", held'[r].left = cursor[t].left \ {f}, held'[r].listed = cursor[t].listed
        PROVE  InStepAt(r)'
    <3>1. \A g \in cursor[t].left \ {f} : ~Begun(g)
      <4>1. ASSUME NEW g \in cursor[t].left, Begun(g) PROVE g = f
        <5>1. g \in Season[t]
          BY <2>2
        <5>2. g <= f
          BY <1>8, <2>1, <4>1, <5>1 DEF LossInv, BegunFirst
        <5>3. f <= g /\ g \in Nat /\ f \in Nat
          BY <2>1, <2>2, FixturesNumbered
        <5> QED
          BY <5>2, <5>3
      <4> QED
        BY <4>1
    <3>2. \A g \in held'[r].left : ~Begun(g)'
      BY <2>2, <2>5, <2>8, <3>1
    <3>3. /\ target'[r] = t /\ cursor'[t] = cursor[t]
          /\ held'[r].listed = cursor[t].listed /\ held'[r].left \subseteq cursor[t].left
      BY <2>3, <2>8
    <3> HIDE DEF BackfillTypes, TypeOK, t, f
    <3> QED
      BY <2>8, <3>2, <3>3 DEF InStepAt
  <2>9. ASSUME at'[r] = "fetch", UNCHANGED held
        PROVE  InStepAt(r)'
    <3>1. UNCHANGED current
      BY <1>8 DEF FetchPart
    <3>2. /\ target'[r] = t /\ cursor'[t] = cursor[t] /\ held'[r] = cursor[t] /\ current'[r] = f
      BY <2>1, <2>3, <2>9, <3>1
    <3> HIDE DEF BackfillTypes, TypeOK, t, f
    <3> QED
      BY <2>1, <2>9, <3>2 DEF InStepAt
  <2>10. Walking(t)'
    BY <2>3, <2>7 DEF Walking
  <2>11. \A u \in Targets : u # t => ~Walking(u)
    BY <2>0, <1>8 DEF Walking
  <2>12. \A u \in Targets : u # t => (Pending(u)' => Pending(u))
    BY <2>3, <2>4, <2>5 DEF Pending, LossInv, ListsOk
  <2>13. OwedByBreaks'
    BY <1>8, <2>3, <2>10, <2>11, <2>12 DEF LossInv, OwedByBreaks
  <2> QED
    BY <2>0, <1>8, <2>6, <2>7, <2>8, <2>9, <2>13
<1>9. ASSUME NEW r \in Runs, StopWalk(r) \/ SkipTarget(r) \/ EndTarget(r), ~Excused
      PROVE  (Alone /\ InStep /\ BegunFirst /\ OwedByBreaks)'
  <2>0. /\ Alone' /\ (InStepAt(r)' => InStep')
        /\ \A q \in Runs : q # r => at[q] = "idle"
    BY <1>2, <1>9
  <2>1. /\ at'[r] \in {"idle", "read", "end"} /\ at[r] \in {"walk", "read", "end"}
        /\ UNCHANGED <<cursor, asked, again, broken>>
        /\ \A q \in Runs : q # r => at'[q] = at[q] /\ target'[q] = target[q]
    BY <1>9 DEF StopWalk, SkipTarget, EndTarget, NextTarget, Leave, Goto, history
  <2>2. \A t \in Targets : Walking(t) => Walking(t)'
    BY <2>1 DEF Walking
  <2> QED
    BY <2>0, <1>9, <2>1, <2>2, NothingBegun, LeavingIsInStep DEF LossInv
<1>10. ASSUME NEW r \in Runs, Break(r), ~Excused
       PROVE  (Alone /\ InStep /\ BegunFirst /\ OwedByBreaks)'
  <2>0. /\ Alone' /\ (InStepAt(r)' => InStep')
        /\ \A q \in Runs : q # r => at[q] = "idle"
    BY <1>2, <1>10
  <2> DEFINE t == target[r]
  <2>1. /\ at'[r] = "idle" /\ t \in Targets
        /\ UNCHANGED <<cursor, asked, again>>
        /\ broken'[t] = broken[t] + 1 /\ \A u \in Targets : u # t => broken'[u] = broken[u]
    BY <1>10 DEF Break, Leave, Goto
  <2>2. \A u \in Targets : u # t => ~Walking(u)
    BY <2>0, <1>10 DEF Walking
  <2>3. BegunFirst'
    BY <1>10, <2>1 DEF LossInv, BegunFirst, Begun
  <2>4. again[t] <= broken[t] /\ again[t] \in Nat /\ broken[t] \in Nat
    BY <2>1 DEF LossInv, BreakLosesOne
  <2>5. OwedByBreaks'
    BY <1>10, <2>1, <2>2, <2>4 DEF LossInv, OwedByBreaks, Pending, Begun
  <2> QED
    BY <2>0, <1>10, <2>1, <2>3, <2>5, LeavingIsInStep
<1>11. ASSUME NEW t \in Targets, Expire(t) PROVE FALSE
  BY <1>0, <1>11 DEF Expire, Excused
<1>12. ASSUME UNCHANGED vars, ~Excused
       PROVE  (Alone /\ InStep /\ BegunFirst /\ OwedByBreaks)'
  BY <1>12 DEF vars, runVars, history, LossInv, Alone, InStep, InStepAt, BegunFirst, OwedByBreaks,
     Begun, Pending, Walking
<1>13. ~Excused
  BY <1>0 DEF Excused, Next, Work, Begin, ReadCursor, SkipTarget, Standings, Discover, Save,
     StartFixture, FetchPart, StopWalk, EndTarget, Break, Expire, vars, history
<1> QED
  BY <1>1, <1>3, <1>4, <1>5, <1>6, <1>7, <1>8, <1>9, <1>10, <1>11, <1>12, <1>13
     DEF Next, Work

(* A fixture is begun again only where a run broke off that is not made    *)
(* good yet.                                                               *)
LEMMA LossesStayFew ==
    ASSUME BackfillTypes, LossInv, [Next]_vars
    PROVE  BreakLosesOne'
<1> USE DEF BackfillTypes, TypeOK, LossInv
<1>1. ASSUME NEW r \in Runs, StartFixture(r) PROVE BreakLosesOne'
  <2> DEFINE t == target[r]
  <2>1. PICK f \in held[r].left :
          again' = IF asked[f] = "none" \/ Excused THEN again
                   ELSE [again EXCEPT ![target[r]] = @ + 1]
    BY <1>1 DEF StartFixture
  <2>2. CASE again' = again
    BY <1>1, <2>2 DEF StartFixture, BreakLosesOne
  <2>3. CASE Begun(f) /\ ~Excused /\ again' = [again EXCEPT ![t] = @ + 1]
    <3>1. Pending(t)
      BY <1>1, <2>3 DEF StartFixture, InStep, InStepAt, HandsFull, Pending
    <3>2. ~Walking(t)
      BY <1>1, <2>3 DEF StartFixture, Alone, Walking
    <3>3. again[t] < broken[t] /\ t \in Targets
      BY <2>3, <3>1, <3>2 DEF OwedByBreaks
    <3> QED
      BY <1>1, <2>3, <3>3 DEF StartFixture, BreakLosesOne
  <2> QED
    BY <2>1, <2>2, <2>3 DEF Begun
<1>2. ASSUME NEW r \in Runs, Break(r) PROVE BreakLosesOne'
  BY <1>2 DEF Break, BreakLosesOne
<1>3. ASSUME NEW r \in Runs,
             \/ \E reset \in BOOLEAN : Begin(r, reset)
             \/ ReadCursor(r) \/ SkipTarget(r) \/ Standings(r) \/ Discover(r) \/ Save(r)
             \/ FetchPart(r) \/ StopWalk(r) \/ EndTarget(r)
      PROVE  UNCHANGED <<again, broken>>
  BY <1>3 DEF Begin, ReadCursor, SkipTarget, Standings, Discover, Save, FetchPart, StopWalk,
              EndTarget, history
<1>4. ASSUME (\E t \in Targets : Expire(t)) \/ UNCHANGED vars PROVE UNCHANGED <<again, broken>>
  BY <1>4 DEF Expire, vars, history
<1>5. UNCHANGED <<again, broken>> => BreakLosesOne'
  BY DEF BreakLosesOne
<1> QED
  BY <1>1, <1>2, <1>3, <1>4, <1>5 DEF Next, Work

(* A budget stop loses nothing and a broken run one fixture at most, for   *)
(* any runs, seasons and budgets: as long as runs do not overlap and no    *)
(* cursor is lost or thrown away, a fixture is begun again at most once    *)
(* per run that broke off at its season.                                   *)
THEOREM LossesAreBounded == Spec => []BreakLosesOne
<1>1. Init => BackfillTypes /\ LossInv
  <2>1. Init => ListsOk /\ BreakLosesOne
    BY DEF Init, ListsOk, BreakLosesOne
  <2>2. Init => Alone /\ InStep
    BY DEF Init, Alone, InStep, InStepAt
  <2>3. Init => BegunFirst /\ OwedByBreaks
    BY FixturesNumbered DEF Init, BegunFirst, OwedByBreaks, Begun, Pending
  <2> QED
    BY <2>1, <2>2, <2>3, TypesInitially DEF LossInv
<1>2. BackfillTypes /\ LossInv /\ [Next]_vars => (BackfillTypes /\ LossInv)'
  <2> SUFFICES ASSUME BackfillTypes, LossInv, [Next]_vars PROVE (BackfillTypes /\ LossInv)'
    OBVIOUS
  <2>1. BackfillTypes' /\ ListsOk' /\ BreakLosesOne'
    BY TypeInvariant, ListsStay, LossesStayFew DEF LossInv
  <2>2. ~Excused' => (Alone /\ InStep /\ BegunFirst /\ OwedByBreaks)'
    BY StepsInStep
  <2> QED
    BY <2>1, <2>2 DEF LossInv
<1>3. LossInv => BreakLosesOne
  BY DEF LossInv
<1> QED
  BY <1>1, <1>2, <1>3, PTL DEF Spec
=============================================================================
