--------------------------- MODULE WorkflowProofs ---------------------------
(***************************************************************************)
(* The workflows and their streams, for any catalogue, lists, stores,      *)
(* pages, caps, requests and runs.                                         *)
(*                                                                         *)
(* The jobs (JobsInv): a row lies under an id that belongs to its key, and *)
(* the counts of a report are those of what was done.                      *)
(*                                                                         *)
(* The payload sweeps (SweepInv): what a run has called and what it has    *)
(* left are together its selection, which keeps within the limit; a hard   *)
(* cap or a dry run leaves no call to make.                                *)
(*                                                                         *)
(* The walks (WalkInv, OwedInv): what an anchor owes a list it got is      *)
(* asked, or is in its plan; a walk that goes on was not told hard cap.    *)
(*                                                                         *)
(* The streams (PhaseInv, FlowInv): all that a run has to tell is its      *)
(* story.  What is written is the beginning of the story, and the rest is  *)
(* in the queue, in its order, with nothing but heartbeats between.        *)
(***************************************************************************)
EXTENDS WorkflowHttp, Sweeps, FiniteSetTheorems, SequenceTheorems, TLAPS

---------------------------------------------------------------------------
(* Induction over naturals, and what a filter of a list returns.           *)

(* Every nonempty set of naturals has a least element: induction for a     *)
(* prover that cannot instantiate an induction theorem.                    *)
LEMMA LeastNatural ==
  ASSUME NEW T \in SUBSET Nat, T # {}
  PROVE  \E n \in T : \A m \in T : n <= m
<1> DEFINE R == OpToRel(<, Nat)
<1>1. \A m, n \in Nat : m < n => <<m, n>> \in R
  BY DEF OpToRel
<1>2. \E n \in T : \A m \in T : <<m, n>> \notin R
  BY WFMin, NatLessThanWellFounded, Zenon
<1> HIDE DEF R
<1>3. PICK n \in T : \A m \in T : <<m, n>> \notin R
  BY <1>2
<1>4. ASSUME NEW m \in T PROVE n <= m
  <2>1. m \in Nat /\ n \in Nat /\ <<m, n>> \notin R
    BY <1>3
  <2>2. ~(m < n)
    BY <2>1, <1>1
  <2> QED
    BY <2>1, <2>2
<1> QED
  BY <1>4

(* What holds of 0, and of i + 1 whenever it holds of i < n, holds up to n. *)
LEMMA Induction ==
  ASSUME NEW n \in Nat, NEW P,
         0 \in P, \A i \in 0 .. n - 1 : i \in P => i + 1 \in P
  PROVE  \A i \in 0 .. n : i \in P
<1> SUFFICES ASSUME NEW j \in 0 .. n, j \notin P PROVE FALSE
  OBVIOUS
<1> DEFINE T == {i \in 0 .. n : i \notin P}
<1>1. PICK i \in T : \A m \in T : i <= m
  <2>1. T \in SUBSET Nat /\ T # {}
    OBVIOUS
  <2> HIDE DEF T
  <2> QED
    BY <2>1, LeastNatural
<1>2. i # 0 /\ i \in 0 .. n
  OBVIOUS
<1>3. i - 1 \in 0 .. n - 1 /\ i - 1 \notin T
  BY <1>1, <1>2
<1>4. i - 1 \in P
  BY <1>3
<1> QED
  BY <1>1, <1>3, <1>4

(* A function given by its value at 0 and a step exists, and stays in X.   *)
LEMMA Recursion ==
  ASSUME NEW X, NEW base \in X, NEW n \in Nat, NEW step \in [1 .. n -> [X -> X]]
  PROVE  \E f \in [0 .. n -> X] :
             /\ f[0] = base
             /\ \A i \in 1 .. n : f[i] = step[i][f[i - 1]]
<1> DEFINE Upto(m, f) == /\ f \in [0 .. m -> X]
                         /\ f[0] = base
                         /\ \A i \in 1 .. m : f[i] = step[i][f[i - 1]]
           P == {m \in 0 .. n : \E f : Upto(m, f)}
<1>1. 0 \in P
  <2>1. Upto(0, [i \in 0 .. 0 |-> base])
    OBVIOUS
  <2> HIDE DEF Upto
  <2> QED
    BY <2>1
<1>2. ASSUME NEW m \in 0 .. n - 1, m \in P
      PROVE  m + 1 \in P
  <2>1. PICK f : Upto(m, f)
    BY <1>2
  <2> DEFINE g == [i \in 0 .. m + 1 |-> IF i = m + 1 THEN step[m + 1][f[m]] ELSE f[i]]
  <2>2. f[m] \in X /\ m + 1 \in 1 .. n
    BY <2>1
  <2>3. g \in [0 .. m + 1 -> X]
    BY <2>1, <2>2
  <2>4. g[m + 1] = step[m + 1][f[m]] /\ \A i \in 0 .. m : g[i] = f[i]
    OBVIOUS
  <2> HIDE DEF g
  <2>5. ASSUME NEW i \in 1 .. m + 1
        PROVE  g[i] = step[i][g[i - 1]]
    <3>1. CASE i = m + 1
      BY <2>4, <3>1
    <3>2. CASE i \in 1 .. m
      BY <2>1, <2>4, <3>2
    <3> QED
      BY <3>1, <3>2
  <2>6. Upto(m + 1, g)
    BY <2>1, <2>3, <2>4, <2>5
  <2> HIDE DEF Upto
  <2> QED
    BY <2>6
<1>3. n \in P
  <2> HIDE DEF P
  <2>1. \A m \in 0 .. n : m \in P
    BY <1>1, <1>2, Induction
  <2> QED
    BY <2>1
<1>4. PICK f : Upto(n, f)
  BY <1>3
<1> QED
  BY <1>4

LEMMA AppendToSet ==
  ASSUME NEW S, NEW s \in Seq(S), NEW e \in S
  PROVE  ToSet(Append(s, e)) = ToSet(s) \union {e}
<1>1. /\ Len(s) \in Nat /\ DOMAIN s = 1 .. Len(s)
      /\ DOMAIN Append(s, e) = 1 .. Len(s) + 1
      /\ Append(s, e)[Len(s) + 1] = e
      /\ \A i \in 1 .. Len(s) : Append(s, e)[i] = s[i]
  OBVIOUS
<1> HIDE DEF Append
<1>2. ASSUME NEW x \in ToSet(Append(s, e)) PROVE x \in ToSet(s) \union {e}
  <2>1. PICK i \in 1 .. Len(s) + 1 : x = Append(s, e)[i]
    BY <1>1, <1>2 DEF ToSet
  <2> QED
    BY <1>1, <2>1 DEF ToSet
<1>3. ASSUME NEW x \in ToSet(s) \union {e} PROVE x \in ToSet(Append(s, e))
  BY <1>1, <1>3 DEF ToSet
<1> QED
  BY <1>2, <1>3

(* A list that is not empty, taken apart. *)
LEMMA HeadAndTail ==
  ASSUME NEW S, NEW s \in Seq(S), s # <<>>
  PROVE  /\ Head(s) \in S /\ Tail(s) \in Seq(S)
         /\ Len(s) \in Nat \ {0} /\ Len(Tail(s)) = Len(s) - 1
         /\ ToSet(s) = {Head(s)} \union ToSet(Tail(s))
<1> DEFINE t == Tail(s)
           n == Len(s)
<1>1. /\ n \in Nat \ {0} /\ DOMAIN s = 1 .. n /\ Head(s) = s[1] /\ s[1] \in S
      /\ t \in Seq(S) /\ Len(t) = n - 1 /\ DOMAIN t = 1 .. n - 1
      /\ \A i \in 1 .. n - 1 : t[i] = s[i + 1]
  OBVIOUS
<1> HIDE DEF t, n
<1>2. ASSUME NEW x \in ToSet(s) PROVE x \in {Head(s)} \union ToSet(t)
  <2>1. PICK i \in 1 .. n : x = s[i]
    BY <1>1, <1>2 DEF ToSet
  <2>2. CASE i = 1
    BY <1>1, <2>1, <2>2
  <2>3. CASE i # 1
    <3>1. i - 1 \in 1 .. n - 1 /\ t[i - 1] = x
      BY <1>1, <2>1, <2>3
    <3> QED
      BY <1>1, <3>1 DEF ToSet
  <2> QED
    BY <2>2, <2>3
<1>3. ASSUME NEW x \in {Head(s)} \union ToSet(t) PROVE x \in ToSet(s)
  <2>1. x = s[1] \/ \E i \in 1 .. n - 1 : x = s[i + 1]
    BY <1>1, <1>3 DEF ToSet
  <2>2. \A i \in 1 .. n - 1 : i + 1 \in 1 .. n
    BY <1>1
  <2>3. 1 \in 1 .. n
    BY <1>1
  <2> QED
    BY <1>1, <2>1, <2>2, <2>3 DEF ToSet
<1> QED
  BY <1>1, <1>2, <1>3 DEF t, n

(* What Among returns: elements of s that are in good, all of them. *)
LEMMA AmongList ==
  ASSUME NEW S, NEW s \in Seq(S), NEW good
  PROVE  /\ Among(s, good) \in Seq(S \intersect good)
         /\ ToSet(Among(s, good)) = ToSet(s) \intersect good
<1> DEFINE X == Seq(S \intersect good)
           n == Len(s)
           step == [i \in 1 .. n |-> [x \in X |-> IF s[i] \in good THEN Append(x, s[i]) ELSE x]]
           Is(f) == f = [i \in 0 .. n |->
                            IF i = 0 THEN <<>>
                            ELSE IF s[i] \in good THEN Append(f[i - 1], s[i]) ELSE f[i - 1]]
           kept == CHOOSE f : Is(f)
           base == <<>>
<1>1. /\ n \in Nat /\ base \in X
      /\ \A i \in 1 .. n : s[i] \in S
      /\ step \in [1 .. n -> [X -> X]]
  OBVIOUS
<1>2. \A x \in X, i \in 1 .. n :
          step[i][x] = IF s[i] \in good THEN Append(x, s[i]) ELSE x
  OBVIOUS
<1>3. Among(s, good) = kept[n]
  BY DEF Among
<1>4. /\ \A f : Is(f) => /\ f[0] = base
                         /\ \A i \in 1 .. n :
                                f[i] = IF s[i] \in good THEN Append(f[i - 1], s[i]) ELSE f[i - 1]
      /\ \A f \in [0 .. n -> X] :
             /\ f[0] = base
             /\ \A i \in 1 .. n : f[i] = IF s[i] \in good THEN Append(f[i - 1], s[i]) ELSE f[i - 1]
             => Is(f)
  <2>1. ASSUME NEW f, Is(f), NEW i \in 0 .. n
        PROVE  f[i] = IF i = 0 THEN base
                      ELSE IF s[i] \in good THEN Append(f[i - 1], s[i]) ELSE f[i - 1]
    BY <2>1
  <2>2. ASSUME NEW f \in [0 .. n -> X], f[0] = base,
               \A i \in 1 .. n : f[i] = IF s[i] \in good THEN Append(f[i - 1], s[i]) ELSE f[i - 1]
        PROVE  Is(f)
    <3>1. ASSUME NEW i \in 0 .. n
          PROVE  f[i] = IF i = 0 THEN <<>>
                        ELSE IF s[i] \in good THEN Append(f[i - 1], s[i]) ELSE f[i - 1]
      <4>1. i = 0 \/ i \in 1 .. n
        BY <3>1
      <4> HIDE DEF X, n
      <4> QED
        BY <2>2, <4>1
    <3> HIDE DEF X
    <3> QED
      BY <3>1
  <2> HIDE DEF Is
  <2> QED
    BY <1>1, <2>1, <2>2
<1>5. (\E f : Is(f)) => Is(kept)
  <2> HIDE DEF Is
  <2> QED
    OBVIOUS
<1>6. \A x \in X, e \in S \intersect good : Append(x, e) \in X
  OBVIOUS
<1>7. ToSet(s) = {s[j] : j \in 1 .. n} /\ ToSet(base) = {}
  BY DEF ToSet
<1> DEFINE Some(i) == {s[j] : j \in 1 .. i} \intersect good
           P == {i \in 0 .. n : kept[i] \in X /\ ToSet(kept[i]) = Some(i)}
<1> HIDE DEF kept, Is, step, n, base
<1>8. PICK f \in [0 .. n -> X] : /\ f[0] = base
                                 /\ \A i \in 1 .. n : f[i] = step[i][f[i - 1]]
  <2> HIDE DEF X
  <2>1. \A b \in X : \A m \in Nat : \A st \in [1 .. m -> [X -> X]] :
            \E f \in [0 .. m -> X] : /\ f[0] = b
                                    /\ \A i \in 1 .. m : f[i] = st[i][f[i - 1]]
    <3> TAKE b \in X
    <3> TAKE m \in Nat
    <3> TAKE st \in [1 .. m -> [X -> X]]
    <3> QED
      BY Recursion
  <2> QED
    BY <1>1, <2>1, Zenon
<1>9. Is(f)
  <2> HIDE DEF X
  <2>1. \A i \in 1 .. n : f[i - 1] \in X
    BY <1>1
  <2>2. \A i \in 1 .. n :
            f[i] = IF s[i] \in good THEN Append(f[i - 1], s[i]) ELSE f[i - 1]
    BY <1>2, <1>8, <2>1
  <2> QED
    BY <1>1, <1>4, <1>8, <2>2
<1>10. /\ kept[0] = base
       /\ \A i \in 1 .. n : kept[i] = IF s[i] \in good THEN Append(kept[i - 1], s[i])
                                      ELSE kept[i - 1]
  BY <1>1, <1>4, <1>5, <1>9
<1>11. 0 \in P
  BY <1>1, <1>7, <1>10
<1>12. ASSUME NEW i \in 0 .. n - 1, i \in P
       PROVE  i + 1 \in P
  <2>1. /\ kept[i] \in X /\ ToSet(kept[i]) = Some(i)
        /\ i + 1 \in 1 .. n /\ i + 1 \in 0 .. n /\ s[i + 1] \in S
    BY <1>1, <1>12
  <2>2. {s[j] : j \in 1 .. i + 1} = {s[j] : j \in 1 .. i} \union {s[i + 1]}
    OBVIOUS
  <2>3. CASE s[i + 1] \in good
    <3>1. kept[i + 1] = Append(kept[i], s[i + 1])
      <4>1. kept[i + 1] = Append(kept[(i + 1) - 1], s[i + 1])
        BY <1>10, <2>1, <2>3, Zenon
      <4> QED
        BY <4>1
    <3>2. kept[i + 1] \in X
      BY <1>6, <2>1, <2>3, <3>1
    <3>3. ToSet(kept[i + 1]) = ToSet(kept[i]) \union {s[i + 1]}
      BY <2>1, <2>3, <3>1, AppendToSet, SMTT(30)
    <3>4. Some(i + 1) = Some(i) \union {s[i + 1]}
      BY <2>2, <2>3
    <3> HIDE DEF Some, X
    <3> QED
      BY <2>1, <3>2, <3>3, <3>4
  <2>4. CASE s[i + 1] \notin good
    <3>1. kept[i + 1] = kept[i]
      BY <1>10, <2>1, <2>4
    <3>2. Some(i + 1) = Some(i)
      BY <2>2, <2>4
    <3> HIDE DEF Some, X
    <3> QED
      BY <2>1, <3>1, <3>2
  <2> QED
    BY <2>3, <2>4
<1>13. n \in P
  <2> HIDE DEF P
  <2>1. \A i \in 0 .. n : i \in P
    BY <1>1, <1>11, <1>12, Induction
  <2> QED
    BY <1>1, <2>1
<1> QED
  BY <1>3, <1>7, <1>13

---------------------------------------------------------------------------
(* The workflows that write, or look for, what is known of entities.       *)

Entities == Competitions \union Teams
Ids == {Unresolved} \union {Canonical(t) : t \in Teams}
Verdicts == {"none", "completed", "partial", "aborted"}
SquadRecords ==
    [state : {"idle", "resolve", "fetch", "ingest", "done"}, dry : BOOLEAN, left : Seq(Teams),
     id : Ids, mode : Actions, envelope : [about : Teams \union {NoRow}, players : BOOLEAN],
     ok : SUBSET Teams, failed : SUBSET Teams, skipped : SUBSET Teams, status : Verdicts]
ScanRecords ==
    [state : {"idle", "running", "done"}, left : Seq(Entities), checked : SUBSET Entities,
     gaps : SUBSET Entities, errored : BOOLEAN, status : Verdicts]
ImportRecords ==
    [state : {"idle", "running", "done", "thrown"}, dry : BOOLEAN, left : Seq(DOMAIN Matches),
     at : {"mint", "lookup", "events", "ingest"},
     game : {NoRow} \union {Crosswalk(n) : n \in DOMAIN Matches},
     ok : SUBSET DOMAIN Matches, failed : SUBSET DOMAIN Matches,
     skipped : SUBSET DOMAIN Matches, status : Verdicts]
AnchorRecords ==
    [state : {"idle", "running"}, left : Seq([row : {"table", "season"}, of : Competitions]),
     asked : SUBSET Entities, resolved : SUBSET Entities]

JobsTypeOK ==
    /\ known \subseteq Entities
    /\ roster \in [Teams -> Ids \union {NoRow}]
    /\ sweeps \in [SquadRuns -> SquadRecords]
    /\ scan \in ScanRecords
    /\ import \in ImportRecords
    /\ anchor \in AnchorRecords

(* A squad is cached under the resource of the team it is about. *)
CacheInv ==
    \A t \in Teams :
        SquadResource(t) \in DOMAIN squads => squads[SquadResource(t)] \in [about : {t}, players : BOOLEAN]

(* A run between the lookup and the ingest still has the id and the envelope *)
(* of the team at its head.                                                *)
SquadInv(r) ==
    /\ sweeps[r].state \in {"fetch", "ingest"} =>
           /\ sweeps[r].left # <<>> /\ sweeps[r].id \in {Unresolved, Canonical(Team(r))}
    /\ sweeps[r].state = "ingest" => sweeps[r].envelope.about = Team(r)
    /\ \A t \in sweeps[r].ok : roster[t] # NoRow
    /\ sweeps[r].status = "completed" => sweeps[r].state = "done" /\ sweeps[r].failed = {}

RosterInv == \A t \in Teams : roster[t] \in {NoRow, Unresolved, Canonical(t)}

ScanInv ==
    /\ scan.checked \ scan.gaps \subseteq known
    /\ scan.status = "completed" => scan.state = "done" /\ ~scan.errored

(* An import past the lookup holds the game of the match at its head. *)
ImportInv ==
    /\ import.left # <<>> /\ import.at \in {"events", "ingest"} => import.game = Crosswalk(Match)
    /\ \A g \in DOMAIN occurrences : \A n \in occurrences[g] : g = Crosswalk(n)
    /\ \A n \in import.ok : Crosswalk(n) \in DOMAIN occurrences
    /\ import.status = "completed" => import.state = "done" /\ import.failed = {}

AnchorInv ==
    /\ anchor.resolved \subseteq known
    /\ \A s \in seasons : \E c \in Competitions \intersect known : s.competition = Canonical(c)

JobsInv ==
    /\ JobsTypeOK /\ CacheInv /\ RosterInv /\ ScanInv /\ ImportInv /\ AnchorInv
    /\ \A r \in SquadRuns : SquadInv(r)

(* The most restrictive of some actions is one of them, and abort prevails. *)
LEMMA MostRestrictiveIs ==
  ASSUME NEW A \in SUBSET Actions, A # {}
  PROVE  /\ MostRestrictive(A) \in A
         /\ "abort" \in A => MostRestrictive(A) = "abort"
<1> DEFINE Top(a) == a \in A /\ \A b \in A : Severity(a) >= Severity(b)
<1>1. \E a \in A : \A b \in A : Severity(a) >= Severity(b)
  <2>1. CASE "abort" \in A
    BY <2>1 DEF Actions, Severity
  <2>2. CASE "abort" \notin A /\ "circuit-open" \in A
    BY <2>2 DEF Actions, Severity
  <2>3. CASE A \intersect {"abort", "circuit-open"} = {} /\ "cached-only" \in A
    BY <2>3 DEF Actions, Severity
  <2>4. CASE A \intersect {"abort", "circuit-open", "cached-only"} = {} /\ "skip-non-essential" \in A
    BY <2>4 DEF Actions, Severity
  <2>5. CASE A = {"continue"}
    BY <2>5 DEF Actions, Severity
  <2> QED
    BY <2>1, <2>2, <2>3, <2>4, <2>5 DEF Actions
<1>2. /\ MostRestrictive(A) \in A
      /\ \A b \in A : Severity(MostRestrictive(A)) >= Severity(b)
  BY <1>1, Zenon DEF MostRestrictive
<1>3. ASSUME "abort" \in A PROVE MostRestrictive(A) = "abort"
  BY <1>2, <1>3 DEF Severity, Actions
<1> QED
  BY <1>2, <1>3

LEMMA QuotaActionIs == \A posture \in Postures : QuotaAction(posture) \in Actions
  BY DEF QuotaAction, Postures, Actions

(* The list of a finite set, and its first k elements. *)
LEMMA ListOfSet ==
  ASSUME NEW S, IsFiniteSet(S)
  PROVE  SetToSeq(S) \in Seq(S) /\ Len(SetToSeq(S)) = Cardinality(S) /\ Cardinality(S) \in Nat
<1>1. Cardinality(S) \in Nat /\ ExistsBijection(1 .. Cardinality(S), S)
  BY FS_CardinalityType
<1>2. \E f \in [1 .. Cardinality(S) -> S] : IsInjective(f)
  BY <1>1 DEF ExistsBijection, Bijection, Injection
<1>3. SetToSeq(S) \in [1 .. Cardinality(S) -> S]
  BY <1>2 DEF SetToSeq
<1> QED
  BY <1>1, <1>3

LEMMA FirstOf ==
  ASSUME NEW S, NEW s \in Seq(S), NEW k \in Nat, k <= Len(s)
  PROVE  SubSeq(s, 1, k) \in Seq(S) /\ Len(SubSeq(s, 1, k)) = k
  OBVIOUS

(* The first elements of the list of a set, up to a cap. *)
LEMMA Capped ==
  ASSUME NEW S, IsFiniteSet(S), NEW cap \in Nat, NEW s, s = SetToSeq(S)
  PROVE  SubSeq(s, 1, IF Len(s) > cap THEN cap ELSE Len(s)) \in Seq(S)
<1> DEFINE k == IF Len(s) > cap THEN cap ELSE Len(s)
<1>1. s \in Seq(S) /\ Len(s) \in Nat
  BY ListOfSet
<1>2. k \in Nat /\ k <= Len(s)
  BY <1>1
<1> HIDE DEF k
<1> QED
  BY <1>1, <1>2, FirstOf DEF k

(* What a verdict on the team at the head does to a run. *)
LEMMA JudgedRun ==
  ASSUME NEW run \in SquadRecords, run.left # <<>>, NEW v \in {"ok", "failed", "skipped"}
  PROVE  LET after == Judged(run, v)
         IN  /\ after \in SquadRecords
             /\ after.state = "resolve" /\ after.status = run.status
             /\ after.ok = run.ok \union (IF v = "ok" THEN {Head(run.left)} ELSE {})
             /\ after.mode = run.mode
<1>1. Head(run.left) \in Teams /\ Tail(run.left) \in Seq(Teams)
  BY HeadTailProperties DEF SquadRecords
<1> QED
  BY <1>1, ZenonT(30) DEF Judged, SquadRecords, NoSquads

(* A step of one squad sweep that leaves the cache and the rosters alone. *)
LEMMA QuietSquadStep ==
  ASSUME JobsInv, NEW r \in SquadRuns, NEW run \in SquadRecords,
         sweeps' = [sweeps EXCEPT ![r] = run],
         UNCHANGED <<known, squads, rowVars, duty, scan, import, anchor>>,
         run.state = "fetch" => /\ run.left # <<>>
                                /\ run.id \in {Unresolved, Canonical(Head(run.left))},
         run.state # "ingest",
         run.ok = sweeps[r].ok \/ run.ok = {},
         run.status = "completed" => run.state = "done" /\ run.failed = {}
  PROVE  JobsInv'
<1> USE DEF JobsInv
<1>1. sweeps \in [SquadRuns -> SquadRecords]
  BY DEF JobsTypeOK
<1>2. JobsTypeOK'
  BY <1>1 DEF JobsTypeOK, rowVars, ImportRecords, ScanRecords, AnchorRecords
<1>3. CacheInv' /\ RosterInv' /\ ScanInv' /\ ImportInv' /\ AnchorInv'
  BY DEF CacheInv, RosterInv, ScanInv, ImportInv, AnchorInv, Match, rowVars
<1>4. \A q \in SquadRuns : SquadInv(q)'
  <2> TAKE q \in SquadRuns
  <2>1. sweeps'[q] = IF q = r THEN run ELSE sweeps[q]
    BY <1>1
  <2>2. SquadInv(q) /\ SquadInv(r) /\ roster' = roster
    BY DEF rowVars
  <2> QED
    BY <2>1, <2>2 DEF SquadInv, Team
<1> QED
  BY <1>2, <1>3, <1>4

SquadStep(r) ==
    \/ \E named \in {{}, Teams}, cap \in Caps, dry \in BOOLEAN : StartSquads(r, named, cap, dry)
    \/ SkipTeam(r) \/ ResolveTeam(r) \/ FetchSquad(r) \/ SquadUnfetched(r)
    \/ IngestSquad(r) \/ FinishSquads(r)

LEMMA SquadStepKeeps ==
  ASSUME JobsInv, NEW r \in SquadRuns, SquadStep(r)
  PROVE  JobsInv'
<1> USE DEF JobsInv
<1>0. /\ sweeps \in [SquadRuns -> SquadRecords] /\ sweeps[r] \in SquadRecords
      /\ roster \in [Teams -> Ids \union {NoRow}] /\ SquadInv(r)
  BY DEF JobsTypeOK
<1>1. ASSUME NEW named \in {{}, Teams}, NEW cap \in Caps, NEW dry \in BOOLEAN,
             StartSquads(r, named, cap, dry)
      PROVE  JobsInv'
  <2> DEFINE asked == IF named # {} THEN named ELSE KnownTeamIds
             teams == SetToSeq(asked)
             left == SubSeq(teams, 1, IF Len(teams) > cap THEN cap ELSE Len(teams))
             run == [NoSquads EXCEPT !.state = "resolve", !.dry = dry, !.left = left]
  <2>1. asked = Teams
    BY DEF KnownTeamIds
  <2>2. left \in Seq(Teams)
    <3> HIDE DEF asked
    <3> QED
      BY <2>1, Capped, JobsAssumption
  <2>3. sweeps' = [sweeps EXCEPT ![r] = run]
    BY <1>1 DEF StartSquads
  <2> HIDE DEF left
  <2>4. run \in SquadRecords /\ run.state = "resolve" /\ run.ok = {} /\ run.status = "none"
    BY <2>2 DEF NoSquads, SquadRecords, Ids, Verdicts, Actions
  <2> HIDE DEF run
  <2> QED
    BY <1>1, <2>3, <2>4, QuietSquadStep DEF StartSquads
<1>2. CASE SkipTeam(r)
  <2> DEFINE run == Judged(sweeps[r], "skipped")
  <2>1. sweeps' = [sweeps EXCEPT ![r] = run]
    BY <1>2 DEF SkipTeam, Told
  <2>2. run \in SquadRecords /\ run.state = "resolve" /\ run.ok = sweeps[r].ok /\ run.status # "completed"
    BY <1>0, <1>2, JudgedRun DEF SkipTeam, SquadInv
  <2> HIDE DEF run
  <2> QED
    BY <1>2, <2>1, <2>2, QuietSquadStep DEF SkipTeam
<1>3. CASE ResolveTeam(r)
  <2>1. PICK answers \in BOOLEAN :
            sweeps' = [sweeps EXCEPT ![r].state = "fetch",
                           ![r].id = IF answers /\ Team(r) \in known THEN Canonical(Team(r))
                                     ELSE Unresolved]
    BY <1>3 DEF ResolveTeam
  <2> DEFINE id == IF answers /\ Team(r) \in known THEN Canonical(Team(r)) ELSE Unresolved
             run == [sweeps[r] EXCEPT !.state = "fetch", !.id = id]
  <2>2. Team(r) \in Teams /\ sweeps[r].left # <<>> /\ id \in {Unresolved, Canonical(Team(r))}
    BY <1>0, <1>3, HeadTailProperties DEF ResolveTeam, Team, SquadRecords
  <2>3. sweeps' = [sweeps EXCEPT ![r] = run]
    BY <1>0, <2>1 DEF SquadRecords
  <2>4. id \in Ids
    BY <2>2 DEF Ids
  <2> HIDE DEF id
  <2>5. /\ run \in SquadRecords /\ run.state = "fetch" /\ run.ok = sweeps[r].ok
        /\ run.left = sweeps[r].left /\ run.id = id /\ run.status = sweeps[r].status
    BY <1>0, <2>4 DEF SquadRecords
  <2> HIDE DEF run
  <2>6. run.status # "completed"
    BY <1>0, <1>3, <2>5 DEF SquadInv, ResolveTeam
  <2> QED
    BY <1>3, <2>2, <2>3, <2>5, <2>6, QuietSquadStep DEF ResolveTeam, Team
<1>4. CASE FetchSquad(r)
  <2> DEFINE key == SquadResource(Team(r))
  <2>1. sweeps[r].left # <<>> /\ Team(r) \in Teams /\ sweeps[r].status # "completed"
    BY <1>0, <1>4, HeadTailProperties DEF SquadInv, FetchSquad, Team, SquadRecords
  <2>2. PICK envelope \in [about : {Team(r)}, players : BOOLEAN], mode \in Actions :
            /\ sweeps' = [sweeps EXCEPT ![r] = [@ EXCEPT !.state = "ingest", !.envelope = envelope,
                                                         !.mode = mode]]
            /\ squads' = Filed(squads, key, envelope)
    <3>1. PICK envelope \in {[about |-> Team(r), players |-> players] : players \in BOOLEAN}
                              \union (IF key \in DOMAIN squads THEN {squads[key]} ELSE {}),
               posture \in Postures :
              /\ sweeps' = [sweeps EXCEPT ![r].state = "ingest", ![r].envelope = envelope,
                                ![r].mode = MostRestrictive({@, QuotaAction(posture)})]
              /\ squads' = Filed(squads, key, envelope)
      BY <1>4 DEF FetchSquad
    <3>2. envelope \in [about : {Team(r)}, players : BOOLEAN]
      <4>1. CASE key \in DOMAIN squads
        BY <2>1, <3>1, <4>1 DEF CacheInv
      <4>2. CASE key \notin DOMAIN squads
        BY <3>1, <4>2
      <4> QED
        BY <4>1, <4>2
    <3>3. MostRestrictive({sweeps[r].mode, QuotaAction(posture)}) \in Actions
      <4>1. sweeps[r].mode \in Actions /\ QuotaAction(posture) \in Actions
        BY <1>0, QuotaActionIs DEF SquadRecords
      <4> QED
        BY <4>1, MostRestrictiveIs
    <3> HIDE DEF key
    <3> QED
      BY <1>0, <3>1, <3>2, <3>3
  <2> DEFINE run == [sweeps[r] EXCEPT !.state = "ingest", !.envelope = envelope, !.mode = mode]
  <2>3. /\ run \in SquadRecords /\ run.state = "ingest" /\ run.ok = sweeps[r].ok
        /\ run.left = sweeps[r].left /\ run.id = sweeps[r].id /\ run.status = sweeps[r].status
        /\ run.envelope.about = Team(r)
    BY <1>0, <2>1 DEF SquadRecords
  <2>4. sweeps' = [sweeps EXCEPT ![r] = run]
    BY <2>2
  <2> HIDE DEF run
  <2>5. UNCHANGED <<known, rowVars, duty, scan, import, anchor>>
    BY <1>4 DEF FetchSquad
  <2>6. JobsTypeOK'
    BY <1>0, <2>3, <2>4, <2>5 DEF JobsTypeOK, rowVars, ImportRecords, ScanRecords, AnchorRecords
  <2>7. CacheInv'
    <3> SUFFICES ASSUME NEW t \in Teams, SquadResource(t) \in DOMAIN squads'
                 PROVE  squads'[SquadResource(t)] \in [about : {t}, players : BOOLEAN]
      BY DEF CacheInv, SquadResource
    <3>1. CASE t = Team(r)
      BY <2>2, <3>1 DEF Filed
    <3>2. CASE t # Team(r)
      <4>1. SquadResource(t) # key
        BY <3>2 DEF SquadResource
      <4> QED
        BY <2>2, <4>1 DEF Filed, CacheInv
    <3> QED
      BY <3>1, <3>2
  <2>8. RosterInv' /\ ScanInv' /\ ImportInv' /\ AnchorInv'
    BY <2>5 DEF RosterInv, ScanInv, ImportInv, AnchorInv, Match, rowVars
  <2>9. \A q \in SquadRuns : SquadInv(q)'
    <3> TAKE q \in SquadRuns
    <3>1. sweeps'[q] = IF q = r THEN run ELSE sweeps[q]
      BY <1>0, <2>4
    <3>2. SquadInv(q) /\ roster' = roster
      BY <2>5 DEF rowVars
    <3>3. sweeps[r].id \in {Unresolved, Canonical(Team(r))}
      BY <1>0, <1>4 DEF SquadInv, FetchSquad
    <3> QED
      BY <1>0, <2>1, <2>3, <3>1, <3>2, <3>3 DEF SquadInv, Team
  <2> QED
    BY <2>6, <2>7, <2>8, <2>9
<1>5. CASE SquadUnfetched(r)
  <2>1. PICK outcome \in {"skipped", "failed"}, posture \in Postures :
            sweeps' = [sweeps EXCEPT ![r] = [Judged(sweeps[r], outcome) EXCEPT
                           !.mode = MostRestrictive({@, QuotaAction(posture)})]]
    BY <1>5 DEF SquadUnfetched
  <2> DEFINE judged == Judged(sweeps[r], outcome)
             mode == MostRestrictive({judged.mode, QuotaAction(posture)})
             run == [judged EXCEPT !.mode = mode]
  <2>2. /\ judged \in SquadRecords /\ judged.state = "resolve" /\ judged.ok = sweeps[r].ok
        /\ judged.status # "completed"
    BY <1>0, <1>5, JudgedRun DEF SquadUnfetched, SquadInv
  <2>3. sweeps' = [sweeps EXCEPT ![r] = run]
    BY <2>1
  <2> HIDE DEF judged
  <2>4. mode \in Actions
    <3>1. judged.mode \in Actions /\ QuotaAction(posture) \in Actions
      BY <2>2, QuotaActionIs DEF SquadRecords
    <3> QED
      BY <3>1, MostRestrictiveIs
  <2> HIDE DEF mode
  <2>5. run \in SquadRecords /\ run.state = "resolve" /\ run.ok = sweeps[r].ok /\ run.status # "completed"
    BY <2>2, <2>4 DEF SquadRecords
  <2> HIDE DEF run
  <2> QED
    BY <1>5, <2>3, <2>5, QuietSquadStep DEF SquadUnfetched
<1>6. CASE IngestSquad(r)
  <2> DEFINE about == sweeps[r].envelope.about
  <2>1. /\ about = Team(r) /\ Team(r) \in Teams /\ sweeps[r].left # <<>>
        /\ sweeps[r].id \in {Unresolved, Canonical(Team(r))} /\ sweeps[r].status # "completed"
    BY <1>0, <1>6, HeadTailProperties DEF SquadInv, IngestSquad, Team, SquadRecords
  <2>2. UNCHANGED <<known, squads, tables, seasons, games, occurrences, duty, scan, import, anchor>>
    BY <1>6 DEF IngestSquad
  <2>3. ASSUME NEW v \in {"skipped", "failed"}, Told(r, v), UNCHANGED roster
        PROVE  JobsInv'
    <3> DEFINE run == Judged(sweeps[r], v)
    <3>1. sweeps' = [sweeps EXCEPT ![r] = run]
      BY <2>3 DEF Told
    <3>2. run \in SquadRecords /\ run.state = "resolve" /\ run.ok = sweeps[r].ok /\ run.status # "completed"
      BY <1>0, <2>1, <2>3, JudgedRun
    <3> HIDE DEF run
    <3> QED
      BY <2>2, <2>3, <3>1, <3>2, QuietSquadStep DEF rowVars
  <2>4. ASSUME Told(r, "ok"),
               roster' = [roster EXCEPT ![about] =
                             IF sweeps[r].id = Unresolved /\ @ # NoRow THEN @ ELSE sweeps[r].id]
        PROVE  JobsInv'
    <3> DEFINE run == Judged(sweeps[r], "ok")
    <3>1. sweeps' = [sweeps EXCEPT ![r] = run]
      BY <2>4 DEF Told
    <3>2. /\ run \in SquadRecords /\ run.state = "resolve" /\ run.status # "completed"
          /\ run.ok = sweeps[r].ok \union {Team(r)}
      BY <1>0, <2>1, JudgedRun DEF Team
    <3> HIDE DEF run
    <3>3. /\ roster' \in [Teams -> Ids \union {NoRow}] /\ roster'[Team(r)] # NoRow
          /\ roster'[Team(r)] \in {roster[Team(r)], Unresolved, Canonical(Team(r))}
          /\ \A t \in Teams : t # Team(r) => roster'[t] = roster[t]
      BY <1>0, <2>1, <2>4, JobsAssumption DEF SquadRecords, Ids
    <3>4. JobsTypeOK'
      BY <1>0, <2>2, <3>1, <3>2, <3>3 DEF JobsTypeOK, ImportRecords, ScanRecords, AnchorRecords
    <3>5. CacheInv' /\ ScanInv' /\ ImportInv' /\ AnchorInv'
      BY <2>2 DEF CacheInv, ScanInv, ImportInv, AnchorInv, Match
    <3>6. RosterInv'
      BY <2>1, <3>3 DEF RosterInv
    <3>7. \A q \in SquadRuns : SquadInv(q)'
      <4> TAKE q \in SquadRuns
      <4>1. sweeps'[q] = IF q = r THEN run ELSE sweeps[q]
        BY <1>0, <3>1
      <4>2. SquadInv(q) /\ sweeps[q].ok \subseteq Teams
        BY <1>0 DEF SquadRecords
      <4> QED
        BY <1>0, <2>1, <3>2, <3>3, <4>1, <4>2 DEF SquadInv, Team, SquadRecords
    <3> QED
      BY <3>4, <3>5, <3>6, <3>7
  <2> QED
    BY <1>6, <2>3, <2>4 DEF IngestSquad
<1>7. CASE FinishSquads(r)
  <2>1. PICK status \in Verdicts :
            /\ sweeps' = [sweeps EXCEPT ![r].state = "done", ![r].status = status]
            /\ status = "completed" => sweeps[r].failed = {}
    BY <1>0, <1>7 DEF FinishSquads, Verdicts
  <2> DEFINE run == [sweeps[r] EXCEPT !.state = "done", !.status = status]
  <2>2. sweeps' = [sweeps EXCEPT ![r] = run]
    BY <1>0, <2>1 DEF SquadRecords
  <2>3. /\ run \in SquadRecords /\ run.state = "done" /\ run.ok = sweeps[r].ok
        /\ run.status = "completed" => run.failed = {}
    BY <1>0, <2>1 DEF SquadRecords
  <2> HIDE DEF run
  <2> QED
    BY <1>7, <2>2, <2>3, QuietSquadStep DEF FinishSquads
<1> QED
  BY <1>1, <1>2, <1>3, <1>4, <1>5, <1>6, <1>7 DEF SquadStep

(* What identity learns leaves every id that was filed where it was. *)
LEMMA LearnKeeps ==
  ASSUME JobsInv, NEW e \in Entities, Learn(e)
  PROVE  JobsInv'
<1> USE DEF JobsInv
<1>1. /\ known' = known \union {e}
      /\ UNCHANGED <<squads, rowVars, duty, sweeps, scan, import, anchor>>
  BY DEF Learn
<1>2. JobsTypeOK'
  BY <1>1 DEF JobsTypeOK, rowVars, SquadRecords, ImportRecords, ScanRecords, AnchorRecords
<1>3. CacheInv' /\ RosterInv' /\ ScanInv' /\ ImportInv' /\ AnchorInv'
  BY <1>1 DEF CacheInv, RosterInv, ScanInv, ImportInv, AnchorInv, Match, rowVars
<1>4. \A r \in SquadRuns : SquadInv(r)'
  BY <1>1 DEF SquadInv, Team, rowVars
<1> QED
  BY <1>2, <1>3, <1>4

(* What a step that is not a squad sweep's leaves alone. *)
LEMMA SquadsAlone ==
  ASSUME JobsInv, UNCHANGED <<squads, roster, sweeps>>
  PROVE  CacheInv' /\ RosterInv' /\ \A r \in SquadRuns : SquadInv(r)'
  BY DEF JobsInv, CacheInv, RosterInv, SquadInv, Team

ScanStep == (\E budget \in Budgets : StartScan(budget)) \/ ScanEntity \/ FinishScan

LEMMA ScanStepKeeps ==
  ASSUME JobsInv, ScanStep
  PROVE  JobsInv'
<1> USE DEF JobsInv
<1>1. UNCHANGED <<known, squads, rowVars, duty, sweeps, import, anchor>>
  BY DEF ScanStep, StartScan, ScanEntity, FinishScan
<1>2. scan \in ScanRecords /\ ScanInv
  BY DEF JobsTypeOK
<1>3. scan' \in ScanRecords /\ ScanInv'
  <2>1. ASSUME NEW budget \in Budgets, StartScan(budget)
        PROVE  scan' \in ScanRecords /\ ScanInv'
    <3> DEFINE seen == SetToSeq(Competitions) \o SetToSeq(Teams)
               k == IF Len(seen) > budget THEN budget ELSE Len(seen)
               left == SubSeq(seen, 1, k)
    <3>1. seen \in Seq(Entities)
      <4>1. SetToSeq(Competitions) \in Seq(Competitions) /\ SetToSeq(Teams) \in Seq(Teams)
        BY ListOfSet, JobsAssumption
      <4>2. SetToSeq(Competitions) \in Seq(Entities) /\ SetToSeq(Teams) \in Seq(Entities)
        BY <4>1, SeqMonotonic DEF Entities
      <4> QED
        BY <4>2
    <3>2. left \in Seq(Entities)
      <4>1. budget \in Nat
        BY JobsAssumption
      <4> HIDE DEF seen
      <4>2. k \in Nat /\ k <= Len(seen)
        BY <3>1, <4>1
      <4> HIDE DEF k
      <4> QED
        BY <3>1, <4>2, FirstOf
    <3>3. scan' = [NoScan EXCEPT !.state = "running", !.left = left]
      BY <2>1 DEF StartScan
    <3> HIDE DEF left
    <3> QED
      BY <3>2, <3>3 DEF NoScan, ScanRecords, ScanInv, Verdicts
  <2>2. CASE ScanEntity
    <3>1. PICK errored \in BOOLEAN :
              scan' = [scan EXCEPT !.left = Tail(@), !.checked = @ \union {Head(scan.left)},
                           !.errored = @ \/ errored,
                           !.gaps = GapsWith(@, Head(scan.left),
                                             ~errored /\ Head(scan.left) \in known, errored)]
      BY <2>2 DEF ScanEntity
    <3> DEFINE e == Head(scan.left)
    <3>2. e \in Entities /\ Tail(scan.left) \in Seq(Entities) /\ scan.state = "running"
      BY <1>2, <2>2, HeadTailProperties DEF ScanEntity, ScanRecords
    <3>3. /\ scan'.checked = scan.checked \union {e}
          /\ scan'.gaps = IF ~errored /\ e \in known THEN scan.gaps ELSE scan.gaps \union {e}
          /\ scan'.status = scan.status
      BY <1>2, <3>1 DEF ScanRecords, GapsWith
    <3>4. scan' \in ScanRecords
      BY <1>2, <3>1, <3>2 DEF ScanRecords, GapsWith
    <3> HIDE DEF e
    <3> QED
      BY <1>1, <1>2, <3>2, <3>3, <3>4 DEF ScanInv
  <2>3. CASE FinishScan
    BY <1>1, <1>2, <2>3 DEF FinishScan, ScanRecords, ScanInv, Verdicts
  <2> QED
    BY <2>1, <2>2, <2>3 DEF ScanStep
<1>4. JobsTypeOK' /\ ImportInv' /\ AnchorInv'
  BY <1>1, <1>3 DEF JobsTypeOK, ImportInv, AnchorInv, Match, rowVars, SquadRecords, ImportRecords,
     AnchorRecords
<1> QED
  BY <1>1, <1>3, <1>4, SquadsAlone DEF rowVars

(* What a verdict on the match at the head does to the import. *)
LEMMA ImportedMatch ==
  ASSUME import \in ImportRecords, import.left # <<>>, NEW v \in {"ok", "failed", "skipped"}, Imported(v)
  PROVE  /\ import' \in ImportRecords /\ import'.at = "mint"
         /\ import'.state = import.state /\ import'.status = import.status
         /\ import'.ok = import.ok \union (IF v = "ok" THEN {Match} ELSE {})
<1>1. Match \in DOMAIN Matches /\ Tail(import.left) \in Seq(DOMAIN Matches)
  BY HeadTailProperties DEF ImportRecords, Match
<1> HIDE DEF Match
<1> QED
  BY <1>1 DEF Imported, ImportRecords

ImportStep ==
    \/ \E filter \in SUBSET DOMAIN Matches, cap \in Caps, dry \in BOOLEAN : StartImport(filter, cap, dry)
    \/ MintMatch \/ LookupMatch \/ FetchMatchEvents \/ IngestMatch \/ FinishImport

LEMMA ImportStepKeeps ==
  ASSUME JobsInv, ImportStep
  PROVE  JobsInv'
<1> USE DEF JobsInv
<1>1. UNCHANGED <<known, squads, roster, tables, seasons, duty, sweeps, scan, anchor>>
  BY DEF ImportStep, StartImport, MintMatch, LookupMatch, FetchMatchEvents, IngestMatch,
     FinishImport, rowVars
<1>2. import \in ImportRecords /\ ImportInv
  BY DEF JobsTypeOK
<1>3. ASSUME import' \in ImportRecords, UNCHANGED occurrences,
             import'.at \in {"events", "ingest"} => import'.left = <<>> \/ import'.game = Crosswalk(Match'),
             import'.ok = import.ok \/ import'.ok = {},
             import'.status = "completed" => import'.state = "done" /\ import'.failed = {}
      PROVE  import' \in ImportRecords /\ ImportInv'
  BY <1>2, <1>3 DEF ImportInv, Crosswalk
<1>4. ASSUME NEW v \in {"failed", "skipped"}, Imported(v), UNCHANGED occurrences,
             import.left # <<>>, import.state = "running"
      PROVE  import' \in ImportRecords /\ ImportInv'
  <2>1. /\ import' \in ImportRecords /\ import'.at = "mint" /\ import'.ok = import.ok
        /\ import'.state = "running" /\ import'.status = import.status
    BY <1>2, <1>4, ImportedMatch
  <2>2. import.status # "completed"
    BY <1>2, <1>4 DEF ImportInv
  <2> QED
    BY <1>3, <1>4, <2>1, <2>2
<1>5. import' \in ImportRecords /\ ImportInv'
  <2>1. ASSUME NEW filter \in SUBSET DOMAIN Matches, NEW cap \in Caps, NEW dry \in BOOLEAN,
               StartImport(filter, cap, dry)
        PROVE  import' \in ImportRecords /\ ImportInv'
    <3>1. PICK present \in BOOLEAN :
              LET file == IF present THEN DOMAIN Matches ELSE {}
                  chosen == SetToSeq(IF filter = {} THEN file ELSE filter \intersect file)
              IN  import' = [NoImport EXCEPT !.state = "running", !.dry = dry,
                                !.left = SubSeq(chosen, 1, IF Len(chosen) > cap THEN cap
                                                           ELSE Len(chosen))]
      BY <2>1 DEF StartImport
    <3> DEFINE file == IF present THEN DOMAIN Matches ELSE {}
               asked == IF filter = {} THEN file ELSE filter \intersect file
               chosen == SetToSeq(asked)
               left == SubSeq(chosen, 1, IF Len(chosen) > cap THEN cap ELSE Len(chosen))
    <3>2. asked \subseteq DOMAIN Matches
      OBVIOUS
    <3>3. IsFiniteSet(asked) /\ cap \in Nat
      BY <3>2, FS_Subset, JobsAssumption
    <3>4. left \in Seq(DOMAIN Matches)
      <4> HIDE DEF asked
      <4>1. left \in Seq(asked)
        BY <3>3, Capped
      <4> HIDE DEF left
      <4> QED
        BY <3>2, <4>1, SeqMonotonic
    <3>5. import' = [NoImport EXCEPT !.state = "running", !.dry = dry, !.left = left]
      BY <3>1
    <3> HIDE DEF left
    <3>6. /\ import' \in ImportRecords /\ import'.at = "mint" /\ import'.ok = {}
          /\ import'.status = "none"
      BY <3>4, <3>5 DEF NoImport, ImportRecords, Verdicts
    <3>7. UNCHANGED occurrences
      BY <2>1 DEF StartImport, rowVars
    <3> QED
      BY <1>3, <3>6, <3>7
  <2>2. CASE MintMatch
    <3>1. UNCHANGED occurrences /\ import.left # <<>> /\ import.state = "running"
      BY <2>2 DEF MintMatch
    <3>2. CASE Imported("skipped") \/ Imported("failed")
      BY <1>4, <3>1, <3>2
    <3>3. CASE import' = [import EXCEPT !.at = "lookup"]
      <4>1. import' \in ImportRecords /\ import'.at = "lookup" /\ import'.ok = import.ok
            /\ import'.state = "running" /\ import'.status = import.status
        BY <1>2, <3>1, <3>3 DEF ImportRecords
      <4>2. import.status # "completed"
        BY <1>2, <3>1 DEF ImportInv
      <4> QED
        BY <1>3, <3>1, <4>1, <4>2
    <3> QED
      BY <2>2, <3>2, <3>3 DEF MintMatch
  <2>3. CASE LookupMatch
    <3>1. UNCHANGED occurrences /\ import.left # <<>> /\ import.state = "running"
      BY <2>3 DEF LookupMatch, rowVars
    <3>2. CASE Imported("skipped") \/ Imported("failed")
      BY <1>4, <3>1, <3>2
    <3>3. CASE import' = [import EXCEPT !.at = "events", !.game = Crosswalk(Match)]
      <4>1. Match \in DOMAIN Matches
        BY <1>2, <3>1, HeadTailProperties DEF ImportRecords, Match
      <4>2. /\ import' \in ImportRecords /\ import'.ok = import.ok /\ import'.left = import.left
            /\ import'.game = Crosswalk(Match)
            /\ import'.state = "running" /\ import'.status = import.status
        BY <1>2, <3>1, <3>3, <4>1 DEF ImportRecords
      <4>3. import.status # "completed"
        BY <1>2, <3>1 DEF ImportInv
      <4> QED
        BY <1>3, <3>1, <4>2, <4>3 DEF Match
    <3> QED
      BY <2>3, <3>2, <3>3 DEF LookupMatch
  <2>4. CASE FetchMatchEvents
    <3>1. UNCHANGED occurrences /\ import.left # <<>> /\ import.state = "running" /\ import.at = "events"
      BY <2>4 DEF FetchMatchEvents, rowVars
    <3>2. CASE Imported("skipped") \/ Imported("failed")
      BY <1>4, <3>1, <3>2
    <3>3. CASE import' = [import EXCEPT !.state = "thrown"] \/ import' = [import EXCEPT !.at = "ingest"]
      <4>1. import.game = Crosswalk(Match) /\ import.status # "completed"
        BY <1>2, <3>1 DEF ImportInv
      <4>2. /\ import' \in ImportRecords /\ import'.ok = import.ok /\ import'.left = import.left
            /\ import'.game = import.game /\ import'.status = import.status
        BY <1>2, <3>3 DEF ImportRecords
      <4> QED
        BY <1>3, <3>1, <4>1, <4>2 DEF Match
    <3> QED
      BY <2>4, <3>2, <3>3 DEF FetchMatchEvents
  <2>5. CASE IngestMatch
    <3>1. import.left # <<>> /\ import.state = "running" /\ import.at = "ingest"
      BY <2>5 DEF IngestMatch
    <3>2. CASE UNCHANGED occurrences /\ Imported("failed")
      BY <1>4, <3>1, <3>2
    <3> DEFINE under == IF import.game \in DOMAIN occurrences THEN occurrences[import.game] ELSE {}
    <3>3. \A n \in under : import.game = Crosswalk(n)
      BY <1>2 DEF ImportInv
    <3>4. \/ UNCHANGED occurrences /\ Imported("failed")
          \/ /\ Imported("ok")
             /\ occurrences' = Filed(occurrences, import.game, under \union {Match})
      BY <2>5 DEF IngestMatch
    <3> HIDE DEF under
    <3>5. ASSUME Imported("ok"),
                 occurrences' = Filed(occurrences, import.game, under \union {Match})
          PROVE  import' \in ImportRecords /\ ImportInv'
      <4>1. import.game = Crosswalk(Match) /\ import.status # "completed"
        BY <1>2, <3>1 DEF ImportInv
      <4>2. /\ import' \in ImportRecords /\ import'.at = "mint" /\ import'.ok = import.ok \union {Match}
            /\ import'.status = import.status
        BY <1>2, <3>1, <3>5, ImportedMatch
      <4>3. /\ DOMAIN occurrences' = DOMAIN occurrences \union {import.game}
            /\ \A g \in DOMAIN occurrences' :
                   occurrences'[g] = IF g = import.game THEN under \union {Match} ELSE occurrences[g]
        BY <3>5 DEF Filed
      <4> HIDE DEF Match
      <4>4. \A g \in DOMAIN occurrences' : \A n \in occurrences'[g] : g = Crosswalk(n)
        BY <1>2, <3>3, <4>1, <4>3 DEF ImportInv
      <4>5. \A n \in import'.ok : Crosswalk(n) \in DOMAIN occurrences'
        BY <1>2, <4>1, <4>2, <4>3 DEF ImportInv
      <4> QED
        BY <4>1, <4>2, <4>4, <4>5 DEF ImportInv
    <3> QED
      BY <3>2, <3>4, <3>5
  <2>6. CASE FinishImport
    <3>1. UNCHANGED occurrences /\ import.left = <<>>
      BY <2>6 DEF FinishImport, rowVars
    <3>2. /\ import' \in ImportRecords /\ import'.left = <<>> /\ import'.ok = import.ok
          /\ import'.state = "done"
          /\ import'.status = "completed" => import'.failed = {}
      BY <1>2, <2>6, <3>1 DEF FinishImport, ImportRecords, Verdicts
    <3> QED
      BY <1>3, <3>1, <3>2
  <2> QED
    BY <2>1, <2>2, <2>3, <2>4, <2>5, <2>6 DEF ImportStep
<1>6. JobsTypeOK' /\ ScanInv' /\ AnchorInv'
  BY <1>1, <1>5 DEF JobsTypeOK, ScanInv, AnchorInv, SquadRecords, ScanRecords, AnchorRecords
<1> QED
  BY <1>1, <1>5, <1>6, SquadsAlone

AnchorStep == StartAnchor \/ AnchorIngest \/ \E e \in Entities : ResolveOne(e)

LEMMA AnchorStepKeeps ==
  ASSUME JobsInv, AnchorStep
  PROVE  JobsInv'
<1> USE DEF JobsInv
<1> DEFINE Items == [row : {"table", "season"}, of : Competitions]
<1>1. UNCHANGED <<known, squads, roster, games, occurrences, duty, sweeps, scan, import>>
  BY DEF AnchorStep, StartAnchor, AnchorIngest, ResolveOne, rowVars
<1>2. anchor \in AnchorRecords /\ AnchorInv /\ known \subseteq Entities
  BY DEF JobsTypeOK
<1>3. anchor' \in AnchorRecords /\ AnchorInv'
  <2>1. CASE StartAnchor
    <3> DEFINE listed == SetToSeq(Competitions)
               left == [i \in 1 .. 2 * Len(listed) |->
                           [row |-> IF i % 2 = 1 THEN "table" ELSE "season",
                            of |-> listed[(i + 1) \div 2]]]
    <3>1. listed \in Seq(Competitions) /\ Len(listed) \in Nat
      BY ListOfSet, JobsAssumption
    <3>2. anchor' = [NoAnchor EXCEPT !.state = "running", !.left = left]
      BY <2>1 DEF StartAnchor
    <3> HIDE DEF listed
    <3>3. left \in [1 .. 2 * Len(listed) -> Items]
      <4>1. ASSUME NEW i \in 1 .. 2 * Len(listed) PROVE listed[(i + 1) \div 2] \in Competitions
        <5>1. (i + 1) \div 2 \in 1 .. Len(listed)
          BY <3>1, <4>1
        <5> QED
          BY <3>1, <5>1, ElementOfSeq
      <4> QED
        BY <4>1
    <3>4. left \in Seq(Items)
      <4>1. 2 * Len(listed) \in Nat
        BY <3>1
      <4> HIDE DEF left, Items
      <4> QED
        BY <3>3, <4>1
    <3> HIDE DEF left
    <3>5. anchor' \in AnchorRecords /\ anchor'.resolved = {}
      BY <3>2, <3>4 DEF NoAnchor, AnchorRecords
    <3>6. UNCHANGED seasons
      BY <2>1 DEF StartAnchor, rowVars
    <3> QED
      BY <1>1, <1>2, <3>5, <3>6 DEF AnchorInv
  <2>2. ASSUME NEW e \in Entities, ResolveOne(e)
        PROVE  anchor' \in AnchorRecords /\ AnchorInv'
    <3>1. PICK answers \in BOOLEAN :
              anchor' = [anchor EXCEPT !.asked = @ \union {e},
                             !.resolved = IF answers /\ e \in known THEN @ \union {e} ELSE @]
      BY <2>2 DEF ResolveOne
    <3>2. /\ anchor' \in AnchorRecords
          /\ anchor'.resolved \subseteq anchor.resolved \union ({e} \intersect known)
      BY <1>2, <3>1 DEF AnchorRecords
    <3>3. UNCHANGED seasons
      BY <2>2 DEF ResolveOne, rowVars
    <3> QED
      BY <1>1, <1>2, <3>2, <3>3 DEF AnchorInv
  <2>3. CASE AnchorIngest
    <3> DEFINE item == Head(anchor.left)
    <3>1. item \in Items /\ Tail(anchor.left) \in Seq(Items)
      BY <1>2, <2>3, HeadTailProperties DEF AnchorIngest, AnchorRecords
    <3>2. anchor' \in AnchorRecords /\ anchor'.resolved = {}
      BY <1>2, <2>3, <3>1 DEF AnchorIngest, AnchorRecords
    <3>3. seasons' \subseteq seasons \union SeasonRows(item.of)
      BY <2>3 DEF AnchorIngest
    <3> HIDE DEF item
    <3>4. \A s \in SeasonRows(item.of) :
              item.of \in Competitions \intersect known /\ s.competition = Canonical(item.of)
      BY <1>2, <3>1 DEF SeasonRows, AnchorInv
    <3> QED
      BY <1>1, <1>2, <3>2, <3>3, <3>4 DEF AnchorInv
  <2> QED
    BY <2>1, <2>2, <2>3 DEF AnchorStep
<1>4. JobsTypeOK' /\ ScanInv' /\ ImportInv'
  BY <1>1, <1>3 DEF JobsTypeOK, ScanInv, ImportInv, Match, SquadRecords, ScanRecords, ImportRecords
<1> QED
  BY <1>1, <1>3, <1>4, SquadsAlone

LEMMA JobsInvariant == JobsInv /\ [WorkNext]_workVars => JobsInv'
<1> SUFFICES ASSUME JobsInv, [WorkNext]_workVars PROVE JobsInv'
  OBVIOUS
<1>1. CASE JobsNext
  BY <1>1, LearnKeeps, SquadStepKeeps, ScanStepKeeps, ImportStepKeeps, AnchorStepKeeps
     DEF JobsNext, SquadStep, ScanStep, ImportStep, AnchorStep, Entities
<1>2. CASE UNCHANGED jobVars
  BY <1>2 DEF jobVars, JobsInv, JobsTypeOK, CacheInv, RosterInv, ScanInv, ImportInv, AnchorInv,
     SquadInv, Team, Match, SquadRecords, ScanRecords, ImportRecords, AnchorRecords
<1> QED
  BY <1>1, <1>2 DEF WorkNext, workVars

LEMMA JobsInitially == WorkInit => JobsInv
<1> SUFFICES ASSUME JobsInit PROVE JobsInv
  BY DEF WorkInit
<1>1. <<>> \in Seq(Teams) /\ <<>> \in Seq(Entities) /\ <<>> \in Seq(DOMAIN Matches)
      /\ <<>> \in Seq([row : {"table", "season"}, of : Competitions])
  BY EmptySeq
<1>2. NoSquads \in SquadRecords
  BY <1>1 DEF NoSquads, SquadRecords, Ids, Actions, Verdicts
<1>3. NoScan \in ScanRecords /\ NoImport \in ImportRecords /\ NoAnchor \in AnchorRecords
  BY <1>1 DEF NoScan, ScanRecords, NoImport, ImportRecords, NoAnchor, AnchorRecords, Verdicts
<1>4. JobsTypeOK
  BY <1>2, <1>3 DEF JobsInit, JobsTypeOK, Entities
<1>5. CacheInv /\ RosterInv
  BY DEF JobsInit, CacheInv, RosterInv
<1>6. ScanInv /\ ImportInv /\ AnchorInv
  BY DEF JobsInit, ScanInv, ImportInv, AnchorInv, NoScan, NoImport, NoAnchor
<1>7. \A r \in SquadRuns : SquadInv(r)
  BY DEF JobsInit, SquadInv, NoSquads
<1> QED
  BY <1>4, <1>5, <1>6, <1>7 DEF JobsInv

THEOREM JobsInvariance == WorkSpec => []JobsInv
  BY JobsInitially, JobsInvariant, PTL DEF WorkSpec

(* The types: every cached list, id, roster and report of the operator's    *)
(* workflows has the shape the code gives it.                              *)
THEOREM JobsTypeCorrect == WorkSpec => []JobsTypeOK
<1>1. JobsInv => JobsTypeOK
  BY DEF JobsInv
<1> QED
  BY <1>1, JobsInvariance, PTL

(* Every row is filed where its readers look, whatever identity learned or *)
(* failed to say, and whichever runs share the cache (squad-sweep.ts,      *)
(* daily-anchor.ts, statsbomb-backfill.ts).                                *)
THEOREM RowsFiled == WorkSpec => []RowsUnderOwnIds
<1>1. JobsInv => RowsUnderOwnIds
  BY DEF JobsInv, RosterInv, AnchorInv, ImportInv, RowsUnderOwnIds, Crosswalk
<1> QED
  BY <1>1, JobsInvariance, PTL

(* What a report of a squad sweep, an import or a scan says is so: counted *)
(* ok means stored, completed means that nothing failed, checked and not a *)
(* gap means that identity resolves it.                                    *)
THEOREM ReportsTrue == WorkSpec => []ReportsHold
<1>1. JobsInv => ReportsHold
  BY DEF JobsInv, SquadInv, ImportInv, ScanInv, ReportsHold, Crosswalk
<1> QED
  BY <1>1, JobsInvariance, PTL

---------------------------------------------------------------------------
(* The payload sweeps.                                                     *)

Nameable == Fixtures \union UNION {input.named : input \in Inputs}
SweepRecords ==
    [kind : {"none", "sweep", "backfill"}, payload : {"none"} \union {input.payload : input \in Inputs},
     state : {"idle", "discovering", "sweeping", "done"}, dry : BOOLEAN, limit : 0 .. MaxLimit,
     ids : SUBSET {Own.provider, Own.canonical}, after : 0 .. Len(Games), pages : Nat,
     found : Seq(Nameable), left : Seq(Nameable), mode : Actions, told : BOOLEAN, late : BOOLEAN,
     ok : SUBSET Nameable, empty : SUBSET Nameable, skipped : SUBSET Nameable,
     failed : SUBSET Nameable, calls : SUBSET Nameable,
     status : {"none", "skipped", "aborted", "partial", "completed"}]

(* What is found, called and left keeps within the limit; a hard cap and a *)
(* dry run leave no call to make.                                          *)
WithinInv(s) ==
    /\ IsFiniteSet(s.calls) /\ Cardinality(s.calls) + Len(s.left) <= s.limit
    /\ Len(s.found) <= s.limit
    /\ s.told => s.mode = "abort"
    /\ ~s.late
    /\ s.dry => s.calls = {} /\ s.state # "sweeping"
    /\ s.state = "discovering" => s.calls = {}

(* Every fixture of the selection is to come, or was judged, and is of the *)
(* target of a backfill.                                                   *)
SelectionInv(s) ==
    /\ s.calls \subseteq ToSet(s.found)
    /\ s.ok \union s.empty \union s.skipped \union s.failed = s.calls
    /\ s.state = "sweeping" => ToSet(s.found) = s.calls \union ToSet(s.left)
    /\ s.kind = "backfill" =>
           \A f \in ToSet(s.found) :
               \E i \in DOMAIN Games : Games[i].fixture = f /\ Games[i].competition \in s.ids
    /\ s.status = "completed" => s.state = "done" /\ (~s.dry => s.ok = ToSet(s.found))

RowsInv ==
    \A f \in sweep.ok :
        \/ f \in rows \union lost
        \/ sweep.payload = "player-match-stats" /\ Mapped(sweep.payload, f) = {}

SweepInv == sweep \in SweepRecords /\ WithinInv(sweep) /\ SelectionInv(sweep) /\ RowsInv

LEMMA LeastIs == \A a, b \in Int : Least(a, b) \in {a, b} /\ Least(a, b) <= a /\ Least(a, b) <= b
  BY DEF Least

LEMMA ClampLimitIs ==
  ASSUME NEW input \in Inputs
  PROVE  ClampLimit(input.limit) \in 0 .. MaxLimit
  BY SweepAssumption, LeastIs DEF ClampLimit

LEMMA GamesList == Len(Games) \in Nat /\ DOMAIN Games = 1 .. Len(Games)
  BY SweepAssumption

(* A page lists games, no more of them than were asked for. *)
LEMMA PageIs ==
  ASSUME NEW after \in 0 .. Len(Games), NEW size \in Nat
  PROVE  Missing(after, size) \in Seq(DOMAIN Games) /\ Len(Missing(after, size)) <= size
<1> DEFINE all == [i \in 1 .. Len(Games) - after |-> after + i]
           good == {i \in DOMAIN Games : Games[i].fixture \notin rows}
           open == Among(all, good)
<1>1. all \in Seq(DOMAIN Games)
  <2>1. Len(Games) - after \in Nat
    BY GamesList
  <2>2. \A i \in 1 .. Len(Games) - after : after + i \in DOMAIN Games
    BY GamesList
  <2> QED
    BY <2>1, <2>2
<1> HIDE DEF all, good
<1>2. open \in Seq(DOMAIN Games \intersect good)
  BY <1>1, AmongList
<1>3. open \in Seq(DOMAIN Games) /\ Len(open) \in Nat
  <2> HIDE DEF open
  <2> QED
    BY <1>2, SeqMonotonic
<1>4. Missing(after, size) = SubSeq(open, 1, Least(size, Len(open)))
  BY DEF Missing, all, good
<1> HIDE DEF open
<1>5. Least(size, Len(open)) \in Nat /\ Least(size, Len(open)) <= size /\ Least(size, Len(open)) <= Len(open)
  BY <1>3, LeastIs
<1> QED
  BY <1>3, <1>4, <1>5, FirstOf

(* The games a backfill takes from a page: of the target, within the limit. *)
LEMMA SelectedIs ==
  ASSUME NEW s \in SweepRecords, WithinInv(s), NEW page \in Seq(DOMAIN Games)
  PROVE  /\ Selected(s, page) \in Seq({i \in DOMAIN Games : Games[i].competition \in s.ids})
         /\ Len(Selected(s, page)) <= s.limit - Len(s.found)
<1> DEFINE good == {i \in DOMAIN Games : Games[i].competition \in s.ids}
           mine == Among(page, good)
           k == Least(s.limit - Len(s.found), Len(mine))
<1> HIDE DEF good
<1>1. mine \in Seq(DOMAIN Games \intersect good)
  BY AmongList
<1>2. DOMAIN Games \intersect good = good
  BY DEF good
<1> HIDE DEF mine
<1>3. mine \in Seq(good) /\ Len(mine) \in Nat
  BY <1>1, <1>2
<1>4. s.limit - Len(s.found) \in Nat
  BY DEF SweepRecords, WithinInv
<1>5. k \in Nat /\ k <= Len(mine) /\ k <= s.limit - Len(s.found)
  BY <1>3, <1>4, LeastIs
<1>6. Selected(s, page) = SubSeq(mine, 1, k)
  BY DEF Selected, mine, good
<1> HIDE DEF k
<1> QED
  BY <1>3, <1>5, <1>6, FirstOf DEF good

(* What a page adds to what was found. *)
LEMMA FoundWith ==
  ASSUME NEW found \in Seq(Nameable), NEW S \in SUBSET DOMAIN Games, NEW page \in Seq(S)
  PROVE  LET more == found \o [i \in DOMAIN page |-> Games[page[i]].fixture]
         IN  /\ more \in Seq(Nameable) /\ Len(more) = Len(found) + Len(page)
             /\ \A f \in ToSet(more) : f \in ToSet(found) \/ \E i \in S : Games[i].fixture = f
<1> DEFINE new == [i \in DOMAIN page |-> Games[page[i]].fixture]
           more == found \o new
<1>1. /\ Len(page) \in Nat /\ DOMAIN page = 1 .. Len(page)
      /\ \A i \in 1 .. Len(page) : page[i] \in S
  OBVIOUS
<1>2. \A i \in 1 .. Len(page) : new[i] = Games[page[i]].fixture /\ new[i] \in Nameable
  BY <1>1 DEF Fixtures, Nameable
<1>3. new \in Seq(Nameable) /\ Len(new) = Len(page)
  <2>1. new \in [1 .. Len(page) -> Nameable]
    BY <1>1, <1>2
  <2> HIDE DEF new
  <2> QED
    BY <1>1, <2>1
<1> HIDE DEF new
<1>4. /\ more \in Seq(Nameable) /\ Len(more) = Len(found) + Len(page)
      /\ \A i \in 1 .. Len(found) : more[i] = found[i]
      /\ \A i \in 1 .. Len(page) : more[Len(found) + i] = new[i]
      /\ Len(found) \in Nat
  BY <1>1, <1>3
<1> HIDE DEF more
<1>5. ASSUME NEW f \in ToSet(more)
      PROVE  f \in ToSet(found) \/ \E i \in S : Games[i].fixture = f
  <2>1. PICK j \in 1 .. Len(found) + Len(page) : f = more[j]
    BY <1>4, <1>5 DEF ToSet
  <2>2. CASE j <= Len(found)
    <3>1. j \in DOMAIN found /\ f = found[j]
      BY <1>4, <2>1, <2>2
    <3> QED
      BY <3>1 DEF ToSet
  <2>3. CASE j > Len(found)
    <3>1. j - Len(found) \in 1 .. Len(page)
      BY <1>1, <1>4, <2>1, <2>3
    <3>2. f = new[j - Len(found)]
      BY <1>4, <2>1, <3>1
    <3> QED
      BY <1>1, <1>2, <3>1, <3>2
  <2> QED
    BY <1>1, <1>4, <2>1, <2>2, <2>3
<1> QED
  BY <1>4, <1>5 DEF more, new

Sound(s) == s \in SweepRecords /\ WithinInv(s) /\ SelectionInv(s)

LEMMA StatusChange ==
  ASSUME NEW s, Sound(s), s.state # "idle",
         NEW status \in {"skipped", "aborted", "partial", "completed"},
         status = "completed" /\ ~s.dry => s.ok = ToSet(s.found)
  PROVE  /\ Sound(Ended(s, status))
         /\ Ended(s, status).ok = s.ok /\ Ended(s, status).payload = s.payload
<1> DEFINE t == Ended(s, status)
<1>1. /\ t \in SweepRecords
      /\ t.state = "done" /\ t.status = status
      /\ t.kind = s.kind /\ t.payload = s.payload /\ t.dry = s.dry /\ t.limit = s.limit
      /\ t.ids = s.ids /\ t.found = s.found /\ t.left = s.left /\ t.mode = s.mode
      /\ t.told = s.told /\ t.late = s.late /\ t.ok = s.ok /\ t.empty = s.empty
      /\ t.skipped = s.skipped /\ t.failed = s.failed /\ t.calls = s.calls
  BY DEF Sound, SweepRecords, Ended
<1> HIDE DEF t
<1>2. WithinInv(t)
  BY <1>1 DEF Sound, WithinInv
<1>3. SelectionInv(t)
  BY <1>1 DEF Sound, SelectionInv
<1> QED
  BY <1>1, <1>2, <1>3 DEF Sound, t

(* What follows a discovery keeps within its limit and its selection. *)
LEMMA DiscoveredKeeps ==
  ASSUME NEW s, Sound(s), s.state = "discovering"
  PROVE  /\ Sound(Discovered(s))
         /\ Discovered(s).ok = s.ok /\ Discovered(s).payload = s.payload
<1>1. s.calls = {} /\ s.ok = {}
  BY DEF Sound, WithinInv, SelectionInv
<1>2. CASE s.found = <<>> \/ s.dry
  <2>1. ~s.dry => s.ok = ToSet(s.found)
    BY <1>1, <1>2 DEF ToSet
  <2>2. Discovered(s) = Ended(s, "completed")
    BY <1>2 DEF Discovered
  <2> QED
    BY <2>1, <2>2, StatusChange
<1>3. CASE ~(s.found = <<>> \/ s.dry)
  <2> DEFINE t == [s EXCEPT !.state = "sweeping", !.left = s.found]
  <2>1. /\ t \in SweepRecords
        /\ t.state = "sweeping" /\ t.left = s.found /\ t.status = s.status
        /\ t.kind = s.kind /\ t.payload = s.payload /\ t.dry = s.dry /\ t.limit = s.limit
        /\ t.ids = s.ids /\ t.found = s.found /\ t.mode = s.mode
        /\ t.told = s.told /\ t.late = s.late /\ t.ok = s.ok /\ t.empty = s.empty
        /\ t.skipped = s.skipped /\ t.failed = s.failed /\ t.calls = s.calls
    BY DEF Sound, SweepRecords
  <2>2. Discovered(s) = t
    BY <1>3 DEF Discovered
  <2> HIDE DEF t
  <2>3. Len(s.found) \in Nat /\ Len(s.found) <= s.limit
    BY DEF Sound, SweepRecords, WithinInv
  <2>4. WithinInv(t)
    BY <1>1, <1>3, <2>1, <2>3, FS_EmptySet DEF Sound, WithinInv
  <2>5. SelectionInv(t)
    BY <1>1, <2>1 DEF Sound, SelectionInv
  <2> QED
    BY <2>1, <2>2, <2>4, <2>5 DEF Sound
<1> QED
  BY <1>2, <1>3

(* A run in its discovery, its list grown by a page. *)
Grown(s, page, after, pages) ==
    [s EXCEPT !.found = @ \o [i \in DOMAIN page |-> Games[page[i]].fixture],
              !.after = after, !.pages = pages]

LEMMA PageKeeps ==
  ASSUME NEW s, Sound(s), s.state = "discovering",
         NEW S \in SUBSET DOMAIN Games, NEW page \in Seq(S),
         s.kind = "backfill" => \A i \in S : Games[i].competition \in s.ids,
         Len(page) <= s.limit - Len(s.found),
         NEW after \in 0 .. Len(Games), NEW pages \in Nat
  PROVE  LET t == Grown(s, page, after, pages)
         IN  /\ Sound(t) /\ t.state = "discovering"
             /\ t.ok = s.ok /\ t.payload = s.payload
<1> DEFINE more == s.found \o [i \in DOMAIN page |-> Games[page[i]].fixture]
           t == [s EXCEPT !.found = more, !.after = after, !.pages = pages]
<1>1. /\ more \in Seq(Nameable) /\ Len(more) = Len(s.found) + Len(page)
      /\ \A f \in ToSet(more) : f \in ToSet(s.found) \/ \E i \in S : Games[i].fixture = f
  <2>1. s.found \in Seq(Nameable)
    BY DEF Sound, SweepRecords
  <2> QED
    BY <2>1, FoundWith, Zenon
<1> HIDE DEF more
<1>2. /\ t \in SweepRecords
      /\ t.state = s.state /\ t.found = more /\ t.left = s.left /\ t.status = s.status
      /\ t.kind = s.kind /\ t.payload = s.payload /\ t.dry = s.dry /\ t.limit = s.limit
      /\ t.ids = s.ids /\ t.mode = s.mode
      /\ t.told = s.told /\ t.late = s.late /\ t.ok = s.ok /\ t.empty = s.empty
      /\ t.skipped = s.skipped /\ t.failed = s.failed /\ t.calls = s.calls
  BY <1>1 DEF Sound, SweepRecords
<1> HIDE DEF t
<1>3. Len(s.found) \in Nat /\ Len(page) \in Nat /\ s.limit \in Nat
  BY DEF Sound, SweepRecords
<1>4. WithinInv(t)
  BY <1>1, <1>2, <1>3 DEF Sound, WithinInv
<1>5. SelectionInv(t)
  <2>1. t.calls = {} /\ t.state = "discovering"
    BY <1>2 DEF Sound, WithinInv
  <2>2. ASSUME t.kind = "backfill", NEW f \in ToSet(more)
        PROVE  \E i \in DOMAIN Games : Games[i].fixture = f /\ Games[i].competition \in t.ids
    BY <1>1, <1>2, <2>2 DEF Sound, SelectionInv
  <2> QED
    BY <1>1, <1>2, <2>1, <2>2 DEF Sound, SelectionInv
<1> QED
  BY <1>2, <1>4, <1>5 DEF Sound, Grown, t, more

(* A run as it begins: nothing asked, nothing judged. *)
LEMMA NewRunIsSound ==
  ASSUME NEW s \in SweepRecords,
         s.state \in {"idle", "discovering"}, s.status = "none", s.mode = "continue",
         ~s.told, ~s.late, s.left = <<>>, s.calls = {},
         s.ok = {}, s.empty = {}, s.skipped = {}, s.failed = {},
         Len(s.found) <= s.limit, s.kind = "backfill" => s.found = <<>>
  PROVE  Sound(s)
<1>1. WithinInv(s)
  BY FS_EmptySet DEF WithinInv, SweepRecords
<1>2. ToSet(<<>>) = {}
  BY DEF ToSet
<1>3. SelectionInv(s)
  BY <1>2 DEF SelectionInv
<1> QED
  BY <1>1, <1>3 DEF Sound

LEMMA StartPayloadsKeeps ==
  ASSUME SweepInv, NEW input \in Inputs, StartPayloads(input)
  PROVE  Sound(sweep') /\ RowsInv'
<1> DEFINE fresh == [NoSweep EXCEPT !.kind = "sweep", !.payload = input.payload, !.dry = input.dry,
                                    !.limit = ClampLimit(input.limit), !.state = "discovering"]
           named == SetToSeq(input.named)
           some == SubSeq(named, 1, Least(fresh.limit, Len(named)))
           chosen == [fresh EXCEPT !.found = some]
<1>1. /\ fresh \in SweepRecords
      /\ fresh.state = "discovering" /\ fresh.status = "none" /\ fresh.mode = "continue"
      /\ ~fresh.told /\ ~fresh.late /\ fresh.left = <<>> /\ fresh.calls = {} /\ fresh.found = <<>>
      /\ fresh.ok = {} /\ fresh.empty = {} /\ fresh.skipped = {} /\ fresh.failed = {}
      /\ fresh.kind = "sweep"
  <2>1. <<>> \in Seq(Nameable)
    BY EmptySeq
  <2>2. input.dry \in BOOLEAN /\ 0 \in 0 .. Len(Games)
    BY SweepAssumption, GamesList
  <2> QED
    BY <2>1, <2>2, ClampLimitIs DEF NoSweep, SweepRecords, Actions
<1> HIDE DEF fresh
<1>2. /\ some \in Seq(Nameable) /\ Len(some) <= fresh.limit
  <2>1. IsFiniteSet(input.named) /\ input.named \subseteq Nameable
    BY SweepAssumption DEF Nameable
  <2>2. named \in Seq(input.named)
    BY <2>1, ListOfSet
  <2>3. named \in Seq(Nameable) /\ Len(named) \in Nat
    <3> HIDE DEF named
    <3> QED
      BY <2>1, <2>2, SeqMonotonic
  <2> HIDE DEF named
  <2>4. fresh.limit \in Nat
    BY <1>1 DEF SweepRecords
  <2> DEFINE k == Least(fresh.limit, Len(named))
  <2>5. k \in Nat /\ k <= Len(named) /\ k <= fresh.limit
    BY <2>3, <2>4, LeastIs
  <2> HIDE DEF k
  <2>6. SubSeq(named, 1, k) \in Seq(Nameable) /\ Len(SubSeq(named, 1, k)) <= fresh.limit
    BY <2>3, <2>5, FirstOf
  <2> QED
    BY <2>6 DEF k
<1> HIDE DEF some
<1>3. Sound(fresh)
  <2>1. Len(fresh.found) <= fresh.limit
    BY <1>1 DEF SweepRecords
  <2> QED
    BY <1>1, <2>1, NewRunIsSound
<1>4. Sound(chosen) /\ chosen.ok = {} /\ chosen.state = "discovering"
  <2>1. /\ chosen \in SweepRecords /\ chosen.limit = fresh.limit
        /\ chosen.state = "discovering" /\ chosen.status = "none" /\ chosen.mode = "continue"
        /\ ~chosen.told /\ ~chosen.late /\ chosen.left = <<>> /\ chosen.calls = {}
        /\ chosen.found = some
        /\ chosen.ok = {} /\ chosen.empty = {} /\ chosen.skipped = {} /\ chosen.failed = {}
        /\ chosen.kind = "sweep"
    BY <1>1, <1>2 DEF SweepRecords
  <2> HIDE DEF chosen
  <2> QED
    BY <1>2, <2>1, NewRunIsSound
<1>5. sweep' \in {Ended(fresh, "skipped"), fresh, Discovered(chosen)}
  BY DEF StartPayloads, fresh, some
<1> HIDE DEF chosen
<1>6. /\ Sound(Ended(fresh, "skipped")) /\ Ended(fresh, "skipped").ok = {}
      /\ Sound(Discovered(chosen)) /\ Discovered(chosen).ok = {}
  BY <1>1, <1>3, <1>4, StatusChange, DiscoveredKeeps
<1>7. Sound(sweep') /\ sweep'.ok = {}
  BY <1>1, <1>3, <1>5, <1>6
<1> QED
  BY <1>7 DEF RowsInv

LEMMA StartBackfillKeeps ==
  ASSUME SweepInv, NEW input \in Inputs, NEW resolved \in BOOLEAN, StartBackfill(input, resolved)
  PROVE  Sound(sweep') /\ RowsInv'
<1> DEFINE fresh == [NoSweep EXCEPT !.kind = "backfill", !.payload = input.payload,
                                    !.dry = input.dry, !.limit = ClampLimit(input.limit),
                                    !.state = "discovering", !.ids = CandidateIds(resolved)]
<1>1. /\ fresh \in SweepRecords
      /\ fresh.state = "discovering" /\ fresh.status = "none" /\ fresh.mode = "continue"
      /\ ~fresh.told /\ ~fresh.late /\ fresh.left = <<>> /\ fresh.calls = {} /\ fresh.found = <<>>
      /\ fresh.ok = {} /\ fresh.empty = {} /\ fresh.skipped = {} /\ fresh.failed = {}
  <2>1. <<>> \in Seq(Nameable)
    BY EmptySeq
  <2>2. input.dry \in BOOLEAN /\ 0 \in 0 .. Len(Games)
    BY SweepAssumption, GamesList
  <2>3. CandidateIds(resolved) \in SUBSET {Own.provider, Own.canonical}
    BY DEF CandidateIds
  <2> QED
    BY <2>1, <2>2, <2>3, ClampLimitIs DEF NoSweep, SweepRecords, Actions
<1>2. sweep' \in {Ended(fresh, "aborted"), fresh}
  BY DEF StartBackfill
<1> HIDE DEF fresh
<1>3. Sound(fresh)
  <2>1. Len(fresh.found) <= fresh.limit
    BY <1>1 DEF SweepRecords
  <2> QED
    BY <1>1, <2>1, NewRunIsSound
<1>4. Sound(Ended(fresh, "aborted")) /\ Ended(fresh, "aborted").ok = {}
  BY <1>1, <1>3, StatusChange
<1>5. Sound(sweep') /\ sweep'.ok = {}
  BY <1>1, <1>2, <1>3, <1>4
<1> QED
  BY <1>5 DEF RowsInv

(* One page of the discovery of what is missing, or of what a competition  *)
(* misses.                                                                 *)
LEMMA DiscoverMissingKeeps ==
  ASSUME SweepInv, DiscoverMissing
  PROVE  Sound(sweep') /\ RowsInv'
<1> DEFINE size == Least(Page, sweep.limit - Len(sweep.found))
           page == Missing(sweep.after, size)
           after == IF page = <<>> THEN sweep.after ELSE Last(page)
           s == Grown(sweep, page, after, sweep.pages)
<1>1. Sound(sweep) /\ sweep.state = "discovering" /\ sweep.kind = "sweep" /\ sweep \in SweepRecords
  BY DEF SweepInv, Sound, DiscoverMissing
<1>2. size \in Nat /\ size <= sweep.limit - Len(sweep.found)
  <2>1. sweep.limit - Len(sweep.found) \in Nat /\ Page \in Nat
    BY <1>1, SweepAssumption DEF Sound, WithinInv, SweepRecords
  <2> QED
    BY <2>1, LeastIs
<1> HIDE DEF size
<1>3. page \in Seq(DOMAIN Games) /\ Len(page) <= size /\ Len(page) \in Nat
  <2>1. sweep.after \in 0 .. Len(Games)
    BY <1>1 DEF SweepRecords
  <2>2. page \in Seq(DOMAIN Games) /\ Len(page) <= size
    BY <1>2, <2>1, PageIs
  <2> HIDE DEF page
  <2> QED
    BY <2>2
<1>4. sweep' \in {Discovered(s), s}
  <2>1. [sweep EXCEPT !.found = @ \o [i \in DOMAIN page |-> Games[page[i]].fixture],
                      !.after = IF page = <<>> THEN @ ELSE Last(page)] = s
    BY <1>1 DEF SweepRecords, Grown
  <2> QED
    BY <2>1 DEF DiscoverMissing, size
<1> HIDE DEF page
<1>5. after \in 0 .. Len(Games) /\ sweep.pages \in Nat
  BY <1>1, <1>3, GamesList DEF SweepRecords, Last
<1> HIDE DEF after
<1>6. Sound(s) /\ s.state = "discovering" /\ s.ok = sweep.ok /\ s.payload = sweep.payload
  <2>1. Len(page) <= sweep.limit - Len(sweep.found)
    BY <1>1, <1>2, <1>3 DEF SweepRecords
  <2> QED
    BY <1>1, <1>3, <1>5, <2>1, PageKeeps, Zenon
<1> HIDE DEF s
<1>7. Sound(sweep') /\ sweep'.ok = sweep.ok
  BY <1>4, <1>6, DiscoveredKeeps
<1>8. sweep.ok = {}
  BY <1>1 DEF Sound, WithinInv, SelectionInv
<1> QED
  BY <1>7, <1>8 DEF RowsInv

LEMMA DiscoverCompetitionKeeps ==
  ASSUME SweepInv, DiscoverCompetition
  PROVE  Sound(sweep') /\ RowsInv'
<1> DEFINE page == Missing(sweep.after, WidePage)
           mine == Selected(sweep, page)
           after == IF page = <<>> THEN sweep.after ELSE Last(page)
           s == Grown(sweep, mine, after, sweep.pages + 1)
           good == {i \in DOMAIN Games : Games[i].competition \in sweep.ids}
<1>1. Sound(sweep) /\ sweep.state = "discovering" /\ sweep \in SweepRecords /\ WithinInv(sweep)
  BY DEF SweepInv, Sound, DiscoverCompetition
<1>2. page \in Seq(DOMAIN Games)
  <2>1. sweep.after \in 0 .. Len(Games) /\ WidePage \in Nat
    BY <1>1, SweepAssumption DEF SweepRecords
  <2> QED
    BY <2>1, PageIs
<1>3. sweep' \in {Discovered(s), s}
  <2>1. [sweep EXCEPT !.found = @ \o [i \in DOMAIN mine |-> Games[mine[i]].fixture],
                      !.after = IF page = <<>> THEN @ ELSE Last(page),
                      !.pages = @ + 1] = s
    BY <1>1 DEF SweepRecords, Grown
  <2> QED
    BY <2>1 DEF DiscoverCompetition
<1> HIDE DEF page
<1>4. mine \in Seq(good) /\ Len(mine) <= sweep.limit - Len(sweep.found)
  BY <1>1, <1>2, SelectedIs
<1>5. after \in 0 .. Len(Games) /\ sweep.pages + 1 \in Nat
  BY <1>1, <1>2, GamesList DEF SweepRecords, Last
<1> HIDE DEF after, mine
<1>6. Sound(s) /\ s.state = "discovering" /\ s.ok = sweep.ok /\ s.payload = sweep.payload
  <2>1. good \in SUBSET DOMAIN Games /\ \A i \in good : Games[i].competition \in sweep.ids
    OBVIOUS
  <2> HIDE DEF good
  <2> QED
    BY <1>1, <1>4, <1>5, <2>1, PageKeeps, Zenon
<1> HIDE DEF s
<1>7. Sound(sweep') /\ sweep'.ok = sweep.ok
  BY <1>3, <1>6, DiscoveredKeeps
<1>8. sweep.ok = {}
  BY <1>1 DEF Sound, WithinInv, SelectionInv
<1> QED
  BY <1>7, <1>8 DEF RowsInv

LEMMA FinishSweepKeeps ==
  ASSUME SweepInv, FinishSweep \/ DiscoveryFails
  PROVE  Sound(sweep') /\ RowsInv'
<1>1. Sound(sweep) /\ sweep.state \in {"discovering", "sweeping"}
  BY DEF SweepInv, Sound, FinishSweep, DiscoveryFails
<1>2. \E status \in {"aborted", "partial", "completed"} :
         /\ sweep' = Ended(sweep, status)
         /\ status = "completed" => sweep.ok = ToSet(sweep.found)
  <2>1. CASE DiscoveryFails
    BY <2>1 DEF DiscoveryFails
  <2>2. CASE FinishSweep
    <3>1. FinalStatus(sweep) \in {"aborted", "partial", "completed"}
      BY DEF FinalStatus
    <3>2. ASSUME FinalStatus(sweep) = "completed" PROVE sweep.ok = ToSet(sweep.found)
      <4>1. sweep.left = <<>> /\ sweep.failed \union sweep.skipped \union sweep.empty = {}
        BY <3>2 DEF FinalStatus
      <4>2. ToSet(sweep.left) = {}
        BY <4>1 DEF ToSet
      <4>3. sweep.state = "sweeping"
        BY <2>2 DEF FinishSweep
      <4> QED
        BY <1>1, <4>1, <4>2, <4>3 DEF Sound, SelectionInv
    <3>3. sweep' = Ended(sweep, FinalStatus(sweep))
      BY <2>2 DEF FinishSweep
    <3> QED
      BY <3>1, <3>2, <3>3
  <2> QED
    BY <2>1, <2>2
<1>3. Sound(sweep') /\ sweep'.ok = sweep.ok /\ sweep'.payload = sweep.payload
  BY <1>1, <1>2, StatusChange
<1>4. UNCHANGED <<rows, lost>>
  BY DEF FinishSweep, DiscoveryFails
<1> QED
  BY <1>3, <1>4 DEF SweepInv, RowsInv, Mapped, Decoded

(* One fixture: it leaves the list, is called, and is judged. *)
LEMMA SweepFixtureKeeps ==
  ASSUME SweepInv, SweepFixture
  PROVE  Sound(sweep') /\ RowsInv'
<1> DEFINE f == Head(sweep.left)
<1>1. /\ sweep \in SweepRecords /\ WithinInv(sweep) /\ SelectionInv(sweep)
      /\ sweep.state = "sweeping" /\ sweep.left # <<>> /\ sweep.mode # "abort"
  BY DEF SweepInv, SweepFixture
<1>2. /\ f \in Nameable /\ Tail(sweep.left) \in Seq(Nameable)
      /\ Len(sweep.left) \in Nat /\ Len(Tail(sweep.left)) = Len(sweep.left) - 1
      /\ ToSet(sweep.left) = {f} \union ToSet(Tail(sweep.left))
  <2>1. sweep.left \in Seq(Nameable)
    BY <1>1 DEF SweepRecords
  <2> QED
    BY <1>1, <2>1, HeadAndTail
<1> HIDE DEF f
<1>3. PICK answer \in {"data", "skipped", "denied", "rate_limited", "failed", "thrown"},
           posture \in Postures, kept \in BOOLEAN :
         LET degrade == IF answer = "rate_limited" THEN "skip-non-essential" ELSE "continue"
             writes == answer = "data" /\ Mapped(sweep.payload, f) # {}
         IN  /\ sweep' = [Counted(sweep, f, answer) EXCEPT
                            !.left = Tail(@),
                            !.calls = @ \union {f},
                            !.late = @ \/ sweep.told,
                            !.told = @ \/ (answer # "thrown" /\ posture = "hard_cap_reached"),
                            !.mode = IF answer = "thrown" THEN @
                                     ELSE MostRestrictive({@, QuotaAction(posture), degrade})]
             /\ rows' = IF writes /\ kept THEN rows \union {f} ELSE rows
             /\ lost' = IF writes /\ ~kept THEN lost \union {f} ELSE lost
  BY DEF SweepFixture, f
<1> DEFINE c == Counted(sweep, f, answer)
           degrade == IF answer = "rate_limited" THEN "skip-non-essential" ELSE "continue"
           mode == IF answer = "thrown" THEN sweep.mode
                   ELSE MostRestrictive({sweep.mode, QuotaAction(posture), degrade})
           told == sweep.told \/ (answer # "thrown" /\ posture = "hard_cap_reached")
           late == sweep.late \/ sweep.told
           calls == sweep.calls \union {f}
           t == [c EXCEPT !.left = Tail(sweep.left), !.calls = calls, !.late = late,
                          !.told = told, !.mode = mode]
<1>4. /\ c \in SweepRecords
      /\ c.state = sweep.state /\ c.found = sweep.found /\ c.left = sweep.left
      /\ c.status = sweep.status /\ c.kind = sweep.kind /\ c.payload = sweep.payload
      /\ c.dry = sweep.dry /\ c.limit = sweep.limit /\ c.ids = sweep.ids
      /\ c.mode = sweep.mode /\ c.told = sweep.told /\ c.late = sweep.late
      /\ c.calls = sweep.calls
      /\ c.ok \union c.empty \union c.skipped \union c.failed
           = sweep.ok \union sweep.empty \union sweep.skipped \union sweep.failed \union {f}
      /\ c.ok = sweep.ok \/ (c.ok = sweep.ok \union {f} /\ answer = "data" /\ Decoded(f) # {})
  <2>1. CASE answer = "data" /\ Decoded(f) # {}
    <3>1. c = [sweep EXCEPT !.ok = sweep.ok \union {f}]
      BY <2>1 DEF Counted
    <3> HIDE DEF c
    <3> QED
      BY <1>1, <1>2, <2>1, <3>1 DEF SweepRecords
  <2>2. CASE answer = "data" /\ Decoded(f) = {}
    <3>1. c = [sweep EXCEPT !.empty = sweep.empty \union {f}]
      BY <2>2 DEF Counted
    <3> HIDE DEF c
    <3> QED
      BY <1>1, <1>2, <3>1 DEF SweepRecords
  <2>3. CASE answer \in {"skipped", "denied", "rate_limited"}
    <3>1. c = [sweep EXCEPT !.skipped = sweep.skipped \union {f}]
      BY <2>3 DEF Counted
    <3> HIDE DEF c
    <3> QED
      BY <1>1, <1>2, <3>1 DEF SweepRecords
  <2>4. CASE answer \in {"failed", "thrown"}
    <3>1. c = [sweep EXCEPT !.failed = sweep.failed \union {f}]
      BY <2>4 DEF Counted
    <3> HIDE DEF c
    <3> QED
      BY <1>1, <1>2, <3>1 DEF SweepRecords
  <2> QED
    BY <2>1, <2>2, <2>3, <2>4
<1> HIDE DEF c
<1>5. mode \in Actions /\ (told => mode = "abort") /\ told \in BOOLEAN /\ late = FALSE
  <2>1. ~sweep.told /\ ~sweep.late
    BY <1>1 DEF WithinInv
  <2>2. QuotaAction(posture) \in Actions /\ sweep.mode \in Actions /\ degrade \in Actions
    BY <1>1, QuotaActionIs DEF SweepRecords, Actions
  <2>3. {sweep.mode, QuotaAction(posture), degrade} \in SUBSET Actions
    BY <2>2
  <2>4. MostRestrictive({sweep.mode, QuotaAction(posture), degrade}) \in Actions
    BY <2>2, <2>3, MostRestrictiveIs
  <2>5. posture = "hard_cap_reached" =>
            MostRestrictive({sweep.mode, QuotaAction(posture), degrade}) = "abort"
    <3> SUFFICES ASSUME posture = "hard_cap_reached"
                 PROVE  MostRestrictive({sweep.mode, QuotaAction(posture), degrade}) = "abort"
      OBVIOUS
    <3>1. QuotaAction(posture) = "abort"
      BY DEF QuotaAction
    <3> QED
      BY <2>3, <3>1, MostRestrictiveIs
  <2> QED
    BY <2>1, <2>2, <2>4, <2>5
<1>6. sweep' = t
  BY <1>3, <1>4 DEF c
<1> HIDE DEF mode, told, late
<1>7. calls \in SUBSET Nameable
  BY <1>1, <1>2 DEF SweepRecords
<1> HIDE DEF calls
<1>8. /\ t \in SweepRecords
      /\ t.left = Tail(sweep.left) /\ t.calls = calls /\ t.late = late /\ t.told = told
      /\ t.mode = mode /\ t.ok = c.ok /\ t.empty = c.empty /\ t.skipped = c.skipped
      /\ t.failed = c.failed /\ t.state = c.state /\ t.found = c.found /\ t.status = c.status
      /\ t.kind = c.kind /\ t.payload = c.payload /\ t.dry = c.dry /\ t.limit = c.limit
      /\ t.ids = c.ids
  BY <1>2, <1>4, <1>5, <1>7 DEF SweepRecords
<1> HIDE DEF t
<1>9. WithinInv(t)
  <2>1. IsFiniteSet(calls) /\ Cardinality(calls) <= Cardinality(sweep.calls) + 1
        /\ Cardinality(sweep.calls) \in Nat /\ Cardinality(calls) \in Nat
    <3>1. IsFiniteSet(sweep.calls)
      BY <1>1 DEF WithinInv
    <3>2. /\ IsFiniteSet(calls) /\ Cardinality(sweep.calls) \in Nat
          /\ Cardinality(calls) \in {Cardinality(sweep.calls), Cardinality(sweep.calls) + 1}
      BY <3>1, FS_AddElement, FS_CardinalityType DEF calls
    <3> QED
      BY <3>2
  <2>2. sweep.limit \in Nat
    BY <1>1 DEF SweepRecords
  <2>3. Cardinality(calls) + Len(Tail(sweep.left)) <= sweep.limit
    BY <1>1, <1>2, <2>1, <2>2 DEF WithinInv
  <2> QED
    BY <1>1, <1>4, <1>5, <1>8, <2>1, <2>3 DEF WithinInv
<1>10. SelectionInv(t)
  <2>1. calls \union ToSet(Tail(sweep.left)) = ToSet(sweep.found) /\ calls \subseteq ToSet(sweep.found)
    BY <1>1, <1>2 DEF SelectionInv, calls
  <2>2. t.ok \union t.empty \union t.skipped \union t.failed = calls
    BY <1>1, <1>4, <1>8 DEF SelectionInv, calls
  <2> QED
    BY <1>1, <1>4, <1>8, <2>1, <2>2 DEF SelectionInv
<1>11. RowsInv'
  <2>1. ASSUME NEW g \in sweep.ok
        PROVE  \/ g \in rows' \union lost'
               \/ sweep.payload = "player-match-stats" /\ Mapped(sweep.payload, g) = {}
    BY <1>3 DEF SweepInv, RowsInv
  <2>2. ASSUME answer = "data", Decoded(f) # {}
        PROVE  \/ f \in rows' \union lost'
               \/ sweep.payload = "player-match-stats" /\ Mapped(sweep.payload, f) = {}
    <3>1. CASE Mapped(sweep.payload, f) # {}
      BY <1>3, <2>2, <3>1
    <3>2. CASE Mapped(sweep.payload, f) = {}
      BY <2>2, <3>2 DEF Mapped
    <3> QED
      BY <3>1, <3>2
  <2>3. sweep'.payload = sweep.payload /\ sweep'.ok = c.ok
    BY <1>4, <1>6, <1>8
  <2> QED
    BY <1>4, <2>1, <2>2, <2>3 DEF RowsInv, Mapped, Decoded
<1> QED
  BY <1>6, <1>8, <1>9, <1>10, <1>11 DEF Sound

LEMMA SweepInvariant == SweepInv /\ [WorkNext]_workVars => SweepInv'
<1> SUFFICES ASSUME SweepInv, [WorkNext]_workVars PROVE SweepInv'
  OBVIOUS
<1>1. CASE SweepNext
  <2>1. CASE \E f \in Fixtures : FillElsewhere(f)
    BY <2>1 DEF FillElsewhere, SweepInv, RowsInv, WithinInv, SelectionInv, SweepRecords, Mapped, Decoded
  <2>2. CASE ~ \E f \in Fixtures : FillElsewhere(f)
    <3>1. Sound(sweep') /\ RowsInv'
      BY <1>1, <2>2, StartPayloadsKeeps, StartBackfillKeeps, DiscoverMissingKeeps,
         DiscoverCompetitionKeeps, FinishSweepKeeps, SweepFixtureKeeps DEF SweepNext
    <3> QED
      BY <3>1 DEF SweepInv, Sound, WithinInv, SelectionInv, SweepRecords
  <2> QED
    BY <2>1, <2>2
<1>2. CASE UNCHANGED sweepVars
  BY <1>2 DEF sweepVars, SweepInv, RowsInv, WithinInv, SelectionInv, SweepRecords, Mapped, Decoded
<1> QED
  BY <1>1, <1>2 DEF WorkNext, workVars

LEMMA SweepInitially == WorkInit => SweepInv
<1> SUFFICES ASSUME sweep = NoSweep PROVE SweepInv
  BY DEF WorkInit, SweepInit
<1>1. MaxLimit \in Nat /\ 0 \in 0 .. Len(Games) /\ <<>> \in Seq(Nameable)
  BY SweepAssumption, GamesList, EmptySeq
<1>2. NoSweep \in SweepRecords
  BY <1>1 DEF NoSweep, SweepRecords, Actions
<1>3. Len(NoSweep.found) = 0 /\ NoSweep.limit = 0
  BY DEF NoSweep
<1>4. Sound(NoSweep)
  BY <1>2, <1>3, NewRunIsSound DEF NoSweep
<1> QED
  BY <1>4 DEF Sound, SweepInv, RowsInv, NoSweep

THEOREM SweepInvariance == WorkSpec => []SweepInv
  BY SweepInitially, SweepInvariant, PTL DEF WorkSpec

(* A payload sweep or a backfill asks the provider for nothing when it is  *)
(* dry, for no more than its limit, for its own competition only, and for  *)
(* nothing once it was told hard cap (sweep-missing-payloads.ts,           *)
(* competition-payload-backfill.ts).                                       *)
THEOREM SweepsWithin == WorkSpec => []SweepWithin
<1>1. ASSUME SweepInv PROVE SweepWithin
  <2>1. sweep \in SweepRecords /\ WithinInv(sweep) /\ SelectionInv(sweep)
    BY <1>1 DEF SweepInv
  <2>2. Cardinality(sweep.calls) <= sweep.limit /\ sweep.limit <= MaxLimit
    <3>1. Cardinality(sweep.calls) \in Nat /\ Len(sweep.left) \in Nat /\ sweep.limit \in 0 .. MaxLimit
      BY <2>1, FS_CardinalityType DEF SweepRecords, WithinInv
    <3> QED
      BY <2>1, <3>1 DEF WithinInv
  <2>3. ASSUME sweep.kind = "backfill", NEW i \in DOMAIN Games, Games[i].fixture \in sweep.calls
        PROVE  Games[i].competition \in {Own.provider, Own.canonical}
    <3>1. PICK j \in DOMAIN Games :
              Games[j].fixture = Games[i].fixture /\ Games[j].competition \in sweep.ids
      BY <2>1, <2>3 DEF SelectionInv
    <3>2. i = j
      BY <3>1, SweepAssumption
    <3> QED
      BY <2>1, <3>1, <3>2 DEF SweepRecords
  <2> QED
    BY <2>1, <2>2, <2>3 DEF SweepWithin, WithinInv
<1> QED
  BY <1>1, SweepInvariance, PTL

(* What a sweep reports is so: a fixture counted ok was decoded to a row,  *)
(* and a run says completed only when every one of its selection is ok.    *)
THEOREM SweepsHonest == WorkSpec => []SweepHonest
<1>1. SweepInv => SweepHonest
  BY DEF SweepInv, RowsInv, SelectionInv, SweepHonest
<1> QED
  BY <1>1, SweepInvariance, PTL

---------------------------------------------------------------------------
(* The scheduled walks.                                                    *)

(* What the lists of a walk may hold, and the calls that may be asked.     *)
Listings == UNION {ToSet(Window[c]) : c \in ToSet(Catalogue)}
Members == UNION {ToSet(f.teams) : f \in Listings}
Subjects ==
    ToSet(Catalogue) \union Members \union {f.id : f \in Listings}
        \union {Window[Catalogue[1]][1].id}
Workloads ==
    {"fixtures-next-7d", "competition-standings", "competition-current-season", "table",
     "fixtures-next-24h", "fixture-detail-fullTime", "events-post-final", "lineups-post-confirm",
     "team-match-stats", "player-match-stats", "team-metadata"}
Calls == Workloads \X Subjects
Times == Moments \union {Idle.at}
WalkRecords ==
    [kind : {"none"} \union Routes, state : {"idle", "walking", "done", "thrown"}, at : Times,
     todo : Seq(Subjects), plan : Seq(Calls), mode : Actions, told : BOOLEAN,
     useful : BOOLEAN, asked : SUBSET (Subjects \X Calls), listed : SUBSET Subjects]

(* What an anchor owes the fixtures of a list.                             *)
Owed(list) ==
    {Call("team-metadata", t) : t \in UNION {ToSet(list[i].teams) : i \in DOMAIN list}}
        \union UNION {ToSet(Reconciliation(list[i])) : i \in {j \in DOMAIN list : list[j].status = "FT"}}

(* A walk that goes on has a call to make, was not told hard cap, and asks *)
(* an anchor's competitions of the catalogue.                              *)
WalkInv(w) ==
    /\ w.state = "walking" =>
           /\ w.kind \in Kinds /\ w.todo # <<>> /\ w.plan # <<>>
           /\ ~w.told /\ w.mode # "abort"
    /\ w.kind = "daily-anchor" =>
           w.todo \in Seq(ToSet(Catalogue)) /\ w.listed \subseteq ToSet(Catalogue)

(* What an anchor owes the lists it got is asked, or is in the plan of the *)
(* competition it is at.                                                   *)
OwedInv(w) ==
    w.kind = "daily-anchor" /\ ~w.told =>
        \A c \in w.listed : \A call \in Owed(Window[c]) :
            \/ <<c, call>> \in w.asked
            \/ /\ w.state \in {"walking", "thrown"} /\ w.todo # <<>>
               /\ c = Head(w.todo) /\ call \in ToSet(w.plan)

---------------------------------------------------------------------------
(* The stream of a run.                                                    *)

HttpRecords ==
    /\ walk \in [Runs -> WalkRecords] /\ said \in [Runs -> Nat]
    /\ reply \in [Runs -> {0, 200, 202, 400, 401, 404, 428, 502, 503}]
    /\ queue \in [Runs -> Seq(Lines)] /\ written \in [Runs -> Seq(Lines)]
    /\ timer \in [Runs -> BOOLEAN] /\ closed \in [Runs -> BOOLEAN]
    /\ verdict \in [Runs -> {Pending} \union Lines]
    /\ waiting \in [Runs -> BOOLEAN] /\ ended \in [Runs -> BOOLEAN]
    /\ gone \in [Runs -> BOOLEAN] /\ process \in {"up", "closing", "exited"}

(* All that a run has to tell by now. *)
Story(s) ==
    LET entries == [i \in 1 .. said[s] |-> Entry(i)]
    IN  IF verdict[s] = Pending THEN entries ELSE Append(entries, verdict[s])

(* A run that was not accepted has done nothing, and the phases of a       *)
(* stream come in their order.                                             *)
PhaseInv(s) ==
    /\ walk[s].state = "idle" =>
           /\ walk[s] = Idle /\ said[s] = 0
           /\ queue[s] = <<>> /\ written[s] = <<>> /\ verdict[s] = Pending
           /\ ~timer[s] /\ ~closed[s] /\ ~gone[s]
           /\ reply[s] # 0 => ended[s]
    /\ reply[s] = 0 => walk[s].state = "idle" /\ ~ended[s]
    /\ verdict[s] # Pending => Settled(s)
    /\ closed[s] => verdict[s] # Pending /\ ~timer[s]
    /\ verdict[s] # Pending /\ ~timer[s] => closed[s]

(* The lines of a story after the k-th are in a queue, in their order, and *)
(* nothing but heartbeats between them.                                    *)
Follows(story, q, k) ==
    \E place \in [1 .. Len(story) - k -> 1 .. Len(q)] :
        /\ \A i \in 1 .. Len(story) - k : q[place[i]] = story[k + i]
        /\ \A i, j \in 1 .. Len(story) - k : i < j => place[i] < place[j]
        /\ \A p \in 1 .. Len(q) : q[p] = Beat \/ \E i \in 1 .. Len(story) - k : place[i] = p

(* What is written is the beginning of the story, what is queued the rest, *)
(* unless the caller is gone; the verdict is the last line of the queue.   *)
FlowInv(s) ==
    /\ Len(written[s]) <= Len(Story(s))
    /\ \A i \in 1 .. Len(written[s]) : written[s][i] = Story(s)[i]
    /\ ~gone[s] => Follows(Story(s), queue[s], Len(written[s]))
    /\ verdict[s] # Pending =>
           /\ verdict[s] \in {Verdict("ok"), Verdict("failed"), Verdict("error")}
           /\ queue[s] # <<>> => queue[s][Len(queue[s])] = verdict[s]

HttpInv ==
    /\ HttpRecords
    /\ \A s \in Runs : WalkInv(walk[s]) /\ OwedInv(walk[s]) /\ PhaseInv(s) /\ FlowInv(s)

LEMMA ConcatToSet ==
  ASSUME NEW S, NEW s \in Seq(S), NEW t \in Seq(S)
  PROVE  s \o t \in Seq(S) /\ ToSet(s \o t) = ToSet(s) \union ToSet(t)
<1> DEFINE m == Len(s)
           n == Len(t)
           u == s \o t
<1>1. /\ m \in Nat /\ n \in Nat /\ DOMAIN s = 1 .. m /\ DOMAIN t = 1 .. n
      /\ u \in Seq(S) /\ DOMAIN u = 1 .. m + n
      /\ \A i \in 1 .. m : u[i] = s[i]
      /\ \A i \in 1 .. n : u[m + i] = t[i]
  OBVIOUS
<1> HIDE DEF u, m, n
<1>2. ASSUME NEW x \in ToSet(u) PROVE x \in ToSet(s) \union ToSet(t)
  <2>1. PICK i \in 1 .. m + n : x = u[i]
    BY <1>1, <1>2 DEF ToSet
  <2>2. CASE i <= m
    <3>1. i \in 1 .. m /\ x = s[i]
      BY <1>1, <2>1, <2>2
    <3> QED
      BY <1>1, <3>1 DEF ToSet
  <2>3. CASE i > m
    <3>1. i - m \in 1 .. n /\ u[m + (i - m)] = t[i - m] /\ m + (i - m) = i
      BY <1>1, <2>1, <2>3
    <3> QED
      BY <1>1, <2>1, <3>1 DEF ToSet
  <2> QED
    BY <1>1, <2>2, <2>3
<1>3. ASSUME NEW x \in ToSet(s) PROVE x \in ToSet(u)
  BY <1>1, <1>3 DEF ToSet
<1>4. ASSUME NEW x \in ToSet(t) PROVE x \in ToSet(u)
  <2>1. PICK i \in 1 .. n : x = t[i]
    BY <1>1, <1>4 DEF ToSet
  <2>2. m + i \in 1 .. m + n /\ u[m + i] = x
    BY <1>1, <2>1
  <2> QED
    BY <1>1, <2>2 DEF ToSet
<1> QED
  BY <1>1, <1>2, <1>3, <1>4 DEF u

LEMMA ReconciliationIs ==
  ASSUME NEW f \in Listings
  PROVE  Reconciliation(f) \in Seq(Calls)
  BY DEF Reconciliation, Call, Calls, Workloads, Subjects

Walked == [seen : SUBSET Members, calls : Seq(Calls)]

(* One step of the walk over a list: the teams not met yet, each asked for, *)
(* and the reconciliation of a fixture that is over.                       *)
LEMMA WalkFixtureIs ==
  ASSUME NEW x \in Walked, NEW f \in Listings, NEW moment, NEW calendar
  PROVE  LET y == WalkFixture(x, f, moment, calendar)
         IN  /\ y \in Walked
             /\ ToSet(x.calls) \subseteq ToSet(y.calls)
             /\ y.seen = x.seen \union ToSet(f.teams)
             /\ \A t \in ToSet(f.teams) \ x.seen : Call("team-metadata", t) \in ToSet(y.calls)
             /\ f.status = "FT" => ToSet(Reconciliation(f)) \subseteq ToSet(y.calls)
<1> DEFINE new == Among(f.teams, ToSet(f.teams) \ x.seen)
           met == [i \in DOMAIN new |-> Call("team-metadata", new[i])]
           rest == IF Finalised(f, moment, calendar) THEN Reconciliation(f) ELSE <<>>
           y == WalkFixture(x, f, moment, calendar)
<1>1. f.teams \in Seq(ToSet(f.teams)) /\ ToSet(f.teams) \subseteq Members /\ Members \subseteq Subjects
  BY MatchdayAssumption DEF Listings, Members, Subjects
<1>2. /\ new \in Seq(ToSet(f.teams) \intersect (ToSet(f.teams) \ x.seen))
      /\ ToSet(new) = ToSet(f.teams) \intersect (ToSet(f.teams) \ x.seen)
  BY <1>1, AmongList
<1> HIDE DEF new
<1>3. met \in Seq(Calls) /\ \A t \in ToSet(new) : Call("team-metadata", t) \in ToSet(met)
  <2>1. /\ Len(new) \in Nat /\ DOMAIN new = 1 .. Len(new)
        /\ \A i \in 1 .. Len(new) : new[i] \in Subjects
    BY <1>1, <1>2
  <2>2. \A i \in 1 .. Len(new) : met[i] = Call("team-metadata", new[i]) /\ met[i] \in Calls
    BY <2>1 DEF Call, Calls, Workloads
  <2>3. met \in [1 .. Len(new) -> Calls]
    BY <2>1, <2>2
  <2> HIDE DEF met
  <2>4. met \in Seq(Calls) /\ DOMAIN met = 1 .. Len(new)
    BY <2>1, <2>3
  <2> QED
    BY <2>1, <2>2, <2>4 DEF ToSet
<1> HIDE DEF met
<1>4. rest \in Seq(Calls) /\ (f.status = "FT" => rest = Reconciliation(f))
  BY ReconciliationIs, EmptySeq DEF Finalised
<1>5. y = [seen |-> x.seen \union ToSet(f.teams), calls |-> x.calls \o met \o rest]
  BY DEF WalkFixture, met, new
<1> HIDE DEF rest, y
<1>6. x.calls \in Seq(Calls) /\ x.seen \subseteq Members
  BY DEF Walked
<1>7. x.calls \o met \in Seq(Calls) /\ ToSet(x.calls \o met) = ToSet(x.calls) \union ToSet(met)
  BY <1>3, <1>6, ConcatToSet
<1> DEFINE some == x.calls \o met
           all == some \o rest
<1>8. all \in Seq(Calls) /\ ToSet(all) = ToSet(x.calls) \union ToSet(met) \union ToSet(rest)
  <2> HIDE DEF some
  <2>1. some \in Seq(Calls) /\ ToSet(some) = ToSet(x.calls) \union ToSet(met)
    BY <1>7 DEF some
  <2> QED
    BY <1>4, <2>1, ConcatToSet
<1>9. y = [seen |-> x.seen \union ToSet(f.teams), calls |-> all]
  BY <1>5
<1> HIDE DEF some, all
<1>10. y \in Walked /\ y.seen = x.seen \union ToSet(f.teams) /\ y.calls = all
  BY <1>1, <1>6, <1>8, <1>9 DEF Walked
<1>11. \A t \in ToSet(f.teams) \ x.seen : Call("team-metadata", t) \in ToSet(y.calls)
  BY <1>2, <1>3, <1>8, <1>10
<1> QED
  BY <1>4, <1>8, <1>10, <1>11 DEF y

(* The walk over the list of a competition asks all that is owed to it.    *)
LEMMA WalkListIs ==
  ASSUME NEW c \in ToSet(Catalogue), NEW moment, NEW calendar
  PROVE  /\ WalkList(Window[c], moment, calendar) \in Seq(Calls)
         /\ Owed(Window[c]) \subseteq ToSet(WalkList(Window[c], moment, calendar))
<1> DEFINE list == Window[c]
           n == Len(list)
           base == [seen |-> {}, calls |-> <<>>]
           step == [i \in 1 .. n |-> [x \in Walked |-> WalkFixture(x, list[i], moment, calendar)]]
           Is(f) == f = [i \in 0 .. n |->
                            IF i = 0 THEN [seen |-> {}, calls |-> <<>>]
                            ELSE WalkFixture(f[i - 1], list[i], moment, calendar)]
           walked == CHOOSE f : Is(f)
<1>1. n \in Nat /\ DOMAIN list = 1 .. n /\ \A i \in 1 .. n : list[i] \in Listings
  BY MatchdayAssumption DEF Listings, ToSet
<1>2. WalkList(Window[c], moment, calendar) = walked[n].calls
  BY DEF WalkList
<1> HIDE DEF list, n
<1>3. base \in Walked /\ base.seen = {} /\ base.calls = <<>>
  BY EmptySeq DEF Walked
<1>4. \A i \in 1 .. n, x \in Walked :
          /\ WalkFixture(x, list[i], moment, calendar) \in Walked
          /\ ToSet(x.calls) \subseteq ToSet(WalkFixture(x, list[i], moment, calendar).calls)
          /\ WalkFixture(x, list[i], moment, calendar).seen = x.seen \union ToSet(list[i].teams)
          /\ \A t \in ToSet(list[i].teams) \ x.seen :
                 Call("team-metadata", t) \in ToSet(WalkFixture(x, list[i], moment, calendar).calls)
          /\ list[i].status = "FT" =>
                 ToSet(Reconciliation(list[i]))
                     \subseteq ToSet(WalkFixture(x, list[i], moment, calendar).calls)
  <2> TAKE i \in 1 .. n, x \in Walked
  <2> DEFINE f == list[i]
  <2>1. f \in Listings
    BY <1>1
  <2> HIDE DEF f
  <2> QED
    BY <2>1, WalkFixtureIs DEF f
<1>5. step \in [1 .. n -> [Walked -> Walked]]
  BY <1>4
<1>6. \A i \in 1 .. n, x \in Walked : step[i][x] = WalkFixture(x, list[i], moment, calendar)
  OBVIOUS
<1> HIDE DEF step, base
<1>7. PICK f \in [0 .. n -> Walked] : /\ f[0] = base
                                      /\ \A i \in 1 .. n : f[i] = step[i][f[i - 1]]
  <2> DEFINE X == Walked
  <2>1. base \in X /\ step \in [1 .. n -> [X -> X]]
    BY <1>3, <1>5
  <2> HIDE DEF X
  <2>2. \A b \in X : \A m \in Nat : \A st \in [1 .. m -> [X -> X]] :
            \E g \in [0 .. m -> X] : /\ g[0] = b
                                     /\ \A i \in 1 .. m : g[i] = st[i][g[i - 1]]
    <3> TAKE b \in X
    <3> TAKE m \in Nat
    <3> TAKE st \in [1 .. m -> [X -> X]]
    <3> QED
      BY Recursion
  <2>3. \E g \in [0 .. n -> X] : /\ g[0] = base
                                 /\ \A i \in 1 .. n : g[i] = step[i][g[i - 1]]
    BY <1>1, <2>1, <2>2, Zenon
  <2> QED
    BY <2>3 DEF X
<1>8. Is(f)
  <2>1. ASSUME NEW i \in 0 .. n
        PROVE  f[i] = IF i = 0 THEN [seen |-> {}, calls |-> <<>>]
                      ELSE WalkFixture(f[i - 1], list[i], moment, calendar)
    <3>1. CASE i = 0
      BY <1>7, <3>1 DEF base
    <3>2. CASE i # 0
      <4>1. i \in 1 .. n /\ f[i - 1] \in Walked
        BY <1>1, <1>7, <3>2
      <4> QED
        BY <1>6, <1>7, <3>2, <4>1
    <3> QED
      BY <3>1, <3>2
  <2> QED
    BY <1>7, <2>1
<1>9. Is(walked)
  <2> HIDE DEF Is
  <2> QED
    BY <1>8
<1>10. /\ walked[0] = base
       /\ \A i \in 1 .. n : walked[i] = WalkFixture(walked[i - 1], list[i], moment, calendar)
  <2>1. ASSUME NEW i \in 0 .. n
        PROVE  walked[i] = IF i = 0 THEN [seen |-> {}, calls |-> <<>>]
                           ELSE WalkFixture(walked[i - 1], list[i], moment, calendar)
    <3> HIDE DEF walked
    <3> QED
      BY <1>9
  <2> HIDE DEF walked, Is
  <2>2. 0 \in 0 .. n /\ \A i \in 1 .. n : i \in 0 .. n /\ i # 0
    BY <1>1
  <2> QED
    BY <2>1, <2>2 DEF base
<1> HIDE DEF walked, Is
<1> DEFINE P == {i \in 0 .. n :
                     /\ walked[i] \in Walked
                     /\ \A t \in walked[i].seen : Call("team-metadata", t) \in ToSet(walked[i].calls)
                     /\ \A j \in 1 .. i : ToSet(list[j].teams) \subseteq walked[i].seen
                     /\ \A j \in 1 .. i : list[j].status = "FT" =>
                            ToSet(Reconciliation(list[j])) \subseteq ToSet(walked[i].calls)}
<1>11. 0 \in P
  BY <1>1, <1>3, <1>10
<1>12. ASSUME NEW i \in 0 .. n - 1, i \in P
       PROVE  i + 1 \in P
  <2> DEFINE x == walked[i]
             y == walked[i + 1]
             f1 == list[i + 1]
  <2>1. /\ x \in Walked /\ i + 1 \in 1 .. n /\ i + 1 \in 0 .. n
        /\ \A t \in x.seen : Call("team-metadata", t) \in ToSet(x.calls)
        /\ \A j \in 1 .. i : ToSet(list[j].teams) \subseteq x.seen
        /\ \A j \in 1 .. i : list[j].status = "FT" =>
               ToSet(Reconciliation(list[j])) \subseteq ToSet(x.calls)
    BY <1>1, <1>12
  <2>2. y = WalkFixture(x, f1, moment, calendar)
    <3>1. walked[i + 1] = WalkFixture(walked[(i + 1) - 1], list[i + 1], moment, calendar)
      BY <1>10, <2>1
    <3>2. (i + 1) - 1 = i
      OBVIOUS
    <3> QED
      BY <3>1, <3>2
  <2>3. /\ y \in Walked /\ ToSet(x.calls) \subseteq ToSet(y.calls)
        /\ y.seen = x.seen \union ToSet(f1.teams)
        /\ \A t \in ToSet(f1.teams) \ x.seen : Call("team-metadata", t) \in ToSet(y.calls)
        /\ f1.status = "FT" => ToSet(Reconciliation(f1)) \subseteq ToSet(y.calls)
    BY <1>4, <2>1, <2>2, Zenon
  <2>4. \A j \in 1 .. i + 1 : j \in 1 .. i \/ j = i + 1
    OBVIOUS
  <2>5. \A t \in y.seen : Call("team-metadata", t) \in ToSet(y.calls)
    BY <2>1, <2>3
  <2>6. \A j \in 1 .. i + 1 : ToSet(list[j].teams) \subseteq y.seen
    BY <2>1, <2>3, <2>4
  <2>7. \A j \in 1 .. i + 1 : list[j].status = "FT" =>
            ToSet(Reconciliation(list[j])) \subseteq ToSet(y.calls)
    BY <2>1, <2>3, <2>4
  <2> QED
    BY <2>1, <2>3, <2>5, <2>6, <2>7
<1>13. n \in P
  <2> HIDE DEF P
  <2>1. \A i \in 0 .. n : i \in P
    BY <1>1, <1>11, <1>12, Induction
  <2> QED
    BY <1>1, <2>1
<1>14. walked[n].calls \in Seq(Calls)
  BY <1>13 DEF Walked
<1>15. Owed(list) \subseteq ToSet(walked[n].calls)
  <2>1. DOMAIN list = 1 .. n
    BY <1>1
  <2> QED
    BY <1>13, <2>1 DEF Owed
<1> QED
  BY <1>2, <1>14, <1>15 DEF list

LEMMA CallsOfIs ==
  ASSUME NEW kind \in Kinds, NEW x \in Subjects
  PROVE  CallsOf(kind, x) \in Seq(Calls) /\ CallsOf(kind, x) # <<>>
<1>1. CASE kind = "daily-anchor"
  BY <1>1 DEF CallsOf, AnchorCalls, Call, Calls, Workloads
<1>2. CASE kind = "hourly-matchday"
  BY <1>2 DEF CallsOf, HourlyCalls, Call, Calls, Workloads
<1>3. CASE kind = "webhook-completed"
  BY <1>3 DEF CallsOf, WebhookCalls, Call, Calls, Workloads
<1> QED
  BY <1>1, <1>2, <1>3 DEF Kinds

LEMMA IdleIs ==
  /\ Idle \in WalkRecords /\ Idle.state = "idle" /\ Idle.kind = "none" /\ Idle.todo = <<>>
  /\ ~Idle.told /\ Idle.mode = "continue" /\ Idle.asked = {} /\ Idle.listed = {}
<1>1. <<>> \in Seq(Subjects) /\ <<>> \in Seq(Calls)
  BY EmptySeq
<1> QED
  BY <1>1 DEF Idle, WalkRecords, Times, Actions

(* A walk that begins asks its first competition what it asks each. *)
LEMMA BegunIs ==
  ASSUME NEW kind \in Kinds, NEW todo \in Seq(Subjects), NEW moment \in Moments,
         kind = "daily-anchor" => todo \in Seq(ToSet(Catalogue))
  PROVE  LET w == Begun(kind, todo, moment)
         IN  /\ w \in WalkRecords /\ WalkInv(w) /\ OwedInv(w)
             /\ w.state \in {"walking", "done"}
<1> DEFINE state == IF todo = <<>> THEN "done" ELSE "walking"
           plan == IF todo = <<>> THEN <<>> ELSE CallsOf(kind, Head(todo))
           w == [Idle EXCEPT !.kind = kind, !.at = moment, !.todo = todo,
                             !.state = state, !.plan = plan]
<1>1. plan \in Seq(Calls) /\ (todo # <<>> => plan # <<>>)
  BY CallsOfIs, HeadAndTail, EmptySeq
<1>2. Begun(kind, todo, moment) = w
  BY DEF Begun
<1>3. /\ state \in {"done", "walking"} /\ (state = "walking" => todo # <<>>)
      /\ moment \in Times /\ kind \in {"none"} \union Routes
  BY DEF Times, Routes
<1> HIDE DEF plan, state
<1>4. /\ w \in WalkRecords /\ w.kind = kind /\ w.todo = todo /\ w.state = state /\ w.plan = plan
      /\ w.told = Idle.told /\ w.mode = Idle.mode /\ w.listed = Idle.listed
  BY <1>1, <1>3, IdleIs DEF WalkRecords
<1> HIDE DEF w
<1>5. WalkInv(w) /\ OwedInv(w)
  BY <1>1, <1>3, <1>4, IdleIs DEF WalkInv, OwedInv
<1> QED
  BY <1>2, <1>3, <1>4, <1>5

LEMMA ChosenIs ==
  ASSUME NEW kind, NEW named, NEW moment
  PROVE  Chosen(kind, named, moment) \in Seq(ToSet(Catalogue))
<1> DEFINE C == ToSet(Catalogue)
           good == IF kind = "hourly-matchday"
                   THEN {c \in (IF named = {} THEN C ELSE C \intersect named) :
                             InWindow(moment, Calendar[c])}
                   ELSE IF named = {} THEN C ELSE C \intersect named
<1>1. Chosen(kind, named, moment) = Among(Catalogue, good)
  BY DEF Chosen
<1> HIDE DEF good
<1>2. Catalogue \in Seq(C)
  BY MatchdayAssumption
<1> HIDE DEF C
<1>3. Among(Catalogue, good) \in Seq(C \intersect good)
  BY <1>2, AmongList
<1>4. Among(Catalogue, good) \in Seq(C)
  BY <1>3, SeqMonotonic
<1> QED
  BY <1>1, <1>4 DEF C

LEMMA AccumulatedIs ==
  ASSUME NEW mode \in Actions \ {"abort"}, NEW answer \in Answers
  PROVE  /\ Accumulated(mode, answer) \in Actions
         /\ Accumulated(mode, answer) = "abort" <=> answer.posture = "hard_cap_reached"
<1> DEFINE act == QuotaAction(answer.posture)
           next == MostRestrictive({mode, act})
<1>1. answer.posture \in Postures /\ act \in Actions
  BY QuotaActionIs DEF Answers
<1>2. act = "abort" <=> answer.posture = "hard_cap_reached"
  BY <1>1 DEF QuotaAction, Postures
<1> HIDE DEF act
<1>3. next \in {mode, act} /\ (act = "abort" => next = "abort")
  BY <1>1, MostRestrictiveIs
<1>4. Accumulated(mode, answer) = IF next \in {"abort", "cached-only"} THEN next ELSE "continue"
  BY DEF Accumulated, act
<1> HIDE DEF next
<1> QED
  BY <1>1, <1>2, <1>3, <1>4 DEF Actions

(* What is left to ask: nothing on abort, else the rest of the plan, and   *)
(* all that is owed to the list of an anchor that just got it.             *)
LEMMA PlanAfterIs ==
  ASSUME NEW w \in WalkRecords, WalkInv(w), w.state = "walking", NEW answer \in Answers,
         NEW mode \in Actions
  PROVE  LET plan == PlanAfter(w, answer, mode)
         IN  /\ plan \in Seq(Calls)
             /\ mode = "abort" => plan = <<>>
             /\ mode # "abort" => ToSet(Tail(w.plan)) \subseteq ToSet(plan)
             /\ mode # "abort" /\ w.kind = "daily-anchor" /\ Head(w.plan)[1] = "fixtures-next-7d"
                    /\ Useful(answer) => Owed(Window[Head(w.todo)]) \subseteq ToSet(plan)
<1> DEFINE lists == /\ w.kind = "daily-anchor" /\ Head(w.plan)[1] = "fixtures-next-7d"
                    /\ Useful(answer)
           walked == WalkList(Window[Head(w.todo)], w.at, Calendar[Head(w.todo)])
           new == IF lists THEN walked ELSE <<>>
           plan == PlanAfter(w, answer, mode)
<1>1. plan = IF mode = "abort" THEN <<>> ELSE Tail(w.plan) \o new
  BY DEF PlanAfter
<1>2. Tail(w.plan) \in Seq(Calls)
  BY HeadAndTail DEF WalkRecords, WalkInv
<1>3. w.kind = "daily-anchor" => Head(w.todo) \in ToSet(Catalogue)
  BY HeadAndTail DEF WalkInv
<1>4. new \in Seq(Calls) /\ (lists => Owed(Window[Head(w.todo)]) \subseteq ToSet(new))
  BY <1>3, WalkListIs, EmptySeq
<1> HIDE DEF new, plan
<1>5. /\ Tail(w.plan) \o new \in Seq(Calls)
      /\ ToSet(Tail(w.plan) \o new) = ToSet(Tail(w.plan)) \union ToSet(new)
  BY <1>2, <1>4, ConcatToSet, ZenonT(30)
<1>6. <<>> \in Seq(Calls)
  BY EmptySeq
<1>7. CASE mode = "abort"
  BY <1>1, <1>6, <1>7 DEF plan
<1>8. CASE mode # "abort"
  <2>1. plan = Tail(w.plan) \o new
    BY <1>1, <1>8
  <2> QED
    BY <1>4, <1>5, <1>8, <2>1 DEF plan
<1> QED
  BY <1>7, <1>8

(* A walk that goes on: to the next call, the next competition or its end. *)
LEMMA AdvancedIs ==
  ASSUME NEW w \in WalkRecords, WalkInv(w), w.state = "walking",
         NEW plan \in Seq(Calls), NEW mode \in Actions, mode = "abort" => plan = <<>>
  PROVE  LET next == Advanced(w, plan, mode)
         IN  /\ next \in WalkRecords
             /\ next.kind = w.kind /\ next.asked = w.asked /\ next.listed = w.listed
             /\ next.told = w.told /\ next.useful = w.useful
             /\ next.state \in {"walking", "done"} /\ next.mode # "abort"
             /\ next.state = "walking" => next.todo # <<>> /\ next.plan # <<>> /\ mode # "abort"
             /\ w.kind = "daily-anchor" => next.todo \in Seq(ToSet(Catalogue))
             /\ plan # <<>> => next.state = "walking" /\ next.todo = w.todo /\ next.plan = plan
<1>1. CASE plan # <<>>
  <2> DEFINE t == [w EXCEPT !.plan = plan, !.mode = mode]
  <2>1. Advanced(w, plan, mode) = t
    BY <1>1 DEF Advanced
  <2>2. /\ t \in WalkRecords /\ t.kind = w.kind /\ t.asked = w.asked /\ t.listed = w.listed
        /\ t.told = w.told /\ t.useful = w.useful /\ t.state = w.state /\ t.mode = mode
        /\ t.todo = w.todo /\ t.plan = plan
    BY DEF WalkRecords
  <2> HIDE DEF t
  <2> QED
    BY <1>1, <2>1, <2>2 DEF WalkInv
<1>2. CASE plan = <<>>
  <2> DEFINE left == IF mode = "abort" THEN <<>> ELSE Tail(w.todo)
             calls == IF left = <<>> THEN <<>> ELSE CallsOf(w.kind, Head(left))
             state == IF left = <<>> THEN "done" ELSE "walking"
             t == [w EXCEPT !.todo = left, !.mode = "continue", !.plan = calls, !.state = state]
  <2>1. Advanced(w, plan, mode) = t
    BY <1>2 DEF Advanced
  <2>2. w.todo \in Seq(Subjects) /\ w.todo # <<>> /\ w.kind \in Kinds
    BY DEF WalkRecords, WalkInv
  <2>3. left \in Seq(Subjects)
    BY <2>2, HeadAndTail, EmptySeq
  <2>4. w.kind = "daily-anchor" => left \in Seq(ToSet(Catalogue))
    <3>1. CASE mode = "abort"
      BY <3>1, EmptySeq
    <3>2. CASE mode # "abort" /\ w.kind = "daily-anchor"
      BY <2>2, <3>2, HeadAndTail DEF WalkInv
    <3> QED
      BY <3>1, <3>2
  <2>5. mode = "abort" => left = <<>>
    OBVIOUS
  <2> HIDE DEF left
  <2>6. calls \in Seq(Calls) /\ (left # <<>> => calls # <<>>)
    BY <2>2, <2>3, CallsOfIs, HeadAndTail, EmptySeq
  <2>7. state \in {"done", "walking"} /\ (state = "walking" <=> left # <<>>)
    OBVIOUS
  <2> HIDE DEF calls, state
  <2>8. /\ t \in WalkRecords /\ t.kind = w.kind /\ t.asked = w.asked /\ t.listed = w.listed
        /\ t.told = w.told /\ t.useful = w.useful /\ t.state = state /\ t.mode = "continue"
        /\ t.todo = left /\ t.plan = calls
    BY <2>3, <2>6, <2>7 DEF WalkRecords, Actions
  <2> HIDE DEF t
  <2> QED
    BY <1>2, <2>1, <2>4, <2>5, <2>6, <2>7, <2>8
<1> QED
  BY <1>1, <1>2

WalkTypes == walk \in [Runs -> WalkRecords] /\ said \in [Runs -> Nat]

(* An answer keeps the walk within its bounds and leaves no debt behind.   *)
LEMMA AnswerKeeps ==
  ASSUME WalkTypes, NEW s \in Runs, WalkInv(walk[s]), OwedInv(walk[s]), Answer(s)
  PROVE  /\ walk' = [walk EXCEPT ![s] = walk'[s]] /\ said' = [said EXCEPT ![s] = said'[s]]
         /\ walk'[s] \in WalkRecords /\ WalkInv(walk'[s]) /\ OwedInv(walk'[s])
         /\ walk'[s].state \in {"walking", "done"}
         /\ said'[s] \in Nat /\ said'[s] >= said[s]
<1> DEFINE w == walk[s]
           call == Head(w.plan)
           h == Head(w.todo)
<1>1. w \in WalkRecords /\ said[s] \in Nat /\ w.state = "walking"
  BY DEF WalkTypes, Answer
<1>2. PICK answer \in Answers :
         LET mode == Accumulated(w.mode, answer)
             plan == PlanAfter(w, answer, mode)
             next == Advanced(w, plan, mode)
         IN  /\ walk' = [walk EXCEPT ![s] =
                    [next EXCEPT
                       !.asked = @ \union {<<h, call>>},
                       !.told = @ \/ answer.posture = "hard_cap_reached",
                       !.useful = @ \/ (w.kind = "webhook-completed" /\ answer.status # "nothing"),
                       !.listed = @ \union
                          IF call[1] = "fixtures-next-7d" /\ Useful(answer) THEN {h} ELSE {}]]
             /\ said' = [said EXCEPT ![s] = @ + IngestEntries(call[1], answer)
                                              + ClosingEntries(w, plan, mode, next)]
  BY DEF Answer
<1> DEFINE mode == Accumulated(w.mode, answer)
           plan == PlanAfter(w, answer, mode)
           next == Advanced(w, plan, mode)
           got == IF call[1] = "fixtures-next-7d" /\ Useful(answer) THEN {h} ELSE {}
           told == next.told \/ answer.posture = "hard_cap_reached"
           useful == next.useful \/ (w.kind = "webhook-completed" /\ answer.status # "nothing")
           asked == next.asked \union {<<h, call>>}
           listed == next.listed \union got
           x == [next EXCEPT !.asked = asked, !.told = told, !.useful = useful, !.listed = listed]
<1>3. /\ h \in Subjects /\ call \in Calls /\ ToSet(w.plan) = {call} \union ToSet(Tail(w.plan))
      /\ w.kind = "daily-anchor" => h \in ToSet(Catalogue)
      /\ w.kind \in Kinds /\ ~w.told /\ w.mode \in Actions \ {"abort"}
  BY <1>1, HeadAndTail DEF WalkRecords, WalkInv
<1>4. mode \in Actions /\ (mode = "abort" <=> answer.posture = "hard_cap_reached")
  BY <1>3, AccumulatedIs
<1>5. walk'[s] = x
  BY <1>2 DEF WalkTypes
<1>6. said'[s] = said[s] + IngestEntries(call[1], answer) + ClosingEntries(w, plan, mode, next)
  BY <1>2 DEF WalkTypes
<1>7. /\ plan \in Seq(Calls) /\ (mode = "abort" => plan = <<>>)
      /\ mode # "abort" => ToSet(Tail(w.plan)) \subseteq ToSet(plan)
      /\ mode # "abort" /\ w.kind = "daily-anchor" /\ call[1] = "fixtures-next-7d"
             /\ Useful(answer) => Owed(Window[h]) \subseteq ToSet(plan)
  <2> HIDE DEF mode
  <2> QED
    BY <1>1, <1>4, PlanAfterIs
<1> HIDE DEF plan
<1>8. /\ next \in WalkRecords
      /\ next.kind = w.kind /\ next.asked = w.asked /\ next.listed = w.listed
      /\ next.told = w.told /\ next.useful = w.useful
      /\ next.state \in {"walking", "done"} /\ next.mode # "abort"
      /\ next.state = "walking" => next.todo # <<>> /\ next.plan # <<>> /\ mode # "abort"
      /\ w.kind = "daily-anchor" => next.todo \in Seq(ToSet(Catalogue))
      /\ plan # <<>> => next.state = "walking" /\ next.todo = w.todo /\ next.plan = plan
  <2> HIDE DEF mode
  <2> QED
    BY <1>1, <1>4, <1>7, AdvancedIs
<1>9. IngestEntries(call[1], answer) \in Nat /\ ClosingEntries(w, plan, mode, next) \in Nat
  BY DEF IngestEntries, ClosingEntries
<1> HIDE DEF mode, next
<1>10. got \subseteq {h} /\ told \in BOOLEAN /\ useful \in BOOLEAN
       /\ (got # {} => call[1] = "fixtures-next-7d" /\ Useful(answer))
  BY <1>1, <1>8 DEF WalkRecords
<1>11. ~told <=> mode # "abort"
  BY <1>3, <1>4, <1>8
<1> HIDE DEF got, told, useful
<1>12. asked \in SUBSET (Subjects \X Calls) /\ listed \in SUBSET Subjects
       /\ asked = w.asked \union {<<h, call>>} /\ listed = w.listed \union got
  <2>1. w.asked \subseteq Subjects \X Calls /\ w.listed \subseteq Subjects
    BY <1>1 DEF WalkRecords
  <2> QED
    BY <1>3, <1>8, <1>10, <2>1
<1> HIDE DEF asked, listed
<1>13. /\ x \in WalkRecords
       /\ x.kind = w.kind /\ x.state = next.state /\ x.todo = next.todo /\ x.plan = next.plan
       /\ x.mode = next.mode /\ x.told = told
       /\ x.asked = w.asked \union {<<h, call>>} /\ x.listed = w.listed \union got
  BY <1>8, <1>10, <1>12 DEF WalkRecords
<1> HIDE DEF x
<1>14. WalkInv(x)
  BY <1>3, <1>8, <1>10, <1>11, <1>13 DEF WalkInv
<1>15. OwedInv(x)
  <2> SUFFICES ASSUME w.kind = "daily-anchor", mode # "abort",
                      NEW c \in w.listed \union got, NEW owed \in Owed(Window[c]),
                      <<c, owed>> \notin w.asked \union {<<h, call>>}
               PROVE  next.state = "walking" /\ next.todo # <<>> /\ c = Head(next.todo)
                      /\ owed \in ToSet(next.plan)
    BY <1>11, <1>13 DEF OwedInv
  <2>1. c = h /\ owed \in ToSet(plan)
    <3>1. CASE c \in got
      BY <1>7, <1>10, <3>1
    <3>2. CASE c \in w.listed
      <4>1. c = h /\ owed \in ToSet(w.plan)
        BY <1>1, <1>3, <3>2 DEF OwedInv
      <4>2. owed # call
        BY <4>1
      <4> QED
        BY <1>3, <1>7, <4>1, <4>2
    <3> QED
      BY <3>1, <3>2
  <2>2. plan # <<>>
    BY <2>1 DEF ToSet
  <2> QED
    BY <1>1, <1>8, <2>1, <2>2 DEF WalkInv
<1>16. walk' = [walk EXCEPT ![s] = walk'[s]] /\ said' = [said EXCEPT ![s] = said'[s]]
  BY <1>2 DEF WalkTypes
<1> QED
  BY <1>1, <1>5, <1>6, <1>8, <1>9, <1>13, <1>14, <1>15, <1>16

(* A queue with what is appended to the story appended to it. *)
LEMMA PushedFollows ==
  ASSUME NEW story \in Seq(Lines), NEW q \in Seq(Lines), NEW more \in Seq(Lines),
         NEW k \in 0 .. Len(story), Follows(story, q, k)
  PROVE  Follows(story \o more, q \o more, k)
<1> DEFINE m == Len(story) - k
           n == Len(more)
           l == Len(q)
           s1 == story \o more
           q1 == q \o more
<1>1. PICK place \in [1 .. m -> 1 .. l] :
          /\ \A i \in 1 .. m : q[place[i]] = story[k + i]
          /\ \A i, j \in 1 .. m : i < j => place[i] < place[j]
          /\ \A p \in 1 .. l : q[p] = Beat \/ \E i \in 1 .. m : place[i] = p
  BY DEF Follows
<1>2. /\ m \in Nat /\ n \in Nat /\ l \in Nat
      /\ Len(s1) - k = m + n /\ Len(q1) = l + n
      /\ \A i \in 1 .. m : s1[k + i] = story[k + i]
      /\ \A i \in 1 .. n : s1[k + (m + i)] = more[i]
      /\ \A i \in 1 .. l : q1[i] = q[i]
      /\ \A i \in 1 .. n : q1[l + i] = more[i]
  <2>1. Len(story) \in Nat /\ k \in Nat /\ k <= Len(story)
    OBVIOUS
  <2>2. \A i \in 1 .. n : s1[Len(story) + i] = more[i]
    OBVIOUS
  <2>3. \A i \in 1 .. Len(story) : s1[i] = story[i]
    OBVIOUS
  <2>4. Len(s1) = Len(story) + n /\ Len(q1) = l + n /\ n \in Nat /\ l \in Nat
    OBVIOUS
  <2>5. \A i \in 1 .. l : q1[i] = q[i]
    OBVIOUS
  <2>6. \A i \in 1 .. n : q1[l + i] = more[i]
    OBVIOUS
  <2> HIDE DEF s1, q1, n, l
  <2>7. \A i \in 1 .. m : k + i \in 1 .. Len(story)
    BY <2>1
  <2>8. \A i \in 1 .. n : k + (m + i) = Len(story) + i
    BY <2>1, <2>4
  <2> QED
    BY <2>1, <2>2, <2>3, <2>4, <2>5, <2>6, <2>7, <2>8
<1> HIDE DEF s1, q1, n, l, m
<1> DEFINE M == Len(s1) - k
           L == Len(q1)
<1>3. m \in Nat /\ n \in Nat /\ l \in Nat /\ M = m + n /\ L = l + n
  BY <1>2
<1> HIDE DEF M, L
<1> DEFINE new == [i \in 1 .. M |-> IF i <= m THEN place[i] ELSE l + (i - m)]
<1>4. new \in [1 .. M -> 1 .. L]
  BY <1>1, <1>3
<1>5. \A i \in 1 .. m : i \in 1 .. M /\ new[i] = place[i] /\ place[i] \in 1 .. l
  BY <1>1, <1>3
<1>6. \A i \in 1 .. n : m + i \in 1 .. M /\ new[m + i] = l + i /\ l + i \in 1 .. L
  BY <1>3
<1>7. ASSUME NEW i \in 1 .. M
      PROVE  i \in 1 .. m \/ (i - m \in 1 .. n /\ i = m + (i - m))
  BY <1>3
<1> HIDE DEF new
<1>8. ASSUME NEW i \in 1 .. M
      PROVE  q1[new[i]] = s1[k + i]
  <2>1. CASE i \in 1 .. m
    <3>1. new[i] = place[i] /\ place[i] \in 1 .. l
      BY <1>5, <2>1
    <3>2. q1[place[i]] = q[place[i]] /\ s1[k + i] = story[k + i]
      BY <1>2, <2>1, <3>1
    <3> QED
      BY <1>1, <2>1, <3>1, <3>2
  <2>2. ASSUME NEW a \in 1 .. n PROVE q1[new[m + a]] = s1[k + (m + a)]
    BY <1>2, <1>6
  <2>3. CASE i - m \in 1 .. n /\ i = m + (i - m)
    <3>1. q1[new[m + (i - m)]] = s1[k + (m + (i - m))]
      BY <2>2, <2>3
    <3> QED
      BY <2>3, <3>1
  <2> QED
    BY <1>7, <2>1, <2>3
<1>9. ASSUME NEW i \in 1 .. M, NEW j \in 1 .. M, i < j
      PROVE  new[i] < new[j]
  <2>1. CASE i \in 1 .. m /\ j \in 1 .. m
    BY <1>1, <1>5, <1>9, <2>1
  <2>2. CASE i \in 1 .. m /\ j - m \in 1 .. n /\ j = m + (j - m)
    <3>1. new[i] \in 1 .. l
      BY <1>5, <2>2
    <3>2. new[j] = l + (j - m)
      BY <1>6, <2>2
    <3> QED
      BY <1>3, <2>2, <3>1, <3>2
  <2>3. CASE i - m \in 1 .. n /\ i = m + (i - m) /\ j - m \in 1 .. n /\ j = m + (j - m)
    <3>1. new[i] = l + (i - m) /\ new[j] = l + (j - m)
      BY <1>6, <2>3
    <3> QED
      BY <1>3, <1>9, <2>3, <3>1
  <2>4. ~(i - m \in 1 .. n /\ j \in 1 .. m)
    BY <1>3, <1>9
  <2> QED
    BY <1>7, <2>1, <2>2, <2>3, <2>4
<1>10. ASSUME NEW x \in 1 .. L
       PROVE  q1[x] = Beat \/ \E i \in 1 .. M : new[i] = x
  <2>1. x \in 1 .. l \/ (x - l \in 1 .. n /\ l + (x - l) = x)
    BY <1>3
  <2>2. CASE x \in 1 .. l
    <3>1. q1[x] = q[x]
      BY <1>2, <2>2
    <3> QED
      BY <1>1, <1>5, <2>2, <3>1
  <2>3. CASE x - l \in 1 .. n /\ l + (x - l) = x
    BY <1>6, <2>3
  <2> QED
    BY <2>1, <2>2, <2>3
<1>11. \E f \in [1 .. M -> 1 .. L] :
          /\ \A i \in 1 .. M : q1[f[i]] = s1[k + i]
          /\ \A i, j \in 1 .. M : i < j => f[i] < f[j]
          /\ \A x \in 1 .. L : q1[x] = Beat \/ \E i \in 1 .. M : f[i] = x
  BY <1>4, <1>8, <1>9, <1>10
<1>12. Follows(s1, q1, k)
  BY <1>11 DEF Follows, M, L
<1> QED
  BY <1>12 DEF s1, q1

(* A heartbeat in the queue is no part of the story. *)
LEMMA BeatFollows ==
  ASSUME NEW story \in Seq(Lines), NEW q \in Seq(Lines), NEW more \in Seq({Beat}),
         NEW k \in 0 .. Len(story), Follows(story, q, k)
  PROVE  Follows(story, q \o more, k)
<1> DEFINE m == Len(story) - k
           n == Len(more)
           l == Len(q)
           q1 == q \o more
<1>1. PICK place \in [1 .. m -> 1 .. l] :
          /\ \A i \in 1 .. m : q[place[i]] = story[k + i]
          /\ \A i, j \in 1 .. m : i < j => place[i] < place[j]
          /\ \A p \in 1 .. l : q[p] = Beat \/ \E i \in 1 .. m : place[i] = p
  BY DEF Follows
<1>2. Beat \in Lines
  BY DEF Beat, Lines
<1>3. /\ m \in Nat /\ n \in Nat /\ l \in Nat
      /\ Len(q1) = l + n
      /\ \A i \in 1 .. l : q1[i] = q[i]
      /\ \A i \in 1 .. n : q1[l + i] = Beat
  <2>1. \A i \in 1 .. n : more[i] = Beat
    OBVIOUS
  <2>2. more \in Seq(Lines)
    BY <1>2
  <2>3. \A i \in 1 .. l : q1[i] = q[i]
    BY <2>2
  <2>4. \A i \in 1 .. n : q1[l + i] = more[i]
    BY <2>2
  <2>5. Len(q1) = l + n /\ n \in Nat /\ l \in Nat
    BY <2>2
  <2> QED
    BY <2>1, <2>3, <2>4, <2>5
<1> HIDE DEF q1, n, l, m
<1> DEFINE L == Len(q1)
<1>4. m \in Nat /\ n \in Nat /\ l \in Nat /\ L = l + n
  BY <1>3
<1> HIDE DEF L
<1>5. place \in [1 .. m -> 1 .. L]
  BY <1>1, <1>4
<1>6. \A i \in 1 .. m : q1[place[i]] = story[k + i]
  BY <1>1, <1>3
<1>7. ASSUME NEW x \in 1 .. L
      PROVE  q1[x] = Beat \/ \E i \in 1 .. m : place[i] = x
  <2>1. x \in 1 .. l \/ (x - l \in 1 .. n /\ l + (x - l) = x)
    BY <1>4
  <2>2. CASE x \in 1 .. l
    <3>1. q1[x] = q[x]
      BY <1>3, <2>2
    <3> QED
      BY <1>1, <2>2, <3>1
  <2>3. CASE x - l \in 1 .. n /\ l + (x - l) = x
    <3>1. q1[l + (x - l)] = Beat
      BY <1>3, <2>3
    <3> QED
      BY <2>3, <3>1
  <2> QED
    BY <2>1, <2>2, <2>3
<1>8. \E f \in [1 .. m -> 1 .. L] :
          /\ \A i \in 1 .. m : q1[f[i]] = story[k + i]
          /\ \A i, j \in 1 .. m : i < j => f[i] < f[j]
          /\ \A x \in 1 .. L : q1[x] = Beat \/ \E i \in 1 .. m : f[i] = x
  BY <1>1, <1>5, <1>6, <1>7
<1>9. Follows(story, q1, k)
  BY <1>8 DEF Follows, m, L
<1> QED
  BY <1>9 DEF q1

(* The reader takes the next line of the story, or a heartbeat. *)
LEMMA ReadFollows ==
  ASSUME NEW story \in Seq(Lines \ {Beat}), NEW q \in Seq(Lines), q # <<>>,
         NEW k \in 0 .. Len(story), Follows(story, q, k)
  PROVE  /\ Head(q) = Beat => Follows(story, Tail(q), k)
         /\ Head(q) # Beat => /\ k < Len(story) /\ Head(q) = story[k + 1]
                              /\ Follows(story, Tail(q), k + 1)
<1> DEFINE m == Len(story) - k
           l == Len(q)
           t == Tail(q)
<1>1. PICK place \in [1 .. m -> 1 .. l] :
          /\ \A i \in 1 .. m : q[place[i]] = story[k + i]
          /\ \A i, j \in 1 .. m : i < j => place[i] < place[j]
          /\ \A p \in 1 .. l : q[p] = Beat \/ \E i \in 1 .. m : place[i] = p
  BY DEF Follows
<1>2. /\ m \in Nat /\ l \in Nat \ {0} /\ Len(t) = l - 1 /\ Head(q) = q[1]
      /\ \A i \in 1 .. l - 1 : t[i] = q[i + 1]
      /\ \A i \in 1 .. m : story[k + i] # Beat
      /\ k \in Nat /\ Len(story) = k + m
  <2>1. \A i \in 1 .. Len(story) : story[i] # Beat
    OBVIOUS
  <2>2. Len(story) \in Nat /\ k \in Nat /\ k <= Len(story)
    OBVIOUS
  <2>3. \A i \in 1 .. m : k + i \in 1 .. Len(story)
    BY <2>2
  <2>4. l \in Nat \ {0} /\ Len(t) = l - 1 /\ Head(q) = q[1] /\ \A i \in 1 .. l - 1 : t[i] = q[i + 1]
    OBVIOUS
  <2> HIDE DEF l, t
  <2> QED
    BY <2>1, <2>2, <2>3, <2>4
<1> HIDE DEF t, l, m
<1> DEFINE L == Len(t)
<1>3. /\ m \in Nat /\ l \in Nat \ {0} /\ k \in Nat /\ L = l - 1 /\ Len(story) = k + m
      /\ \A i \in 1 .. L : i + 1 \in 1 .. l /\ t[i] = q[i + 1]
  BY <1>2
<1> HIDE DEF L
<1>4. ASSUME Head(q) = Beat PROVE Follows(story, t, k)
  <2> DEFINE new == [i \in 1 .. m |-> place[i] - 1]
  <2>1. ASSUME NEW i \in 1 .. m
        PROVE  new[i] \in 1 .. L /\ new[i] + 1 = place[i]
    <3>1. place[i] \in 1 .. l /\ place[i] # 1
      <4>1. q[place[i]] # Beat /\ place[i] \in 1 .. l
        BY <1>1, <1>2
      <4> QED
        BY <1>2, <1>4, <4>1
    <3>2. new[i] = place[i] - 1
      OBVIOUS
    <3> HIDE DEF new
    <3> QED
      BY <1>3, <3>1, <3>2
  <2>2. new \in [1 .. m -> 1 .. L]
    BY <2>1
  <2> HIDE DEF new
  <2>3. ASSUME NEW i \in 1 .. m PROVE t[new[i]] = story[k + i]
    <3>1. t[new[i]] = q[new[i] + 1]
      BY <1>3, <2>1
    <3> QED
      BY <1>1, <2>1, <3>1
  <2>4. ASSUME NEW i \in 1 .. m, NEW j \in 1 .. m, i < j PROVE new[i] < new[j]
    <3>1. place[i] < place[j] /\ new[i] \in 1 .. L /\ new[j] \in 1 .. L
          /\ new[i] + 1 = place[i] /\ new[j] + 1 = place[j]
      BY <1>1, <2>1, <2>4
    <3> QED
      BY <3>1
  <2>5. ASSUME NEW x \in 1 .. L
        PROVE  t[x] = Beat \/ \E i \in 1 .. m : new[i] = x
    <3>1. x + 1 \in 1 .. l /\ t[x] = q[x + 1]
      BY <1>3
    <3>2. ASSUME NEW i \in 1 .. m, place[i] = x + 1 PROVE new[i] = x
      <4>1. new[i] \in 1 .. L /\ new[i] + 1 = x + 1
        BY <2>1, <3>2
      <4> QED
        BY <4>1
    <3> QED
      BY <1>1, <3>1, <3>2
  <2>6. \E f \in [1 .. m -> 1 .. L] :
            /\ \A i \in 1 .. m : t[f[i]] = story[k + i]
            /\ \A i, j \in 1 .. m : i < j => f[i] < f[j]
            /\ \A x \in 1 .. L : t[x] = Beat \/ \E i \in 1 .. m : f[i] = x
    BY <2>2, <2>3, <2>4, <2>5
  <2> QED
    BY <2>6 DEF Follows, m, L
<1>5. ASSUME Head(q) # Beat
      PROVE  /\ k < Len(story) /\ Head(q) = story[k + 1]
             /\ Follows(story, t, k + 1)
  <2>1. PICK a \in 1 .. m : place[a] = 1
    <3>1. 1 \in 1 .. l /\ q[1] # Beat
      BY <1>2, <1>5
    <3> QED
      BY <1>1, <3>1
  <2>2. 1 \in 1 .. m /\ place[1] = 1 /\ \A i \in 1 .. m : place[i] \in 1 .. l
    <3>1. 1 \in 1 .. m /\ \A i \in 1 .. m : place[i] \in 1 .. l
      BY <1>1, <1>3, <2>1
    <3>2. ~(1 < a)
      BY <1>1, <2>1, <3>1
    <3> QED
      BY <2>1, <3>1, <3>2
  <2>3. k < Len(story) /\ Head(q) = story[k + 1]
    BY <1>1, <1>2, <2>2
  <2> DEFINE M == Len(story) - (k + 1)
             new == [i \in 1 .. M |-> place[i + 1] - 1]
  <2>4. M = m - 1
    BY <1>3
  <2> HIDE DEF M
  <2>5. ASSUME NEW i \in 1 .. M
        PROVE  i + 1 \in 1 .. m /\ new[i] \in 1 .. L /\ new[i] + 1 = place[i + 1]
    <3>1. i + 1 \in 1 .. m /\ 1 < i + 1
      BY <1>3, <2>4
    <3>2. place[1] < place[i + 1] /\ place[i + 1] \in 1 .. l
      BY <1>1, <2>2, <3>1
    <3>3. new[i] = place[i + 1] - 1
      OBVIOUS
    <3> HIDE DEF new
    <3> QED
      BY <1>3, <2>2, <3>1, <3>2, <3>3, SMTT(30)
  <2>6. new \in [1 .. M -> 1 .. L]
    BY <2>5
  <2> HIDE DEF new
  <2>7. ASSUME NEW i \in 1 .. M PROVE t[new[i]] = story[(k + 1) + i]
    <3>1. t[new[i]] = q[new[i] + 1]
      BY <1>3, <2>5
    <3>2. q[place[i + 1]] = story[k + (i + 1)]
      BY <1>1, <2>5
    <3>3. k + (i + 1) = (k + 1) + i
      BY <1>3
    <3> QED
      BY <2>5, <3>1, <3>2, <3>3
  <2>8. ASSUME NEW i \in 1 .. M, NEW j \in 1 .. M, i < j PROVE new[i] < new[j]
    <3>1. i + 1 < j + 1
      BY <2>8
    <3>2. place[i + 1] < place[j + 1] /\ new[i] \in 1 .. L /\ new[j] \in 1 .. L
          /\ new[i] + 1 = place[i + 1] /\ new[j] + 1 = place[j + 1]
      BY <1>1, <2>5, <3>1
    <3> QED
      BY <3>2
  <2>9. ASSUME NEW x \in 1 .. L
        PROVE  t[x] = Beat \/ \E i \in 1 .. M : new[i] = x
    <3>1. x + 1 \in 1 .. l /\ t[x] = q[x + 1]
      BY <1>3
    <3>2. ASSUME NEW i \in 1 .. m, place[i] = x + 1 PROVE i - 1 \in 1 .. M /\ new[i - 1] = x
      <4>1. i # 1
        BY <2>2, <3>2
      <4>2. i - 1 \in 1 .. M /\ (i - 1) + 1 = i
        BY <1>3, <2>4, <4>1
      <4>3. new[i - 1] \in 1 .. L /\ new[i - 1] + 1 = x + 1
        BY <2>5, <3>2, <4>2
      <4> QED
        BY <4>2, <4>3
    <3> QED
      BY <1>1, <3>1, <3>2
  <2>10. \E f \in [1 .. M -> 1 .. L] :
            /\ \A i \in 1 .. M : t[f[i]] = story[(k + 1) + i]
            /\ \A i, j \in 1 .. M : i < j => f[i] < f[j]
            /\ \A x \in 1 .. L : t[x] = Beat \/ \E i \in 1 .. M : f[i] = x
    BY <2>6, <2>7, <2>8, <2>9
  <2>11. Follows(story, t, k + 1)
    BY <2>10 DEF Follows, M, L
  <2> QED
    BY <2>3, <2>11
<1> QED
  BY <1>4, <1>5 DEF t

(* An empty queue leaves nothing of the story to tell, and what is told    *)
(* whole leaves heartbeats only.                                           *)
LEMMA FollowsAtTheEnd ==
  ASSUME NEW story \in Seq(Lines), NEW q \in Seq(Lines), NEW k \in 0 .. Len(story),
         Follows(story, q, k)
  PROVE  /\ q = <<>> => k = Len(story)
         /\ k = Len(story) => \A p \in 1 .. Len(q) : q[p] = Beat
<1> DEFINE m == Len(story) - k
<1>1. PICK place \in [1 .. m -> 1 .. Len(q)] :
          \A p \in 1 .. Len(q) : q[p] = Beat \/ \E i \in 1 .. m : place[i] = p
  BY DEF Follows
<1>2. m \in Nat /\ Len(story) \in Nat /\ k \in Nat
  OBVIOUS
<1>3. ASSUME q = <<>>, m # 0 PROVE FALSE
  <2>1. Len(q) = 0 /\ 1 \in 1 .. m
    BY <1>2, <1>3
  <2>2. place[1] \in 1 .. Len(q)
    BY <1>1, <2>1
  <2> QED
    BY <2>1, <2>2
<1>4. ASSUME m = 0, NEW p \in 1 .. Len(q) PROVE q[p] = Beat
  BY <1>1, <1>4
<1> QED
  BY <1>2, <1>3, <1>4

LEMMA LinesAre ==
  /\ \A n \in Nat : Entry(n) \in Lines \ {Beat, Pending}
  /\ \A how \in {"ok", "failed", "error"} : Verdict(how) \in Lines \ {Beat, Pending}
  /\ \A how \in {"ok", "failed", "error"}, n \in Nat : Verdict(how) # Entry(n)
  /\ Beat \in Lines
  BY PendingAssumption DEF Lines, Entry, Verdict, Beat

RunVerdicts == {Verdict("ok"), Verdict("failed"), Verdict("error")}

(* The story is a list of lines without heartbeats, and the verdict comes  *)
(* only at its end.                                                        *)
LEMMA StoryIs ==
  ASSUME NEW s \in Runs, said[s] \in Nat, verdict[s] \in {Pending} \union RunVerdicts
  PROVE  /\ Story(s) \in Seq(Lines \ {Beat}) /\ Story(s) \in Seq(Lines)
         /\ \A i \in 1 .. Len(Story(s)) : Story(s)[i] = verdict[s] => i = Len(Story(s))
<1> DEFINE entries == [i \in 1 .. said[s] |-> Entry(i)]
<1>1. \A i \in 1 .. said[s] : entries[i] = Entry(i) /\ Entry(i) \in Lines \ {Beat, Pending}
  BY LinesAre
<1>2. entries \in Seq(Lines \ {Beat}) /\ Len(entries) = said[s]
  <2>1. entries \in [1 .. said[s] -> Lines \ {Beat}]
    BY <1>1
  <2> HIDE DEF entries
  <2> QED
    BY <2>1
<1>3. Story(s) = IF verdict[s] = Pending THEN entries ELSE Append(entries, verdict[s])
  BY DEF Story
<1> HIDE DEF entries
<1>4. CASE verdict[s] = Pending
  <2>1. Story(s) = entries
    BY <1>3, <1>4
  <2>2. \A i \in 1 .. said[s] : entries[i] # Pending
    BY <1>1
  <2>3. entries \in Seq(Lines)
    BY <1>2
  <2> QED
    BY <1>2, <1>4, <2>1, <2>2, <2>3
<1>5. CASE verdict[s] # Pending
  <2> DEFINE v == verdict[s]
             told == Append(entries, v)
  <2>1. Story(s) = told
    BY <1>3, <1>5
  <2>2. v \in Lines \ {Beat} /\ \A i \in 1 .. said[s] : entries[i] # v
    BY <1>1, <1>5, LinesAre DEF RunVerdicts
  <2> HIDE DEF v
  <2>3. /\ told \in Seq(Lines \ {Beat}) /\ told \in Seq(Lines) /\ Len(told) = said[s] + 1
        /\ \A i \in 1 .. said[s] : told[i] = entries[i]
    BY <1>2, <2>2
  <2> HIDE DEF told
  <2>4. ASSUME NEW i \in 1 .. Len(told), told[i] = v PROVE i = Len(told)
    BY <2>2, <2>3, <2>4
  <2> QED
    BY <2>1, <2>3, <2>4 DEF v
<1> QED
  BY <1>4, <1>5

LEMMA FreshIs ==
  ASSUME NEW s \in Runs, said[s] \in Nat, said'[s] \in Nat, said'[s] >= said[s]
  PROVE  /\ Fresh(s) \in Seq(Lines) /\ Len(Fresh(s)) = said'[s] - said[s]
         /\ \A i \in 1 .. said'[s] - said[s] : Fresh(s)[i] = Entry(said[s] + i)
<1>1. \A i \in 1 .. said'[s] - said[s] : Entry(said[s] + i) \in Lines
  BY LinesAre
<1>2. said'[s] - said[s] \in Nat
  OBVIOUS
<1> QED
  BY <1>1, <1>2 DEF Fresh

(* What a step logs, or the verdict, is appended to the story. *)
LEMMA StoryGrows ==
  ASSUME NEW s \in Runs, said[s] \in Nat, said'[s] \in Nat, said'[s] >= said[s],
         verdict[s] = Pending, verdict'[s] = Pending
  PROVE  Story(s)' = Story(s) \o Fresh(s)
<1> DEFINE n == said[s]
           m == said'[s]
           old == [i \in 1 .. n |-> Entry(i)]
           new == [i \in 1 .. m |-> Entry(i)]
           more == Fresh(s)
<1>1. /\ Story(s) = old /\ Story(s)' = new
  BY DEF Story, Entry
<1>2. more \in Seq(Lines) /\ Len(more) = m - n /\ \A i \in 1 .. m - n : more[i] = Entry(n + i)
  BY FreshIs
<1>3. n \in Nat /\ m \in Nat /\ n <= m
  OBVIOUS
<1> HIDE DEF n, m, more
<1>4. \A i \in Nat : Entry(i) \in Lines
  BY LinesAre
<1>5. /\ old \in Seq(Lines) /\ Len(old) = n /\ \A i \in 1 .. n : old[i] = Entry(i)
      /\ new \in Seq(Lines) /\ Len(new) = m /\ \A i \in 1 .. m : new[i] = Entry(i)
  BY <1>3, <1>4
<1> HIDE DEF old, new
<1> DEFINE all == old \o more
<1>6. /\ all \in Seq(Lines) /\ Len(all) = n + (m - n)
      /\ \A i \in 1 .. n : all[i] = old[i]
      /\ \A i \in 1 .. m - n : all[n + i] = more[i]
  BY <1>2, <1>5
<1> HIDE DEF all
<1>7. ASSUME NEW i \in 1 .. m PROVE new[i] = all[i]
  <2>1. CASE i <= n
    BY <1>3, <1>5, <1>6, <2>1
  <2>2. CASE i > n
    <3>1. i - n \in 1 .. m - n /\ n + (i - n) = i
      BY <1>3, <2>2
    <3>2. all[n + (i - n)] = more[i - n] /\ more[i - n] = Entry(n + (i - n))
      BY <1>2, <1>6, <3>1
    <3> QED
      BY <1>5, <3>1, <3>2
  <2> QED
    BY <1>3, <2>1, <2>2
<1>8. new = all
  <2>1. Len(new) = Len(all)
    BY <1>3, <1>5, <1>6
  <2>2. \A i \in 1 .. Len(new) : new[i] = all[i]
    BY <1>5, <1>7
  <2> QED
    BY <1>5, <1>6, <2>1, <2>2, SeqEqual
<1> QED
  BY <1>1, <1>8 DEF all, more

(* A stream is as it was when its variables are.                           *)
SameStream(s) ==
    /\ walk'[s] = walk[s] /\ said'[s] = said[s] /\ reply'[s] = reply[s] /\ queue'[s] = queue[s]
    /\ timer'[s] = timer[s] /\ closed'[s] = closed[s] /\ verdict'[s] = verdict[s]
    /\ written'[s] = written[s] /\ ended'[s] = ended[s] /\ gone'[s] = gone[s]

StreamInv(s) == WalkInv(walk[s]) /\ OwedInv(walk[s]) /\ PhaseInv(s) /\ FlowInv(s)

LEMMA SameFlow ==
  ASSUME NEW s \in Runs, FlowInv(s), said'[s] = said[s], verdict'[s] = verdict[s],
         queue'[s] = queue[s], written'[s] = written[s], gone'[s] = gone[s]
  PROVE  FlowInv(s)'
<1>1. Story(s)' = Story(s)
  BY DEF Story, Entry
<1>2. /\ Len(written'[s]) <= Len(Story(s)')
      /\ \A i \in 1 .. Len(written'[s]) : written'[s][i] = Story(s)'[i]
      /\ ~gone'[s] => Follows(Story(s)', queue'[s], Len(written'[s]))
      /\ verdict'[s] # Pending =>
             /\ verdict'[s] \in RunVerdicts
             /\ queue'[s] # <<>> => queue'[s][Len(queue'[s])] = verdict'[s]
  BY <1>1 DEF FlowInv, RunVerdicts
<1> QED
  BY <1>2 DEF FlowInv, RunVerdicts, Follows, Verdict, Beat

LEMMA SameWalk ==
  ASSUME NEW s \in Runs, WalkInv(walk[s]), OwedInv(walk[s]), walk'[s] = walk[s]
  PROVE  WalkInv(walk[s])' /\ OwedInv(walk[s])'
  BY DEF WalkInv, OwedInv, Owed, Reconciliation, Call

LEMMA SameStreamKeeps ==
  ASSUME NEW s \in Runs, StreamInv(s), SameStream(s)
  PROVE  StreamInv(s)'
<1>1. PhaseInv(s)'
  BY DEF StreamInv, SameStream, PhaseInv, Settled
<1>2. FlowInv(s)' /\ WalkInv(walk[s])' /\ OwedInv(walk[s])'
  BY SameFlow, SameWalk DEF StreamInv, SameStream
<1> QED
  BY <1>1, <1>2 DEF StreamInv

(* What the invariant says of one stream. *)
LEMMA StreamTypes ==
  ASSUME HttpRecords, NEW s \in Runs, StreamInv(s)
  PROVE  /\ said[s] \in Nat /\ queue[s] \in Seq(Lines) /\ written[s] \in Seq(Lines)
         /\ verdict[s] \in {Pending} \union RunVerdicts
         /\ Story(s) \in Seq(Lines \ {Beat}) /\ Story(s) \in Seq(Lines)
         /\ Len(written[s]) \in 0 .. Len(Story(s))
         /\ \A i \in 1 .. Len(Story(s)) : Story(s)[i] = verdict[s] => i = Len(Story(s))
<1>1. /\ said[s] \in Nat /\ queue[s] \in Seq(Lines) /\ written[s] \in Seq(Lines)
      /\ verdict[s] \in {Pending} \union RunVerdicts
  BY DEF HttpRecords, StreamInv, FlowInv, RunVerdicts
<1>2. /\ Story(s) \in Seq(Lines \ {Beat}) /\ Story(s) \in Seq(Lines)
      /\ \A i \in 1 .. Len(Story(s)) : Story(s)[i] = verdict[s] => i = Len(Story(s))
  BY <1>1, StoryIs
<1>3. Len(written[s]) \in 0 .. Len(Story(s))
  <2>1. Len(written[s]) \in Nat /\ Len(Story(s)) \in Nat /\ Len(written[s]) <= Len(Story(s))
    BY <1>1, <1>2 DEF StreamInv, FlowInv
  <2> QED
    BY <2>1
<1> QED
  BY <1>1, <1>2, <1>3

LEMMA PushIs ==
  ASSUME HttpRecords, NEW s \in Runs, ~closed[s], NEW lines \in Seq(Lines), Push(s, lines)
  PROVE  /\ queue' = [queue EXCEPT ![s] = queue[s] \o lines]
         /\ queue' \in [Runs -> Seq(Lines)] /\ queue'[s] = queue[s] \o lines
         /\ waiting' \in [Runs -> BOOLEAN]
<1>1. queue[s] \in Seq(Lines) /\ queue \in [Runs -> Seq(Lines)] /\ waiting \in [Runs -> BOOLEAN]
  BY DEF HttpRecords
<1>2. queue[s] \o lines \in Seq(Lines)
  BY <1>1
<1>3. CASE lines = <<>>
  <2>1. queue[s] \o lines = queue[s]
    BY <1>1, <1>3
  <2>2. UNCHANGED <<queue, waiting>>
    BY <1>3 DEF Push
  <2> QED
    BY <1>1, <2>1, <2>2
<1>4. CASE lines # <<>>
  <2>1. /\ queue' = [queue EXCEPT ![s] = queue[s] \o lines]
        /\ waiting' = [waiting EXCEPT ![s] = FALSE]
    BY <1>4 DEF Push
  <2> HIDE DEF Push
  <2> QED
    BY <1>1, <1>2, <2>1
<1> QED
  BY <1>3, <1>4

(* The flow after lines of the story, or heartbeats, are pushed. *)
LEMMA PushKeepsFlow ==
  ASSUME HttpRecords, NEW s \in Runs, StreamInv(s), verdict[s] = Pending, NEW more \in Seq(Lines),
         written'[s] = written[s], gone'[s] = gone[s], queue'[s] = queue[s] \o more,
         Story(s)' = Story(s) \o more,
         verdict'[s] # Pending => verdict'[s] \in RunVerdicts /\ more = <<verdict'[s]>>
  PROVE  FlowInv(s)'
<1> DEFINE story == Story(s)
           next == Story(s)'
           w == written[s]
           q == queue[s]
<1>1. /\ story \in Seq(Lines) /\ q \in Seq(Lines) /\ w \in Seq(Lines) /\ Len(w) \in 0 .. Len(story)
      /\ \A i \in 1 .. Len(w) : w[i] = story[i]
      /\ ~gone[s] => Follows(story, q, Len(w))
  <2>1. FlowInv(s)
    BY DEF StreamInv
  <2> QED
    BY <2>1, StreamTypes DEF FlowInv
<1>2. next = story \o more
  OBVIOUS
<1> HIDE DEF story, next, w, q
<1>3. /\ Len(next) = Len(story) + Len(more) /\ Len(story) \in Nat /\ Len(more) \in Nat
      /\ \A i \in 1 .. Len(story) : next[i] = story[i]
  BY <1>1, <1>2
<1>4. Len(w) <= Len(next) /\ \A i \in 1 .. Len(w) : w[i] = next[i]
  BY <1>1, <1>3
<1>5. ~gone[s] => Follows(next, q \o more, Len(w))
  BY <1>1, <1>2, PushedFollows
<1>6. ASSUME verdict'[s] # Pending
      PROVE  /\ q \o more # <<>> => (q \o more)[Len(q \o more)] = verdict'[s]
  <2>1. more = <<verdict'[s]>>
    BY <1>6
  <2> QED
    BY <1>1, <2>1
<1>7. /\ Len(written'[s]) <= Len(Story(s)') /\ \A i \in 1 .. Len(written'[s]) : written'[s][i] = Story(s)'[i]
      /\ ~gone'[s] => Follows(Story(s)', queue'[s], Len(written'[s]))
      /\ verdict'[s] # Pending => /\ verdict'[s] \in RunVerdicts
                                  /\ queue'[s] # <<>> => queue'[s][Len(queue'[s])] = verdict'[s]
  BY <1>4, <1>5, <1>6 DEF story, next, w, q
<1> QED
  BY <1>7 DEF FlowInv, RunVerdicts, Follows, Verdict, Beat

Elsewhere(s) == \A r \in Runs : r # s => SameStream(r)

(* A step of one stream. *)
LEMMA StreamStep ==
  ASSUME HttpInv, NEW s \in Runs, Elsewhere(s), HttpRecords', StreamInv(s)'
  PROVE  HttpInv'
<1>1. \A r \in Runs : StreamInv(r)
  BY DEF HttpInv, StreamInv
<1>2. ASSUME NEW r \in Runs PROVE StreamInv(r)'
  <2>1. CASE r = s
    BY <2>1
  <2>2. CASE r # s
    BY <1>1, <2>2, SameStreamKeeps DEF Elsewhere
  <2> QED
    BY <2>1, <2>2
<1> QED
  BY <1>2 DEF HttpInv, StreamInv

LEMMA RefuseKeeps ==
  ASSUME HttpInv, NEW s \in Runs, NEW request \in Requests, Refuse(s, request)
  PROVE  HttpInv'
<1>1. HttpRecords /\ StreamInv(s)
  BY DEF HttpInv, StreamInv
<1>2. /\ reply' = [reply EXCEPT ![s] = StatusOf(request)] /\ ended' = [ended EXCEPT ![s] = TRUE]
      /\ reply[s] = 0
      /\ UNCHANGED <<walk, said, queue, timer, closed, verdict, waiting, written, gone, process>>
  BY DEF Refuse, matchdayVars
<1>3. StatusOf(request) \in {200, 202, 400, 401, 404, 428, 502, 503}
  BY DEF StatusOf, SmokeStatus
<1>4. HttpRecords'
  BY <1>1, <1>2, <1>3 DEF HttpRecords, WalkRecords, Times, Idle, Lines
<1>5. reply'[s] # 0 /\ ended'[s]
  BY <1>1, <1>2, <1>3 DEF HttpRecords
<1>6. WalkInv(walk[s])' /\ OwedInv(walk[s])' /\ FlowInv(s)'
  BY <1>1, <1>2, SameFlow, SameWalk DEF StreamInv
<1>7. PhaseInv(s)'
  BY <1>1, <1>2, <1>5 DEF StreamInv, PhaseInv, Settled
<1>8. Elsewhere(s)
  BY <1>1, <1>2 DEF Elsewhere, SameStream, HttpRecords
<1> QED
  BY <1>1, <1>4, <1>6, <1>7, <1>8, StreamStep DEF StreamInv

LEMMA RecordsSame ==
  ASSUME walk' \in [Runs -> WalkRecords]
  PROVE  (walk \in [Runs -> WalkRecords])'
  BY DEF WalkRecords, Times, Idle, Calls, Subjects, Members, Listings, Workloads, Actions, Routes, Kinds

(* A step of a stream that leaves the walk and the story alone.            *)
LEMMA SettleKeeps ==
  ASSUME HttpInv, NEW s \in Runs, Settle(s)
  PROVE  HttpInv'
<1> DEFINE v == VerdictOf(walk[s])
<1>1. HttpRecords /\ StreamInv(s)
  BY DEF HttpInv, StreamInv
<1>2. /\ timer[s] /\ verdict[s] = Pending /\ Settled(s)
      /\ verdict' = [verdict EXCEPT ![s] = v]
      /\ Push(s, <<v>>)
      /\ UNCHANGED <<walk, said, reply, timer, closed, written, ended, gone, process>>
  BY DEF Settle, matchdayVars
<1>3. v \in RunVerdicts
  BY DEF VerdictOf, RunVerdicts
<1> HIDE DEF v
<1>4. v \in Lines /\ v # Pending
  BY <1>3, LinesAre DEF RunVerdicts
<1>5. ~closed[s]
  BY <1>1, <1>2 DEF StreamInv, PhaseInv
<1>6. <<v>> \in Seq(Lines)
  BY <1>4
<1>7. /\ queue' = [queue EXCEPT ![s] = queue[s] \o <<v>>]
      /\ queue' \in [Runs -> Seq(Lines)] /\ queue'[s] = queue[s] \o <<v>>
      /\ waiting' \in [Runs -> BOOLEAN]
  BY <1>1, <1>2, <1>5, <1>6, PushIs
<1>8. verdict' \in [Runs -> {Pending} \union Lines] /\ verdict'[s] = v
  BY <1>1, <1>2, <1>4 DEF HttpRecords
<1>9. HttpRecords'
  BY <1>1, <1>2, <1>7, <1>8, RecordsSame DEF HttpRecords, Lines
<1>10. Story(s)' = Story(s) \o <<v>>
  <2> DEFINE entries == [i \in 1 .. said[s] |-> Entry(i)]
  <2>1. Story(s) = entries
    BY <1>2 DEF Story
  <2>2. Story(s)' = Append(entries, v)
    BY <1>2, <1>4, <1>8 DEF Story, Entry
  <2>3. entries \in Seq(Lines)
    BY <1>1, <2>1, StreamTypes
  <2> HIDE DEF entries
  <2>4. Append(entries, v) = entries \o <<v>>
    BY <1>4, <2>3
  <2> QED
    BY <2>1, <2>2, <2>4
<1>11. FlowInv(s)'
  BY <1>1, <1>2, <1>3, <1>6, <1>7, <1>8, <1>10, PushKeepsFlow
<1>12. WalkInv(walk[s])' /\ OwedInv(walk[s])'
  BY <1>1, <1>2, SameWalk DEF StreamInv
<1>13. PhaseInv(s)'
  BY <1>1, <1>2, <1>4, <1>8 DEF StreamInv, PhaseInv, Settled
<1>14. Elsewhere(s)
  BY <1>1, <1>2, <1>7 DEF Elsewhere, SameStream, HttpRecords
<1> QED
  BY <1>1, <1>9, <1>11, <1>12, <1>13, <1>14, StreamStep DEF StreamInv

(* What begins with an accepted request. *)
LEMMA AcceptStarts ==
  ASSUME HttpRecords, NEW s \in Runs, NEW request \in Requests, said[s] = 0, Accept(s, request)
  PROVE  /\ walk' = [walk EXCEPT ![s] = walk'[s]] /\ said' = [said EXCEPT ![s] = said'[s]]
         /\ walk'[s] \in WalkRecords /\ WalkInv(walk'[s]) /\ OwedInv(walk'[s])
         /\ walk'[s].state \in {"walking", "done"}
         /\ said'[s] \in Nat /\ said'[s] >= said[s]
<1>1. walk \in [Runs -> WalkRecords] /\ said \in [Runs -> Nat]
  BY DEF HttpRecords
<1> DEFINE Begins(w, n) == /\ w \in WalkRecords /\ WalkInv(w) /\ OwedInv(w)
                           /\ w.state \in {"walking", "done"} /\ n \in Nat
                           /\ walk' = [walk EXCEPT ![s] = w] /\ said' = [said EXCEPT ![s] = n]
<1>2. \E w, n : Begins(w, n)
  <2>1. PICK moment \in Moments :
           \/ /\ request.route \in {"daily-anchor", "hourly-matchday"}
              /\ \E named \in {{}, {Catalogue[1]}} : StartSweep(s, request.route, named, moment)
           \/ /\ request.route = "webhook-completed"
              /\ \E supported \in BOOLEAN :
                    StartWebhook(s, Window[Catalogue[1]][1].id, supported, moment)
           \/ /\ request.route \in OtherRoutes
              /\ walk' = [walk EXCEPT ![s] = [Idle EXCEPT !.kind = request.route,
                                                          !.state = "done"]]
              /\ said' = [said EXCEPT ![s] = 1]
    BY DEF Accept
  <2>2. ASSUME NEW kind \in {"daily-anchor", "hourly-matchday"}, NEW named, StartSweep(s, kind, named, moment)
        PROVE  \E w, n : Begins(w, n)
    <3> DEFINE todo == Chosen(kind, named, moment)
               n == IF todo = <<>> THEN 2 ELSE 1
    <3>1. todo \in Seq(ToSet(Catalogue))
      BY ChosenIs
    <3>2. /\ walk' = [walk EXCEPT ![s] = Begun(kind, todo, moment)]
          /\ said' = [said EXCEPT ![s] = n]
      BY <2>2 DEF StartSweep
    <3> HIDE DEF todo
    <3>3. todo \in Seq(Subjects) /\ kind \in Kinds /\ n \in Nat
      BY <3>1 DEF Subjects, Kinds
    <3> HIDE DEF n
    <3>4. Begins(Begun(kind, todo, moment), n)
      BY <3>1, <3>2, <3>3, BegunIs
    <3> HIDE DEF Begins
    <3> QED
      BY <3>4
  <2>3. ASSUME NEW supported \in BOOLEAN, StartWebhook(s, Window[Catalogue[1]][1].id, supported, moment)
        PROVE  \E w, n : Begins(w, n)
    <3> DEFINE f == Window[Catalogue[1]][1].id
               todo == IF supported THEN <<f>> ELSE <<>>
               n == IF supported THEN 1 ELSE 2
    <3>1. f \in Subjects
      BY DEF Subjects
    <3>2. /\ walk' = [walk EXCEPT ![s] = Begun("webhook-completed", todo, moment)]
          /\ said' = [said EXCEPT ![s] = n]
      BY <2>3 DEF StartWebhook
    <3> HIDE DEF f
    <3>3. todo \in Seq(Subjects) /\ n \in Nat /\ "webhook-completed" \in Kinds
      BY <3>1 DEF Kinds
    <3> HIDE DEF todo, n
    <3>4. Begins(Begun("webhook-completed", todo, moment), n)
      BY <3>2, <3>3, BegunIs
    <3> HIDE DEF Begins
    <3> QED
      BY <3>4
  <2>4. ASSUME request.route \in OtherRoutes,
               walk' = [walk EXCEPT ![s] = [Idle EXCEPT !.kind = request.route, !.state = "done"]],
               said' = [said EXCEPT ![s] = 1]
        PROVE  \E w, n : Begins(w, n)
    <3> DEFINE route == request.route
               w == [Idle EXCEPT !.kind = route, !.state = "done"]
    <3>1. route \in Routes
      BY <2>4 DEF Routes
    <3>2. Idle \in WalkRecords /\ Idle.listed = {} /\ Idle.todo = <<>>
      BY IdleIs
    <3>3. walk' = [walk EXCEPT ![s] = w]
      BY <2>4
    <3> HIDE DEF route
    <3>4. w \in WalkRecords /\ w.state = "done" /\ w.listed = {} /\ w.todo = <<>>
      BY <3>1, <3>2 DEF WalkRecords
    <3> HIDE DEF w
    <3>5. <<>> \in Seq(ToSet(Catalogue))
      BY EmptySeq
    <3>6. WalkInv(w) /\ OwedInv(w)
      BY <3>4, <3>5 DEF WalkInv, OwedInv
    <3>7. Begins(w, 1)
      BY <2>4, <3>3, <3>4, <3>6
    <3> HIDE DEF Begins
    <3> QED
      BY <3>7
  <2> HIDE DEF Begins
  <2> QED
    BY <2>1, <2>2, <2>3, <2>4
<1>3. PICK w, n : Begins(w, n)
  BY <1>2
<1>4. walk'[s] = w /\ said'[s] = n
  BY <1>1, <1>3
<1>5. n \in Nat /\ n >= said[s]
  BY <1>3
<1>6. walk' = [walk EXCEPT ![s] = walk'[s]] /\ said' = [said EXCEPT ![s] = said'[s]]
  BY <1>3, <1>4
<1>7. /\ walk'[s] \in WalkRecords /\ WalkInv(walk'[s]) /\ OwedInv(walk'[s])
      /\ walk'[s].state \in {"walking", "done"}
  BY <1>3, <1>4
<1> QED
  BY <1>4, <1>5, <1>6, <1>7

(* A walk that took a step, and what a step of it logs.                    *)
LEMMA WalkSteps ==
  ASSUME HttpRecords, NEW s \in Runs, WalkInv(walk'[s]), OwedInv(walk'[s]), walk'[s] \in WalkRecords,
         walk' = [walk EXCEPT ![s] = walk'[s]], said' = [said EXCEPT ![s] = said'[s]],
         said'[s] \in Nat
  PROVE  /\ walk' \in [Runs -> WalkRecords] /\ said' \in [Runs -> Nat]
         /\ (walk \in [Runs -> WalkRecords])'
         /\ WalkInv(walk[s])' /\ OwedInv(walk[s])'
<1> DEFINE w == walk'[s]
           n == said'[s]
<1>1. w \in WalkRecords /\ n \in Nat /\ walk' = [walk EXCEPT ![s] = w] /\ said' = [said EXCEPT ![s] = n]
  OBVIOUS
<1>2. walk \in [Runs -> WalkRecords] /\ said \in [Runs -> Nat]
  BY DEF HttpRecords
<1>3. WalkInv(walk[s])' /\ OwedInv(walk[s])'
  BY DEF WalkInv, OwedInv, Owed, Reconciliation, Call
<1> HIDE DEF w, n
<1>4. walk' \in [Runs -> WalkRecords] /\ said' \in [Runs -> Nat]
  BY <1>1, <1>2
<1> QED
  BY <1>3, <1>4, RecordsSame

LEMMA AcceptKeeps ==
  ASSUME HttpInv, NEW s \in Runs, NEW request \in Requests, Accept(s, request)
  PROVE  HttpInv'
<1>1. HttpRecords /\ StreamInv(s)
  BY DEF HttpInv, StreamInv
<1>2. /\ reply' = [reply EXCEPT ![s] = 200] /\ timer' = [timer EXCEPT ![s] = TRUE]
      /\ queue' = [queue EXCEPT ![s] = Fresh(s)] /\ reply[s] = 0
      /\ UNCHANGED <<closed, verdict, waiting, written, ended, gone, process>>
  BY DEF Accept
<1>3. /\ said[s] = 0 /\ queue[s] = <<>> /\ verdict[s] = Pending /\ ~closed[s]
      /\ written[s] = <<>>
  BY <1>1, <1>2 DEF StreamInv, PhaseInv
<1>4. /\ walk' = [walk EXCEPT ![s] = walk'[s]] /\ said' = [said EXCEPT ![s] = said'[s]]
      /\ walk'[s] \in WalkRecords /\ WalkInv(walk'[s]) /\ OwedInv(walk'[s])
      /\ walk'[s].state \in {"walking", "done"}
      /\ said'[s] \in Nat /\ said'[s] >= said[s]
  BY <1>1, <1>3, AcceptStarts
<1>5. /\ walk' \in [Runs -> WalkRecords] /\ said' \in [Runs -> Nat]
      /\ (walk \in [Runs -> WalkRecords])'
      /\ WalkInv(walk[s])' /\ OwedInv(walk[s])'
  BY <1>1, <1>4, WalkSteps
<1>6. said[s] \in Nat
  BY <1>3
<1> DEFINE more == Fresh(s)
<1>7. more \in Seq(Lines)
  BY <1>4, <1>6, FreshIs
<1>8. Story(s)' = Story(s) \o more
  BY <1>2, <1>3, <1>4, <1>6, StoryGrows
<1> HIDE DEF more
<1>9. queue' \in [Runs -> Seq(Lines)] /\ queue'[s] = queue[s] \o more
  <2>1. queue \in [Runs -> Seq(Lines)] /\ queue' = [queue EXCEPT ![s] = more]
    BY <1>1, <1>2 DEF HttpRecords, more
  <2>2. <<>> \o more = more
    BY <1>7
  <2> QED
    BY <1>3, <1>7, <2>1, <2>2
<1>10. /\ reply' \in [Runs -> {0, 200, 202, 400, 401, 404, 428, 502, 503}]
       /\ timer' \in [Runs -> BOOLEAN] /\ reply'[s] = 200
  BY <1>1, <1>2 DEF HttpRecords
<1>11. HttpRecords'
  BY <1>1, <1>2, <1>5, <1>9, <1>10 DEF HttpRecords, Lines
<1>12. FlowInv(s)'
  BY <1>1, <1>2, <1>3, <1>7, <1>8, <1>9, PushKeepsFlow
<1>13. PhaseInv(s)'
  BY <1>1, <1>2, <1>3, <1>4, <1>10 DEF PhaseInv
<1>14. Elsewhere(s)
  BY <1>1, <1>2, <1>4 DEF Elsewhere, SameStream, HttpRecords
<1> QED
  BY <1>1, <1>5, <1>11, <1>12, <1>13, <1>14, StreamStep DEF StreamInv

LEMMA ProgressKeeps ==
  ASSUME HttpInv, NEW s \in Runs, Progress(s)
  PROVE  HttpInv'
<1>1. HttpRecords /\ StreamInv(s)
  BY DEF HttpInv, StreamInv
<1>2. /\ Answer(s) /\ Push(s, Fresh(s))
      /\ UNCHANGED <<reply, timer, closed, verdict, written, ended, gone, process>>
  BY DEF Progress
<1>3. walk[s].state = "walking"
  BY <1>2 DEF Answer
<1>4. verdict[s] = Pending /\ ~closed[s] /\ reply[s] # 0
  BY <1>1, <1>3 DEF StreamInv, PhaseInv, Settled
<1>5. /\ walk' = [walk EXCEPT ![s] = walk'[s]] /\ said' = [said EXCEPT ![s] = said'[s]]
      /\ walk'[s] \in WalkRecords /\ WalkInv(walk'[s]) /\ OwedInv(walk'[s])
      /\ walk'[s].state \in {"walking", "done"}
      /\ said'[s] \in Nat /\ said'[s] >= said[s]
  BY <1>1, <1>2, AnswerKeeps DEF WalkTypes, HttpRecords, StreamInv
<1>6. /\ walk' \in [Runs -> WalkRecords] /\ said' \in [Runs -> Nat]
      /\ (walk \in [Runs -> WalkRecords])'
      /\ WalkInv(walk[s])' /\ OwedInv(walk[s])'
  BY <1>1, <1>5, WalkSteps
<1>7. said[s] \in Nat
  BY <1>1 DEF HttpRecords
<1> DEFINE more == Fresh(s)
<1>8. more \in Seq(Lines)
  BY <1>5, <1>7, FreshIs
<1>9. Story(s)' = Story(s) \o more
  BY <1>2, <1>4, <1>5, <1>7, StoryGrows
<1>10. Push(s, more)
  BY <1>2
<1> HIDE DEF more
<1>11. /\ queue' = [queue EXCEPT ![s] = queue[s] \o more]
       /\ queue' \in [Runs -> Seq(Lines)] /\ queue'[s] = queue[s] \o more
       /\ waiting' \in [Runs -> BOOLEAN]
  BY <1>1, <1>4, <1>8, <1>10, PushIs
<1>12. HttpRecords'
  BY <1>1, <1>2, <1>6, <1>11 DEF HttpRecords, Lines
<1>13. FlowInv(s)'
  BY <1>1, <1>2, <1>4, <1>8, <1>9, <1>11, PushKeepsFlow
<1>14. PhaseInv(s)'
  BY <1>1, <1>2, <1>4, <1>5 DEF PhaseInv
<1>15. Elsewhere(s)
  BY <1>1, <1>2, <1>5, <1>11 DEF Elsewhere, SameStream, HttpRecords
<1> QED
  BY <1>1, <1>6, <1>12, <1>13, <1>14, <1>15, StreamStep DEF StreamInv

LEMMA CrashKeeps ==
  ASSUME HttpInv, NEW s \in Runs, Crash(s)
  PROVE  HttpInv'
<1>1. HttpRecords /\ StreamInv(s)
  BY DEF HttpInv, StreamInv
<1> DEFINE w == walk[s]
           next == [w EXCEPT !.state = "thrown"]
<1>2. /\ walk' = [walk EXCEPT ![s] = next] /\ w.state = "walking"
      /\ UNCHANGED <<said, reply, queue, timer, closed, verdict, waiting, written, ended, gone, process>>
  BY DEF Crash, Throw, httpVars
<1>3. /\ w \in WalkRecords /\ walk \in [Runs -> WalkRecords] /\ said \in [Runs -> Nat]
  BY <1>1 DEF HttpRecords
<1>4. next \in WalkRecords
  BY <1>3 DEF WalkRecords
<1>5. WalkInv(next) /\ OwedInv(next)
  <2>1. /\ next.state = "thrown" /\ next.kind = w.kind /\ next.todo = w.todo /\ next.told = w.told
        /\ next.listed = w.listed /\ next.asked = w.asked /\ next.plan = w.plan
    BY <1>3 DEF WalkRecords
  <2>2. WalkInv(w) /\ OwedInv(w)
    BY <1>1 DEF StreamInv
  <2> HIDE DEF w, next
  <2> QED
    BY <2>1, <2>2 DEF WalkInv, OwedInv
<1>6. next.state = "thrown"
  BY <1>3 DEF WalkRecords
<1> HIDE DEF next
<1>7. walk'[s] = next /\ said'[s] = said[s] /\ said[s] \in Nat
  BY <1>2, <1>3
<1>8. said' = [said EXCEPT ![s] = said'[s]] /\ walk' = [walk EXCEPT ![s] = walk'[s]]
  BY <1>2, <1>3, <1>7
<1>9. /\ walk' \in [Runs -> WalkRecords] /\ said' \in [Runs -> Nat]
      /\ (walk \in [Runs -> WalkRecords])'
      /\ WalkInv(walk[s])' /\ OwedInv(walk[s])'
  BY <1>1, <1>4, <1>5, <1>7, <1>8, WalkSteps
<1>10. HttpRecords'
  BY <1>1, <1>2, <1>9 DEF HttpRecords, Lines
<1>11. FlowInv(s)'
  BY <1>1, <1>2, SameFlow DEF StreamInv
<1>12. PhaseInv(s)'
  BY <1>1, <1>2, <1>6, <1>7 DEF StreamInv, PhaseInv, Settled
<1>13. Elsewhere(s)
  BY <1>1, <1>2 DEF Elsewhere, SameStream, HttpRecords
<1> QED
  BY <1>1, <1>9, <1>10, <1>11, <1>12, <1>13, StreamStep DEF StreamInv

LEMMA CloseKeeps ==
  ASSUME HttpInv, NEW s \in Runs, Close(s)
  PROVE  HttpInv'
<1>1. HttpRecords /\ StreamInv(s)
  BY DEF HttpInv, StreamInv
<1>2. /\ verdict[s] # Pending
      /\ timer' = [timer EXCEPT ![s] = FALSE] /\ closed' = [closed EXCEPT ![s] = TRUE]
      /\ waiting' = [waiting EXCEPT ![s] = FALSE]
      /\ UNCHANGED <<walk, said, reply, queue, verdict, written, ended, gone, process>>
  BY DEF Close, Settling, matchdayVars
<1>3. /\ timer' \in [Runs -> BOOLEAN] /\ closed' \in [Runs -> BOOLEAN] /\ waiting' \in [Runs -> BOOLEAN]
      /\ closed'[s] /\ ~timer'[s]
  BY <1>1, <1>2 DEF HttpRecords
<1>4. HttpRecords'
  BY <1>1, <1>2, <1>3, RecordsSame DEF HttpRecords, Lines
<1>5. WalkInv(walk[s])' /\ OwedInv(walk[s])' /\ FlowInv(s)'
  BY <1>1, <1>2, SameFlow, SameWalk DEF StreamInv
<1>6. PhaseInv(s)'
  BY <1>1, <1>2, <1>3 DEF StreamInv, PhaseInv, Settled
<1>7. Elsewhere(s)
  BY <1>1, <1>2 DEF Elsewhere, SameStream, HttpRecords
<1> QED
  BY <1>1, <1>4, <1>5, <1>6, <1>7, StreamStep DEF StreamInv

LEMMA HeartbeatKeeps ==
  ASSUME HttpInv, NEW s \in Runs, Heartbeat(s)
  PROVE  HttpInv'
<1>1. HttpRecords /\ StreamInv(s)
  BY DEF HttpInv, StreamInv
<1> DEFINE more == <<Beat>>
<1>2. /\ timer[s] /\ ~Settling(s) /\ Push(s, more)
      /\ UNCHANGED <<walk, said, reply, timer, closed, verdict, written, ended, gone, process>>
  BY DEF Heartbeat, matchdayVars
<1>3. verdict[s] = Pending /\ ~closed[s]
  BY <1>1, <1>2 DEF StreamInv, PhaseInv, Settling
<1>4. more \in Seq({Beat}) /\ more \in Seq(Lines)
  BY LinesAre
<1> HIDE DEF more
<1>5. /\ queue' = [queue EXCEPT ![s] = queue[s] \o more]
      /\ queue' \in [Runs -> Seq(Lines)] /\ queue'[s] = queue[s] \o more
      /\ waiting' \in [Runs -> BOOLEAN]
  BY <1>1, <1>2, <1>3, <1>4, PushIs
<1>6. HttpRecords'
  BY <1>1, <1>2, <1>5, RecordsSame DEF HttpRecords, Lines
<1>7. FlowInv(s)'
  <2>1. Story(s)' = Story(s)
    BY <1>2 DEF Story, Entry
  <2>2. /\ queue[s] \in Seq(Lines) /\ Story(s) \in Seq(Lines) /\ Len(written[s]) \in 0 .. Len(Story(s))
    BY <1>1, StreamTypes
  <2>3. ~gone[s] => Follows(Story(s), queue[s] \o more, Len(written[s]))
    BY <1>1, <1>4, <2>2, BeatFollows DEF StreamInv, FlowInv
  <2>4. /\ Len(written'[s]) <= Len(Story(s)')
        /\ \A i \in 1 .. Len(written'[s]) : written'[s][i] = Story(s)'[i]
        /\ ~gone'[s] => Follows(Story(s)', queue'[s], Len(written'[s]))
        /\ verdict'[s] = Pending
    BY <1>1, <1>2, <1>3, <1>5, <2>1, <2>3 DEF StreamInv, FlowInv
  <2> QED
    BY <2>4 DEF FlowInv, Follows, Verdict, Beat
<1>8. WalkInv(walk[s])' /\ OwedInv(walk[s])'
  BY <1>1, <1>2, SameWalk DEF StreamInv
<1>9. PhaseInv(s)'
  BY <1>1, <1>2 DEF StreamInv, PhaseInv, Settled
<1>10. Elsewhere(s)
  BY <1>1, <1>2, <1>5 DEF Elsewhere, SameStream, HttpRecords
<1> QED
  BY <1>1, <1>6, <1>7, <1>8, <1>9, <1>10, StreamStep DEF StreamInv

(* What the reader writes is the next line of the story.                   *)
LEMMA ReadTells ==
  ASSUME HttpRecords, NEW s \in Runs, StreamInv(s), Read(s)
  PROVE  \/ /\ written' = written
            /\ ~gone[s] => Follows(Story(s), Tail(queue[s]), Len(written[s]))
         \/ /\ ~gone[s] /\ ~ended[s] /\ Len(written[s]) < Len(Story(s))
            /\ written' = [written EXCEPT ![s] = Append(@, Story(s)[Len(written[s]) + 1])]
            /\ Follows(Story(s), Tail(queue[s]), Len(written[s]) + 1)
<1> DEFINE q == queue[s]
           story == Story(s)
           w == written[s]
           k == Len(w)
           line == Head(q)
<1>1. /\ ~ended[s] /\ q # <<>>
      /\ written' = IF gone[s] \/ KeepAlive(s, line) THEN written
                    ELSE [written EXCEPT ![s] = Append(@, line)]
  BY DEF Read
<1>2. /\ q \in Seq(Lines) /\ w \in Seq(Lines) /\ verdict[s] \in {Pending} \union RunVerdicts
      /\ story \in Seq(Lines \ {Beat}) /\ story \in Seq(Lines) /\ k \in 0 .. Len(story)
      /\ \A i \in 1 .. Len(story) : story[i] = verdict[s] => i = Len(story)
  BY StreamTypes
<1>3. /\ \A i \in 1 .. k : w[i] = story[i]
      /\ ~gone[s] => Follows(story, q, k)
      /\ verdict[s] # Pending /\ q # <<>> => q[Len(q)] = verdict[s]
  BY DEF StreamInv, FlowInv
<1>4. CASE gone[s]
  BY <1>1, <1>4
<1>5. CASE ~gone[s]
  <2>1. /\ line = Beat => Follows(story, Tail(q), k)
        /\ line # Beat => /\ k < Len(story) /\ line = story[k + 1]
                          /\ Follows(story, Tail(q), k + 1)
    <3> HIDE DEF q, story, k
    <3> QED
      BY <1>1, <1>2, <1>3, <1>5, ReadFollows DEF line
  <2>2. ASSUME line = Beat PROVE KeepAlive(s, line)
    <3>1. ASSUME NEW i \in DOMAIN w, w[i] = verdict[s] PROVE FALSE
      <4>1. i \in 1 .. k /\ w[i] \in Lines
        BY <1>2
      <4>2. verdict[s] # Pending
        BY <3>1, <4>1, PendingAssumption
      <4>3. verdict[s] # Beat /\ q[Len(q)] = verdict[s]
        BY <1>1, <1>2, <1>3, <4>2, LinesAre DEF RunVerdicts
      <4>4. i \in 1 .. Len(story) /\ story[i] = verdict[s]
        BY <1>2, <1>3, <3>1, <4>1
      <4>5. i = Len(story)
        BY <1>2, <4>4
      <4>6. k = Len(story)
        BY <1>2, <4>1, <4>5
      <4>7. \A p \in 1 .. Len(q) : q[p] = Beat
        <5> HIDE DEF q, story, k
        <5> QED
          BY <1>2, <1>3, <1>5, <4>6, FollowsAtTheEnd
      <4>8. Len(q) \in 1 .. Len(q)
        BY <1>1, <1>2
      <4> QED
        BY <4>3, <4>7, <4>8
    <3> QED
      BY <2>2, <3>1 DEF KeepAlive
  <2>3. CASE line = Beat
    BY <1>1, <2>1, <2>2, <2>3
  <2>4. CASE line # Beat
    <3>1. ~KeepAlive(s, line)
      BY <2>4 DEF KeepAlive
    <3> QED
      BY <1>1, <1>5, <2>1, <2>4, <3>1
  <2> QED
    BY <2>3, <2>4
<1> QED
  BY <1>4, <1>5

LEMMA ReadKeeps ==
  ASSUME HttpInv, NEW s \in Runs, Read(s)
  PROVE  HttpInv'
<1>1. HttpRecords /\ StreamInv(s)
  BY DEF HttpInv, StreamInv
<1> DEFINE q == queue[s]
           story == Story(s)
           w == written[s]
           next == written'[s]
<1>2. /\ q # <<>> /\ queue' = [queue EXCEPT ![s] = Tail(q)] /\ reply[s] = 200 /\ ~ended[s]
      /\ UNCHANGED <<walk, said, reply, timer, closed, verdict, waiting, ended, gone, process>>
  BY DEF Read, matchdayVars
<1>3. /\ q \in Seq(Lines) /\ w \in Seq(Lines) /\ story \in Seq(Lines)
      /\ Len(w) \in 0 .. Len(story) /\ \A i \in 1 .. Len(w) : w[i] = story[i]
      /\ verdict[s] # Pending => verdict[s] \in RunVerdicts /\ q[Len(q)] = verdict[s]
  BY <1>1, <1>2, StreamTypes DEF StreamInv, FlowInv, RunVerdicts
<1>4. /\ Tail(q) \in Seq(Lines)
      /\ Tail(q) # <<>> => Tail(q)[Len(Tail(q))] = q[Len(q)]
  <2> HIDE DEF q
  <2>1. /\ Tail(q) \in Seq(Lines) /\ Len(q) \in Nat \ {0} /\ Len(Tail(q)) = Len(q) - 1
        /\ \A i \in 1 .. Len(q) - 1 : Tail(q)[i] = q[i + 1]
    BY <1>2, <1>3
  <2>2. ASSUME Tail(q) # <<>> PROVE Tail(q)[Len(Tail(q))] = q[Len(q)]
    <3> DEFINE l == Len(q)
    <3>1. Len(Tail(q)) # 0
      BY <2>1, <2>2
    <3>2. l - 1 \in 1 .. l - 1 /\ (l - 1) + 1 = l
      BY <2>1, <3>1
    <3>3. Tail(q)[l - 1] = q[(l - 1) + 1]
      BY <2>1, <3>2
    <3> QED
      BY <2>1, <3>2, <3>3
  <2> QED
    BY <2>1, <2>2
<1>5. queue' \in [Runs -> Seq(Lines)] /\ queue'[s] = Tail(q)
  BY <1>1, <1>2, <1>4 DEF HttpRecords
<1>6. /\ written' \in [Runs -> Seq(Lines)] /\ \A r \in Runs : r # s => written'[r] = written[r]
      /\ Len(next) <= Len(story) /\ \A i \in 1 .. Len(next) : next[i] = story[i]
      /\ ~gone[s] => Follows(story, Tail(q), Len(next))
  <2>1. written \in [Runs -> Seq(Lines)]
    BY <1>1 DEF HttpRecords
  <2>2. CASE /\ written' = written
             /\ ~gone[s] => Follows(story, Tail(q), Len(w))
    BY <1>3, <2>1, <2>2
  <2>3. CASE /\ ~gone[s] /\ ~ended[s] /\ Len(w) < Len(story)
             /\ written' = [written EXCEPT ![s] = Append(w, story[Len(w) + 1])]
             /\ Follows(story, Tail(q), Len(w) + 1)
    <3> DEFINE line == story[Len(w) + 1]
               longer == Append(w, line)
    <3>1. next = longer
      BY <2>1, <2>3
    <3>2. line \in Lines
      BY <1>3, <2>3
    <3>3. written' = [written EXCEPT ![s] = longer]
      BY <2>3
    <3> HIDE DEF w, story
    <3>4. /\ longer \in Seq(Lines) /\ Len(longer) = Len(w) + 1 /\ Len(w) \in Nat /\ Len(story) \in Nat
          /\ \A i \in 1 .. Len(w) : longer[i] = w[i]
          /\ longer[Len(w) + 1] = line
      BY <1>3, <3>2
    <3>5. Len(w) + 1 <= Len(story)
      BY <2>3, <3>4
    <3> HIDE DEF longer
    <3>6. ASSUME NEW i \in 1 .. Len(longer) PROVE longer[i] = story[i]
      <4>1. i \in 1 .. Len(w) \/ i = Len(w) + 1
        BY <3>4
      <4> QED
        BY <1>3, <3>4, <4>1
    <3>7. written' \in [Runs -> Seq(Lines)] /\ \A r \in Runs : r # s => written'[r] = written[r]
      BY <2>1, <3>3, <3>4
    <3>8. Follows(story, Tail(q), Len(longer))
      BY <2>3, <3>4
    <3> QED
      BY <3>1, <3>4, <3>5, <3>6, <3>7, <3>8
  <2> QED
    BY <1>1, <2>2, <2>3, ReadTells
<1>7. HttpRecords'
  BY <1>1, <1>2, <1>5, <1>6, RecordsSame DEF HttpRecords, Lines
<1>8. FlowInv(s)'
  <2>1. Story(s)' = story
    BY <1>2 DEF Story, Entry
  <2>2. /\ Len(written'[s]) <= Len(Story(s)')
        /\ \A i \in 1 .. Len(written'[s]) : written'[s][i] = Story(s)'[i]
        /\ ~gone'[s] => Follows(Story(s)', queue'[s], Len(written'[s]))
        /\ verdict'[s] # Pending => /\ verdict'[s] \in RunVerdicts
                                    /\ queue'[s] # <<>> => queue'[s][Len(queue'[s])] = verdict'[s]
    <3> HIDE DEF story, q
    <3> QED
      BY <1>2, <1>3, <1>4, <1>5, <1>6, <2>1
  <2> QED
    BY <2>2 DEF FlowInv, RunVerdicts, Follows, Verdict, Beat
<1>9. WalkInv(walk[s])' /\ OwedInv(walk[s])'
  BY <1>1, <1>2, SameWalk DEF StreamInv
<1>10. PhaseInv(s)'
  BY <1>1, <1>2 DEF StreamInv, PhaseInv, Settled
<1>11. Elsewhere(s)
  BY <1>1, <1>2, <1>6 DEF Elsewhere, SameStream, HttpRecords
<1> QED
  BY <1>1, <1>7, <1>8, <1>9, <1>10, <1>11, StreamStep DEF StreamInv

(* The steps that only the reader, the caller or the process take. *)
LEMMA SleepKeeps ==
  ASSUME HttpInv, NEW s \in Runs, Sleep(s)
  PROVE  HttpInv'
<1>1. HttpRecords /\ StreamInv(s)
  BY DEF HttpInv, StreamInv
<1>2. /\ waiting' = [waiting EXCEPT ![s] = TRUE]
      /\ UNCHANGED <<walk, said, reply, queue, timer, closed, verdict, written, ended, gone, process>>
  BY DEF Sleep, matchdayVars
<1>3. waiting' \in [Runs -> BOOLEAN]
  BY <1>1, <1>2 DEF HttpRecords
<1>4. HttpRecords'
  BY <1>1, <1>2, <1>3, RecordsSame DEF HttpRecords, Lines
<1>5. SameStream(s) /\ Elsewhere(s)
  BY <1>2 DEF SameStream, Elsewhere
<1> QED
  BY <1>1, <1>4, <1>5, SameStreamKeeps, StreamStep

LEMMA FinishKeeps ==
  ASSUME HttpInv, NEW s \in Runs, Finish(s)
  PROVE  HttpInv'
<1>1. HttpRecords /\ StreamInv(s)
  BY DEF HttpInv, StreamInv
<1>2. /\ reply[s] = 200 /\ ended' = [ended EXCEPT ![s] = TRUE]
      /\ UNCHANGED <<walk, said, reply, queue, timer, closed, verdict, waiting, written, gone, process>>
  BY DEF Finish, matchdayVars
<1>3. ended' \in [Runs -> BOOLEAN] /\ ended'[s]
  BY <1>1, <1>2 DEF HttpRecords
<1>4. HttpRecords'
  BY <1>1, <1>2, <1>3, RecordsSame DEF HttpRecords, Lines
<1>5. WalkInv(walk[s])' /\ OwedInv(walk[s])' /\ FlowInv(s)'
  BY <1>1, <1>2, SameFlow, SameWalk DEF StreamInv
<1>6. PhaseInv(s)'
  BY <1>1, <1>2, <1>3 DEF StreamInv, PhaseInv, Settled
<1>7. Elsewhere(s)
  BY <1>1, <1>2 DEF Elsewhere, SameStream, HttpRecords
<1> QED
  BY <1>1, <1>4, <1>5, <1>6, <1>7, StreamStep DEF StreamInv

LEMMA HangUpKeeps ==
  ASSUME HttpInv, NEW s \in Runs, HangUp(s)
  PROVE  HttpInv'
<1>1. HttpRecords /\ StreamInv(s)
  BY DEF HttpInv, StreamInv
<1>2. /\ reply[s] = 200 /\ ~ended[s] /\ gone' = [gone EXCEPT ![s] = TRUE]
      /\ UNCHANGED <<walk, said, reply, queue, timer, closed, verdict, waiting, written, ended, process>>
  BY DEF HangUp, matchdayVars
<1>3. gone' \in [Runs -> BOOLEAN] /\ gone'[s]
  BY <1>1, <1>2 DEF HttpRecords
<1>4. HttpRecords'
  BY <1>1, <1>2, <1>3, RecordsSame DEF HttpRecords, Lines
<1>5. FlowInv(s)'
  <2>1. Story(s)' = Story(s)
    BY <1>2 DEF Story, Entry
  <2>2. /\ Len(written'[s]) <= Len(Story(s)')
        /\ \A i \in 1 .. Len(written'[s]) : written'[s][i] = Story(s)'[i]
        /\ gone'[s]
        /\ verdict'[s] # Pending =>
               /\ verdict'[s] \in RunVerdicts
               /\ queue'[s] # <<>> => queue'[s][Len(queue'[s])] = verdict'[s]
    BY <1>1, <1>2, <1>3, <2>1 DEF StreamInv, FlowInv, RunVerdicts
  <2> QED
    BY <2>2 DEF FlowInv, RunVerdicts, Verdict, Beat
<1>6. WalkInv(walk[s])' /\ OwedInv(walk[s])'
  BY <1>1, <1>2, SameWalk DEF StreamInv
<1>7. PhaseInv(s)'
  BY <1>1, <1>2 DEF StreamInv, PhaseInv, Settled
<1>8. Elsewhere(s)
  BY <1>1, <1>2 DEF Elsewhere, SameStream, HttpRecords
<1> QED
  BY <1>1, <1>4, <1>5, <1>6, <1>7, <1>8, StreamStep DEF StreamInv

(* A signal, the exit and a stutter leave every stream as it was. *)
LEMMA ProcessKeeps ==
  ASSUME HttpInv, Signal \/ Exit \/ UNCHANGED vars
  PROVE  HttpInv'
<1>1. HttpRecords
  BY DEF HttpInv
<1>2. UNCHANGED <<walk, said, reply, queue, timer, closed, verdict, waiting, written, ended, gone>>
  BY DEF Signal, Exit, vars, httpVars, matchdayVars
<1>3. process' \in {"up", "closing", "exited"}
  BY <1>1 DEF Signal, Exit, vars, httpVars, HttpRecords
<1>4. HttpRecords'
  BY <1>1, <1>2, <1>3, RecordsSame DEF HttpRecords, Lines
<1>5. \A s \in Runs : StreamInv(s) /\ SameStream(s)
  BY <1>2 DEF HttpInv, StreamInv, SameStream
<1>6. \A s \in Runs : StreamInv(s)'
  BY <1>5, SameStreamKeeps
<1> QED
  BY <1>4, <1>6 DEF HttpInv, StreamInv

(* Each step of the surface keeps the invariant. *)
LEMMA HttpStep ==
  ASSUME HttpInv, [Next]_vars
  PROVE  HttpInv'
<1>1. ASSUME NEW s \in Runs, NEW request \in Requests, Refuse(s, request) \/ Accept(s, request)
      PROVE  HttpInv'
  BY <1>1, RefuseKeeps, AcceptKeeps
<1>2. ASSUME NEW s \in Runs,
             \/ Progress(s) \/ Crash(s) \/ Settle(s) \/ Close(s) \/ Heartbeat(s)
             \/ Read(s) \/ Sleep(s) \/ Finish(s) \/ HangUp(s)
      PROVE  HttpInv'
  BY <1>2, ProgressKeeps, CrashKeeps, SettleKeeps, CloseKeeps, HeartbeatKeeps, ReadKeeps,
     SleepKeeps, FinishKeeps, HangUpKeeps
<1>3. CASE Signal \/ Exit \/ UNCHANGED vars
  BY <1>3, ProcessKeeps
<1> QED
  BY <1>1, <1>2, <1>3 DEF Next

LEMMA HttpInitially == Init => HttpInv
<1> SUFFICES ASSUME Init PROVE HttpInv
  OBVIOUS
<1>1. /\ walk = [r \in Runs |-> Idle] /\ said = [r \in Runs |-> 0]
      /\ reply = [s \in Runs |-> 0] /\ queue = [s \in Runs |-> <<>>]
      /\ timer = [s \in Runs |-> FALSE] /\ closed = [s \in Runs |-> FALSE]
      /\ verdict = [s \in Runs |-> Pending] /\ waiting = [s \in Runs |-> FALSE]
      /\ written = [s \in Runs |-> <<>>] /\ ended = [s \in Runs |-> FALSE]
      /\ gone = [s \in Runs |-> FALSE] /\ process = "up"
  BY DEF Init, MatchdayInit
<1>2. <<>> \in Seq(Lines)
  BY EmptySeq
<1>3. HttpRecords
  BY <1>1, <1>2, IdleIs DEF HttpRecords
<1>4. ASSUME NEW s \in Runs PROVE WalkInv(walk[s]) /\ OwedInv(walk[s]) /\ PhaseInv(s) /\ FlowInv(s)
  <2>1. WalkInv(walk[s]) /\ OwedInv(walk[s])
    BY <1>1, IdleIs DEF WalkInv, OwedInv
  <2>2. PhaseInv(s)
    BY <1>1, IdleIs DEF PhaseInv
  <2>3. FlowInv(s)
    <3> DEFINE entries == [i \in 1 .. 0 |-> Entry(i)]
    <3>1. Story(s) = entries
      BY <1>1 DEF Story
    <3>2. \A i \in 1 .. 0 : Entry(i) \in Lines
      OBVIOUS
    <3>3. entries \in Seq(Lines) /\ Len(entries) = 0
      BY <3>2
    <3> HIDE DEF entries
    <3>4. Len(entries) - 0 = 0 /\ 1 .. 0 = {} /\ Len(<<>>) = 0
      BY <3>3
    <3>5. [i \in {} |-> 0] \in [{} -> {}]
      OBVIOUS
    <3>6. Follows(entries, <<>>, 0)
      BY <3>4, <3>5 DEF Follows
    <3> QED
      BY <1>1, <3>1, <3>3, <3>4, <3>6 DEF FlowInv
  <2> QED
    BY <2>1, <2>2, <2>3
<1> QED
  BY <1>3, <1>4 DEF HttpInv

THEOREM HttpInvariance == Spec => []HttpInv
  BY HttpInitially, HttpStep, PTL DEF Spec

(* TypeOK: the types of the surface. *)
THEOREM HttpTypeCorrect == Spec => []TypeOK
<1>1. HttpInv => TypeOK
  BY DEF HttpInv, HttpRecords, TypeOK, WalkRecords
<1> QED
  BY <1>1, HttpInvariance, PTL

(* Reconciled: what a daily anchor that came to its end owes the fixtures  *)
(* of the lists it got, it has asked for.                                  *)
THEOREM ReconciledAlways == Spec => []Reconciled
<1>1. ASSUME HttpInv PROVE Reconciled
  <2> SUFFICES ASSUME NEW r \in Runs, walk[r].kind = "daily-anchor", walk[r].state = "done",
                      ~walk[r].told, NEW c \in walk[r].listed, NEW i \in DOMAIN Window[c]
               PROVE  /\ \A t \in ToSet(Window[c][i].teams) :
                             <<c, Call("team-metadata", t)>> \in walk[r].asked
                      /\ Window[c][i].status = "FT" =>
                             \A k \in DOMAIN Reconciliation(Window[c][i]) :
                                 <<c, Reconciliation(Window[c][i])[k]>> \in walk[r].asked
    BY DEF Reconciled
  <2>1. \A call \in Owed(Window[c]) : <<c, call>> \in walk[r].asked
    BY <1>1 DEF HttpInv, OwedInv
  <2>2. ASSUME NEW t \in ToSet(Window[c][i].teams) PROVE Call("team-metadata", t) \in Owed(Window[c])
    BY DEF Owed
  <2>3. ASSUME Window[c][i].status = "FT", NEW k \in DOMAIN Reconciliation(Window[c][i])
        PROVE  Reconciliation(Window[c][i])[k] \in Owed(Window[c])
    <3>1. Reconciliation(Window[c][i])[k] \in ToSet(Reconciliation(Window[c][i]))
      BY DEF ToSet
    <3> QED
      BY <2>3, <3>1 DEF Owed
  <2> QED
    BY <2>1, <2>2, <2>3
<1> QED
  BY <1>1, HttpInvariance, PTL

(* HeedsHardCap: a run that was told hard cap asks for nothing more, since *)
(* a walk that goes on was not told.                                       *)
THEOREM HeedsCap == Spec => HeedsHardCap
<1>1. ASSUME HttpInv, [Next]_vars
      PROVE  [\A r \in Runs : walk[r].told => walk'[r].asked = walk[r].asked]_matchdayVars
  <2>1. walk \in [Runs -> WalkRecords]
    BY <1>1 DEF HttpInv, HttpRecords
  <2>2. ASSUME NEW s \in Runs, ~walk[s].told, \A r \in Runs : r # s => walk'[r] = walk[r]
        PROVE  \A r \in Runs : walk[r].told => walk'[r].asked = walk[r].asked
    BY <2>2
  <2>3. ASSUME NEW s \in Runs, NEW request \in Requests, Accept(s, request)
        PROVE  \A r \in Runs : walk[r].told => walk'[r].asked = walk[r].asked
    <3>1. HttpRecords /\ PhaseInv(s) /\ reply[s] = 0
      BY <1>1, <2>3 DEF HttpInv, Accept
    <3>2. said[s] = 0 /\ walk[s] = Idle
      BY <3>1 DEF PhaseInv
    <3>3. walk' = [walk EXCEPT ![s] = walk'[s]] /\ ~walk[s].told
      BY <2>3, <3>1, <3>2, AcceptStarts, IdleIs
    <3> QED
      BY <2>1, <2>2, <3>3
  <2>4. ASSUME NEW s \in Runs, Progress(s)
        PROVE  \A r \in Runs : walk[r].told => walk'[r].asked = walk[r].asked
    <3>1. Answer(s) /\ WalkTypes /\ WalkInv(walk[s]) /\ OwedInv(walk[s])
      BY <1>1, <2>4 DEF HttpInv, HttpRecords, WalkTypes, Progress
    <3>2. walk' = [walk EXCEPT ![s] = walk'[s]]
      BY <3>1, AnswerKeeps
    <3>3. ~walk[s].told
      BY <3>1 DEF Answer, WalkInv
    <3> QED
      BY <2>1, <2>2, <3>2, <3>3
  <2>5. ASSUME NEW s \in Runs, Crash(s)
        PROVE  \A r \in Runs : walk[r].told => walk'[r].asked = walk[r].asked
    <3>1. ~walk[s].told
      BY <1>1, <2>5 DEF HttpInv, WalkInv, Crash, Throw
    <3> QED
      BY <2>1, <2>2, <2>5, <3>1 DEF Crash, Throw
  <2>6. ASSUME \/ \E s \in Runs : \/ \E request \in Requests : Refuse(s, request)
                                  \/ Settle(s) \/ Close(s) \/ Heartbeat(s) \/ Read(s)
                                  \/ Sleep(s) \/ Finish(s) \/ HangUp(s)
               \/ Signal \/ Exit \/ UNCHANGED vars
        PROVE  UNCHANGED matchdayVars
    BY <2>6 DEF Refuse, Settle, Close, Heartbeat, Read, Sleep, Finish, HangUp, Signal, Exit, vars
  <2> QED
    BY <1>1, <2>3, <2>4, <2>5, <2>6 DEF Next
<1> QED
  BY <1>1, HttpInvariance, PTL DEF Spec, HeedsHardCap

---------------------------------------------------------------------------
(* The surface implements the stream it promises.                          *)

(* The entries and the end that the abstract stream sees. *)
Entries == [s \in Runs |-> [i \in 1 .. said[s] |-> Entry(i)]]
Over == [s \in Runs |-> ended[s] /\ walk[s].state # "idle"]

LEMMA TellableIs ==
  ASSUME NEW s \in Runs
  PROVE  Stream!Tellable(s) = Story(s)
<1> DEFINE entries == [i \in 1 .. said[s] |-> Entry(i)]
<1>1. Stream!Tellable(s) = IF verdict[s] = Pending THEN entries ELSE Append(entries, verdict[s])
  BY DEF Stream!Tellable
<1>2. Story(s) = IF verdict[s] = Pending THEN entries ELSE Append(entries, verdict[s])
  BY DEF Story
<1> HIDE DEF entries
<1> QED
  BY <1>1, <1>2

(* A step that leaves what the caller sees alone is a stutter. *)
LEMMA StreamStutters ==
  ASSUME UNCHANGED <<said, verdict, written, gone>>, Over' = Over
  PROVE  UNCHANGED Stream!streamVars
<1>1. Entries' = Entries
  BY DEF Entries, Entry
<1> QED
  BY <1>1 DEF Entries, Over, Stream!streamVars

(* Entries that are logged only make the story longer. *)
LEMMA WorkMaps ==
  ASSUME NEW s \in Runs, said \in [Runs -> Nat], said'[s] \in Nat, said'[s] >= said[s],
         said' = [said EXCEPT ![s] = said'[s]],
         verdict[s] = Pending, UNCHANGED <<verdict, written, gone>>, Over' = Over
  PROVE  Stream!Work(s)
<1> DEFINE n == said[s]
           m == said'[s]
           old == [i \in 1 .. n |-> Entry(i)]
           new == [i \in 1 .. m |-> Entry(i)]
<1>1. Entries[s] = old /\ Entries'[s] = new
  BY DEF Entries, Entry
<1>2. Entries' = [Entries EXCEPT ![s] = Entries'[s]]
  <2>1. ASSUME NEW r \in Runs, r # s PROVE Entries'[r] = Entries[r]
    <3>1. said'[r] = said[r]
      BY <2>1
    <3> QED
      BY <3>1 DEF Entries, Entry
  <2>2. DOMAIN Entries = Runs /\ DOMAIN Entries' = Runs
    BY DEF Entries
  <2>3. Entries = [r \in Runs |-> Entries[r]] /\ Entries' = [r \in Runs |-> Entries'[r]]
    BY DEF Entries, Entry
  <2> HIDE DEF Entries
  <2> QED
    BY <2>1, <2>2, <2>3
<1>3. n \in Nat /\ m \in Nat /\ n <= m
  OBVIOUS
<1> HIDE DEF n, m
<1>4. /\ old \in Seq(Lines) /\ Len(old) = n /\ \A i \in 1 .. n : old[i] = Entry(i)
      /\ new \in Seq(Lines) /\ Len(new) = m /\ \A i \in 1 .. m : new[i] = Entry(i)
  BY <1>3, LinesAre
<1> HIDE DEF old, new
<1>5. Stream!IsPrefixOf(old, new)
  <2> DEFINE head == SubSeq(new, 1, n)
  <2>1. /\ head \in Seq(Lines) /\ Len(head) = n /\ \A i \in 1 .. n : head[i] = new[i]
    BY <1>3, <1>4
  <2> HIDE DEF head
  <2>2. \A i \in 1 .. n : old[i] = head[i]
    BY <1>3, <1>4, <2>1
  <2>3. old = head
    BY <1>4, <2>1, <2>2, SeqEqual
  <2> QED
    BY <1>3, <1>4, <2>3 DEF Stream!IsPrefixOf, head
<1>6. Stream!IsPrefixOf(Entries[s], Entries'[s])
  BY <1>1, <1>5
<1> QED
  BY <1>2, <1>6 DEF Entries, Over, Stream!Work

LEMMA SettleMaps ==
  ASSUME HttpRecords, NEW s \in Runs, Settle(s)
  PROVE  Stream!Settles(s)
<1>1. /\ verdict[s] = Pending /\ verdict' = [verdict EXCEPT ![s] = VerdictOf(walk[s])]
      /\ UNCHANGED <<walk, said, written, ended, gone>>
  BY DEF Settle, matchdayVars
<1>2. verdict' = [verdict EXCEPT ![s] = verdict'[s]]
  BY <1>1 DEF HttpRecords
<1>3. Entries' = Entries /\ Over' = Over
  BY <1>1 DEF Entries, Entry, Over
<1> QED
  BY <1>1, <1>2, <1>3 DEF Entries, Over, Stream!Settles

LEMMA ReadMaps ==
  ASSUME HttpRecords, NEW s \in Runs, StreamInv(s), Read(s)
  PROVE  Stream!Tell(s) \/ UNCHANGED Stream!streamVars
<1>1. UNCHANGED <<walk, said, verdict, ended, gone>> /\ ~ended[s]
  BY DEF Read, matchdayVars
<1>2. Entries' = Entries /\ Over' = Over
  BY <1>1 DEF Entries, Entry, Over
<1>3. CASE written' = written
  BY <1>1, <1>2, <1>3, StreamStutters
<1>4. CASE /\ ~gone[s] /\ ~ended[s] /\ Len(written[s]) < Len(Story(s))
           /\ written' = [written EXCEPT ![s] = Append(@, Story(s)[Len(written[s]) + 1])]
  <2>1. /\ ~Over[s] /\ Len(written[s]) < Len(Stream!Tellable(s))
        /\ written' = [written EXCEPT ![s] = Append(@, Stream!Tellable(s)[Len(written[s]) + 1])]
    BY <1>1, <1>4, TellableIs DEF Over
  <2>2. Stream!Tell(s)
    BY <1>1, <1>2, <1>4, <2>1 DEF Entries, Over, Stream!Tell
  <2> QED
    BY <2>2
<1> QED
  BY <1>3, <1>4, ReadTells

LEMMA FinishMaps ==
  ASSUME HttpRecords, NEW s \in Runs, StreamInv(s), Finish(s)
  PROVE  Stream!End(s)
<1>1. /\ ~ended[s] /\ queue[s] = <<>> /\ closed[s] /\ ended' = [ended EXCEPT ![s] = TRUE]
      /\ UNCHANGED <<walk, said, verdict, written, gone>>
  BY DEF Finish, matchdayVars
<1>2. verdict[s] # Pending /\ walk[s].state # "idle"
  BY <1>1 DEF StreamInv, PhaseInv, Settled
<1>3. ASSUME ~gone[s] PROVE written[s] = Stream!Tellable(s)
  <2> DEFINE story == Story(s)
             w == written[s]
  <2>1. /\ story \in Seq(Lines) /\ w \in Seq(Lines) /\ queue[s] \in Seq(Lines)
        /\ Len(w) \in 0 .. Len(story) /\ \A i \in 1 .. Len(w) : w[i] = story[i]
        /\ Follows(story, queue[s], Len(w))
    BY <1>3, StreamTypes DEF StreamInv, FlowInv
  <2> HIDE DEF story, w
  <2>2. Len(w) = Len(story)
    BY <1>1, <2>1, FollowsAtTheEnd
  <2>3. w = story
    BY <2>1, <2>2, SeqEqual
  <2> QED
    BY <2>3, TellableIs DEF w, story
<1>4. Entries' = Entries
  BY <1>1 DEF Entries, Entry
<1>5. ~Over[s] /\ Over' = [Over EXCEPT ![s] = TRUE]
  <2>1. ended'[s] = TRUE /\ \A r \in Runs : r # s => ended'[r] = ended[r]
    BY <1>1 DEF HttpRecords
  <2>2. ~Over[s] /\ Over'[s] = TRUE
    BY <1>1, <1>2, <2>1 DEF Over
  <2>3. ASSUME NEW r \in Runs, r # s PROVE Over'[r] = Over[r]
    BY <1>1, <2>1, <2>3 DEF Over
  <2>4. Over = [r \in Runs |-> Over[r]] /\ Over' = [r \in Runs |-> Over'[r]]
    BY DEF Over
  <2> HIDE DEF Over
  <2> QED
    BY <2>2, <2>3, <2>4
<1> QED
  BY <1>1, <1>2, <1>3, <1>4, <1>5 DEF Entries, Over, Stream!End

LEMMA HangUpMaps ==
  ASSUME HttpRecords, NEW s \in Runs, HangUp(s)
  PROVE  Stream!Leave(s)
<1>1. /\ ~ended[s] /\ ~gone[s] /\ gone' = [gone EXCEPT ![s] = TRUE]
      /\ UNCHANGED <<walk, said, verdict, written, ended>>
  BY DEF HangUp, matchdayVars
<1>2. Entries' = Entries /\ Over' = Over /\ ~Over[s]
  BY <1>1 DEF Entries, Entry, Over
<1> QED
  BY <1>1, <1>2 DEF Entries, Over, Stream!Leave

(* Each step is a step of the stream or a stutter. *)
LEMMA StreamMaps ==
  ASSUME HttpInv, [Next]_vars
  PROVE  [Stream!StreamNext]_(Stream!streamVars)
<1>1. HttpRecords /\ \A s \in Runs : StreamInv(s)
  BY DEF HttpInv, StreamInv
<1>2. walk \in [Runs -> WalkRecords] /\ said \in [Runs -> Nat] /\ ended \in [Runs -> BOOLEAN]
  BY <1>1 DEF HttpRecords
<1>3. ASSUME NEW s \in Runs, NEW request \in Requests, Refuse(s, request)
      PROVE  UNCHANGED Stream!streamVars
  <2>1. /\ reply[s] = 0 /\ ended' = [ended EXCEPT ![s] = TRUE]
        /\ UNCHANGED <<walk, said, verdict, written, gone>>
    BY <1>3 DEF Refuse, matchdayVars
  <2>2. walk[s].state = "idle"
    BY <1>1, <2>1 DEF StreamInv, PhaseInv
  <2>3. Over' = Over
    BY <1>2, <2>1, <2>2 DEF Over
  <2> QED
    BY <2>1, <2>3, StreamStutters
<1>4. ASSUME NEW s \in Runs, NEW request \in Requests, Accept(s, request)
      PROVE  Stream!Work(s)
  <2>1. reply[s] = 0 /\ UNCHANGED <<verdict, written, ended, gone>>
    BY <1>4 DEF Accept
  <2>2. said[s] = 0 /\ verdict[s] = Pending /\ ~ended[s]
    BY <1>1, <2>1 DEF StreamInv, PhaseInv
  <2>3. /\ walk' = [walk EXCEPT ![s] = walk'[s]] /\ said' = [said EXCEPT ![s] = said'[s]]
        /\ said'[s] \in Nat /\ said'[s] >= said[s]
    BY <1>1, <1>4, <2>2, AcceptStarts
  <2>4. Over' = Over
    BY <1>2, <2>1, <2>2, <2>3 DEF Over
  <2> QED
    BY <1>2, <2>1, <2>2, <2>3, <2>4, WorkMaps
<1>5. ASSUME NEW s \in Runs, Progress(s)
      PROVE  Stream!Work(s)
  <2>1. /\ Answer(s) /\ WalkTypes /\ UNCHANGED <<verdict, written, ended, gone>>
    BY <1>2, <1>5 DEF Progress, WalkTypes
  <2>2. walk[s].state = "walking" /\ verdict[s] = Pending
    BY <1>1, <2>1 DEF StreamInv, PhaseInv, Settled, Answer
  <2>3. /\ walk' = [walk EXCEPT ![s] = walk'[s]] /\ said' = [said EXCEPT ![s] = said'[s]]
        /\ walk'[s].state \in {"walking", "done"}
        /\ said'[s] \in Nat /\ said'[s] >= said[s]
    BY <1>1, <2>1, AnswerKeeps DEF StreamInv
  <2>4. Over' = Over
    BY <1>2, <2>1, <2>2, <2>3 DEF Over
  <2> QED
    BY <1>2, <2>1, <2>2, <2>3, <2>4, WorkMaps
<1>6. ASSUME NEW s \in Runs, Crash(s)
      PROVE  UNCHANGED Stream!streamVars
  <2>1. /\ walk[s].state = "walking" /\ walk' = [walk EXCEPT ![s].state = "thrown"]
        /\ UNCHANGED <<said, verdict, written, ended, gone>>
    BY <1>6 DEF Crash, Throw, httpVars
  <2>2. walk'[s].state = "thrown" /\ \A r \in Runs : r # s => walk'[r] = walk[r]
    BY <1>2, <2>1 DEF WalkRecords
  <2>3. Over' = Over
    BY <2>1, <2>2 DEF Over
  <2> QED
    BY <2>1, <2>3, StreamStutters
<1>7. ASSUME \/ \E s \in Runs : Close(s) \/ Heartbeat(s) \/ Sleep(s)
             \/ Signal \/ Exit \/ UNCHANGED vars
      PROVE  UNCHANGED Stream!streamVars
  <2>1. UNCHANGED <<walk, said, verdict, written, ended, gone>>
    BY <1>7 DEF Close, Heartbeat, Sleep, Signal, Exit, vars, httpVars, matchdayVars
  <2>2. Over' = Over
    BY <2>1 DEF Over
  <2> QED
    BY <2>1, <2>2, StreamStutters
<1>8. ASSUME NEW s \in Runs, Settle(s) \/ Read(s) \/ Finish(s) \/ HangUp(s)
      PROVE  \/ Stream!Settles(s) \/ Stream!Tell(s) \/ Stream!End(s) \/ Stream!Leave(s)
             \/ UNCHANGED Stream!streamVars
  BY <1>1, <1>8, SettleMaps, ReadMaps, FinishMaps, HangUpMaps
<1>9. ASSUME NEW s \in Runs, \/ Stream!Work(s) \/ Stream!Settles(s) \/ Stream!Tell(s)
                             \/ Stream!End(s) \/ Stream!Leave(s)
      PROVE  Stream!StreamNext
  BY <1>9 DEF Stream!StreamNext
<1> QED
  BY <1>3, <1>4, <1>5, <1>6, <1>7, <1>8, <1>9 DEF Next

(* StreamsProgress: the HTTP surface implements ProgressStream, whatever   *)
(* the callers, the timers and the shutdown do.                            *)
THEOREM StreamsRefine == Spec => StreamsProgress
<1>1. Init => Stream!StreamInit
  <2> SUFFICES ASSUME Init PROVE Stream!StreamInit
    OBVIOUS
  <2>1. /\ walk = [r \in Runs |-> Idle] /\ said = [r \in Runs |-> 0]
        /\ verdict = [s \in Runs |-> Pending]
        /\ written = [s \in Runs |-> <<>>] /\ ended = [s \in Runs |-> FALSE]
        /\ gone = [s \in Runs |-> FALSE]
    BY DEF Init, MatchdayInit
  <2>2. Entries = [s \in Runs |-> <<>>]
    <3>1. ASSUME NEW s \in Runs PROVE Entries[s] = <<>>
      <4>1. Entries[s] = [i \in 1 .. 0 |-> Entry(i)]
        BY <2>1 DEF Entries
      <4> DEFINE none == [i \in 1 .. 0 |-> Entry(i)]
      <4>2. none \in Seq(Lines) /\ Len(none) = 0
        BY LinesAre
      <4> HIDE DEF none
      <4>3. none = <<>>
        BY <4>2
      <4> QED
        BY <4>1, <4>3 DEF none
    <3>2. Entries = [s \in Runs |-> Entries[s]]
      BY DEF Entries
    <3> HIDE DEF Entries
    <3> QED
      BY <3>1, <3>2
  <2>3. Over = [s \in Runs |-> FALSE]
    BY <2>1 DEF Over
  <2> QED
    BY <2>1, <2>2, <2>3 DEF Entries, Over, Stream!StreamInit
<1>2. HttpInv /\ [Next]_vars => [Stream!StreamNext]_(Stream!streamVars)
  BY StreamMaps
<1> QED
  BY <1>1, <1>2, HttpInvariance, PTL DEF Spec, StreamsProgress, Stream!StreamSpec
=============================================================================
