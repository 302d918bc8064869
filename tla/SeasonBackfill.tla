--------------------------- MODULE SeasonBackfill ---------------------------
(***************************************************************************)
(* The historical import of whole seasons (workflows/season-backfill.ts).  *)
(*                                                                         *)
(* An invocation walks its targets in order under one call budget.  For a  *)
(* target it reads the persisted cursor, or pulls the standings and the    *)
(* list of finalised fixtures; then it fetches five payloads per fixture   *)
(* and saves the cursor after each.  Its caller invokes it again until it  *)
(* reports 'complete', and nothing keeps invocations from overlapping: a   *)
(* caller that gave up on a stream does not stop the run behind it.        *)
(*                                                                         *)
(* Fixtures are numbers in the order the provider lists them.  A cursor    *)
(* that was persisted has its list and its standings, so what is left of   *)
(* it is the list and the fixtures from nextIndex on.  A call that rejects *)
(* and a worker that dies both break the run off.                          *)
(***************************************************************************)
EXTENDS Degrade, Integers, FiniteSets

CONSTANTS Runs,        \* invocations that may overlap
          LastTarget,  \* targets are 1..LastTarget, in the order of the input
          Season,      \* Season[t]: the fixtures of target t
          MaxCalls,    \* maxCallsPerRun
          Observed,    \* quota postures fetches come back with
          None,        \* no cursor
          MaxBreaks,   \* bound: runs broken off
          MaxExpiries, \* bound: cursors outliving their TTL
          MaxResets    \* bound: invocations with 'reset'

Targets == 1..LastTarget

ASSUME TargetsAssumption == LastTarget \in Nat \ {0}
ASSUME SeasonAssumption ==
    /\ Season \in [Targets -> SUBSET Nat]
    /\ \A t, u \in Targets : t # u => Season[t] \intersect Season[u] = {}
ASSUME BackfillBounds == /\ MaxCalls \in Nat \ {0} /\ MaxBreaks \in Nat
                         /\ MaxExpiries \in Nat /\ MaxResets \in Nat
ASSUME ObservedAssumption == Observed \subseteq Postures

Fixtures == UNION {Season[t] : t \in Targets}
Cursors == [listed : SUBSET Fixtures, left : SUBSET Fixtures]
ASSUME NoneIsNoCursor == None \notin Cursors

(* detail, events, lineups, team stats, player stats *)
Parts == 5

VARIABLES
    cursor,   \* cursor[t]: the persisted cursor of target t
    at,       \* at[r]: what run r awaits, or is about to decide
    target,   \* target[r]: the target run r is at
    held,     \* held[r]: the cursor in the hands of run r
    current,  \* current[r]: the fixture run r is at
    part,     \* part[r]: the payload of it that run r asks for
    budget,   \* budget[r]: calls left to run r
    mode,     \* mode[r]: the degrade action run r is under, for its target
    fresh,    \* fresh[r]: run r was invoked with 'reset'
    stopped,  \* stopped[r]: "aborted" or "halted" once the other targets are skipped
    whole,    \* whole[r]: every target run r is done with was complete
    reported, \* reported[r]: the status run r ended with
    asked,    \* asked[f]: whether "none", "some" or "all" payloads of f were asked for (history)
    cut,      \* fixtures an abort cut short (history)
    unlisted, \* fixtures a discovery left out (history)
    again,    \* again[t]: walks of fixtures of t that had been begun before (history)
    broken,   \* broken[t]: runs broken off at target t (history)
    overlap,  \* two runs were under way at once (history)
    expiries, \* cursors expired so far
    resets    \* invocations with 'reset' so far

runVars == <<at, target, held, current, part, budget, mode, fresh, stopped, whole, reported>>
history == <<asked, cut, unlisted, again, broken, overlap>>
vars == <<cursor, runVars, history, expiries, resets>>

Places == {"idle", "read", "standings", "discover", "save", "walk", "fetch", "end"}

TypeOK ==
    /\ cursor \in [Targets -> Cursors \union {None}]
    /\ at \in [Runs -> Places]
    /\ target \in [Runs -> Targets]
    /\ held \in [Runs -> Cursors \union {None}]
    /\ current \in [Runs -> Nat]
    /\ part \in [Runs -> 1..Parts]
    /\ budget \in [Runs -> Int]
    /\ mode \in [Runs -> Actions]
    /\ fresh \in [Runs -> BOOLEAN]
    /\ stopped \in [Runs -> {"no", "aborted", "halted"}]
    /\ whole \in [Runs -> BOOLEAN]
    /\ reported \in [Runs -> {"none", "aborted", "complete", "incomplete"}]
    /\ asked \in [Fixtures -> {"none", "some", "all"}]
    /\ cut \subseteq Fixtures /\ unlisted \subseteq Fixtures
    /\ again \in [Targets -> Nat] /\ broken \in [Targets -> Nat]
    /\ overlap \in BOOLEAN
    /\ expiries \in 0..MaxExpiries /\ resets \in 0..MaxResets

Init ==
    /\ cursor = [t \in Targets |-> None]
    /\ at = [r \in Runs |-> "idle"]
    /\ target = [r \in Runs |-> 1]
    /\ held = [r \in Runs |-> None]
    /\ current = [r \in Runs |-> 0]
    /\ part = [r \in Runs |-> 1]
    /\ budget = [r \in Runs |-> MaxCalls]
    /\ mode = [r \in Runs |-> "continue"]
    /\ fresh = [r \in Runs |-> FALSE]
    /\ stopped = [r \in Runs |-> "no"]
    /\ whole = [r \in Runs |-> TRUE]
    /\ reported = [r \in Runs |-> "none"]
    /\ asked = [f \in Fixtures |-> "none"]
    /\ cut = {} /\ unlisted = {}
    /\ again = [t \in Targets |-> 0] /\ broken = [t \in Targets |-> 0]
    /\ overlap = FALSE
    /\ expiries = 0 /\ resets = 0

Goto(r, place) == at' = [at EXCEPT ![r] = place]

(* isCursorComplete *)
Complete(c) == c # None /\ c.left = {}

(* accumulate: a fetch comes back with a quota posture.  It counts against *)
(* the budget of the run, from the cache or not.                           *)
Accumulate(r, posture) ==
    /\ budget' = [budget EXCEPT ![r] = @ - 1]
    /\ mode' = [mode EXCEPT ![r] = MostRestrictive({@, QuotaAction(posture)})]

(* Run r is over: its state goes with it. *)
Leave(r, status) ==
    /\ Goto(r, "idle")
    /\ target' = [target EXCEPT ![r] = 1]
    /\ held' = [held EXCEPT ![r] = None]
    /\ current' = [current EXCEPT ![r] = 0]
    /\ part' = [part EXCEPT ![r] = 1]
    /\ budget' = [budget EXCEPT ![r] = MaxCalls]
    /\ mode' = [mode EXCEPT ![r] = "continue"]
    /\ fresh' = [fresh EXCEPT ![r] = FALSE]
    /\ stopped' = [stopped EXCEPT ![r] = "no"]
    /\ whole' = [whole EXCEPT ![r] = TRUE]
    /\ reported' = [reported EXCEPT ![r] = status]

(* POST /workflows/season-backfill *)
Begin(r, reset) ==
    /\ at[r] = "idle"
    /\ reset => resets < MaxResets
    /\ resets' = IF reset THEN resets + 1 ELSE resets
    /\ Goto(r, "read")
    /\ fresh' = [fresh EXCEPT ![r] = reset]
    /\ reported' = [reported EXCEPT ![r] = "none"]
    /\ overlap' = (overlap \/ \E q \in Runs : at[q] # "idle")
    /\ UNCHANGED <<cursor, target, held, current, part, budget, mode, stopped, whole,
                   asked, cut, unlisted, again, broken, expiries>>

(* Mutant: the persisted cursor is never accepted. *)
CursorIgnored(r) == None

(* readCursor: the persisted cursor, if there is one and it is wanted. *)
Cursor(r) == IF fresh[r] THEN None ELSE cursor[target[r]]

(* readCursor, and what to begin with. *)
ReadCursor(r) ==
    /\ at[r] = "read" /\ stopped[r] = "no"
    /\ held' = [held EXCEPT ![r] = Cursor(r)]
    /\ Goto(r, IF Cursor(r) = None THEN "standings" ELSE "walk")
    /\ UNCHANGED <<cursor, target, current, part, budget, mode, fresh, stopped, whole,
                   reported, history, expiries, resets>>

(* The run is done with its target, complete or not: on to the next, or    *)
(* the run reports.                                                        *)
NextTarget(r, complete, why) ==
    \/ /\ target[r] < LastTarget
       /\ Goto(r, "read")
       /\ target' = [target EXCEPT ![r] = @ + 1]
       /\ held' = [held EXCEPT ![r] = None]
       /\ mode' = [mode EXCEPT ![r] = "continue"]
       /\ stopped' = [stopped EXCEPT ![r] = why]
       /\ whole' = [whole EXCEPT ![r] = @ /\ complete]
       /\ UNCHANGED <<current, part, budget, fresh, reported>>
    \/ /\ target[r] = LastTarget
       /\ Leave(r, IF why = "aborted" THEN "aborted"
                   ELSE IF whole[r] /\ complete THEN "complete" ELSE "incomplete")

(* A target the run has no calls for is read for the report only. *)
SkipTarget(r) ==
    /\ at[r] = "read" /\ stopped[r] # "no"
    /\ NextTarget(r, Complete(Cursor(r)), stopped[r])
    /\ UNCHANGED <<cursor, history, expiries, resets>>

(* Step 1: standings.  Nothing is saved yet. *)
Standings(r) ==
    /\ at[r] = "standings"
    /\ \E posture \in Observed : Accumulate(r, posture)
    /\ Goto(r, IF mode'[r] = "abort" \/ budget'[r] <= 0 THEN "end" ELSE "discover")
    /\ UNCHANGED <<cursor, target, held, current, part, fresh, stopped, whole, reported,
                   history, expiries, resets>>

(* finalisedFixtureIds: whichever fixtures of target t are final by now,   *)
(* and none of them if the response has no such list.                      *)
Finalised(t) == SUBSET Season[t]

(* Step 2: the list of fixtures to walk. *)
Discover(r) ==
    /\ at[r] = "discover"
    /\ \E posture \in Observed : Accumulate(r, posture)
    /\ \/ /\ mode'[r] = "abort"
          /\ Goto(r, "end")
          /\ UNCHANGED <<held, unlisted>>
       \/ /\ mode'[r] # "abort"
          /\ Goto(r, "save")
          /\ \E final \in Finalised(target[r]) :
                /\ held' = [held EXCEPT ![r] = [listed |-> final, left |-> final]]
                /\ unlisted' = unlisted \union (Season[target[r]] \ final)
    /\ UNCHANGED <<cursor, target, current, part, fresh, stopped, whole, reported,
                   asked, cut, again, broken, overlap, expiries, resets>>

(* Mutant: the cursor saved is one fixture ahead of the walk. *)
SaveAhead(r) ==
    /\ at[r] = "save"
    /\ cursor' = [cursor EXCEPT ![target[r]] =
                    [held[r] EXCEPT !.left = {f \in @ : \E g \in held[r].left : g < f}]]
    /\ Goto(r, "walk")
    /\ UNCHANGED <<target, held, current, part, budget, mode, fresh, stopped, whole,
                   reported, history, expiries, resets>>

(* writeCursor, after the discovery and after every fixture. *)
Save(r) ==
    /\ at[r] = "save"
    /\ cursor' = [cursor EXCEPT ![target[r]] = held[r]]
    /\ Goto(r, "walk")
    /\ UNCHANGED <<target, held, current, part, budget, mode, fresh, stopped, whole,
                   reported, history, expiries, resets>>

(* Runs overlapped, or a cursor was lost or thrown away: walks are no      *)
(* longer counted.                                                         *)
Excused == overlap \/ expiries > 0 \/ resets > 0

(* Mutant: the walk looks at aborts only, never at the budget. *)
StartFixtureUnbudgeted(r) ==
    /\ at[r] = "walk"
    /\ mode[r] # "abort"
    /\ \E f \in held[r].left :
          /\ \A g \in held[r].left : f <= g
          /\ current' = [current EXCEPT ![r] = f]
          /\ again' = IF asked[f] = "none" \/ Excused THEN again
                      ELSE [again EXCEPT ![target[r]] = @ + 1]
    /\ part' = [part EXCEPT ![r] = 1]
    /\ Goto(r, "fetch")
    /\ UNCHANGED <<cursor, target, held, budget, mode, fresh, stopped, whole, reported,
                   asked, cut, unlisted, broken, overlap, expiries, resets>>

(* Step 3: the next fixture, if there is one, budget, and no abort. *)
StartFixture(r) ==
    /\ at[r] = "walk"
    /\ budget[r] > 0 /\ mode[r] # "abort"
    /\ \E f \in held[r].left :
          /\ \A g \in held[r].left : f <= g
          /\ current' = [current EXCEPT ![r] = f]
          /\ again' = IF asked[f] = "none" \/ Excused THEN again
                      ELSE [again EXCEPT ![target[r]] = @ + 1]
    /\ part' = [part EXCEPT ![r] = 1]
    /\ Goto(r, "fetch")
    /\ UNCHANGED <<cursor, target, held, budget, mode, fresh, stopped, whole, reported,
                   asked, cut, unlisted, broken, overlap, expiries, resets>>

(* Mutant: the walk moves on without a checkpoint. *)
FetchPartUnsaved(r) ==
    /\ at[r] = "fetch"
    /\ \E posture \in Observed : Accumulate(r, posture)
    /\ asked' = [asked EXCEPT ![current[r]] = IF part[r] = Parts \/ @ = "all" THEN "all" ELSE "some"]
    /\ \/ /\ part[r] < Parts /\ mode'[r] # "abort"
          /\ part' = [part EXCEPT ![r] = @ + 1]
          /\ UNCHANGED <<at, held, cut>>
       \/ /\ part[r] = Parts \/ mode'[r] = "abort"
          /\ held' = [held EXCEPT ![r].left = @ \ {current[r]}]
          /\ cut' = IF part[r] < Parts THEN cut \union {current[r]} ELSE cut
          /\ Goto(r, "walk")
          /\ UNCHANGED part
    /\ UNCHANGED <<cursor, target, current, fresh, stopped, whole, reported,
                   unlisted, again, broken, overlap, expiries, resets>>

(* processFixture asks for one payload after another and stops at an       *)
(* abort; the walk counts the fixture as done all the same.                *)
FetchPart(r) ==
    /\ at[r] = "fetch"
    /\ \E posture \in Observed : Accumulate(r, posture)
    /\ asked' = [asked EXCEPT ![current[r]] = IF part[r] = Parts \/ @ = "all" THEN "all" ELSE "some"]
    /\ \/ /\ part[r] < Parts /\ mode'[r] # "abort"
          /\ part' = [part EXCEPT ![r] = @ + 1]
          /\ UNCHANGED <<at, held, cut>>
       \/ /\ part[r] = Parts \/ mode'[r] = "abort"
          /\ held' = [held EXCEPT ![r].left = @ \ {current[r]}]
          /\ cut' = IF part[r] < Parts THEN cut \union {current[r]} ELSE cut
          /\ Goto(r, "save")
          /\ UNCHANGED part
    /\ UNCHANGED <<cursor, target, current, fresh, stopped, whole, reported,
                   unlisted, again, broken, overlap, expiries, resets>>

(* The walk is over: no fixture left, no budget, or an abort. *)
StopWalk(r) ==
    /\ at[r] = "walk"
    /\ held[r].left = {} \/ budget[r] <= 0 \/ mode[r] = "abort"
    /\ Goto(r, "end")
    /\ UNCHANGED <<cursor, target, held, current, part, budget, mode, fresh, stopped,
                   whole, reported, history, expiries, resets>>

(* Mutant: a target is complete once its walk is over. *)
EndTargetComplete(r) ==
    /\ at[r] = "end"
    /\ NextTarget(r, held[r] # None,
                  IF mode[r] = "abort" THEN "aborted"
                  ELSE IF budget[r] <= 0 THEN "halted" ELSE "no")
    /\ UNCHANGED <<cursor, history, expiries, resets>>

(* finalize, and the loop over targets. *)
EndTarget(r) ==
    /\ at[r] = "end"
    /\ NextTarget(r, Complete(held[r]) /\ mode[r] # "abort",
                  IF mode[r] = "abort" THEN "aborted"
                  ELSE IF budget[r] <= 0 THEN "halted" ELSE "no")
    /\ UNCHANGED <<cursor, history, expiries, resets>>

(* An awaited call rejects, or the worker dies.  The write of a cursor may *)
(* have happened all the same, which is a Save before.                     *)
Break(r) ==
    /\ at[r] \in {"read", "standings", "discover", "save", "fetch"}
    /\ \A t \in Targets : broken[t] < MaxBreaks
    /\ broken' = [broken EXCEPT ![target[r]] = @ + 1]
    /\ Leave(r, "none")
    /\ UNCHANGED <<cursor, asked, cut, unlisted, again, overlap, expiries, resets>>

(* A cursor outlives its seven days. *)
Expire(t) ==
    /\ cursor[t] # None /\ expiries < MaxExpiries
    /\ expiries' = expiries + 1
    /\ cursor' = [cursor EXCEPT ![t] = None]
    /\ UNCHANGED <<runVars, history, resets>>

Work(r) ==
    \/ ReadCursor(r) \/ SkipTarget(r) \/ Standings(r) \/ Discover(r) \/ Save(r)
    \/ StartFixture(r) \/ FetchPart(r) \/ StopWalk(r) \/ EndTarget(r)

Next ==
    \/ \E r \in Runs : (\E reset \in BOOLEAN : Begin(r, reset)) \/ Work(r) \/ Break(r)
    \/ \E t \in Targets : Expire(t)

Spec == Init /\ [][Next]_vars

(* The caller invokes the workflow again and again, fetches come back, and *)
(* not every time with an abort.                                           *)
Fairness ==
    \A r \in Runs : /\ WF_vars(Begin(r, FALSE))
                    /\ WF_vars(Work(r))
                    /\ SF_vars(Standings(r) /\ mode'[r] # "abort")
                    /\ SF_vars(Discover(r) /\ mode'[r] # "abort")
FairSpec == Spec /\ Fairness

(***************************************************************************)
(* Properties                                                              *)
(***************************************************************************)

Walked(f) == asked[f] = "all" \/ f \in cut

(* A checkpoint passes a fixture only if all of its payloads were asked    *)
(* for, or an abort cut it short: however runs overlap and break off, a    *)
(* resumed run leaves nothing behind that no run has walked.               *)
CheckpointWalked ==
    \A t \in Targets : cursor[t] # None =>
        \A f \in cursor[t].listed \ cursor[t].left : Walked(f)

(* A run that reports 'complete' has imported its seasons, but for what an *)
(* abort cut short and what a discovery left out.                          *)
CompleteExplained ==
    \A r \in Runs : reported[r] = "complete" =>
        \A f \in Fixtures : Walked(f) \/ f \in unlisted

(* "a budget/quota/crash stop loses at most one fixture's progress": while *)
(* runs do not overlap and cursors are not lost or thrown away, a fixture  *)
(* is begun again only once per run that broke off.                        *)
BreakLosesOne == \A t \in Targets : again[t] <= broken[t]

(* The budget is looked at between fixtures only; a run oversteps it by    *)
(* less than the payloads of one.                                          *)
OverrunBounded == \A r \in Runs : budget[r] > -Parts

(* An import that is invoked until it is complete comes to its end. *)
InvokedCompletes == <>[](\A t \in Targets : Complete(cursor[t]))

(***************************************************************************)
(* A claim of the comments that the code does not keep.                    *)
(***************************************************************************)

(* "never mid-fixture, so a checkpoint never leaves a fixture              *)
(* half-imported": what a checkpoint passes was asked for in full.         *)
CheckpointWhole ==
    \A t \in Targets : cursor[t] # None =>
        \A f \in cursor[t].listed \ cursor[t].left : asked[f] = "all"
=============================================================================
