----------------------------- MODULE EntityJobs -----------------------------
(***************************************************************************)
(* The workflows that write, or look for, what is known of competitions,   *)
(* teams and games outside the live loop:                                  *)
(*   the squad sweep (workflows/squad-sweep.ts),                           *)
(*   the standings and season windows the daily anchor ingests inline      *)
(*     (workflows/daily-anchor.ts, the mappers of the api-football adapter),*)
(*   the import of StatsBomb open data (workflows/statsbomb-backfill.ts),  *)
(*   the scan for identity gaps (workflows/identity-gap-scan.ts).          *)
(*                                                                         *)
(* Each asks identity-server for a canonical id and acts on the answer     *)
(* later; meanwhile identity learns entities, and another workflow writes. *)
(*                                                                         *)
(* Listed     competition -> the teams of its cached fixture list          *)
(* Years      competition -> the catalogued season, and the years a window  *)
(*            of the provider's is flagged current for                     *)
(* Matches    number -> [sides, events]: the StatsBomb matches file, and    *)
(*            the events of each match, of a kind and with an outcome       *)
(* SquadRuns  the squad sweeps that are asked for                          *)
(* Duties     the sets of workflows that may be at work together           *)
(* Caps, Budgets  the limits that are asked for                            *)
(*                                                                         *)
(* known      the entities identity-server resolves                        *)
(* squads     the cache: resource -> the team its envelope is about, and   *)
(*            whether it names players                                     *)
(* roster     team -> the canonical id of its roster row, or NoRow         *)
(* tables     the standings rows of game-service                           *)
(* seasons    its current-season rows                                      *)
(* games      its games, by provider and fixture number                    *)
(* occurrences  game -> the numbers of the matches ingested under it       *)
(* duty, sweeps, scan, import, anchor  the workflows at work               *)
(***************************************************************************)
EXTENDS Degrade, FiniteSets, Sequences, SequencesExt, Functions

CONSTANTS Listed, Years, Matches, SquadRuns, Duties, Caps, Budgets, NoRow

VARIABLES known, squads, roster, tables, seasons, games, occurrences,
          duty, sweeps, scan, import, anchor
rowVars == <<roster, tables, seasons, games, occurrences>>
jobVars == <<known, squads, roster, tables, seasons, games, occurrences,
             duty, sweeps, scan, import, anchor>>

Competitions == DOMAIN Listed
TeamsOf(c) == ToSet(Listed[c])
Teams == UNION {TeamsOf(c) : c \in Competitions}

(* An id is canonical, provider-scoped (providerStorageId), or "".          *)
Canonical(e) == [form |-> "canonical", of |-> e]
Scoped(e) == [form |-> "provider", of |-> e]
Unresolved == [form |-> "none", of |-> NoRow]

(* The cached lists and the matches file are finite, limits are naturals,  *)
(* and no id stands for the absence of a row.                              *)
ASSUME JobsAssumption ==
    /\ IsFiniteSet(Competitions) /\ IsFiniteSet(Teams) /\ IsFiniteSet(DOMAIN Matches)
    /\ Caps \subseteq Nat /\ Budgets \subseteq Nat
    /\ NoRow \notin {Unresolved} \union {Canonical(t) : t \in Teams}

(* What is stored under a key replaces what was.                            *)
Filed(store, key, value) ==
    [k \in DOMAIN store \union {key} |-> IF k = key THEN value ELSE store[k]]

NoSquads == [state |-> "idle", dry |-> FALSE, left |-> <<>>, id |-> Unresolved, mode |-> "continue",
            envelope |-> [about |-> NoRow, players |-> FALSE],
            ok |-> {}, failed |-> {}, skipped |-> {}, status |-> "none"]
NoScan == [state |-> "idle", left |-> <<>>, checked |-> {}, gaps |-> {}, errored |-> FALSE,
           status |-> "none"]
NoImport == [state |-> "idle", dry |-> FALSE, left |-> <<>>, at |-> "mint", game |-> NoRow,
             ok |-> {}, failed |-> {}, skipped |-> {}, status |-> "none"]
NoAnchor == [state |-> "idle", left |-> <<>>, asked |-> {}, resolved |-> {}]

(* The games of the live provider are there already, under their own       *)
(* numbers, which may well be those of StatsBomb matches.                   *)
JobsInit ==
    /\ known \in SUBSET (Competitions \union Teams)
    /\ squads = << >>
    /\ roster = [t \in Teams |-> NoRow]
    /\ tables = {} /\ seasons = {}
    /\ games = {<<"api-football", n>> : n \in DOMAIN Matches}
    /\ occurrences = << >>
    /\ duty \in Duties
    /\ sweeps = [r \in SquadRuns |-> NoSquads]
    /\ scan = NoScan /\ import = NoImport /\ anchor = NoAnchor

(* Identity-server learns an entity; it may fail to answer at any time.    *)
Learn(e) ==
    /\ e \notin known
    /\ known' = known \union {e}
    /\ UNCHANGED <<squads, rowVars, duty, sweeps, scan, import, anchor>>

---------------------------------------------------------------------------
(* The squad sweep: the teams that are named, or those of the cached        *)
(* lists, up to the cap.                                                   *)
KnownTeamIds == Teams

StartSquads(r, named, cap, dry) ==
    /\ "squads" \in duty /\ sweeps[r].state = "idle"
    /\ LET teams == SetToSeq(IF named # {} THEN named ELSE KnownTeamIds)
       IN  sweeps' = [sweeps EXCEPT ![r] = [NoSquads EXCEPT
                         !.state = "resolve", !.dry = dry,
                         !.left = SubSeq(teams, 1, IF Len(teams) > cap THEN cap ELSE Len(teams))]]
    /\ UNCHANGED <<known, squads, rowVars, duty, scan, import, anchor>>

Team(r) == Head(sweeps[r].left)

(* The verdict on a team; the next one is resolved afresh.                  *)
Judged(run, verdict) ==
    LET of(v) == IF v = verdict THEN {Head(run.left)} ELSE {}
    IN  [run EXCEPT !.ok = @ \union of("ok"), !.failed = @ \union of("failed"),
                    !.skipped = @ \union of("skipped"), !.left = Tail(@),
                    !.state = "resolve", !.envelope = NoSquads.envelope]

Told(r, verdict) == sweeps' = [sweeps EXCEPT ![r] = Judged(@, verdict)]

(* After a hard cap every further team is skipped.                          *)
SkipTeam(r) ==
    /\ sweeps[r].state = "resolve" /\ sweeps[r].left # <<>>
    /\ sweeps[r].mode = "abort" \/ sweeps[r].dry
    /\ Told(r, "skipped")
    /\ UNCHANGED <<known, squads, rowVars, duty, scan, import, anchor>>

(* resolveCanonicalTeamId: "" when identity misses or fails.                *)
ResolveTeam(r) ==
    /\ sweeps[r].state = "resolve" /\ sweeps[r].left # <<>>
    /\ sweeps[r].mode # "abort" /\ ~sweeps[r].dry
    /\ \E answers \in BOOLEAN :
         sweeps' = [sweeps EXCEPT ![r].state = "fetch",
                        ![r].id = IF answers /\ Team(r) \in known THEN Canonical(Team(r))
                                  ELSE Unresolved]
    /\ UNCHANGED <<known, squads, rowVars, duty, scan, import, anchor>>

(* Mutant: all squads share one resource. *)
SharedSquadResource(team) == <<"sweep-squad">>

(* The resource under which a squad is cached.                              *)
SquadResource(team) == <<"sweep-squad", team>>

(* The fetch brings an envelope, cached or fetched: what is cached may have  *)
(* expired by now. The quota posture is heeded either way.                  *)
FetchSquad(r) ==
    /\ sweeps[r].state = "fetch"
    /\ LET key == SquadResource(Team(r))
           fetched == {[about |-> Team(r), players |-> players] : players \in BOOLEAN}
           cached == IF key \in DOMAIN squads THEN {squads[key]} ELSE {}
       IN  \E envelope \in fetched \union cached, posture \in Postures :
              /\ sweeps' = [sweeps EXCEPT ![r].state = "ingest", ![r].envelope = envelope,
                                ![r].mode = MostRestrictive({@, QuotaAction(posture)})]
              /\ squads' = Filed(squads, key, envelope)
    /\ UNCHANGED <<known, rowVars, duty, scan, import, anchor>>

(* A fetch without data: denied is skipped; failed, rate limited or thrown  *)
(* is failed. A throw, of the cache it may be, leaves the mode alone: that  *)
(* is a comfortable posture.                                               *)
SquadUnfetched(r) ==
    /\ sweeps[r].state = "fetch"
    /\ \E verdict \in {"skipped", "failed"}, posture \in Postures :
         sweeps' = [sweeps EXCEPT ![r] = [Judged(sweeps[r], verdict) EXCEPT
                        !.mode = MostRestrictive({@, QuotaAction(posture)})]]
    /\ UNCHANGED <<known, squads, rowVars, duty, scan, import, anchor>>

(* The standing roster of the team the envelope is about, with the          *)
(* canonical id of the team that was asked for; game-service keeps an id it *)
(* has when the new one is empty.                                          *)
IngestSquad(r) ==
    /\ sweeps[r].state = "ingest"
    /\ LET about == sweeps[r].envelope.about
           players == sweeps[r].envelope.players
       IN  \/ /\ ~players
              /\ Told(r, "skipped")
              /\ UNCHANGED roster
           \/ /\ players
              /\ Told(r, "ok")
              /\ roster' = [roster EXCEPT ![about] =
                               IF sweeps[r].id = Unresolved /\ @ # NoRow THEN @ ELSE sweeps[r].id]
           \/ /\ players
              /\ Told(r, "failed")
              /\ UNCHANGED roster
    /\ UNCHANGED <<known, squads, tables, seasons, games, occurrences, duty, scan, import, anchor>>

FinishSquads(r) ==
    /\ sweeps[r].state = "resolve" /\ sweeps[r].left = <<>>
    /\ sweeps' = [sweeps EXCEPT ![r].state = "done",
                      ![r].status = CASE sweeps[r].mode = "abort" -> "aborted"
                                      [] sweeps[r].mode # "abort" /\ sweeps[r].failed # {} -> "partial"
                                      [] OTHER -> "completed"]
    /\ UNCHANGED <<known, squads, rowVars, duty, scan, import, anchor>>

---------------------------------------------------------------------------
(* The scan for identity gaps: the competitions with a cached list first,   *)
(* then their teams, up to the budget.                                     *)
StartScan(budget) ==
    /\ "scan" \in duty /\ scan.state = "idle"
    /\ LET seen == SetToSeq(Competitions) \o SetToSeq(Teams)
       IN  scan' = [NoScan EXCEPT !.state = "running",
                        !.left = SubSeq(seen, 1, IF Len(seen) > budget THEN budget ELSE Len(seen))]
    /\ UNCHANGED <<known, squads, rowVars, duty, sweeps, import, anchor>>

(* Mutant: an entity identity could not be asked about is not a gap. *)
GapsIgnoringErrors(gaps, e, resolved, errored) ==
    IF resolved \/ errored THEN gaps ELSE gaps \union {e}

(* isResolved soft-fails closed: an error counts as unknown.                *)
GapsWith(gaps, e, resolved, errored) == IF resolved THEN gaps ELSE gaps \union {e}

ScanEntity ==
    /\ scan.state = "running" /\ scan.left # <<>>
    /\ \E errored \in BOOLEAN :
         LET e == Head(scan.left)
         IN  scan' = [scan EXCEPT !.left = Tail(@), !.checked = @ \union {e},
                          !.errored = @ \/ errored,
                          !.gaps = GapsWith(@, e, ~errored /\ e \in known, errored)]
    /\ UNCHANGED <<known, squads, rowVars, duty, sweeps, import, anchor>>

FinishScan ==
    /\ scan.state = "running" /\ scan.left = <<>>
    /\ scan' = [scan EXCEPT !.state = "done",
                    !.status = IF scan.errored THEN "partial" ELSE "completed"]
    /\ UNCHANGED <<known, squads, rowVars, duty, sweeps, import, anchor>>

---------------------------------------------------------------------------
(* The import of StatsBomb matches: a filter over the matches file, which   *)
(* may be missing; minted, looked up, fetched and ingested one by one.      *)
StartImport(filter, cap, dry) ==
    /\ "import" \in duty /\ import.state = "idle"
    /\ \E present \in BOOLEAN :
         LET file == IF present THEN DOMAIN Matches ELSE {}
             chosen == SetToSeq(IF filter = {} THEN file ELSE filter \intersect file)
         IN  import' = [NoImport EXCEPT !.state = "running", !.dry = dry,
                           !.left = SubSeq(chosen, 1, IF Len(chosen) > cap THEN cap ELSE Len(chosen))]
    /\ UNCHANGED <<known, squads, rowVars, duty, sweeps, scan, anchor>>

Match == Head(import.left)

Imported(verdict) ==
    LET of(v) == IF v = verdict THEN {Match} ELSE {}
    IN  import' = [import EXCEPT !.ok = @ \union of("ok"), !.failed = @ \union of("failed"),
                       !.skipped = @ \union of("skipped"), !.left = Tail(@),
                       !.at = "mint", !.game = NoRow]

(* gameFromStatsBombMatch: a row that lacks a side mints nothing.           *)
Mintable(n) == Matches[n].sides = {"home", "away"}

(* ingestGames finds or mints the game of the StatsBomb number.             *)
MintMatch ==
    /\ import.state = "running" /\ import.left # <<>> /\ import.at = "mint"
    /\ \/ ~Mintable(Match) /\ Imported("skipped") /\ UNCHANGED games
       \/ Mintable(Match) /\ Imported("failed") /\ UNCHANGED games
       \/ /\ Mintable(Match)
          /\ games' = games \union {<<"statsbomb-open", Match>>}
          /\ import' = [import EXCEPT !.at = "lookup"]
    /\ UNCHANGED <<known, squads, roster, tables, seasons, occurrences, duty, sweeps, scan, anchor>>

(* The crosswalk row ingestGames wrote.                                     *)
Crosswalk(n) == <<"statsbomb-open", n>>

LookupMatch ==
    /\ import.state = "running" /\ import.left # <<>> /\ import.at = "lookup"
    /\ \/ Imported("skipped")
       \/ Imported("failed")
       \/ /\ Crosswalk(Match) \in games
          /\ IF import.dry THEN Imported("skipped")
             ELSE import' = [import EXCEPT !.at = "events", !.game = Crosswalk(Match)]
    /\ UNCHANGED <<known, squads, rowVars, duty, sweeps, scan, anchor>>

(* getActionType: the events that become an occurrence.                     *)
ActionKinds == {"shot", "pass", "carry", "tackle", "interception", "pressure", "recovery"}
Occurrences(n) == {e \in Matches[n].events : e.kind \in ActionKinds}

(* transformEvent reads the outcome of a shot or an interception unasked.   *)
Unreadable(e) == e.kind \in {"shot", "interception"} /\ ~e.outcome

(* No events fails; the 360 frames are optional; events that map to nothing *)
(* are skipped; one that cannot be read ends the whole run.                 *)
FetchMatchEvents ==
    /\ import.state = "running" /\ import.left # <<>> /\ import.at = "events"
    /\ \/ Imported("failed")
       \/ /\ Matches[Match].events # {} /\ Occurrences(Match) = {}
          /\ Imported("skipped")
       \/ /\ \E e \in Matches[Match].events : Unreadable(e)
          /\ import' = [import EXCEPT !.state = "thrown"]
       \/ /\ Occurrences(Match) # {} /\ \A e \in Matches[Match].events : ~Unreadable(e)
          /\ import' = [import EXCEPT !.at = "ingest"]
    /\ UNCHANGED <<known, squads, rowVars, duty, sweeps, scan, anchor>>

IngestMatch ==
    /\ import.state = "running" /\ import.left # <<>> /\ import.at = "ingest"
    /\ LET under == IF import.game \in DOMAIN occurrences THEN occurrences[import.game] ELSE {}
       IN  \/ /\ occurrences' = Filed(occurrences, import.game, under \union {Match})
              /\ Imported("ok")
           \/ UNCHANGED occurrences /\ Imported("failed")
    /\ UNCHANGED <<known, squads, roster, tables, seasons, games, duty, sweeps, scan, anchor>>

FinishImport ==
    /\ import.state = "running" /\ import.left = <<>>
    /\ import' = [import EXCEPT !.state = "done",
                      !.status = IF import.failed # {} THEN "partial" ELSE "completed"]
    /\ UNCHANGED <<known, squads, rowVars, duty, sweeps, scan, anchor>>

---------------------------------------------------------------------------
(* The inline ingests of the daily anchor, for each competition its table   *)
(* and then its season window; every entity a row names is asked for once.  *)
StartAnchor ==
    /\ "anchor" \in duty /\ anchor.state = "idle"
    /\ LET listed == SetToSeq(Competitions)
       IN  anchor' = [NoAnchor EXCEPT !.state = "running",
                        !.left = [i \in 1 .. 2 * Len(listed) |->
                                     [row |-> IF i % 2 = 1 THEN "table" ELSE "season",
                                      of |-> listed[(i + 1) \div 2]]]]
    /\ UNCHANGED <<known, squads, rowVars, duty, sweeps, scan, import>>

(* resolveStandingsEntities asks for the competition and every team of the  *)
(* table; a season window needs its competition alone.  Seasons are never   *)
(* asked for: game-service binds them.                                     *)
Asked(item) == {item.of} \union IF item.row = "table" THEN TeamsOf(item.of) ELSE {}

ResolveOne(e) ==
    /\ anchor.state = "running" /\ anchor.left # <<>>
    /\ e \in Asked(Head(anchor.left)) \ anchor.asked
    /\ \E answers \in BOOLEAN :
         anchor' = [anchor EXCEPT !.asked = @ \union {e},
                        !.resolved = IF answers /\ e \in known THEN @ \union {e} ELSE @]
    /\ UNCHANGED <<known, squads, rowVars, duty, sweeps, scan, import>>

(* The id of an entity in a row: canonical, or provider-scoped.             *)
(* (resolvedEntity, with providerStorageId for the rest)                    *)
StorageId(e) == IF e \in anchor.resolved THEN Canonical(e) ELSE Scoped(e)
SeasonId(c, year) == Scoped(<<c, year>>)

(* The season window that is flagged current, if any.                       *)
CurrentSeason(c) == Years[c].current

(* A window whose competition is unresolved would be a row nobody reads.    *)
SeasonRows(c) ==
    {[competition |-> Canonical(c), season |-> SeasonId(c, y)] :
        y \in {y \in CurrentSeason(c) : c \in anchor.resolved}}

(* The table as listed, every team with its id; without teams, no table.    *)
TableEntries(c) == [t \in TeamsOf(c) |-> StorageId(t)]
TableRows(c) ==
    {[competition |-> StorageId(c), season |-> SeasonId(c, Years[c].catalogued),
      teams |-> TableEntries(c)] : t \in TeamsOf(c)}

(* A table is replaced as a whole under its competition and season.         *)
AnchorIngest ==
    /\ anchor.state = "running" /\ anchor.left # <<>>
    /\ LET item == Head(anchor.left)
       IN  /\ Asked(item) \subseteq anchor.asked
           /\ \/ UNCHANGED <<seasons, tables>>
              \/ /\ item.row = "season"
                 /\ seasons' = {row \in seasons : \A new \in SeasonRows(item.of) :
                                     row.competition # new.competition} \union SeasonRows(item.of)
                 /\ UNCHANGED tables
              \/ /\ item.row = "table"
                 /\ tables' = {row \in tables : \A new \in TableRows(item.of) :
                                  <<row.competition, row.season>> # <<new.competition, new.season>>}
                                  \union TableRows(item.of)
                 /\ UNCHANGED seasons
           /\ anchor' = [anchor EXCEPT !.left = Tail(@), !.asked = {}, !.resolved = {}]
    /\ UNCHANGED <<known, squads, roster, games, occurrences, duty, sweeps, scan, import>>

---------------------------------------------------------------------------
JobsNext ==
    \/ \E e \in Competitions \union Teams : Learn(e) \/ ResolveOne(e)
    \/ \E r \in SquadRuns :
         \/ \E named \in {{}, Teams}, cap \in Caps, dry \in BOOLEAN : StartSquads(r, named, cap, dry)
         \/ SkipTeam(r) \/ ResolveTeam(r) \/ FetchSquad(r) \/ SquadUnfetched(r)
         \/ IngestSquad(r) \/ FinishSquads(r)
    \/ \E budget \in Budgets : StartScan(budget)
    \/ ScanEntity \/ FinishScan
    \/ \E filter \in SUBSET DOMAIN Matches, cap \in Caps, dry \in BOOLEAN : StartImport(filter, cap, dry)
    \/ MintMatch \/ LookupMatch \/ FetchMatchEvents \/ IngestMatch \/ FinishImport
    \/ StartAnchor \/ AnchorIngest

(* Every row is filed where its readers look, whatever identity learned or  *)
(* failed to say meanwhile: a roster under its own team's canonical id or   *)
(* none (squad-sweep.ts:293-296), a season window under the canonical       *)
(* competition that GetCurrentSeason reads (daily-anchor.ts:565-570), and a *)
(* StatsBomb match under its own game, never under the live provider's game *)
(* of the same number (statsbomb-backfill.ts:378-388).                      *)
RowsUnderOwnIds ==
    /\ \A t \in Teams : roster[t] \in {NoRow, Unresolved, Canonical(t)}
    /\ \A s \in seasons : \E c \in Competitions \intersect known : s.competition = Canonical(c)
    /\ \A g \in DOMAIN occurrences : \A n \in occurrences[g] : g = <<"statsbomb-open", n>>

(* What a report says holds of what is stored: a team or match counted ok   *)
(* has its rows, a completed sweep or import failed nothing, and every      *)
(* entity a scan checked and did not report, identity does resolve.         *)
ReportsHold ==
    /\ \A r \in SquadRuns :
         /\ \A t \in sweeps[r].ok : roster[t] # NoRow
         /\ sweeps[r].status = "completed" => sweeps[r].failed = {}
    /\ \A n \in import.ok : <<"statsbomb-open", n>> \in DOMAIN occurrences
    /\ import.status = "completed" => import.failed = {}
    /\ scan.checked \ scan.gaps \subseteq known
    /\ scan.status = "completed" => ~scan.errored
=============================================================================
