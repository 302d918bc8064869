---------------------------- MODULE WorkflowHttp ----------------------------
(***************************************************************************)
(* The HTTP surface of the worker (worker/http.ts, worker/server.ts): the  *)
(* answer to each route, and the NDJSON stream of a workflow, from the     *)
(* queue that the workflow's logger, the heartbeat timer and the verdict   *)
(* push to, through the single reader that writes to the socket, to the    *)
(* shutdown that waits for the open connections.                           *)
(*                                                                         *)
(* Each request s starts at most one run, of the same name.  Node runs one *)
(* callback at a time; the settling of the workflow's promise, the last    *)
(* push and the closing of the queue are microtasks, so that no timer      *)
(* fires between them, but the reader may.                                 *)
(*                                                                         *)
(* OtherRoutes  the workflows modelled elsewhere: here they only settle    *)
(* Heartbeats   the bound on the heartbeats unread in one queue            *)
(*                                                                         *)
(* reply[s]    the status of the answer, 0 before it                       *)
(* queue[s]    the lines pushed and not yet read                           *)
(* timer[s]    the heartbeat interval is armed                             *)
(* closed[s]   the queue is closed                                         *)
(* verdict[s]  the verdict that was pushed, or Pending                     *)
(* waiting[s]  the reader sleeps on the queue                              *)
(* written[s]  the lines the connected client was sent, without the        *)
(*             heartbeats that come before the verdict                     *)
(* ended[s]    the response is at its end                                  *)
(* gone[s]     the client hung up                                          *)
(* process     up, closing (a signal came), or exited                      *)
(***************************************************************************)
EXTENDS Matchday

CONSTANTS OtherRoutes, Heartbeats, Pending

VARIABLES reply, queue, timer, closed, verdict, waiting, written, ended, gone, process

httpVars == <<reply, queue, timer, closed, verdict, waiting, written, ended, gone, process>>
vars == <<matchdayVars, httpVars>>

Routes == Kinds \union OtherRoutes
PlainRoutes == {"health", "smoke", "metrics", "webhook", "unknown"}
Credentials == {"mesh-identity", "auth-context", "none"}
Requests == [route : Routes \union PlainRoutes, credential : Credentials, wired : BOOLEAN,
             wellFormed : BOOLEAN, provider : {"ok", "no_key", "bad"}]

(* The parsers: a workflow whose input must name a fixture, a provider or  *)
(* a kind refuses one that does not; the others read what they can.        *)
NeedsInput == {"webhook-completed", "sweep-missing-payloads", "competition-payload-backfill"}
Acceptable(request) == request.route \in NeedsInput => request.wellFormed

(* authoriseWorkflowRequest: a trusted mesh identity, or else a verified   *)
(* service auth-context.                                                   *)
Authorised(request) == request.credential # "none"

(* statusForProviderSmoke                                                  *)
SmokeStatus(provider) ==
    CASE provider = "ok" -> 200 [] provider = "no_key" -> 428 [] OTHER -> 502

(* handleWorkerRequest: who is answered what.  The credential is looked at *)
(* before the wiring, and both before the input.                           *)
StatusOf(request) ==
    CASE request.route \in {"health", "metrics"} -> 200
      [] request.route = "smoke" -> SmokeStatus(request.provider)
      [] request.route = "webhook" -> 202
      [] request.route = "unknown" -> 404
      [] OTHER -> IF ~Authorised(request) THEN 401
                  ELSE IF ~request.wired THEN 503
                  ELSE IF ~Acceptable(request) THEN 400
                  ELSE 200

Streams(request) == request.route \in Routes /\ StatusOf(request) = 200

(* Lines: the entries of the log, each known by its number, heartbeats and *)
(* verdicts.                                                               *)
Lines == [line : {"entry", "heartbeat", "ok", "failed", "error"}, number : Nat]
Entry(n) == [line |-> "entry", number |-> n]
Beat == [line |-> "heartbeat", number |-> 0]
Verdict(how) == [line |-> how, number |-> 0]

ASSUME PendingAssumption == Pending \notin Lines

TypeOK ==
    /\ reply \in [Runs -> {0, 200, 202, 400, 401, 404, 428, 502, 503}]
    /\ \A s \in Runs : walk[s].state \in {"idle", "walking", "done", "thrown"}
    /\ timer \in [Runs -> BOOLEAN] /\ closed \in [Runs -> BOOLEAN]
    /\ waiting \in [Runs -> BOOLEAN] /\ ended \in [Runs -> BOOLEAN]
    /\ gone \in [Runs -> BOOLEAN] /\ process \in {"up", "closing", "exited"}

Init ==
    /\ MatchdayInit
    /\ reply = [s \in Runs |-> 0] /\ queue = [s \in Runs |-> <<>>]
    /\ timer = [s \in Runs |-> FALSE] /\ closed = [s \in Runs |-> FALSE]
    /\ verdict = [s \in Runs |-> Pending] /\ waiting = [s \in Runs |-> FALSE]
    /\ written = [s \in Runs |-> <<>>] /\ ended = [s \in Runs |-> FALSE]
    /\ gone = [s \in Runs |-> FALSE] /\ process = "up"

(* A microtask of the stream's workflow is due: no timer fires before it.  *)
Settling(s) == /\ timer[s] /\ verdict[s] # Pending
               /\ ~closed[s]

(* WorkflowStreamQueue.push: a line after the close is dropped, and a      *)
(* sleeping reader is woken.                                               *)
Push(s, lines) ==
    IF closed[s] \/ lines = <<>> THEN UNCHANGED <<queue, waiting>>
    ELSE /\ queue' = [queue EXCEPT ![s] = @ \o lines]
         /\ waiting' = [waiting EXCEPT ![s] = FALSE]

(* The entries a step logs.                                                *)
Fresh(s) == [i \in 1 .. said'[s] - said[s] |-> Entry(said[s] + i)]

(* A request that is not a workflow's, or is refused: answered at once.    *)
Refuse(s, request) ==
    /\ process = "up" /\ reply[s] = 0
    /\ ~Streams(request)
    /\ reply' = [reply EXCEPT ![s] = StatusOf(request)]
    /\ ended' = [ended EXCEPT ![s] = TRUE]
    /\ UNCHANGED <<matchdayVars, queue, timer, closed, verdict, waiting, written, gone, process>>

(* startWorkflowStream: the timer is armed, the run begins, and logs up to *)
(* its first fetch before the reader asks for a line.                      *)
Accept(s, request) ==
    /\ process = "up" /\ reply[s] = 0
    /\ Streams(request)
    /\ \E moment \in Moments :
         \/ /\ request.route \in {"daily-anchor", "hourly-matchday"}
            /\ \E named \in {{}, {Catalogue[1]}} : StartSweep(s, request.route, named, moment)
         \/ /\ request.route = "webhook-completed"
            /\ \E supported \in BOOLEAN :
                  StartWebhook(s, Window[Catalogue[1]][1].id, supported, moment)
         \/ /\ request.route \in OtherRoutes
            /\ walk' = [walk EXCEPT ![s] = [Idle EXCEPT !.kind = request.route,
                                                        !.state = "done"]]
            /\ said' = [said EXCEPT ![s] = 1]
    /\ reply' = [reply EXCEPT ![s] = 200]
    /\ timer' = [timer EXCEPT ![s] = TRUE]
    /\ queue' = [queue EXCEPT ![s] = Fresh(s)]
    /\ UNCHANGED <<closed, verdict, waiting, written, ended, gone, process>>

(* The run gets the answer to a fetch, and logs.                           *)
Progress(s) ==
    /\ process # "exited"
    /\ Answer(s)
    /\ Push(s, Fresh(s))
    /\ UNCHANGED <<reply, timer, closed, verdict, written, ended, gone, process>>

Crash(s) ==
    /\ process # "exited"
    /\ Throw(s)
    /\ UNCHANGED httpVars

(* A webhook run that an abort cut short has not asked for everything.     *)
CutShort(w) ==
    \E asked \in w.asked : \E call \in ToSet(WebhookCalls(asked[1])) :
        <<asked[1], call>> \notin w.asked

(* The verdict of a webhook run is in its result, the others only report:  *)
(* it failed when it was cut short, or when nothing it asked for came; an   *)
(* unsupported provider is skipped, which is no failure.                   *)
VerdictOf(w) ==
    IF w.state = "thrown" THEN Verdict("error")
    ELSE IF w.kind = "webhook-completed" /\ w.asked # {} /\ (CutShort(w) \/ ~w.useful)
         THEN Verdict("failed") ELSE Verdict("ok")

(* then / catch: the verdict is the last thing pushed.                     *)
Settle(s) ==
    /\ process # "exited"
    /\ Settled(s) /\ timer[s] /\ verdict[s] = Pending
    /\ verdict' = [verdict EXCEPT ![s] = VerdictOf(walk[s])]
    /\ Push(s, <<VerdictOf(walk[s])>>)
    /\ UNCHANGED <<matchdayVars, reply, timer, closed, written, ended, gone, process>>

(* Mutant: closing the queue does not wake the reader.                     *)
CloseUnseen(s) ==
    /\ process # "exited"
    /\ Settling(s)
    /\ timer' = [timer EXCEPT ![s] = FALSE]
    /\ closed' = [closed EXCEPT ![s] = TRUE]
    /\ UNCHANGED <<matchdayVars, reply, queue, verdict, waiting, written, ended, gone, process>>

(* finally: the interval is cleared, the queue closed, the reader woken.   *)
Close(s) ==
    /\ process # "exited"
    /\ Settling(s)
    /\ timer' = [timer EXCEPT ![s] = FALSE]
    /\ closed' = [closed EXCEPT ![s] = TRUE]
    /\ waiting' = [waiting EXCEPT ![s] = FALSE]
    /\ UNCHANGED <<matchdayVars, reply, queue, verdict, written, ended, gone, process>>

Beats(s) == Cardinality({i \in DOMAIN queue[s] : queue[s][i] = Beat})

(* The interval fires, never between the settling and the close.           *)
Heartbeat(s) ==
    /\ process # "exited"
    /\ timer[s] /\ ~Settling(s)
    /\ Beats(s) < Heartbeats
    /\ Push(s, <<Beat>>)
    /\ UNCHANGED <<matchdayVars, reply, timer, closed, verdict, written, ended, gone, process>>

(* A heartbeat is no news, unless it comes after the verdict.              *)
KeepAlive(s, line) ==
    /\ line = Beat
    /\ \A i \in DOMAIN written[s] : written[s][i] # verdict[s]

(* The reader of server.ts: it writes what it reads while the client is    *)
(* there, sleeps on an empty queue, and ends the response at the end.      *)
Read(s) ==
    /\ process # "exited"
    /\ reply[s] = 200 /\ ~ended[s] /\ ~waiting[s]
    /\ queue[s] # <<>>
    /\ queue' = [queue EXCEPT ![s] = Tail(@)]
    /\ written' = IF gone[s] \/ KeepAlive(s, Head(queue[s])) THEN written
                  ELSE [written EXCEPT ![s] = Append(@, Head(queue[s]))]
    /\ UNCHANGED <<matchdayVars, reply, timer, closed, verdict, waiting, ended, gone, process>>

Sleep(s) ==
    /\ process # "exited"
    /\ reply[s] = 200 /\ ~ended[s] /\ ~waiting[s]
    /\ queue[s] = <<>> /\ ~closed[s]
    /\ waiting' = [waiting EXCEPT ![s] = TRUE]
    /\ UNCHANGED <<matchdayVars, reply, queue, timer, closed, verdict, written, ended, gone, process>>

(* Mutant: the reader ends the response once the queue is closed, without  *)
(* draining it.                                                            *)
FinishEarly(s) ==
    /\ process # "exited"
    /\ reply[s] = 200 /\ ~ended[s] /\ ~waiting[s]
    /\ closed[s]
    /\ ended' = [ended EXCEPT ![s] = TRUE]
    /\ UNCHANGED <<matchdayVars, reply, queue, timer, closed, verdict, waiting, written, gone, process>>

(* At the end of a closed queue the response ends.                         *)
Finish(s) ==
    /\ process # "exited"
    /\ reply[s] = 200 /\ ~ended[s] /\ ~waiting[s]
    /\ queue[s] = <<>> /\ closed[s]
    /\ ended' = [ended EXCEPT ![s] = TRUE]
    /\ UNCHANGED <<matchdayVars, reply, queue, timer, closed, verdict, waiting, written, gone, process>>

(* The client hangs up; the workflow goes on and the reader drains it.     *)
HangUp(s) ==
    /\ process # "exited"
    /\ reply[s] = 200 /\ ~ended[s] /\ ~gone[s]
    /\ gone' = [gone EXCEPT ![s] = TRUE]
    /\ UNCHANGED <<matchdayVars, reply, queue, timer, closed, verdict, waiting, written, ended, process>>

(* shutdown: no new connection, and an exit when the open ones are closed. *)
Signal ==
    /\ process = "up"
    /\ process' = "closing"
    /\ UNCHANGED <<matchdayVars, reply, queue, timer, closed, verdict, waiting, written, ended, gone>>

Open(s) == reply[s] # 0 /\ ~ended[s] /\ ~gone[s]

Exit ==
    /\ process = "closing"
    /\ \A s \in Runs : ~Open(s)
    /\ process' = "exited"
    /\ UNCHANGED <<matchdayVars, reply, queue, timer, closed, verdict, waiting, written, ended, gone>>

Next ==
    \/ \E s \in Runs : \/ \E request \in Requests : Refuse(s, request) \/ Accept(s, request)
                       \/ Progress(s) \/ Crash(s) \/ Settle(s) \/ Close(s)
                       \/ Heartbeat(s) \/ Read(s) \/ Sleep(s) \/ Finish(s) \/ HangUp(s)
    \/ Signal \/ Exit

Spec == Init /\ [][Next]_vars

(* Every fetch is answered or throws, microtasks and the reader run.       *)
FairSpec ==
    /\ Spec
    /\ \A s \in Runs : /\ WF_vars(Progress(s)) /\ WF_vars(Settle(s)) /\ WF_vars(Close(s))
                       /\ WF_vars(Read(s)) /\ WF_vars(Sleep(s)) /\ WF_vars(Finish(s))
    /\ WF_vars(Exit)

(* A caller that stays gets every entry of the run, in order, then the one *)
(* verdict as the last line, and only then is its response at its end: "a  *)
(* single completed line that always closes the stream" (http.ts:177-178), *)
(* whatever heartbeat, hang-up or shutdown races with it.                  *)
Stream == INSTANCE ProgressStream
          WITH Callers <- Runs,
               entries <- [s \in Runs |-> [i \in 1 .. said[s] |-> Entry(i)]],
               got <- written,
               ended <- [s \in Runs |-> ended[s] /\ walk[s].state # "idle"]
StreamsProgress == Stream!StreamSpec

(* A response that was begun comes to its end while the process lives, and *)
(* a signalled process exits, because the close wakes a sleeping reader.   *)
ResponsesEnd == /\ \A s \in Runs : reply[s] # 0 ~> ended[s] \/ process = "exited"
                /\ process = "closing" ~> process = "exited"
=============================================================================
