--------------------------- MODULE ProgressStream ---------------------------
(***************************************************************************)
(* What a workflow's progress stream promises its caller (http.ts,         *)
(* startWorkflowStream): the log entries of the run in their order, none   *)
(* missing and none twice, then one verdict, then the end.  Keepalives are *)
(* not part of it.  A caller may go away at any moment and then gets no    *)
(* more.                                                                   *)
(*                                                                         *)
(* entries[s]  what the run has logged so far                              *)
(* verdict[s]  how it ended: Pending, or what the last line says           *)
(* got[s]      what the caller was given                                   *)
(* gone[s]     the caller went away                                        *)
(* ended[s]    the stream is at its end                                    *)
(***************************************************************************)
EXTENDS Naturals, Sequences

CONSTANTS Callers, Pending

VARIABLES entries, verdict, got, gone, ended
streamVars == <<entries, verdict, got, gone, ended>>

IsPrefixOf(s, t) == Len(s) <= Len(t) /\ s = SubSeq(t, 1, Len(s))

(* All that there is to tell by now.                                       *)
Tellable(s) == IF verdict[s] = Pending THEN entries[s] ELSE Append(entries[s], verdict[s])

StreamInit ==
    /\ entries = [s \in Callers |-> <<>>] /\ verdict = [s \in Callers |-> Pending]
    /\ got = [s \in Callers |-> <<>>]
    /\ gone = [s \in Callers |-> FALSE] /\ ended = [s \in Callers |-> FALSE]

(* The run logs some entries.                                              *)
Work(s) ==
    /\ verdict[s] = Pending
    /\ IsPrefixOf(entries[s], entries'[s])
    /\ entries' = [entries EXCEPT ![s] = entries'[s]]
    /\ UNCHANGED <<verdict, got, gone, ended>>

(* The run settles, once.                                                  *)
Settles(s) ==
    /\ verdict[s] = Pending
    /\ verdict' = [verdict EXCEPT ![s] = verdict'[s]]
    /\ UNCHANGED <<entries, got, gone, ended>>

(* The caller is given the next line.                                      *)
Tell(s) ==
    /\ ~ended[s] /\ ~gone[s]
    /\ Len(got[s]) < Len(Tellable(s))
    /\ got' = [got EXCEPT ![s] = Append(@, Tellable(s)[Len(got[s]) + 1])]
    /\ UNCHANGED <<entries, verdict, gone, ended>>

(* The stream ends once the caller has everything, or is gone.             *)
End(s) ==
    /\ ~ended[s] /\ verdict[s] # Pending
    /\ gone[s] \/ got[s] = Tellable(s)
    /\ ended' = [ended EXCEPT ![s] = TRUE]
    /\ UNCHANGED <<entries, verdict, got, gone>>

Leave(s) ==
    /\ ~ended[s] /\ ~gone[s]
    /\ gone' = [gone EXCEPT ![s] = TRUE]
    /\ UNCHANGED <<entries, verdict, got, ended>>

StreamNext == \E s \in Callers : Work(s) \/ Settles(s) \/ Tell(s) \/ End(s) \/ Leave(s)

StreamSpec == StreamInit /\ [][StreamNext]_streamVars
=============================================================================
