----------------------------- MODULE MatchLoop -----------------------------
(***************************************************************************)
(* One session of the daemon after its handshake: the message loop of      *)
(* DaemonServer._run_match_loop, the asyncio tasks it starts for the       *)
(* decision requests, what the artifact writer keeps of them, and the way  *)
(* out - match end, clean close, lost connection or an exception - up to   *)
(* the result and the request to stop the server.                          *)
(*                                                                         *)
(* asyncio switches tasks at awaits only, so an action is what runs from   *)
(* one await to the next: reading a message and handling it, starting a    *)
(* task up to the provider call, everything a task does after that call,   *)
(* and the path from the end of the loop to the finalized result.          *)
(*                                                                         *)
(* The mod (how it sends) is external, and so is the WebSocket library:    *)
(* messages arrive in order, those received before the connection closed   *)
(* can still be read, and only then is the closure reported, as the end of *)
(* the iteration if it was clean and as ConnectionClosedError if not.      *)
(*                                                                         *)
(* A definition whose name ends in Bug is a faulty variant used by the     *)
(* mutation runs only.                                                     *)
(***************************************************************************)
EXTENDS Naturals, Sequences, FiniteSets

CONSTANTS
  MatchIds,       \* the match_id values messages can carry
  Hashes,         \* the state_hash values of requests
  MaxRequests,    \* bound on the requests of a session
  MaxExtras,      \* bound on its other messages
  ReplayCapture,  \* config: replay_capture.enabled
  NoMatch         \* stands for None where a match_id could be

ASSUME MatchAssumption == NoMatch \notin MatchIds /\ MatchIds # {} /\ Hashes # {}
ASSUME BoundAssumption == /\ MaxRequests \in Nat \ {0}
                          /\ MaxExtras \in Nat
                          /\ ReplayCapture \in BOOLEAN

Players == {"p1", "p2"}
Turns   == 1..MaxRequests

VARIABLES
  \* the mod and the connection
  link,       \* "open", "closed" (code 1000), "lost"
  inbox,      \* messages received and not yet read
  request,    \* the requests sent so far; their turn_id counts up from 1
  extras,     \* how many other messages were sent
  endSent,    \* match_ended: "no", sent "clean" or sent with "errors"
  \* _run_match_loop
  loop,       \* "reading", "draining", "capturing", "returned", "raised"
  matchId,    \* match_id of the writer, NoMatch while writer is None
  seen,       \* seen_requests
  task,       \* what became of each request's task
  ended,      \* match_ended_payload, NoEnd while it is None
  errors,     \* the errors list is not empty
  \* the artifacts, the answers, the server
  trace,      \* per turn, what the daemon itself wrote to events and decisions
  wire,       \* the turns answered, in the order they were sent to the mod
  result,     \* result.json
  stopping    \* request_stop was called

modVars == <<request, extras, endSent>>
vars == <<link, inbox, request, extras, endSent, loop, matchId, seen, task,
          ended, errors, trace, wire, result, stopping>>

Requests == [player : Players, hash : Hashes, match : MatchIds]
Kinds    == {"decision_request", "event", "ReplayEnded", "match_ended", "ignored"}
Messages == [kind : Kinds, turn : 0..MaxRequests, match : MatchIds \cup {NoMatch},
             errors : BOOLEAN]
Answers  == {"DecisionReceived", "DecisionFallback"}
Running  == {"created", "thinking"}
Statuses == {"in_progress", "completed", "failed"}
Results  == [status : Statuses, reason : {"none", "disconnect", "match_ended"},
             decisions : 0..MaxRequests]

\* Of a match_ended: whose it is and whether its list of errors has any.
Payloads == [match : MatchIds \cup {NoMatch}, errors : BOOLEAN]
NoEnd    == [match |-> NoMatch, errors |-> FALSE]

Live == {t \in Turns : task[t] \in Running}

\* metrics.decision_count: the lines of decisions.jsonl.
Decided == {t \in Turns : \E i \in DOMAIN trace[t] : trace[t][i] = "decision"}

-----------------------------------------------------------------------------
Init ==
  /\ link = "open" /\ inbox = <<>>
  /\ request = <<>> /\ extras = 0 /\ endSent = "no"
  /\ loop = "reading" /\ matchId = NoMatch /\ seen = {}
  /\ task = [t \in Turns |-> "none"]
  /\ ended = NoEnd /\ errors = FALSE
  /\ trace = [t \in Turns |-> <<>>]
  /\ wire = <<>>
  /\ result = [status |-> "in_progress", reason |-> "none", decisions |-> 0]
  /\ stopping = FALSE

-----------------------------------------------------------------------------
(* The mod *)

Send(kind, t, m, bad) ==
  inbox' = Append(inbox, [kind |-> kind, turn |-> t, match |-> m, errors |-> bad])

SendRequest ==
  /\ link = "open" /\ endSent = "no" /\ Len(request) < MaxRequests
  /\ \E r \in Requests : /\ request' = Append(request, r)
                         /\ Send("decision_request", Len(request) + 1, r.match, FALSE)
  /\ UNCHANGED <<link, extras, endSent, loop, matchId, seen, task, ended,
                 errors, trace, wire, result, stopping>>

\* An event, or what the loop does not handle: a binary frame, invalid JSON,
\* an invalid envelope (a request without legal actions is one), another type.
SendExtra ==
  /\ link = "open" /\ extras < MaxExtras
  /\ extras' = extras + 1
  /\ \/ \E m \in MatchIds : Send("event", 0, m, FALSE)
     \/ endSent # "no" /\ \E m \in MatchIds : Send("ReplayEnded", 0, m, FALSE)
     \/ Send("ignored", 0, NoMatch, FALSE)
  /\ UNCHANGED <<link, request, endSent, loop, matchId, seen, task, ended,
                 errors, trace, wire, result, stopping>>

\* The protocol lets a match end carry errors; TurnHook sends an empty list.
SendMatchEnded ==
  /\ link = "open" /\ endSent = "no"
  /\ \E m \in MatchIds, bad \in BOOLEAN :
       /\ Send("match_ended", 0, m, bad)
       /\ endSent' = IF bad THEN "errors" ELSE "clean"
  /\ UNCHANGED <<link, request, extras, loop, matchId, seen, task, ended,
                 errors, trace, wire, result, stopping>>

\* The mod disconnects, or the game is killed, the network breaks.
CloseLink ==
  /\ link = "open"
  /\ link' \in {"closed", "lost"}
  /\ UNCHANGED <<inbox, modVars, loop, matchId, seen, task, ended, errors, trace,
                 wire, result, stopping>>

-----------------------------------------------------------------------------
(* The way out of the loop *)

\* _run_match_loop returns: the handler asks the server to stop, and the
\* library closes the connection behind the handler.
Leave ==
  /\ loop' = "returned"
  /\ stopping' = TRUE
  /\ link' = IF link = "open" THEN "closed" ELSE link

\* An exception leaves _handle_connection: nothing after the loop is run.
Escape ==
  /\ loop' = "raised"
  /\ link' = IF link = "open" THEN "closed" ELSE link
  /\ UNCHANGED stopping

CancelLiveBug == UNCHANGED task   \* without the finally clause

\* The finally clause: cancel the tasks still running and wait for them.
CancelLive == task' = [t \in Turns |-> IF t \in Live THEN "cancelled" ELSE task[t]]

\* MatchArtifactWriter.finalize refuses the match_ended of another match ...
Refused(payload) == payload.match \notin {NoMatch, matchId}

\* ... and otherwise derives the result: an error, of the loop or reported with
\* the match end, makes it failed.
FinalResult(payload, failed) ==
  [status    |-> IF failed \/ payload.errors THEN "failed" ELSE "completed",
   reason    |-> IF payload = NoEnd THEN "disconnect" ELSE "match_ended",
   decisions |-> Cardinality(Decided)]

FinishBug(payload, failed) ==   \* swallows the refusal of finalize()
  /\ CancelLive
  /\ ended' = payload
  /\ errors' = failed
  /\ Leave
  /\ result' = IF matchId = NoMatch \/ Refused(payload) THEN result
               ELSE FinalResult(payload, failed)

\* From the end of the iteration to the result and, where it is enabled, the
\* wait for the replay.
Finish(payload, failed) ==
  /\ CancelLive
  /\ ended' = payload
  /\ errors' = failed
  /\ IF matchId = NoMatch THEN Leave /\ UNCHANGED result
     ELSE IF Refused(payload) THEN Escape /\ UNCHANGED result
     ELSE /\ result' = FinalResult(payload, failed)
          /\ IF payload # NoEnd /\ ReplayCapture
             THEN loop' = "capturing" /\ UNCHANGED <<stopping, link>>
             ELSE Leave

-----------------------------------------------------------------------------
(* The message loop *)

Reading(kind) == /\ loop = "reading" /\ inbox # <<>> /\ Head(inbox).kind = kind
                 /\ inbox' = Tail(inbox)

RememberBug(key) == UNCHANGED seen   \* duplicates are not recognized

RememberHashBug(key) == seen' = seen \cup {key[2]}   \* not whose state it was

Remember(key) == seen' = seen \cup {key}

\* The match_id of the writer, which the first request creates.
WriterMatch(m) == IF matchId = NoMatch THEN m ELSE matchId

\* The first request creates the writer; a (player_id, state_hash) already
\* dispatched in this session is skipped without an answer.
ReadRequest ==
  /\ Reading("decision_request")
  /\ LET t   == Head(inbox).turn
         key == <<request[t].player, request[t].hash>>
     IN  /\ matchId' = WriterMatch(request[t].match)
         /\ IF key \in seen
            THEN UNCHANGED <<seen, task>>
            ELSE Remember(key) /\ task' = [task EXCEPT ![t] = "created"]
  /\ UNCHANGED <<link, modVars, loop, ended, errors, trace, wire, result, stopping>>

\* Before the first request there is no writer, and the event is dropped.
\* The events of the mod itself are not counted here.
ReadEvent ==
  /\ \/ Reading("event") \/ Reading("ReplayEnded")
  /\ matchId \in {NoMatch, Head(inbox).match}
  /\ UNCHANGED <<link, modVars, loop, matchId, seen, task, ended, errors, trace,
                 wire, result, stopping>>

\* append_event refuses an event of another match; the loop ends in error.
EventFails ==
  /\ \/ Reading("event") \/ Reading("ReplayEnded")
  /\ matchId \notin {NoMatch, Head(inbox).match}
  /\ Finish(ended, TRUE)
  /\ UNCHANGED <<modVars, matchId, seen, trace, wire>>

ReadIgnored ==
  /\ Reading("ignored")
  /\ UNCHANGED <<link, modVars, loop, matchId, seen, task, ended, errors, trace,
                 wire, result, stopping>>

Received == [match |-> Head(inbox).match, errors |-> Head(inbox).errors]

ReadMatchEndedBug ==   \* goes on reading after the match end
  /\ Reading("match_ended")
  /\ ended' = Received
  /\ UNCHANGED <<link, modVars, loop, matchId, seen, task, errors, trace, wire,
                 result, stopping>>

\* Nothing more is read until the tasks in flight are done.
ReadMatchEnded ==
  /\ Reading("match_ended")
  /\ ended' = Received
  /\ loop' = "draining"
  /\ UNCHANGED <<link, modVars, matchId, seen, task, errors, trace, wire, result,
                 stopping>>

DrainedBug == TRUE   \* breaks at once, and the finally clause cancels

Drained == Live = {}

\* gather() of the pending tasks returned: break.
DrainDone ==
  /\ loop = "draining" /\ Drained
  /\ Finish(ended, errors)
  /\ UNCHANGED <<inbox, modVars, matchId, seen, trace, wire>>

ReadClosedBug ==   \* takes a clean close for a pause and iterates again
  /\ loop = "reading" /\ inbox = <<>> /\ link # "open"
  /\ IF link = "lost" THEN Finish(ended, TRUE)
     ELSE UNCHANGED <<task, ended, errors, result, loop, stopping, link>>
  /\ UNCHANGED <<inbox, modVars, matchId, seen, trace, wire>>

\* The iteration ends, or raises ConnectionClosedError.
ReadClosed ==
  /\ loop = "reading" /\ inbox = <<>> /\ link # "open"
  /\ Finish(ended, link = "lost")
  /\ UNCHANGED <<inbox, modVars, matchId, seen, trace, wire>>

-----------------------------------------------------------------------------
(* _handle_decision_request, one task per request *)

\* append_event, append_prompt, append_decision.
Log(t, lines) == trace' = [trace EXCEPT ![t] = @ \o lines]

\* Up to the provider call.  The writer refuses the event of a request of
\* another match: the task ends in an exception nobody looks at.
TaskStarts(t) ==
  /\ task[t] = "created"
  /\ IF request[t].match # matchId
     THEN task' = [task EXCEPT ![t] = "failed"] /\ UNCHANGED trace
     ELSE /\ task' = [task EXCEPT ![t] = "thinking"]
          /\ Log(t, <<"TurnRequested">>)
  /\ UNCHANGED <<link, inbox, modVars, loop, matchId, seen, ended, errors, wire,
                 result, stopping>>

ReplyBug(t, how) ==   \* only decisions of the provider are sent
  wire' = IF link = "open" /\ how = "DecisionReceived" THEN Append(wire, t) ELSE wire

\* connection.send; on a closed connection the task just returns.
Reply(t, how) == wire' = IF link = "open" THEN Append(wire, t) ELSE wire

\* After the provider call, which never raises: prompt and decision, the
\* event, the answer, with no await before the answer is handed over.
TaskResolves(t, how) ==
  /\ task[t] = "thinking"
  /\ task' = [task EXCEPT ![t] = "done"]
  /\ Log(t, <<"decision", how>>)
  /\ Reply(t, how)
  /\ UNCHANGED <<link, inbox, modVars, loop, matchId, seen, ended, errors, result,
                 stopping>>

-----------------------------------------------------------------------------
(* _handle_replay_capture, as far as it ends the session *)

Capturing == /\ loop = "capturing" /\ inbox # <<>> /\ inbox' = Tail(inbox)
             /\ UNCHANGED <<modVars, matchId, seen, task, ended, errors, trace,
                            wire, result>>

\* Only events are looked at; one of another match raises out of the handler.
CaptureReads ==
  /\ Capturing
  /\ LET m == Head(inbox)
     IN  IF m.kind \notin {"event", "ReplayEnded"}
         THEN UNCHANGED <<loop, stopping, link>>
         ELSE IF m.match # matchId THEN Escape
         ELSE IF m.kind = "ReplayEnded" THEN Leave
         ELSE UNCHANGED <<loop, stopping, link>>

\* asyncio.timeout(120), or the connection is gone.
CaptureEnds ==
  /\ loop = "capturing"
  /\ Leave
  /\ UNCHANGED <<inbox, modVars, matchId, seen, task, ended, errors, trace, wire,
                 result>>

-----------------------------------------------------------------------------
\* The handler is gone; the mod notices and stays quiet.
Over == loop \in {"returned", "raised"} /\ Live = {} /\ UNCHANGED vars

Next ==
  \/ SendRequest \/ SendExtra \/ SendMatchEnded \/ CloseLink
  \/ ReadRequest \/ ReadEvent \/ EventFails \/ ReadIgnored \/ ReadMatchEnded
  \/ DrainDone \/ ReadClosed
  \/ \E t \in Turns : TaskStarts(t) \/ \E how \in Answers : TaskResolves(t, how)
  \/ CaptureReads \/ CaptureEnds
  \/ Over

Spec == Init /\ [][Next]_vars

ReadNext == \/ ReadRequest \/ ReadEvent \/ EventFails \/ ReadIgnored
            \/ ReadMatchEnded \/ ReadClosed

(* asyncio runs every task that is ready, the provider call of a task is    *)
(* bounded by timeouts, and so is the wait for the replay.  The mod need    *)
(* not send anything, nor close.                                            *)
Fairness ==
  /\ WF_vars(ReadNext) /\ WF_vars(DrainDone) /\ WF_vars(CaptureEnds)
  /\ \A t \in Turns : /\ WF_vars(TaskStarts(t))
                      /\ WF_vars(\E how \in Answers : TaskResolves(t, how))

FairSpec == Spec /\ Fairness
-----------------------------------------------------------------------------
(* What must hold *)

TypeOK ==
  /\ link \in {"open", "closed", "lost"}
  /\ inbox \in Seq(Messages)
  /\ request \in Seq(Requests) /\ Len(request) <= MaxRequests
  /\ extras \in 0..MaxExtras /\ endSent \in {"no", "clean", "errors"}
  /\ loop \in {"reading", "draining", "capturing", "returned", "raised"}
  /\ matchId \in MatchIds \cup {NoMatch}
  /\ seen \in SUBSET (Players \X Hashes)
  /\ task \in [Turns -> Running \cup {"none", "done", "cancelled", "failed"}]
  /\ ended \in Payloads /\ errors \in BOOLEAN
  /\ trace \in [Turns -> Seq({"TurnRequested", "decision"} \cup Answers)]
  /\ wire \in Seq(Turns)
  /\ result \in Results
  /\ stopping \in BOOLEAN

\* Once the result is written it speaks for the artifacts: its decision count
\* is that of decisions.jsonl, now and ever after, because no task survives
\* the finally clause to log or answer behind the result.
ResultIsFinal ==
  result.status # "in_progress" => /\ result.decisions = Cardinality(Decided)
                                   /\ Live = {}

\* A match that ended regularly loses no decision: each request that was
\* dispatched before match_ended was read is decided and logged in full
\* before the result is written (data_flow.md: "waits for in-flight decision
\* tasks, then triggers artifact finalization").
MatchEndLosesNothing ==
  result.reason = "match_ended" =>
    \A t \in Turns : task[t] # "none" =>
      IF request[t].match = matchId THEN Len(trace[t]) = 3 ELSE trace[t] = <<>>

\* The mod gets no answer that the artifacts do not account for, no second
\* answer to a request, and no two answers for one player and state however
\* often the request was repeated.
AnswersAreUnique ==
  /\ \A i \in DOMAIN wire : \E how \in Answers :
       trace[wire[i]] = <<"TurnRequested", "decision", how>>
  /\ \A i, j \in DOMAIN wire :
       (/\ request[wire[i]].player = request[wire[j]].player
        /\ request[wire[i]].hash = request[wire[j]].hash) => i = j

\* The server is asked to stop - which closes the connections - only with
\* the result written, or with no match begun.
StopAfterResult ==
  stopping => result.status # "in_progress" \/ matchId = NoMatch

\* A match end the daemon has received is recorded as what it reports - a
\* completed match, or a failed one if it carries errors - and not as a
\* disconnect, even when the connection breaks right behind it or while
\* decisions are still being worked on; the loop adds no error of its own.
MatchEndIsRecorded ==
  /\ endSent = "clean" /\ request # <<>> ~>
       result.reason = "match_ended" /\ result.status = "completed"
  /\ endSent = "errors" /\ request # <<>> ~>
       result.reason = "match_ended" /\ result.status = "failed"

\* A request that was dispatched is answered unless the connection is gone,
\* also when the match end is already waiting behind it.
DispatchedIsAnswered ==
  \A t \in Turns : task[t] = "created" ~>
    link # "open" \/ \E i \in DOMAIN wire : wire[i] = t

\* A session whose connection is gone comes to its end and frees the server.
SessionEnds == link # "open" ~> stopping
=============================================================================
