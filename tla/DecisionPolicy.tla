--------------------------- MODULE DecisionPolicy ---------------------------
(***************************************************************************)
(* How the daemon gets a decision out of a model provider: the adapter's   *)
(* decide_with_trace, resolve_policy_decision of the orchestrator with its *)
(* deadline, the parser with its one correction retry, and the fallback.   *)
(* Requests of both players are worked on at the same time; the adapters   *)
(* keep nothing from one request to the next, the server keeps the last    *)
(* valid decision of each player.                                          *)
(*                                                                         *)
(* The provider and its SDK are external.  A call returns an output, fails *)
(* with a connection error or with another error, or is given up by the    *)
(* SDK: after decision_timeout_ms where the client has max_retries=0       *)
(* (OpenAI, OpenRouter), later where the SDK retries by itself (Anthropic).*)
(* Time moves in units and not past a timer that is due.                   *)
(*                                                                         *)
(* A definition whose name ends in Bug is a faulty variant used by the     *)
(* mutation runs only.                                                     *)
(***************************************************************************)
EXTENDS Naturals, Sequences

CONSTANTS
  Actions,          \* the names of the game's actions
  GuardActions,     \* those with a positive _guard_score
  LegalSets,        \* the legal-action lists of requests
  FallbackMode,     \* config: fallback_mode
  CorrectionRetry,  \* policy option: response_parser.enable_correction_retry
  DecisionTimeout,  \* config: decision_timeout_ms, in units of TimePasses
  CallLimit,        \* after which the SDK gives up a call
  MaxRequests,      \* bound on the requests
  NoAction          \* no action: None, or an output that names none

FallbackModes == {"safe_continue", "heuristic_guard", "last_valid_replayable"}

ASSUME ActionsAssumption == /\ GuardActions \subseteq Actions
                            /\ LegalSets \subseteq (SUBSET Actions) \ {{}}
                            /\ NoAction \notin Actions
ASSUME ConfigAssumption  == /\ FallbackMode \in FallbackModes
                            /\ CorrectionRetry \in BOOLEAN
                            /\ DecisionTimeout \in Nat \ {0}
                            /\ CallLimit \in Nat /\ CallLimit >= DecisionTimeout
                            /\ MaxRequests \in Nat \ {0}

Players == {"p1", "p2"}
Turns   == 1..MaxRequests

VARIABLES
  request,     \* the requests so far: player and legal actions
  stage,       \* per turn: "none", "initial", "correcting", "done"
  elapsed,     \* time since the request was taken up
  callAge,     \* time since the provider call in progress began
  calls,       \* per turn, what each provider call came to
  decision,    \* per turn, the decision once there is one
  lastValid    \* last_valid of the match loop, by player

vars == <<request, stage, elapsed, callAge, calls, decision, lastValid>>

Requests   == [player : Players, legal : LegalSets]
InvalidOutput == {"malformed_output", "illegal_output", "stale_response"}
Reasons    == InvalidOutput \cup {"timeout", "disconnect"}
Undecided  == [action |-> NoAction, reason |-> "none"]
Calling    == {"initial", "correcting"}

\* What a call can come to; "given up" is the SDK's own timeout.
Outcomes == InvalidOutput \cup {"ok", "timeout", "given up", "connection", "error"}

-----------------------------------------------------------------------------
Init ==
  /\ request = <<>>
  /\ stage = [t \in Turns |-> "none"]
  /\ elapsed = [t \in Turns |-> 0] /\ callAge = [t \in Turns |-> 0]
  /\ calls = [t \in Turns |-> <<>>]
  /\ decision = [t \in Turns |-> Undecided]
  /\ lastValid = [p \in Players |-> NoAction]

\* _handle_decision_request up to the provider call.
TakeUp ==
  /\ Len(request) < MaxRequests
  /\ \E r \in Requests : request' = Append(request, r)
  /\ stage' = [stage EXCEPT ![Len(request) + 1] = "initial"]
  /\ UNCHANGED <<elapsed, callAge, calls, decision, lastValid>>

-----------------------------------------------------------------------------
(* Resolution *)

\* _select_guard_action looks among these.
Guards(t) == IF FallbackMode = "safe_continue" THEN {}
             ELSE request[t].legal \cap GuardActions

\* build_fallback_decision.  Which of several eligible actions scores best is
\* left open; a replayed decision must pass validation for this request.
FallbackActions(t, prior) ==
  LET legal == request[t].legal
  IN  IF FallbackMode = "last_valid_replayable" /\ prior \in legal THEN {prior}
      ELSE IF Guards(t) # {} THEN Guards(t) ELSE legal

Resolve(t, action, reason) ==
  /\ stage' = [stage EXCEPT ![t] = "done"]
  /\ decision' = [decision EXCEPT ![t] = [action |-> action, reason |-> reason]]
  /\ lastValid' = IF reason = "none"
                  THEN [lastValid EXCEPT ![request[t].player] = action]
                  ELSE lastValid
  /\ UNCHANGED <<request, elapsed, callAge>>

\* No adapter passes last_valid_decision on: the prior decision is None.
FallBack(t, reason) == \E a \in FallbackActions(t, NoAction) : Resolve(t, a, reason)

Called(t, outcome) == calls' = [calls EXCEPT ![t] = Append(@, outcome)]

-----------------------------------------------------------------------------
(* What a provider call comes to *)

\* _validate_decision_extras and _validate_decision_payload.
Details == {"ok", "malformed_output", "illegal_output"}

\* A provider's output as the parser sees it: whether a decision can be read
\* from it at all, whether its match_id and turn_id - filled in when absent -
\* are the request's, the action, and what its extras and data are found to be.
Outputs == [shape : BOOLEAN, ours : BOOLEAN, action : Actions \cup {NoAction},
            detail : Details]

VerdictBug(t, out) ==   \* trusts the list of actions in the prompt
  IF ~out.shape \/ out.action = NoAction THEN "malformed_output"
  ELSE IF ~out.ours THEN "stale_response"
  ELSE out.detail

\* parse_action_decision_response, "ok" for a parsed decision.
Verdict(t, out) ==
  IF ~out.shape \/ out.action = NoAction THEN "malformed_output"
  ELSE IF ~out.ours THEN "stale_response"
  ELSE IF out.action \notin request[t].legal THEN "illegal_output"
  ELSE out.detail

CanRetryBug(t, reason) == CorrectionRetry /\ reason # "stale_response"

\* _can_retry, and no second correction.
CanRetry(t, reason) == /\ CorrectionRetry /\ stage[t] = "initial"
                       /\ reason \in {"malformed_output", "illegal_output"}

\* The output is parsed at once, with no await in between.
ProviderAnswers(t, out) ==
  /\ stage[t] \in Calling
  /\ LET verdict == Verdict(t, out)
     IN  /\ Called(t, verdict)
         /\ IF verdict = "ok" THEN Resolve(t, out.action, "none")
            ELSE IF CanRetry(t, verdict)
            THEN /\ stage' = [stage EXCEPT ![t] = "correcting"]
                 /\ callAge' = [callAge EXCEPT ![t] = 0]
                 /\ UNCHANGED <<request, elapsed, decision, lastValid>>
            ELSE FallBack(t, verdict)

\* APIConnectionError becomes OSError: "disconnect".
ConnectionFails(t) ==
  /\ stage[t] \in Calling
  /\ Called(t, "connection")
  /\ FallBack(t, "disconnect")

\* A refused request, no API key, a response without output.
ProviderFails(t) ==
  /\ stage[t] \in Calling
  /\ Called(t, "error")
  /\ FallBack(t, "malformed_output")

SdkGivesUpBug(t) ==   \* the correction is called without a timeout
  /\ stage[t] = "initial" /\ callAge[t] >= CallLimit
  /\ Called(t, "given up")
  /\ FallBack(t, "disconnect")

\* The SDK's timeout is a connection error, too.
SdkGivesUp(t) ==
  /\ stage[t] \in Calling /\ callAge[t] >= CallLimit
  /\ Called(t, "given up")
  /\ FallBack(t, "disconnect")

DeadlinePassesBug(t) ==   \* a correction starts a deadline of its own
  /\ stage[t] \in Calling /\ callAge[t] >= DecisionTimeout
  /\ IF CorrectionRetry
     THEN /\ stage' = [stage EXCEPT ![t] = "correcting"]
          /\ callAge' = [callAge EXCEPT ![t] = 0]
          /\ UNCHANGED <<request, elapsed, calls, decision, lastValid>>
     ELSE Called(t, "timeout") /\ FallBack(t, "timeout")

\* asyncio.timeout, around the first call only.
DeadlinePasses(t) ==
  /\ stage[t] = "initial" /\ elapsed[t] >= DecisionTimeout
  /\ Called(t, "timeout")
  /\ FallBack(t, "timeout")

TimerDue(t) == \/ stage[t] = "initial" /\ elapsed[t] >= DecisionTimeout
               \/ stage[t] \in Calling /\ callAge[t] >= CallLimit

TimePasses ==
  /\ \E t \in Turns : stage[t] \in Calling
  /\ \A t \in Turns : ~TimerDue(t)
  /\ elapsed' = [t \in Turns |-> IF stage[t] \in Calling THEN elapsed[t] + 1 ELSE elapsed[t]]
  /\ callAge' = [t \in Turns |-> IF stage[t] \in Calling THEN callAge[t] + 1 ELSE callAge[t]]
  /\ UNCHANGED <<request, stage, calls, decision, lastValid>>

-----------------------------------------------------------------------------
\* Every request of this instance is decided.
Quiet == /\ Len(request) = MaxRequests /\ \A t \in Turns : stage[t] = "done"
         /\ UNCHANGED vars

Next ==
  \/ TakeUp
  \/ \E t \in Turns :
       \/ \E out \in Outputs : ProviderAnswers(t, out)
       \/ ConnectionFails(t) \/ ProviderFails(t)
       \/ SdkGivesUp(t) \/ DeadlinePasses(t)
  \/ TimePasses
  \/ Quiet

Spec == Init /\ [][Next]_vars

\* The timers fire and the clock moves; of the provider nothing is assumed.
Fairness == /\ WF_vars(TimePasses)
            /\ \A t \in Turns : WF_vars(DeadlinePasses(t) \/ SdkGivesUp(t))

FairSpec == Spec /\ Fairness
-----------------------------------------------------------------------------
(* What must hold *)

TypeOK ==
  /\ request \in Seq(Requests) /\ Len(request) <= MaxRequests
  /\ stage \in [Turns -> Calling \cup {"none", "done"}]
  /\ elapsed \in [Turns -> 0..(DecisionTimeout + CallLimit)]
  /\ callAge \in [Turns -> 0..CallLimit]
  /\ calls \in [Turns -> Seq(Outcomes)]
  /\ decision \in [Turns -> [action : Actions \cup {NoAction},
                             reason : Reasons \cup {"none"}]]
  /\ lastValid \in [Players -> Actions \cup {NoAction}]

\* Whatever the provider does - wrong, stale or no output, an error, a second
\* wrong output after the correction - what the daemon answers is an action
\* of the request (spec: fallback must "preserve legality").
DecisionIsLegal ==
  \A t \in DOMAIN request : stage[t] = "done" => decision[t].action \in request[t].legal

\* What a call's outcome is recorded as.
ReasonOf(outcome) == CASE outcome = "ok" -> "none"
                       [] outcome \in {"given up", "connection"} -> "disconnect"
                       [] outcome = "error" -> "malformed_output"
                       [] OTHER -> outcome

\* The reason code of a decision names what its last provider call came to;
\* there are at most two calls, the second is a correction of an output that
\* was malformed or illegal, and a provider's decision is its last output's.
ReasonTellsCause ==
  \A t \in DOMAIN request :
    LET n == Len(calls[t])
    IN  /\ stage[t] = "done" => n \in 1..2 /\ decision[t].reason = ReasonOf(calls[t][n])
        /\ n = 2 \/ stage[t] = "correcting" =>
             CorrectionRetry /\ calls[t][1] \in {"malformed_output", "illegal_output"}

\* A request takes no longer than the deadline of its first call and the SDK's
\* limit of the correction together; without correction, the deadline holds.
ResolvedInTime ==
  \A t \in Turns :
    elapsed[t] <= DecisionTimeout + (IF CorrectionRetry THEN CallLimit ELSE 0)

\* A request that was taken up is decided, though the provider never answers.
RequestsAreDecided == \A t \in Turns : stage[t] \in Calling ~> stage[t] = "done"

\* What the documentation says of the configuration: "`decision_timeout_ms`
\* controls the per-turn decision deadline".  The correction call runs outside
\* asyncio.timeout; the mod has then fallen back already.
ResolvedByDeadline == \A t \in Turns : elapsed[t] <= DecisionTimeout

\* What the documentation says of the mode: it "replays the last valid
\* decision if still legal".  No adapter hands the decision on.
LastValidReplayed ==
  [][FallbackMode = "last_valid_replayable" =>
       \A t \in DOMAIN request :
         LET prior == lastValid[request[t].player]
         IN  /\ stage[t] # "done" /\ stage'[t] = "done"
             /\ decision'[t].reason # "none" /\ prior \in request[t].legal
             => decision'[t].action = prior]_vars
=============================================================================
