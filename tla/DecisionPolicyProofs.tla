------------------------ MODULE DecisionPolicyProofs ------------------------
(***************************************************************************)
(* Proofs about DecisionPolicy for every value of its constants.           *)
(***************************************************************************)
EXTENDS DecisionPolicy, TLAPS

Corrected == {"malformed_output", "illegal_output"}

\* What the calls of a turn have come to, by the stage it is in.
CallsTell(s, c, d) ==
  /\ s \in {"none", "initial"} => c = <<>>
  /\ s = "correcting" => CorrectionRetry /\ \E r \in Corrected : c = <<r>>
  /\ s = "done" =>
       \E o \in Outcomes :
         /\ d.reason = ReasonOf(o)
         /\ \/ c = <<o>>
            \/ CorrectionRetry /\ \E r \in Corrected : c = <<r, o>>

\* How the two clocks of a turn relate, by the stage it is in.
ClocksTell(s, e, a) ==
  /\ s = "none" => e = 0 /\ a = 0
  /\ s = "initial" => e = a /\ e <= DecisionTimeout
  /\ s = "correcting" => CorrectionRetry /\ e <= DecisionTimeout + a
  /\ e <= DecisionTimeout + (IF CorrectionRetry THEN CallLimit ELSE 0)

Numbered  == \A t \in Turns : stage[t] = "none" <=> t > Len(request)
Accounted == \A t \in Turns : CallsTell(stage[t], calls[t], decision[t])
Timed     == \A t \in Turns : ClocksTell(stage[t], elapsed[t], callAge[t])

\* The inductive invariant.
IInv == TypeOK /\ Numbered /\ Accounted /\ Timed /\ DecisionIsLegal

-----------------------------------------------------------------------------
\* A fallback takes an action of the request, whichever the mode.
LEMMA FallbackIsLegal ==
  ASSUME TypeOK, NEW t \in DOMAIN request
  PROVE  FallbackActions(t, NoAction) \subseteq request[t].legal
BY DEF FallbackActions, Guards

\* The requests taken up are numbered within the bound.
LEMMA RequestsAreTurns ==
  ASSUME TypeOK
  PROVE  /\ request \in Seq(Requests) /\ Len(request) \in Nat
         /\ DOMAIN request = 1..Len(request) /\ DOMAIN request \subseteq Turns
<1>1. /\ request \in Seq(Requests) /\ Len(request) \in Nat
      /\ DOMAIN request = 1..Len(request) /\ Len(request) <= MaxRequests
  BY DEF TypeOK
<1> QED BY <1>1, ConfigAssumption DEF Turns

\* Appending to the empty sequence.
LEMMA AppendFirst ==
  ASSUME NEW S, NEW o \in S
  PROVE  Append(<<>>, o) = <<o>>
OBVIOUS

\* A second element.
LEMMA AppendSecond ==
  ASSUME NEW S, NEW r \in S, NEW o \in S
  PROVE  Append(<<r>>, o) = <<r, o>>
<1> DEFINE s == Append(<<r>>, o)
<1>1. s \in Seq(S) /\ Len(s) = 2
  OBVIOUS
<1>2. s[1] = r /\ s[2] = o
  OBVIOUS
<1>3. <<r, o>> \in Seq(S) /\ Len(<<r, o>>) = 2
  OBVIOUS
<1> HIDE DEF s
<1>4. s = <<r, o>>
  BY <1>1, <1>2, <1>3
<1> QED BY <1>4 DEF s

\* A turn in progress was taken up, and its legal actions are actions.
LEMMA CallingIsRequest ==
  ASSUME IInv, NEW t \in Turns, stage[t] \in Calling
  PROVE  /\ t \in DOMAIN request
         /\ request[t].player \in Players
         /\ request[t].legal \subseteq Actions
<1>1. request \in Seq(Requests) /\ Len(request) \in Nat /\ DOMAIN request = 1..Len(request)
  BY DEF IInv, TypeOK
<1>2. t \in DOMAIN request
  BY <1>1 DEF IInv, Numbered, Calling, Turns
<1>3. request[t] \in Requests
  BY <1>1, <1>2
<1> QED BY <1>2, <1>3, ActionsAssumption DEF Requests

\* A provider call's outcome is among the reasons, or none.
LEMMA ReasonTyped ==
  ASSUME NEW o \in Outcomes
  PROVE  ReasonOf(o) \in Reasons \cup {"none"}
BY DEF Outcomes, InvalidOutput, ReasonOf, Reasons

\* A further outcome continues the calls of a turn in progress.
LEMMA CallContinues ==
  ASSUME IInv, NEW t \in Turns, stage[t] \in Calling, NEW o \in Outcomes
  PROVE  /\ Append(calls[t], o) \in Seq(Outcomes)
         /\ \/ stage[t] = "initial" /\ Append(calls[t], o) = <<o>>
            \/ /\ CorrectionRetry
               /\ \E r \in Corrected : Append(calls[t], o) = <<r, o>>
<1>1. calls[t] \in Seq(Outcomes)
  BY DEF IInv, TypeOK
<1>2. CallsTell(stage[t], calls[t], decision[t])
  BY DEF IInv, Accounted
<1>3. CASE stage[t] = "initial"
  <2>1. calls[t] = <<>>
    BY <1>2, <1>3 DEF CallsTell
  <2> QED BY <1>1, <1>3, <2>1
<1>4. CASE stage[t] = "correcting"
  <2>1. CorrectionRetry /\ \E r \in Corrected : calls[t] = <<r>>
    BY <1>2, <1>4 DEF CallsTell
  <2>2. PICK r \in Corrected : calls[t] = <<r>>
    BY <2>1
  <2>3. r \in Outcomes
    BY DEF Corrected, Outcomes, InvalidOutput
  <2>4. Append(calls[t], o) = <<r, o>>
    BY <2>2, <2>3, AppendSecond
  <2> QED BY <1>1, <2>1, <2>4
<1> QED BY <1>3, <1>4 DEF Calling

\* Resolving a turn in progress with an action of its request, for the reason
\* its last call gave, keeps the invariant.
LEMMA ResolvingIsSafe ==
  ASSUME IInv, NEW t \in Turns, stage[t] \in Calling, NEW o \in Outcomes,
         NEW a \in request[t].legal, Called(t, o), Resolve(t, a, ReasonOf(o))
  PROVE  IInv'
<1>1. /\ t \in DOMAIN request /\ request[t].player \in Players
      /\ a \in Actions
  BY CallingIsRequest
<1>2. ReasonOf(o) \in Reasons \cup {"none"}
  BY ReasonTyped
<1>3. Append(calls[t], o) \in Seq(Outcomes)
  BY CallContinues
<1> DEFINE d == [action |-> a, reason |-> ReasonOf(o)]
<1>4. /\ stage' = [stage EXCEPT ![t] = "done"]
      /\ decision' = [decision EXCEPT ![t] = d]
      /\ calls' = [calls EXCEPT ![t] = Append(calls[t], o)]
      /\ UNCHANGED <<request, elapsed, callAge>>
  BY DEF Called, Resolve
<1>5. TypeOK'
  <2>1. lastValid' \in [Players -> Actions \cup {NoAction}]
    BY <1>1 DEF Resolve, IInv, TypeOK
  <2>2. d \in [action : Actions \cup {NoAction}, reason : Reasons \cup {"none"}]
    BY <1>1, <1>2
  <2> QED BY <1>3, <1>4, <2>1, <2>2 DEF IInv, TypeOK
<1>6. Numbered'
  BY <1>4 DEF IInv, TypeOK, Numbered, Calling
<1>7. Accounted'
  <2>1. CallsTell("done", Append(calls[t], o), d)
    <3>1. d.reason = ReasonOf(o)
      OBVIOUS
    <3> HIDE DEF d
    <3> QED BY <3>1, CallContinues DEF CallsTell
  <2> HIDE DEF d
  <2>2. ASSUME NEW u \in Turns PROVE CallsTell(stage'[u], calls'[u], decision'[u])
    <3>1. CASE u = t
      BY <1>4, <2>1, <3>1 DEF IInv, TypeOK
    <3>2. CASE u # t
      BY <1>4, <3>2 DEF IInv, TypeOK, Accounted
    <3> QED BY <3>1, <3>2
  <2> QED BY <2>2 DEF Accounted
<1>8. Timed'
  BY <1>4 DEF IInv, TypeOK, Timed, ClocksTell, Calling
<1>9. DecisionIsLegal'
  <2>1. DOMAIN request \subseteq Turns
    BY RequestsAreTurns DEF IInv
  <2>2. d.action = a
    OBVIOUS
  <2> HIDE DEF d
  <2> QED BY <1>4, <2>1, <2>2 DEF IInv, TypeOK, DecisionIsLegal
<1> QED BY <1>5, <1>6, <1>7, <1>8, <1>9 DEF IInv

\* Falling back for an outcome other than "ok" is such a resolution.
LEMMA FallingBackIsSafe ==
  ASSUME IInv, NEW t \in Turns, stage[t] \in Calling, NEW o \in Outcomes,
         Called(t, o), FallBack(t, ReasonOf(o))
  PROVE  IInv'
<1>1. PICK a \in FallbackActions(t, NoAction) : Resolve(t, a, ReasonOf(o))
  BY DEF FallBack
<1>2. t \in DOMAIN request /\ TypeOK
  BY CallingIsRequest DEF IInv
<1>3. a \in request[t].legal
  BY <1>1, <1>2, FallbackIsLegal
<1> QED BY <1>1, <1>3, ResolvingIsSafe

-----------------------------------------------------------------------------
\* The invariant holds at the start of a session.
LEMMA InitSafe == Init => IInv
<1> SUFFICES ASSUME Init PROVE IInv
  OBVIOUS
<1>1. TypeOK
  BY ConfigAssumption DEF Init, TypeOK, Turns, Undecided, Calling
<1>2. Numbered /\ DecisionIsLegal
  BY DEF Init, Numbered, DecisionIsLegal, Turns
<1>3. Accounted
  BY DEF Init, Accounted, CallsTell
<1>4. Timed
  BY ConfigAssumption DEF Init, Timed, ClocksTell
<1> QED BY <1>1, <1>2, <1>3, <1>4 DEF IInv

\* A request that is taken up has made no call and spent no time.
LEMMA TakingUpIsSafe ==
  ASSUME IInv, TakeUp
  PROVE  IInv'
<1> DEFINE n == Len(request) + 1
<1>1. request \in Seq(Requests) /\ Len(request) \in Nat /\ n \in Turns
  <2>1. request \in Seq(Requests) /\ Len(request) \in Nat
    BY RequestsAreTurns DEF IInv
  <2> QED BY <2>1, ConfigAssumption DEF TakeUp, Turns
<1>2. PICK r \in Requests : request' = Append(request, r)
  BY DEF TakeUp
<1>3. /\ request' \in Seq(Requests) /\ Len(request') = n
      /\ \A t \in DOMAIN request : t \in DOMAIN request' /\ request'[t] = request[t]
      /\ DOMAIN request' = DOMAIN request \cup {n}
  BY <1>1, <1>2
<1>4. /\ stage' = [stage EXCEPT ![n] = "initial"]
      /\ UNCHANGED <<elapsed, callAge, calls, decision, lastValid>>
  BY DEF TakeUp
<1>5. stage[n] = "none" /\ stage \in [Turns -> Calling \cup {"none", "done"}]
  BY <1>1 DEF IInv, TypeOK, Numbered
<1>6. n <= MaxRequests
  BY <1>1, ConfigAssumption DEF Turns
<1> HIDE DEF n
<1>7. TypeOK'
  BY <1>1, <1>3, <1>4, <1>6 DEF IInv, TypeOK, Calling
<1>8. Numbered'
  <2>1. n = Len(request) + 1
    BY DEF n
  <2> QED BY <1>1, <1>3, <1>4, <1>5, <2>1 DEF IInv, Numbered, Turns
<1>9. Accounted'
  BY <1>4, <1>5 DEF IInv, Accounted, CallsTell
<1>10. Timed'
  BY <1>4, <1>5, ConfigAssumption DEF IInv, Timed, ClocksTell
<1>11. DecisionIsLegal'
  <2>1. DOMAIN request \subseteq Turns
    BY RequestsAreTurns DEF IInv
  <2> QED BY <1>1, <1>3, <1>4, <1>5, <2>1 DEF IInv, DecisionIsLegal
<1> QED BY <1>7, <1>8, <1>9, <1>10, <1>11 DEF IInv

\* A correction is a second call, with a clock of its own.
LEMMA CorrectingIsSafe ==
  ASSUME IInv, NEW t \in Turns, stage[t] \in Calling, NEW r \in Corrected,
         CanRetry(t, r), Called(t, r),
         stage' = [stage EXCEPT ![t] = "correcting"],
         callAge' = [callAge EXCEPT ![t] = 0],
         UNCHANGED <<request, elapsed, decision, lastValid>>
  PROVE  IInv'
<1>1. CorrectionRetry /\ stage[t] = "initial"
  BY DEF CanRetry
<1>2. r \in Outcomes
  BY DEF Corrected, Outcomes, InvalidOutput
<1>3. Append(calls[t], r) \in Seq(Outcomes)
  BY <1>2, CallContinues
<1>4. Append(calls[t], r) = <<r>>
  <2>1. calls[t] = <<>>
    BY <1>1 DEF IInv, Accounted, CallsTell
  <2> QED BY <1>2, <2>1, AppendFirst
<1>5. calls' = [calls EXCEPT ![t] = Append(calls[t], r)]
  BY DEF Called
<1>6. TypeOK'
  BY <1>3, <1>5, ConfigAssumption DEF IInv, TypeOK, Calling
<1>7. Numbered'
  BY DEF IInv, TypeOK, Numbered, Calling
<1>8. Accounted'
  <2>1. CallsTell("correcting", <<r>>, decision[t])
    BY <1>1 DEF CallsTell
  <2>2. ASSUME NEW u \in Turns PROVE CallsTell(stage'[u], calls'[u], decision'[u])
    <3>1. CASE u = t
      BY <1>4, <1>5, <2>1, <3>1 DEF IInv, TypeOK
    <3>2. CASE u # t
      BY <1>5, <3>2 DEF IInv, TypeOK, Accounted
    <3> QED BY <3>1, <3>2
  <2> QED BY <2>2 DEF Accounted
<1>9. Timed'
  <2>1. elapsed[t] \in Nat /\ elapsed[t] <= DecisionTimeout
    BY <1>1 DEF IInv, TypeOK, Timed, ClocksTell
  <2>2. ClocksTell("correcting", elapsed[t], 0)
    BY <1>1, <2>1, ConfigAssumption DEF ClocksTell
  <2>3. ASSUME NEW u \in Turns PROVE ClocksTell(stage'[u], elapsed'[u], callAge'[u])
    <3>1. CASE u = t
      BY <2>2, <3>1 DEF IInv, TypeOK
    <3>2. CASE u # t
      BY <3>2 DEF IInv, TypeOK, Timed
    <3> QED BY <3>1, <3>2
  <2> QED BY <2>3 DEF Timed
<1>10. DecisionIsLegal'
  <2>1. DOMAIN request \subseteq Turns
    BY RequestsAreTurns DEF IInv
  <2> QED BY <2>1 DEF IInv, TypeOK, DecisionIsLegal
<1> QED BY <1>6, <1>7, <1>8, <1>9, <1>10 DEF IInv

\* While a call is in progress and no timer is due, time may pass.
LEMMA WaitingIsSafe ==
  ASSUME IInv, TimePasses
  PROVE  IInv'
<1>1. UNCHANGED <<request, stage, calls, decision, lastValid>>
  BY DEF TimePasses
<1>2. ASSUME NEW t \in Turns
      PROVE  /\ elapsed'[t] \in 0..(DecisionTimeout + CallLimit)
             /\ callAge'[t] \in 0..CallLimit
             /\ ClocksTell(stage[t], elapsed'[t], callAge'[t])
  <2>1. /\ elapsed[t] \in 0..(DecisionTimeout + CallLimit)
        /\ callAge[t] \in 0..CallLimit
        /\ ClocksTell(stage[t], elapsed[t], callAge[t])
    BY DEF IInv, TypeOK, Timed
  <2>2. CASE stage[t] \in Calling
    <3>1. elapsed'[t] = elapsed[t] + 1 /\ callAge'[t] = callAge[t] + 1
      BY <2>2 DEF TimePasses
    <3>2. /\ ~(stage[t] = "initial" /\ elapsed[t] >= DecisionTimeout)
          /\ ~(callAge[t] >= CallLimit)
      BY <2>2 DEF TimePasses, TimerDue
    <3>3. DecisionTimeout \in Nat /\ CallLimit \in Nat
      BY ConfigAssumption
    <3>4. CASE stage[t] = "initial"
      BY <2>1, <3>1, <3>2, <3>3, <3>4 DEF ClocksTell
    <3>5. CASE stage[t] = "correcting"
      BY <2>1, <3>1, <3>2, <3>3, <3>5 DEF ClocksTell
    <3> QED BY <2>2, <3>4, <3>5 DEF Calling
  <2>3. CASE stage[t] \notin Calling
    BY <2>1, <2>3 DEF TimePasses
  <2> QED BY <2>2, <2>3
<1>3. TypeOK'
  <2>1. /\ elapsed' \in [Turns -> 0..(DecisionTimeout + CallLimit)]
        /\ callAge' \in [Turns -> 0..CallLimit]
    BY <1>2 DEF TimePasses
  <2> QED BY <1>1, <2>1 DEF IInv, TypeOK
<1>4. Timed'
  BY <1>1, <1>2 DEF Timed
<1>5. Numbered' /\ Accounted' /\ DecisionIsLegal'
  BY <1>1 DEF IInv, Numbered, Accounted, DecisionIsLegal
<1> QED BY <1>3, <1>4, <1>5 DEF IInv

\* Whatever a provider call comes to keeps the invariant.
LEMMA CallsAreSafe ==
  ASSUME IInv, NEW t \in Turns,
         \/ \E out \in Outputs : ProviderAnswers(t, out)
         \/ ConnectionFails(t) \/ ProviderFails(t)
         \/ SdkGivesUp(t) \/ DeadlinePasses(t)
  PROVE  IInv'
<1>1. stage[t] \in Calling
  BY DEF ProviderAnswers, ConnectionFails, ProviderFails, SdkGivesUp,
         DeadlinePasses, Calling
<1>2. ASSUME NEW out \in Outputs, ProviderAnswers(t, out) PROVE IInv'
  <2> DEFINE v == Verdict(t, out)
  <2>1. /\ Called(t, v)
        /\ IF v = "ok" THEN Resolve(t, out.action, "none")
           ELSE IF CanRetry(t, v)
           THEN /\ stage' = [stage EXCEPT ![t] = "correcting"]
                /\ callAge' = [callAge EXCEPT ![t] = 0]
                /\ UNCHANGED <<request, elapsed, decision, lastValid>>
           ELSE FallBack(t, v)
    BY <1>2 DEF ProviderAnswers
  <2>2. v \in InvalidOutput \cup {"ok"}
    BY DEF Verdict, Outputs, Details, InvalidOutput
  <2>3. v = "ok" => out.action \in request[t].legal
    BY DEF Verdict
  <2> HIDE DEF v
  <2>4. CASE v = "ok"
    <3>1. "ok" \in Outcomes /\ ReasonOf("ok") = "none"
      BY DEF Outcomes, ReasonOf
    <3>2. Called(t, "ok") /\ Resolve(t, out.action, ReasonOf("ok"))
      BY <2>1, <2>4, <3>1
    <3> QED BY <1>1, <2>3, <2>4, <3>1, <3>2, ResolvingIsSafe
  <2>5. CASE v # "ok" /\ CanRetry(t, v)
    <3>1. v \in Corrected
      BY <2>5 DEF CanRetry, Corrected
    <3> QED BY <1>1, <2>1, <2>5, <3>1, CorrectingIsSafe
  <2>6. CASE v # "ok" /\ ~CanRetry(t, v)
    <3>1. v \in Outcomes /\ ReasonOf(v) = v
      BY <2>2, <2>6 DEF Outcomes, ReasonOf, InvalidOutput
    <3>2. Called(t, v) /\ FallBack(t, ReasonOf(v))
      BY <2>1, <2>6, <3>1
    <3> QED BY <1>1, <3>1, <3>2, FallingBackIsSafe
  <2> QED BY <2>4, <2>5, <2>6
<1>3. CASE ConnectionFails(t)
  <2>1. "connection" \in Outcomes /\ ReasonOf("connection") = "disconnect"
    BY DEF Outcomes, ReasonOf
  <2>2. Called(t, "connection") /\ FallBack(t, ReasonOf("connection"))
    BY <1>3, <2>1 DEF ConnectionFails
  <2> QED BY <1>1, <2>1, <2>2, FallingBackIsSafe
<1>4. CASE ProviderFails(t)
  <2>1. "error" \in Outcomes /\ ReasonOf("error") = "malformed_output"
    BY DEF Outcomes, ReasonOf
  <2>2. Called(t, "error") /\ FallBack(t, ReasonOf("error"))
    BY <1>4, <2>1 DEF ProviderFails
  <2> QED BY <1>1, <2>1, <2>2, FallingBackIsSafe
<1>5. CASE SdkGivesUp(t)
  <2>1. "given up" \in Outcomes /\ ReasonOf("given up") = "disconnect"
    BY DEF Outcomes, ReasonOf
  <2>2. Called(t, "given up") /\ FallBack(t, ReasonOf("given up"))
    BY <1>5, <2>1 DEF SdkGivesUp
  <2> QED BY <1>1, <2>1, <2>2, FallingBackIsSafe
<1>6. CASE DeadlinePasses(t)
  <2>1. "timeout" \in Outcomes /\ ReasonOf("timeout") = "timeout"
    BY DEF Outcomes, ReasonOf
  <2>2. Called(t, "timeout") /\ FallBack(t, ReasonOf("timeout"))
    BY <1>6, <2>1 DEF DeadlinePasses
  <2> QED BY <1>1, <2>1, <2>2, FallingBackIsSafe
<1> QED BY <1>2, <1>3, <1>4, <1>5, <1>6

\* Every step keeps the invariant.
LEMMA NextSafe == IInv /\ [Next]_vars => IInv'
<1> SUFFICES ASSUME IInv, [Next]_vars PROVE IInv'
  OBVIOUS
<1>1. CASE TakeUp
  BY <1>1, TakingUpIsSafe
<1>2. ASSUME NEW t \in Turns,
             \/ \E out \in Outputs : ProviderAnswers(t, out)
             \/ ConnectionFails(t) \/ ProviderFails(t)
             \/ SdkGivesUp(t) \/ DeadlinePasses(t)
      PROVE  IInv'
  BY <1>2, CallsAreSafe
<1>3. CASE TimePasses
  BY <1>3, WaitingIsSafe
<1>4. CASE UNCHANGED vars
  BY <1>4 DEF vars, IInv, TypeOK, Numbered, Accounted, Timed, DecisionIsLegal
<1> QED BY <1>1, <1>2, <1>3, <1>4 DEF Next, Quiet

\* Every reachable state satisfies the invariant.
LEMMA Safety == Spec => []IInv
BY InitSafe, NextSafe, PTL DEF Spec

-----------------------------------------------------------------------------
\* Every variable keeps its type, for any bounds and configuration.
THEOREM TypesHold == Spec => []TypeOK
<1>1. IInv => TypeOK
  BY DEF IInv
<1> QED BY <1>1, Safety, PTL

\* Whatever the provider does, the daemon answers with a legal action.
THEOREM DecisionsAreLegal == Spec => []DecisionIsLegal
<1>1. IInv => DecisionIsLegal
  BY DEF IInv
<1> QED BY <1>1, Safety, PTL

\* The reason code names what the last call came to, and there is at most one
\* correction.
THEOREM ReasonsTellCauses == Spec => []ReasonTellsCause
<1>1. IInv => ReasonTellsCause
  <2> SUFFICES ASSUME IInv, NEW t \in DOMAIN request
               PROVE  LET n == Len(calls[t])
                      IN  /\ stage[t] = "done" =>
                               n \in 1..2 /\ decision[t].reason = ReasonOf(calls[t][n])
                          /\ n = 2 \/ stage[t] = "correcting" =>
                               CorrectionRetry /\ calls[t][1] \in Corrected
    BY DEF ReasonTellsCause, Corrected
  <2>1. t \in Turns
    BY RequestsAreTurns DEF IInv
  <2>2. CallsTell(stage[t], calls[t], decision[t])
    BY <2>1 DEF IInv, Accounted
  <2>3. stage[t] \in {"none", "initial", "correcting", "done"}
    BY <2>1 DEF IInv, TypeOK, Calling
  <2>4. CASE stage[t] \in {"none", "initial"}
    <3>1. calls[t] = <<>>
      BY <2>2, <2>4 DEF CallsTell
    <3> QED BY <2>4, <3>1
  <2>5. CASE stage[t] = "correcting"
    <3>1. PICK r \in Corrected : calls[t] = <<r>>
      BY <2>2, <2>5 DEF CallsTell
    <3>2. CorrectionRetry
      BY <2>2, <2>5 DEF CallsTell
    <3> QED BY <2>5, <3>1, <3>2
  <2>6. CASE stage[t] = "done"
    <3>1. PICK o \in Outcomes :
            /\ decision[t].reason = ReasonOf(o)
            /\ \/ calls[t] = <<o>>
               \/ CorrectionRetry /\ \E r \in Corrected : calls[t] = <<r, o>>
      BY <2>2, <2>6 DEF CallsTell
    <3>2. CASE calls[t] = <<o>>
      BY <2>6, <3>1, <3>2
    <3>3. CASE CorrectionRetry /\ \E r \in Corrected : calls[t] = <<r, o>>
      <4>1. PICK r \in Corrected : calls[t] = <<r, o>>
        BY <3>3
      <4>2. Len(calls[t]) = 2 /\ calls[t][1] = r /\ calls[t][2] = o
        BY <4>1
      <4> QED BY <2>6, <3>1, <3>3, <4>2
    <3> QED BY <3>1, <3>2, <3>3
  <2> QED BY <2>3, <2>4, <2>5, <2>6
<1> QED BY <1>1, Safety, PTL

\* No request takes longer than the deadline of its first call and the limit
\* of its correction together.
THEOREM DecisionsComeInTime == Spec => []ResolvedInTime
<1>1. IInv => ResolvedInTime
  BY DEF IInv, Timed, ClocksTell, ResolvedInTime
<1> QED BY <1>1, Safety, PTL
=============================================================================
