--------------------------- MODULE TurnHookProofs ---------------------------
(***************************************************************************)
(* Proofs about TurnHook for every value of its constants: its invariants, *)
(* that it implements TurnContract, and that its records agree.            *)
(***************************************************************************)
EXTENDS TurnHook, WellFoundedInduction, TLAPS

Settlement(r) == IF r = "DecisionApplied"
                 THEN <<"TurnRequested", "DecisionReceived", "DecisionApplied">>
                 ELSE <<"TurnRequested", r>>

\* The match is over exactly when the game says so, the hook handles signals
\* only of a game it is attached to, and nothing happens before there is one.
Lifecycle ==
  /\ matchEnded <=> phase = "won"
  /\ gameConnected => phase # "absent"
  /\ attachCheck => gameConnected
  /\ phase = "absent" => awaiting = {} /\ queued = [p \in Players |-> NoAction]

\* The game does not wait for a fighter that was handed an action.
HandedIsNotAwaited == \A p \in Players : queued[p] # NoAction => p \notin awaiting

\* What was emitted for a turn tells whether it is still to come, open,
\* abandoned at the end of the match, or settled in one of the known ways.
EmittedTells ==
  \A t \in Turns :
    /\ t > turnId => t \notin pending /\ telemetry[t] = <<>>
    /\ t \in pending => telemetry[t] = <<"TurnRequested">>
    /\ t <= turnId /\ t \notin pending =>
         \/ matchEnded /\ telemetry[t] = <<"TurnRequested">>
         \/ \E r \in Resolutions : telemetry[t] = Settlement(r)

\* The inductive invariant.
IInv == /\ TypeOK
        /\ PendingIsCurrent
        /\ OneOpenRequest
        /\ HandedActionIsLegal
        /\ Lifecycle
        /\ HandedIsNotAwaited
        /\ EmittedTells


\* The players of ps are given new numbers, one each, in 1..MaxTurns.
LEMMA NextTurnFresh ==
  ASSUME turnId \in Nat, NEW ps \in SUBSET Players, NEW p \in ps
  PROVE  /\ NextTurn(p, ps) \in Nat
         /\ NextTurn(p, ps) > turnId
         /\ NextTurn(p, ps) <= turnId + (IF "p1" \in ps THEN 1 ELSE 0)
                                      + (IF "p2" \in ps THEN 1 ELSE 0)
         /\ \A q \in ps : NextTurn(q, ps) = NextTurn(p, ps) => q = p
BY DEF NextTurn, Players

\* What the loop of _on_player_actionable does to the requests.
LEMMA SendRequestsEffect ==
  ASSUME TypeOK, NEW ps \in SUBSET Players, SendRequests(ps)
  PROVE  /\ turnId' \in 0..MaxTurns
         /\ turnId' >= turnId
         /\ sent' \in [Turns -> Requests]
         /\ pending' \in SUBSET Turns
         /\ age' \in [Turns -> 0..DecisionTimeout]
         /\ telemetry' \in [Turns -> Seq(EventKinds)]
         /\ \A t \in Turns : t <= turnId => sent'[t] = sent[t]
         /\ pending \subseteq pending'
         /\ \A t \in pending' \ pending :
              /\ t > turnId /\ t <= turnId'
              /\ sent'[t].player \in ps /\ sent'[t].tick = tick
         /\ \A t, u \in pending' \ pending :
              sent'[t].player = sent'[u].player => t = u
         /\ \A t \in Turns : t > turnId /\ t <= turnId' => t \in pending'
         /\ (\A t \in pending : t <= turnId) =>
              \A t \in Turns :
                /\ telemetry'[t] = IF t \in pending' \ pending
                                   THEN Append(telemetry[t], "TurnRequested")
                                   ELSE telemetry[t]
                /\ t \notin pending' \ pending => sent'[t] = sent[t]
<1> DEFINE new == {NextTurn(p, ps) : p \in ps}
           who(t) == CHOOSE q \in ps : NextTurn(q, ps) = t
<1>1. turnId \in Nat /\ turnId <= MaxTurns /\ MaxTurns \in Nat
  BY ConfigAssumption DEF TypeOK
<1>2. \A p \in ps : NextTurn(p, ps) \in new /\ NextTurn(p, ps) <= MaxTurns
  BY DEF SendRequests
<1>3. \A p \in ps : /\ NextTurn(p, ps) \in Turns
                    /\ NextTurn(p, ps) > turnId
                    /\ who(NextTurn(p, ps)) = p
  <2> TAKE p \in ps
  <2>1. NextTurn(p, ps) \in Nat /\ NextTurn(p, ps) > turnId
    BY <1>1, NextTurnFresh
  <2>2. \A q \in ps : NextTurn(q, ps) = NextTurn(p, ps) => q = p
    BY <1>1, NextTurnFresh
  <2>3. who(NextTurn(p, ps)) = p
    BY <2>2
  <2> QED BY <1>1, <1>2, <2>1, <2>3 DEF Turns
<1>4. \A t \in new : t \in Turns /\ t > turnId /\ who(t) \in ps /\ NextTurn(who(t), ps) = t
  BY <1>3
<1>5. new \subseteq Turns
  BY <1>4
<1>6. turnId' = turnId + (IF "p1" \in ps THEN 1 ELSE 0) + (IF "p2" \in ps THEN 1 ELSE 0)
  BY DEF SendRequests
<1>7. \A t \in new : t <= turnId'
  BY <1>1, <1>6, NextTurnFresh
<1>8. turnId' \in 0..MaxTurns /\ turnId' >= turnId
  <2>1. CASE ps = {}
    BY <2>1, <1>1, <1>6
  <2>2. CASE "p1" \in ps /\ "p2" \in ps
    BY <2>2, <1>1, <1>2, <1>6 DEF NextTurn
  <2>3. CASE "p1" \in ps /\ "p2" \notin ps
    BY <2>3, <1>1, <1>2, <1>6 DEF NextTurn
  <2>4. CASE "p1" \notin ps /\ "p2" \in ps
    BY <2>4, <1>1, <1>2, <1>6 DEF NextTurn
  <2> QED BY <2>1, <2>2, <2>3, <2>4 DEF Players
<1>9. PICK legal \in [ps -> LegalSets] :
        sent' = [t \in Turns |->
          IF t \in new THEN [player |-> who(t), tick |-> tick, legal |-> legal[who(t)]]
                       ELSE sent[t]]
  BY DEF SendRequests
<1>10. \A t \in new : sent'[t] = [player |-> who(t), tick |-> tick, legal |-> legal[who(t)]]
  BY <1>5, <1>9
<1>11. sent' \in [Turns -> Requests]
  <2>1. \A t \in new : [player |-> who(t), tick |-> tick, legal |-> legal[who(t)]] \in Requests
    <3> TAKE t \in new
    <3>1. who(t) \in Players /\ legal[who(t)] \in LegalSets /\ tick \in 0..MatchLength
      BY <1>4 DEF TypeOK
    <3> HIDE DEF who
    <3> QED BY <3>1 DEF Requests
  <2> HIDE DEF new, who
  <2> QED BY <1>9, <2>1 DEF TypeOK
<1>12. pending' = pending \cup new
  BY DEF SendRequests
<1>13. age' \in [Turns -> 0..DecisionTimeout]
  <2> HIDE DEF new
  <2>1. age' = [t \in Turns |-> IF t \in new THEN 0 ELSE age[t]]
    BY DEF SendRequests, new
  <2> QED BY <2>1, ConfigAssumption DEF TypeOK
<1>14. telemetry' \in [Turns -> Seq(EventKinds)]
  <2>1. telemetry' = [t \in Turns |-> IF t \in new THEN Append(telemetry[t], "TurnRequested")
                                                  ELSE telemetry[t]]
    BY DEF SendRequests
  <2>2. "TurnRequested" \in EventKinds
    BY DEF EventKinds
  <2> HIDE DEF new
  <2> QED BY <2>1, <2>2 DEF TypeOK
<1>15. \A t \in Turns : t <= turnId => sent'[t] = sent[t]
  <2> SUFFICES ASSUME NEW t \in Turns, t <= turnId PROVE sent'[t] = sent[t]
    OBVIOUS
  <2>1. t \notin new
    BY <1>1, <1>4 DEF Turns
  <2> HIDE DEF new, who
  <2> QED BY <1>9, <2>1
<1>16. \A t \in pending' \ pending :
         /\ t > turnId /\ t <= turnId'
         /\ sent'[t].player \in ps /\ sent'[t].tick = tick
  <2> SUFFICES ASSUME NEW t \in new
               PROVE  /\ t > turnId /\ t <= turnId'
                      /\ sent'[t].player \in ps /\ sent'[t].tick = tick
    BY <1>12
  <2>1. t > turnId /\ t <= turnId' /\ who(t) \in ps
    BY <1>4, <1>7
  <2>2. sent'[t] = [player |-> who(t), tick |-> tick, legal |-> legal[who(t)]]
    BY <1>10
  <2> HIDE DEF new, who
  <2> QED BY <2>1, <2>2
<1>17. \A t, u \in pending' \ pending : sent'[t].player = sent'[u].player => t = u
  <2> SUFFICES ASSUME NEW t \in new, NEW u \in new, sent'[t].player = sent'[u].player
               PROVE  t = u
    BY <1>12
  <2>1. sent'[t].player = who(t) /\ sent'[u].player = who(u)
    <3>1. /\ sent'[t] = [player |-> who(t), tick |-> tick, legal |-> legal[who(t)]]
          /\ sent'[u] = [player |-> who(u), tick |-> tick, legal |-> legal[who(u)]]
      BY <1>10
    <3> HIDE DEF new, who
    <3> QED BY <3>1
  <2>2. NextTurn(who(t), ps) = t /\ NextTurn(who(u), ps) = u
    BY <1>4
  <2> HIDE DEF new, who
  <2> QED BY <2>1, <2>2
<1>18. \A t \in Turns : t > turnId /\ t <= turnId' => t \in new
  <2> SUFFICES ASSUME NEW t \in Turns, t > turnId, t <= turnId'
               PROVE  \E p \in ps : t = NextTurn(p, ps)
    OBVIOUS
  <2>1. t \in Nat
    BY DEF Turns
  <2> QED BY <1>1, <1>6, <2>1 DEF NextTurn, Players
<1>19. (\A t \in pending : t <= turnId) =>
         \A t \in Turns :
           /\ telemetry'[t] = IF t \in pending' \ pending
                              THEN Append(telemetry[t], "TurnRequested")
                              ELSE telemetry[t]
           /\ t \notin pending' \ pending => sent'[t] = sent[t]
  <2> SUFFICES ASSUME \A t \in pending : t <= turnId, NEW t \in Turns
               PROVE  /\ telemetry'[t] = IF t \in pending' \ pending
                                         THEN Append(telemetry[t], "TurnRequested")
                                         ELSE telemetry[t]
                      /\ t \notin pending' \ pending => sent'[t] = sent[t]
    OBVIOUS
  <2>1. telemetry'[t] = IF t \in new THEN Append(telemetry[t], "TurnRequested")
                                     ELSE telemetry[t]
    BY DEF SendRequests
  <2>2. t \in new <=> t \in pending' \ pending
    <3>1. \A u \in new : ~ (u <= turnId)
      BY <1>1, <1>4 DEF Turns
    <3> HIDE DEF new
    <3> QED BY <1>12, <3>1
  <2>3. t \notin new => sent'[t] = sent[t]
    <3> HIDE DEF new, who
    <3> QED BY <1>9
  <2> HIDE DEF new
  <2> QED BY <2>1, <2>2, <2>3
<1> HIDE DEF new, who
<1> QED BY <1>5, <1>8, <1>11, <1>12, <1>13, <1>14, <1>15, <1>16, <1>17, <1>18, <1>19
        DEF TypeOK

-----------------------------------------------------------------------------
(* The other helpers *)

\* A fallback takes an action the request offered, or none.
LEMMA FallbackIsLegal ==
  ASSUME TypeOK, NEW t \in Turns, NEW a \in FallbackChoices(t)
  PROVE  a = NoAction \/ a \in sent[t].legal
BY DEF FallbackChoices, Guards

\* Handing actions over: a fighter keeps what it has, or is handed an action
\* of its own request and is no longer awaited.
LEMMA ApplyActionsEffect ==
  ASSUME TypeOK, PendingIsCurrent, OneOpenRequest, NEW ts \in SUBSET pending,
         NEW act \in [ts -> Actions \cup {NoAction}],
         \A t \in ts : act[t] = NoAction \/ act[t] \in sent[t].legal,
         ApplyActions(act)
  PROVE  /\ queued' \in [Players -> Actions \cup {NoAction}]
         /\ awaiting' \in SUBSET awaiting
         /\ \A p \in awaiting : (\A t \in ts : sent[t].player # p) => p \in awaiting'
         /\ \A p \in Players :
              \/ queued'[p] = queued[p]
              \/ /\ p \in awaiting /\ p \notin awaiting'
                 /\ \E t \in ts : sent[t].player = p /\ queued'[p] \in sent[t].legal
<1> DEFINE took(p) == {t \in ts : sent[t].player = p /\ act[t] # NoAction}
<1>1. /\ queued' = [p \in Players |-> IF took(p) = {} THEN queued[p]
                                     ELSE act[CHOOSE t \in took(p) : TRUE]]
      /\ awaiting' = {p \in awaiting : took(p) = {}}
  BY DEF ApplyActions
<1>2. \A p \in Players : took(p) # {} =>
        \E t \in took(p) : (CHOOSE u \in took(p) : TRUE) = t
  OBVIOUS
<1>3. \A p \in Players : \A t \in took(p) :
        /\ t \in ts /\ sent[t].player = p /\ p \in awaiting
        /\ act[t] \in Actions \cup {NoAction} /\ act[t] \in sent[t].legal
  BY DEF PendingIsCurrent
<1>4. \A p \in Players : took(p) # {} <=> \E t \in ts : sent[t].player = p /\ act[t] # NoAction
  OBVIOUS
<1>5. queued \in [Players -> Actions \cup {NoAction}] /\ awaiting \subseteq Players
  BY DEF TypeOK
<1> HIDE DEF took
<1>6. \A p \in Players : queued'[p] \in Actions \cup {NoAction}
  BY <1>1, <1>2, <1>3, <1>5
<1>7. \A p \in Players :
        \/ queued'[p] = queued[p]
        \/ /\ p \in awaiting /\ p \notin awaiting'
           /\ \E t \in ts : sent[t].player = p /\ queued'[p] \in sent[t].legal
  <2> TAKE p \in Players
  <2>1. CASE took(p) = {}
    BY <2>1, <1>1
  <2>2. CASE took(p) # {}
    <3>1. PICK t \in took(p) : (CHOOSE u \in took(p) : TRUE) = t
      BY <2>2, <1>2
    <3>2. queued'[p] = act[t]
      BY <2>2, <3>1, <1>1
    <3> QED BY <2>2, <3>2, <1>1, <1>3
  <2> QED BY <2>1, <2>2
<1> QED BY <1>1, <1>4, <1>5, <1>6, <1>7

\* Enriching and recording keep the history a history.
LEMMA EnrichTyped ==
  ASSUME TypeOK, EnrichLast
  PROVE  history' \in [1..MatchLength -> Entries]
<1>1. /\ tick \in 0..MatchLength
      /\ history \in [1..MatchLength -> Entries]
  BY DEF TypeOK
<1>2. \A k \in 1..MatchLength : [history[k] EXCEPT !.outcome = tick] \in Entries
  BY <1>1 DEF Entries
<1> QED BY <1>1, <1>2 DEF EnrichLast

\* Recording how the players acted at this tick keeps the history a history.
LEMMA RecordTyped ==
  ASSUME TypeOK, NEW ts, NEW how \in {"decision", "fallback"}, RecordDecisions(ts, how)
  PROVE  history' \in [1..MatchLength -> Entries]
<1> DEFINE new(k) == [acted |-> [p \in Players |-> IF \E t \in ts : sent[t].player = p
                                                  THEN how ELSE history[k].acted[p]],
                      outcome |-> 0]
<1>1. history \in [1..MatchLength -> Entries] /\ 0 \in 0..MatchLength
  BY ConfigAssumption DEF TypeOK
<1>2. \A k \in 1..MatchLength : new(k) \in Entries
  <2> TAKE k \in 1..MatchLength
  <2>1. history[k].acted \in [Players -> {"none", "decision", "fallback"}]
    BY <1>1 DEF Entries
  <2>2. [p \in Players |-> IF \E t \in ts : sent[t].player = p
                           THEN how ELSE history[k].acted[p]]
          \in [Players -> {"none", "decision", "fallback"}]
    BY <2>1
  <2> QED BY <1>1, <2>2 DEF Entries
<1>3. history' = [k \in 1..MatchLength |-> IF k = tick /\ ts # {} THEN new(k) ELSE history[k]]
  BY DEF RecordDecisions
<1> HIDE DEF new
<1> QED BY <1>1, <1>2, <1>3

-----------------------------------------------------------------------------
(* What the two kinds of handlers do to the invariant *)

\* The parts of the invariant other than the types.
Safe == /\ PendingIsCurrent
        /\ OneOpenRequest
        /\ HandedActionIsLegal
        /\ Lifecycle
        /\ HandedIsNotAwaited
        /\ EmittedTells

\* The numbers in use: pending requests have been issued.
LEMMA PendingIssued ==
  ASSUME TypeOK, EmittedTells
  PROVE  /\ turnId \in Nat /\ turnId <= MaxTurns /\ MaxTurns \in Nat
         /\ Turns \subseteq Nat /\ pending \subseteq Turns
         /\ \A t \in pending : t <= turnId /\ t \in 1..turnId
<1>1. turnId \in Nat /\ turnId <= MaxTurns /\ MaxTurns \in Nat /\ pending \subseteq Turns
  BY ConfigAssumption DEF TypeOK
<1>2. \A t \in Turns : t \in Nat /\ t >= 1
  BY DEF Turns
<1>3. \A t \in pending : ~(t > turnId)
  BY <1>1 DEF EmittedTells
<1> QED BY <1>1, <1>2, <1>3

\* Asking the players that have no request open keeps the invariant.
LEMMA AskingIsSafe ==
  ASSUME IInv, ~matchEnded, OnPlayerActionable, awaiting # {},
         phase' = phase, tick' = tick, awaiting' = awaiting, queued' = queued,
         gameConnected' = gameConnected, attachCheck' => attachCheck,
         matchEnded' = matchEnded
  PROVE  Safe'
<1> DEFINE ps == {p \in awaiting : ~HasPending(p)}
<1>1. ps \in SUBSET Players /\ SendRequests(ps)
  BY DEF OnPlayerActionable, IInv, TypeOK
<1> HIDE DEF ps
<1>2. /\ turnId' \in 0..MaxTurns /\ turnId' >= turnId
      /\ \A t \in Turns : t <= turnId => sent'[t] = sent[t]
      /\ pending' \in SUBSET Turns /\ pending \subseteq pending'
      /\ \A t \in pending' \ pending :
           /\ t > turnId /\ t <= turnId'
           /\ sent'[t].player \in ps /\ sent'[t].tick = tick
      /\ \A t, u \in pending' \ pending : sent'[t].player = sent'[u].player => t = u
      /\ \A t \in Turns : t > turnId /\ t <= turnId' => t \in pending'
      /\ \A t \in Turns : telemetry'[t] = IF t \in pending' \ pending
                                          THEN Append(telemetry[t], "TurnRequested")
                                          ELSE telemetry[t]
  <2>1. \A t \in pending : t <= turnId
    BY PendingIssued DEF IInv
  <2> QED BY <1>1, <2>1, SendRequestsEffect DEF IInv
<1>3. turnId \in Nat /\ Turns \subseteq Nat /\ pending \subseteq Turns
  BY PendingIssued DEF IInv
<1>4. phase = "live"
  BY DEF IInv, Lifecycle, TypeOK
<1>5. \A t \in pending : t <= turnId /\ sent'[t] = sent[t]
  BY <1>2, <1>3 DEF IInv, EmittedTells
<1>6. \A p \in ps : p \in awaiting /\ \A t \in pending : sent[t].player # p
  BY DEF ps, HasPending
<1>7. PendingIsCurrent'
  BY <1>2, <1>4, <1>5, <1>6 DEF IInv, PendingIsCurrent
<1>8. OneOpenRequest'
  BY <1>2, <1>5, <1>6 DEF IInv, OneOpenRequest
<1>9. HandedActionIsLegal'
  <2> SUFFICES ASSUME NEW p \in Players, queued[p] # NoAction
               PROVE  \E t \in (1..turnId') \ pending' :
                        /\ sent'[t].player = p /\ sent'[t].tick = tick
                        /\ queued[p] \in sent'[t].legal
    BY DEF HandedActionIsLegal
  <2>1. PICK t \in (1..turnId) \ pending :
          sent[t].player = p /\ sent[t].tick = tick /\ queued[p] \in sent[t].legal
    BY DEF IInv, HandedActionIsLegal
  <2>2. t \in Turns /\ t <= turnId /\ t \in 1..turnId'
    BY <1>2, <1>3, ConfigAssumption DEF IInv, TypeOK, Turns
  <2>3. sent'[t] = sent[t] /\ t \notin pending'
    BY <1>2, <1>3, <2>1, <2>2
  <2> QED BY <2>1, <2>2, <2>3
<1>10. Lifecycle' /\ HandedIsNotAwaited'
  <2>1. Lifecycle
    BY DEF IInv
  <2>2. Lifecycle'
    BY <2>1 DEF Lifecycle
  <2>3. HandedIsNotAwaited'
    BY DEF IInv, HandedIsNotAwaited
  <2> QED BY <2>2, <2>3
<1>11. EmittedTells'
  <2> SUFFICES ASSUME NEW t \in Turns
               PROVE  /\ t > turnId' => t \notin pending' /\ telemetry'[t] = <<>>
                      /\ t \in pending' => telemetry'[t] = <<"TurnRequested">>
                      /\ t <= turnId' /\ t \notin pending' =>
                           \/ matchEnded' /\ telemetry'[t] = <<"TurnRequested">>
                           \/ \E r \in Resolutions : telemetry'[t] = Settlement(r)
    BY DEF EmittedTells
  <2>1. CASE t \in pending' \ pending
    <3>1. telemetry[t] = <<>> /\ telemetry'[t] = Append(telemetry[t], "TurnRequested")
      BY <1>2, <2>1 DEF IInv, EmittedTells
    <3> QED BY <1>2, <1>3, <2>1, <3>1
  <2>2. CASE t \in pending
    BY <1>2, <1>3, <1>5, <2>2 DEF IInv, EmittedTells
  <2>3. CASE t \notin pending'
    <3>1. telemetry'[t] = telemetry[t] /\ t \notin pending
      BY <1>2, <2>3
    <3>2. t > turnId' => t > turnId
      BY <1>2, <1>3
    <3>3. t <= turnId' => t <= turnId
      BY <1>2, <1>3, <2>3
    <3> QED BY <2>3, <3>1, <3>2, <3>3 DEF IInv, EmittedTells
  <2> QED BY <2>1, <2>2, <2>3
<1> QED BY <1>7, <1>8, <1>9, <1>10, <1>11 DEF Safe

\* Asking keeps the variables it writes within their types.
LEMMA AskingTyped ==
  ASSUME TypeOK, OnPlayerActionable
  PROVE  /\ turnId' \in 0..MaxTurns /\ sent' \in [Turns -> Requests]
         /\ pending' \in SUBSET Turns /\ age' \in [Turns -> 0..DecisionTimeout]
         /\ telemetry' \in [Turns -> Seq(EventKinds)]
         /\ history' \in [1..MatchLength -> Entries]
<1> DEFINE ps == {p \in awaiting : ~HasPending(p)}
<1>1. ps \in SUBSET Players /\ SendRequests(ps) /\ EnrichLast
  BY DEF OnPlayerActionable, TypeOK
<1> HIDE DEF ps
<1> QED BY <1>1, SendRequestsEffect, EnrichTyped

\* Each fighter that was handed an action at this decision point keeps it.
KeepsHanded == \A p \in Players : queued[p] # NoAction => queued'[p] = queued[p]

SettledTypes == /\ queued' \in [Players -> Actions \cup {NoAction}]
                /\ awaiting' \in SUBSET Players
                /\ pending' \in SUBSET Turns
                /\ age' \in [Turns -> 0..DecisionTimeout]
                /\ telemetry' \in [Turns -> Seq(EventKinds)]

\* Settling open requests, in whichever way, keeps the invariant.
LEMMA SettlingIsSafe ==
  ASSUME IInv, ~matchEnded, NEW ts \in SUBSET pending,
         NEW act \in [ts -> Actions \cup {NoAction}],
         \A t \in ts : act[t] = NoAction \/ act[t] \in sent[t].legal,
         NEW r \in Resolutions, NEW events \in Seq(EventKinds),
         <<"TurnRequested">> \o events = Settlement(r),
         ApplyActions(act), EmitFor(ts, events), ClearPending(ts),
         turnId' = turnId, sent' = sent, phase' = phase, tick' = tick,
         gameConnected' = gameConnected, attachCheck' = attachCheck,
         matchEnded' = matchEnded
  PROVE  Safe' /\ SettledTypes /\ KeepsHanded
<1>1. TypeOK /\ PendingIsCurrent /\ OneOpenRequest
  BY DEF IInv
<1>2. /\ queued' \in [Players -> Actions \cup {NoAction}]
      /\ awaiting' \in SUBSET awaiting
      /\ \A p \in awaiting : (\A t \in ts : sent[t].player # p) => p \in awaiting'
      /\ \A p \in Players :
           \/ queued'[p] = queued[p]
           \/ /\ p \in awaiting /\ p \notin awaiting'
              /\ \E t \in ts : sent[t].player = p /\ queued'[p] \in sent[t].legal
  BY <1>1, ApplyActionsEffect
<1>3. /\ pending' = pending \ ts
      /\ age' = [t \in Turns |-> IF t \in ts THEN 0 ELSE age[t]]
      /\ telemetry' = [t \in Turns |-> IF t \in ts THEN telemetry[t] \o events
                                                    ELSE telemetry[t]]
  BY DEF ClearPending, EmitFor
<1>4. /\ turnId \in 0..MaxTurns /\ pending \subseteq Turns
      /\ awaiting \subseteq Players
      /\ \A t \in pending : t \in 1..turnId
  <2>1. \A t \in pending : t \in 1..turnId
    BY PendingIssued DEF IInv
  <2> QED BY <1>1, <2>1 DEF TypeOK
<1>5. PendingIsCurrent'
  <2> SUFFICES ASSUME NEW t \in pending'
               PROVE  phase = "live" /\ sent[t].tick = tick /\ sent[t].player \in awaiting'
    BY DEF PendingIsCurrent
  <2>1. t \in pending /\ t \notin ts
    BY <1>3
  <2>2. \A u \in ts : sent[u].player # sent[t].player
    BY <1>1, <2>1 DEF OneOpenRequest
  <2> QED BY <1>1, <1>2, <2>1, <2>2 DEF PendingIsCurrent
<1>6. OneOpenRequest'
  BY <1>1, <1>3 DEF OneOpenRequest
<1>7. HandedActionIsLegal'
  <2> SUFFICES ASSUME NEW p \in Players, queued'[p] # NoAction
               PROVE  \E t \in (1..turnId) \ pending' :
                        /\ sent[t].player = p /\ sent[t].tick = tick
                        /\ queued'[p] \in sent[t].legal
    BY DEF HandedActionIsLegal
  <2>1. CASE queued'[p] = queued[p]
    BY <1>3, <2>1 DEF IInv, HandedActionIsLegal
  <2>2. CASE \E t \in ts : sent[t].player = p /\ queued'[p] \in sent[t].legal
    <3>1. PICK t \in ts : sent[t].player = p /\ queued'[p] \in sent[t].legal
      BY <2>2
    <3>2. t \in (1..turnId) \ pending' /\ sent[t].tick = tick
      BY <1>1, <1>3, <1>4, <3>1 DEF PendingIsCurrent
    <3> QED BY <3>1, <3>2
  <2> QED BY <1>2, <2>1, <2>2
<1>8. Lifecycle'
  <2>1. phase # "absent" \/ (awaiting = {} /\ queued = [p \in Players |-> NoAction])
    BY DEF IInv, Lifecycle
  <2>2. awaiting = {} => queued' = queued
    <3> SUFFICES ASSUME awaiting = {} PROVE queued' = queued
      OBVIOUS
    <3>1. \A p \in Players : queued'[p] = queued[p]
      BY <1>2
    <3>2. queued \in [Players -> Actions \cup {NoAction}]
      BY <1>1 DEF TypeOK
    <3> QED BY <1>2, <3>1, <3>2
  <2>3. phase' = "absent" => awaiting' = {} /\ queued' = [p \in Players |-> NoAction]
    BY <1>2, <2>1, <2>2
  <2>4. Lifecycle
    BY DEF IInv
  <2> QED BY <2>3, <2>4 DEF Lifecycle
<1>9. HandedIsNotAwaited'
  BY <1>2, <1>4 DEF IInv, HandedIsNotAwaited
<1>10. EmittedTells'
  <2> SUFFICES ASSUME NEW t \in Turns
               PROVE  /\ t > turnId => t \notin pending' /\ telemetry'[t] = <<>>
                      /\ t \in pending' => telemetry'[t] = <<"TurnRequested">>
                      /\ t <= turnId /\ t \notin pending' =>
                           \/ matchEnded /\ telemetry'[t] = <<"TurnRequested">>
                           \/ \E q \in Resolutions : telemetry'[t] = Settlement(q)
    BY DEF EmittedTells
  <2>1. /\ t > turnId => t \notin pending /\ telemetry[t] = <<>>
        /\ t \in pending => telemetry[t] = <<"TurnRequested">>
        /\ t <= turnId /\ t \notin pending =>
             \/ matchEnded /\ telemetry[t] = <<"TurnRequested">>
             \/ \E q \in Resolutions : telemetry[t] = Settlement(q)
    BY DEF IInv, EmittedTells
  <2>2. CASE t \in ts
    <3>1. telemetry'[t] = Settlement(r)
      BY <1>3, <2>1, <2>2
    <3>2. t \notin pending' /\ ~(t > turnId)
      BY <1>3, <2>1, <2>2
    <3> QED BY <3>1, <3>2
  <2>3. CASE t \notin ts
    <3>1. telemetry'[t] = telemetry[t] /\ (t \in pending' <=> t \in pending)
      BY <1>3, <2>3
    <3> QED BY <2>1, <3>1
  <2> QED BY <2>2, <2>3
<1>11. SettledTypes
  <2>1. age' \in [Turns -> 0..DecisionTimeout]
    BY <1>1, <1>3, ConfigAssumption DEF TypeOK
  <2>2. telemetry' \in [Turns -> Seq(EventKinds)]
    BY <1>1, <1>3 DEF TypeOK
  <2> QED BY <1>2, <1>3, <1>4, <2>1, <2>2 DEF SettledTypes
<1>12. KeepsHanded
  BY <1>2 DEF IInv, HandedIsNotAwaited, KeepsHanded
<1> QED BY <1>5, <1>6, <1>7, <1>8, <1>9, <1>10, <1>11, <1>12 DEF Safe

\* A round of fallbacks settles the turns it is applied to.
LEMMA FallbacksAreSafe ==
  ASSUME IInv, ~matchEnded, NEW ts \in SUBSET pending, NEW reason \in Reasons,
         ApplyFallbacks(ts, reason),
         phase' = phase, tick' = tick, gameConnected' = gameConnected,
         attachCheck' = attachCheck, matchEnded' = matchEnded
  PROVE  /\ Safe' /\ SettledTypes /\ KeepsHanded
         /\ history' \in [1..MatchLength -> Entries]
         /\ UNCHANGED <<lastValid, turnId, sent>>
<1>1. PICK act \in [ts -> Actions \cup {NoAction}] :
        (\A t \in ts : act[t] \in FallbackChoices(t)) /\ ApplyActions(act)
  BY DEF ApplyFallbacks
<1>2. \A t \in ts : act[t] = NoAction \/ act[t] \in sent[t].legal
  BY <1>1, FallbackIsLegal DEF IInv, TypeOK
<1>3. reason \in Resolutions /\ <<reason>> \in Seq(EventKinds)
  BY DEF Resolutions, EventKinds
<1>4. <<"TurnRequested">> \o <<reason>> = Settlement(reason)
  BY DEF Settlement, Reasons
<1>5. /\ EmitFor(ts, <<reason>>) /\ ClearPending(ts) /\ RecordDecisions(ts, "fallback")
      /\ UNCHANGED <<lastValid, turnId, sent>>
  BY DEF ApplyFallbacks
<1>6. history' \in [1..MatchLength -> Entries]
  BY <1>5, RecordTyped DEF IInv
<1>7. Safe' /\ SettledTypes /\ KeepsHanded
  BY <1>1, <1>2, <1>3, <1>4, <1>5, SettlingIsSafe
<1> QED BY <1>5, <1>6, <1>7

\* The record of an open turn, continued by a decision's two events.
LEMMA OneThenTwo ==
  ASSUME NEW S, NEW a \in S, NEW b \in S, NEW c \in S
  PROVE  <<a>> \o <<b, c>> = <<a, b, c>>
<1> DEFINE s == <<a>> \o <<b, c>>
<1>1. s \in Seq(S) /\ Len(s) = 3
  OBVIOUS
<1>2. s[1] = a /\ s[2] = b /\ s[3] = c
  OBVIOUS
<1>3. <<a, b, c>> \in Seq(S) /\ Len(<<a, b, c>>) = 3
  OBVIOUS
<1> HIDE DEF s
<1>4. s = <<a, b, c>>
  BY <1>1, <1>2, <1>3
<1> QED BY <1>4 DEF s

\* A valid decision settles the turn it answers.
LEMMA DecisionIsSafe ==
  ASSUME IInv, ~matchEnded, NEW m \in Decisions, m.turn \in pending,
         Verdict(m) = "ok", ApplyValidDecision(m),
         phase' = phase, tick' = tick, gameConnected' = gameConnected,
         attachCheck' = attachCheck, matchEnded' = matchEnded
  PROVE  /\ Safe' /\ SettledTypes /\ KeepsHanded
         /\ history' \in [1..MatchLength -> Entries]
         /\ lastValid' \in [Players -> Actions \cup {NoAction}]
         /\ UNCHANGED <<turnId, sent>>
<1> DEFINE act == [t \in {m.turn} |-> m.action]
<1>1. /\ ApplyActions(act) /\ RecordDecisions({m.turn}, "decision")
      /\ EmitFor({m.turn}, <<"DecisionReceived", "DecisionApplied">>)
      /\ ClearPending({m.turn})
      /\ lastValid' = [lastValid EXCEPT ![sent[m.turn].player] = m.action]
      /\ UNCHANGED <<turnId, sent>>
  BY DEF ApplyValidDecision
<1>2. act \in [{m.turn} -> Actions \cup {NoAction}]
  BY DEF Decisions
<1>3. \A t \in {m.turn} : act[t] \in sent[t].legal
  BY DEF Verdict
<1>4. /\ "DecisionApplied" \in Resolutions
      /\ <<"DecisionReceived", "DecisionApplied">> \in Seq(EventKinds)
  BY DEF Resolutions, EventKinds
<1>5. <<"TurnRequested">> \o <<"DecisionReceived", "DecisionApplied">>
        = Settlement("DecisionApplied")
  <2>1. /\ "TurnRequested" \in EventKinds /\ "DecisionReceived" \in EventKinds
        /\ "DecisionApplied" \in EventKinds
    BY DEF EventKinds, Resolutions
  <2> QED BY <2>1, OneThenTwo DEF Settlement
<1>6. {m.turn} \in SUBSET pending
  OBVIOUS
<1>7. Safe' /\ SettledTypes /\ KeepsHanded
  <2> HIDE DEF act
  <2> QED BY <1>1, <1>2, <1>3, <1>4, <1>5, <1>6, SettlingIsSafe
<1>8. history' \in [1..MatchLength -> Entries]
  BY <1>1, RecordTyped DEF IInv
<1>9. lastValid' \in [Players -> Actions \cup {NoAction}]
  BY <1>1 DEF IInv, TypeOK, Decisions
<1> QED BY <1>1, <1>7, <1>8, <1>9

-----------------------------------------------------------------------------
(* The invariant *)

\* The invariant holds when the mod has been loaded.
LEMMA InitSafe == Init => IInv
<1> SUFFICES ASSUME Init PROVE IInv
  OBVIOUS
<1>1. /\ 0 \in 0..MatchLength /\ 0 \in 0..MaxTurns /\ 0 \in 0..DecisionTimeout
      /\ Turns \subseteq Nat /\ \A t \in Turns : t > 0
  BY ConfigAssumption DEF Turns
<1>2. TypeOK
  <2>1. [t \in Turns |-> Blank] \in [Turns -> Requests]
    <3>1. Blank \in Requests
      BY <1>1 DEF Blank, Requests, Players
    <3> QED BY <3>1
  <2>2. [k \in 1..MatchLength |-> NoEntry] \in [1..MatchLength -> Entries]
    <3>1. NoEntry \in Entries
      BY <1>1 DEF NoEntry, Entries
    <3> QED BY <3>1
  <2>3. [t \in Turns |-> <<>>] \in [Turns -> Seq(EventKinds)] /\ <<>> \in Seq(NoticeKinds)
    OBVIOUS
  <2> QED BY <1>1, <2>1, <2>2, <2>3 DEF Init, TypeOK
<1>3. PendingIsCurrent /\ OneOpenRequest
  BY DEF Init, PendingIsCurrent, OneOpenRequest
<1>4. HandedActionIsLegal /\ HandedIsNotAwaited
  BY DEF Init, HandedActionIsLegal, HandedIsNotAwaited
<1>5. Lifecycle
  BY DEF Init, Lifecycle
<1>6. EmittedTells
  BY <1>1 DEF Init, EmittedTells
<1> QED BY <1>2, <1>3, <1>4, <1>5, <1>6 DEF IInv

\* Steps that leave the requests and the game's decision point alone.
LEMMA QuietIsSafe ==
  ASSUME IInv, UNCHANGED <<phase, tick, awaiting, queued, turnId, sent, pending,
                           telemetry, matchEnded>>,
         gameConnected' => gameConnected \/ phase # "absent",
         attachCheck' => gameConnected'
  PROVE  Safe'
<1>1. PendingIsCurrent' /\ OneOpenRequest'
  BY DEF IInv, PendingIsCurrent, OneOpenRequest
<1>2. HandedActionIsLegal' /\ HandedIsNotAwaited'
  BY DEF IInv, HandedActionIsLegal, HandedIsNotAwaited
<1>3. Lifecycle'
  <2>1. Lifecycle
    BY DEF IInv
  <2> QED BY <2>1 DEF Lifecycle
<1>4. EmittedTells'
  BY DEF IInv, EmittedTells
<1> QED BY <1>1, <1>2, <1>3, <1>4 DEF Safe

\* Every step keeps the invariant, and keeps what a fighter was handed as long
\* as the decision point lasts.
LEMMA NextSafe == IInv /\ [Next]_vars => IInv' /\ (tick' = tick => KeepsHanded)
<1> SUFFICES ASSUME IInv, [Next]_vars PROVE IInv' /\ (tick' = tick => KeepsHanded)
  OBVIOUS
<1> USE DEF IInv
<1>0. TypeOK /\ Lifecycle /\ PendingIsCurrent
  OBVIOUS
<1>1. CASE StartMatch
  <2>1. phase = "absent" /\ awaiting = {} /\ pending = {} /\ ~matchEnded /\ ~attachCheck
    BY <1>1 DEF StartMatch, Lifecycle, PendingIsCurrent
  <2>2. 1 \in 0..MatchLength
    BY ConfigAssumption
  <2>3. TypeOK'
    BY <1>1, <2>2 DEF StartMatch, TypeOK, attachVars, requestVars, endVars
  <2>4. queued = [p \in Players |-> NoAction] /\ queued' = queued
    BY <1>1, <2>1 DEF Lifecycle, StartMatch
  <2>5. PendingIsCurrent' /\ OneOpenRequest'
    BY <1>1, <2>1 DEF StartMatch, PendingIsCurrent, OneOpenRequest, requestVars
  <2>6. HandedActionIsLegal' /\ HandedIsNotAwaited' /\ KeepsHanded
    BY <2>4 DEF HandedActionIsLegal, HandedIsNotAwaited, KeepsHanded
  <2>7. Lifecycle'
    BY <1>1, <2>1 DEF StartMatch, Lifecycle, attachVars, endVars
  <2>8. EmittedTells'
    BY <1>1 DEF StartMatch, EmittedTells, requestVars, endVars
  <2> QED BY <2>3, <2>5, <2>6, <2>7, <2>8
<1>2. CASE PlayerActionable
  <2>1. /\ phase = "live" /\ awaiting # {} /\ ~matchEnded
        /\ phase' = phase /\ tick' = tick /\ awaiting' = awaiting /\ queued' = queued
        /\ gameConnected' = gameConnected /\ attachCheck' = attachCheck
        /\ matchEnded' = matchEnded
    BY <1>2, <1>0 DEF PlayerActionable, Lifecycle, attachVars, endVars
  <2>2. CASE gameConnected
    <3>1. OnPlayerActionable
      BY <1>2, <2>2 DEF PlayerActionable
    <3>2. Safe'
      BY <2>1, <3>1, AskingIsSafe
    <3>3. /\ turnId' \in 0..MaxTurns /\ sent' \in [Turns -> Requests]
          /\ pending' \in SUBSET Turns /\ age' \in [Turns -> 0..DecisionTimeout]
          /\ telemetry' \in [Turns -> Seq(EventKinds)]
          /\ history' \in [1..MatchLength -> Entries]
      BY <3>1, AskingTyped
    <3>4. TypeOK'
      BY <1>2, <2>1, <3>3, <1>0 DEF PlayerActionable, TypeOK, attachVars, endVars
    <3> QED BY <2>1, <3>2, <3>4 DEF Safe, KeepsHanded
  <2>3. CASE ~gameConnected
    <3>1. UNCHANGED <<history, requestVars, lastValid, endVars, replayGame, linkUp>>
      BY <1>2, <2>3 DEF PlayerActionable
    <3>2. announced' = TRUE
      BY <1>2 DEF PlayerActionable
    <3>3. Safe'
      BY <1>0, <2>1, <3>1, QuietIsSafe DEF requestVars, Lifecycle
    <3>4. TypeOK'
      BY <1>0, <2>1, <3>1, <3>2 DEF TypeOK, requestVars, endVars
    <3> QED BY <2>1, <3>3, <3>4 DEF Safe, KeepsHanded
  <2> QED BY <2>2, <2>3
<1>3. CASE ResolveTick
  <2>1. phase = "live" /\ awaiting = {} /\ pending = {} /\ tick < MatchLength
    BY <1>3, <1>0 DEF ResolveTick, PendingIsCurrent
  <2>2. tick + 1 \in 0..MatchLength /\ tick + 1 # tick
    BY <2>1, <1>0, ConfigAssumption DEF TypeOK
  <2>3. TypeOK'
    BY <1>3, <1>0, <2>2 DEF ResolveTick, TypeOK, attachVars, requestVars, endVars
  <2>4. queued' = [p \in Players |-> NoAction] /\ tick' = tick + 1
    BY <1>3 DEF ResolveTick
  <2>5. PendingIsCurrent' /\ OneOpenRequest'
    BY <1>3, <2>1 DEF ResolveTick, PendingIsCurrent, OneOpenRequest, requestVars
  <2>6. HandedActionIsLegal' /\ HandedIsNotAwaited'
    BY <2>4 DEF HandedActionIsLegal, HandedIsNotAwaited
  <2>7. Lifecycle'
    BY <1>3, <1>0, <2>1 DEF ResolveTick, Lifecycle, attachVars, endVars
  <2>8. EmittedTells'
    BY <1>3 DEF ResolveTick, EmittedTells, requestVars, endVars
  <2> QED BY <2>2, <2>3, <2>4, <2>5, <2>6, <2>7, <2>8
<1>4. CASE EndMatch
  <2>1. /\ phase = "live" /\ phase' = "won" /\ matchEnded' = TRUE /\ pending' = {}
        /\ monitor' = "awaiting"
        /\ UNCHANGED <<tick, awaiting, queued, announced, replayGame, linkUp, gameConnected,
                       attachCheck, turnId, sent, telemetry, lastValid, history>>
    BY <1>4 DEF EndMatch, ClearPending, attachVars
  <2>2. age' \in [Turns -> 0..DecisionTimeout]
    BY <1>4, <1>0, ConfigAssumption DEF EndMatch, ClearPending, TypeOK
  <2>3. notices' \in Seq(NoticeKinds)
    <3>1. PICK saved \in {<<>>, <<"ReplaySaved">>} :
            notices' = notices \o <<"MatchEnded", "match_ended">> \o saved \o <<"ReplayStarted">>
      BY <1>4 DEF EndMatch, SavedNotices
    <3>2. /\ "MatchEnded" \in NoticeKinds /\ "match_ended" \in NoticeKinds
          /\ "ReplaySaved" \in NoticeKinds /\ "ReplayStarted" \in NoticeKinds
      BY DEF NoticeKinds
    <3>3. <<"MatchEnded", "match_ended">> \in Seq(NoticeKinds)
      BY <3>2
    <3>4. saved \in Seq(NoticeKinds)
      <4>1. CASE saved = <<>>
        BY <4>1
      <4>2. CASE saved = <<"ReplaySaved">>
        BY <3>2, <4>2
      <4> QED BY <4>1, <4>2
    <3>5. <<"ReplayStarted">> \in Seq(NoticeKinds)
      BY <3>2
    <3>6. notices \in Seq(NoticeKinds)
      BY <1>0 DEF TypeOK
    <3> QED BY <3>1, <3>3, <3>4, <3>5, <3>6
  <2>4. TypeOK'
    BY <2>1, <2>2, <2>3, <1>0 DEF TypeOK
  <2>5. PendingIsCurrent' /\ OneOpenRequest'
    BY <2>1 DEF PendingIsCurrent, OneOpenRequest
  <2>6. HandedActionIsLegal' /\ HandedIsNotAwaited' /\ KeepsHanded
    BY <2>1 DEF HandedActionIsLegal, HandedIsNotAwaited, KeepsHanded
  <2>7. Lifecycle'
    BY <2>1, <1>0 DEF Lifecycle
  <2>8. EmittedTells'
    BY <2>1 DEF EmittedTells
  <2> QED BY <2>4, <2>5, <2>6, <2>7, <2>8
<1>5. CASE AttachToGame
  <2>1. /\ phase = "live" /\ gameConnected' = TRUE /\ attachCheck' = TRUE
        /\ UNCHANGED <<phase, tick, awaiting, queued, announced, replayGame, linkUp,
                       turnId, sent, pending, age, telemetry, lastValid, history,
                       matchEnded, monitor, notices>>
    BY <1>5 DEF AttachToGame, gameVars, requestVars, endVars
  <2>2. Safe'
    BY <2>1, QuietIsSafe
  <2>3. TypeOK'
    BY <2>1, <1>0 DEF TypeOK
  <2> QED BY <2>1, <2>2, <2>3 DEF Safe, KeepsHanded
<1>6. CASE CheckAlreadyActionable
  <2>1. /\ attachCheck' = FALSE
        /\ UNCHANGED <<phase, tick, awaiting, queued, announced, replayGame, linkUp,
                       gameConnected, lastValid, matchEnded, monitor, notices>>
    BY <1>6 DEF CheckAlreadyActionable, gameVars, endVars
  <2>2. CASE ~matchEnded /\ awaiting # {}
    <3>1. OnPlayerActionable
      BY <1>6, <2>2 DEF CheckAlreadyActionable
    <3>2. Safe'
      BY <2>1, <2>2, <3>1, AskingIsSafe
    <3>3. /\ turnId' \in 0..MaxTurns /\ sent' \in [Turns -> Requests]
          /\ pending' \in SUBSET Turns /\ age' \in [Turns -> 0..DecisionTimeout]
          /\ telemetry' \in [Turns -> Seq(EventKinds)]
          /\ history' \in [1..MatchLength -> Entries]
      BY <3>1, AskingTyped
    <3>4. TypeOK'
      BY <2>1, <3>3, <1>0 DEF TypeOK
    <3> QED BY <2>1, <3>2, <3>4 DEF Safe, KeepsHanded
  <2>3. CASE ~(~matchEnded /\ awaiting # {})
    <3>1. UNCHANGED <<history, turnId, sent, pending, age, telemetry>>
      BY <1>6, <2>3 DEF CheckAlreadyActionable, requestVars
    <3>2. Safe'
      BY <2>1, <3>1, QuietIsSafe
    <3>3. TypeOK'
      BY <2>1, <3>1, <1>0 DEF TypeOK
    <3> QED BY <2>1, <3>2, <3>3 DEF Safe, KeepsHanded
  <2> QED BY <2>2, <2>3
<1>7. CASE CheckTimeouts
  <2>1. /\ ~matchEnded /\ ApplyFallbacks(Expired, "timeout")
        /\ UNCHANGED <<phase, tick, announced, replayGame, linkUp, gameConnected,
                       attachCheck, matchEnded, monitor, notices>>
    BY <1>7 DEF CheckTimeouts, attachVars, endVars
  <2>2. Expired \in SUBSET pending /\ "timeout" \in Reasons
    BY DEF Expired, Reasons
  <2>3. /\ Safe' /\ SettledTypes /\ KeepsHanded
        /\ history' \in [1..MatchLength -> Entries]
        /\ UNCHANGED <<lastValid, turnId, sent>>
    BY <2>1, <2>2, FallbacksAreSafe
  <2>4. TypeOK'
    BY <2>1, <2>3, <1>0 DEF SettledTypes, TypeOK
  <2> QED BY <2>3, <2>4 DEF Safe
<1>8. CASE TimePasses
  <2>1. /\ age' = [t \in Turns |-> IF t \in pending /\ age[t] < DecisionTimeout
                                  THEN age[t] + 1 ELSE age[t]]
        /\ UNCHANGED <<phase, tick, awaiting, queued, announced, replayGame, linkUp,
                       gameConnected, attachCheck, turnId, sent, pending, telemetry,
                       lastValid, history, matchEnded, monitor, notices>>
    BY <1>8 DEF TimePasses, gameVars, attachVars, endVars
  <2>2. age' \in [Turns -> 0..DecisionTimeout]
    BY <2>1, <1>0, ConfigAssumption DEF TypeOK
  <2>3. Safe'
    BY <2>1, <1>0, QuietIsSafe DEF Lifecycle
  <2>4. TypeOK'
    BY <2>1, <2>2, <1>0 DEF TypeOK
  <2> QED BY <2>1, <2>3, <2>4 DEF Safe, KeepsHanded
<1>9. ASSUME NEW m \in Decisions, OnDaemonMessage(m)
      PROVE  IInv' /\ (tick' = tick => KeepsHanded)
  <2>1. /\ ~matchEnded /\ m.turn \in pending
        /\ UNCHANGED <<phase, tick, announced, replayGame, linkUp, gameConnected,
                       attachCheck, matchEnded, monitor, notices>>
    BY <1>9 DEF OnDaemonMessage, Correlates, attachVars, endVars
  <2>2. CASE Verdict(m) = "ok"
    <3>1. ApplyValidDecision(m)
      BY <1>9, <2>2 DEF OnDaemonMessage
    <3>2. /\ Safe' /\ SettledTypes /\ KeepsHanded
          /\ history' \in [1..MatchLength -> Entries]
          /\ lastValid' \in [Players -> Actions \cup {NoAction}]
          /\ UNCHANGED <<turnId, sent>>
      BY <2>1, <2>2, <3>1, DecisionIsSafe
    <3>3. TypeOK'
      BY <2>1, <3>2, <1>0 DEF SettledTypes, TypeOK
    <3> QED BY <3>2, <3>3 DEF Safe
  <2>3. CASE Verdict(m) # "ok"
    <3>1. ApplyFallbacks({m.turn}, Verdict(m))
      BY <1>9, <2>3 DEF OnDaemonMessage
    <3>2. Verdict(m) \in Reasons
      BY <2>3 DEF Verdict, Reasons, Decisions, Details
    <3>3. {m.turn} \in SUBSET pending
      BY <2>1
    <3>4. /\ Safe' /\ SettledTypes /\ KeepsHanded
          /\ history' \in [1..MatchLength -> Entries]
          /\ UNCHANGED <<lastValid, turnId, sent>>
      BY <2>1, <3>1, <3>2, <3>3, FallbacksAreSafe
    <3>5. TypeOK'
      BY <2>1, <3>4, <1>0 DEF SettledTypes, TypeOK
    <3> QED BY <3>4, <3>5 DEF Safe
  <2> QED BY <2>2, <2>3
<1>10. CASE OnDaemonDisconnected
  <2>1. /\ linkUp' = FALSE
        /\ UNCHANGED <<phase, tick, announced, replayGame, gameConnected, attachCheck,
                       matchEnded, monitor, notices>>
    BY <1>10 DEF OnDaemonDisconnected, attachVars, endVars
  <2>2. CASE matchEnded
    <3>1. UNCHANGED <<queued, awaiting, lastValid, history, turnId, sent, pending, age,
                      telemetry>>
      BY <1>10, <2>2 DEF OnDaemonDisconnected, requestVars
    <3>2. Safe'
      BY <2>1, <3>1, <1>0, QuietIsSafe DEF Lifecycle
    <3>3. TypeOK'
      BY <2>1, <3>1, <1>0 DEF TypeOK
    <3> QED BY <3>1, <3>2, <3>3 DEF Safe, KeepsHanded
  <2>3. CASE ~matchEnded
    <3>1. ApplyFallbacks(pending, "disconnect")
      BY <1>10, <2>3 DEF OnDaemonDisconnected
    <3>2. "disconnect" \in Reasons /\ pending \in SUBSET pending
      BY DEF Reasons
    <3>3. /\ Safe' /\ SettledTypes /\ KeepsHanded
          /\ history' \in [1..MatchLength -> Entries]
          /\ UNCHANGED <<lastValid, turnId, sent>>
      BY <2>1, <2>3, <3>1, <3>2, FallbacksAreSafe
    <3>4. TypeOK'
      BY <2>1, <3>3, <1>0 DEF SettledTypes, TypeOK
    <3> QED BY <3>3, <3>4 DEF Safe
  <2> QED BY <2>2, <2>3
<1>11. CASE ReplayGameMoves
  <2>1. /\ replayGame' \in {"none", "playing", "finished", "freed"}
        /\ UNCHANGED <<phase, tick, awaiting, queued, announced, linkUp, gameConnected,
                       attachCheck, turnId, sent, pending, age, telemetry, lastValid,
                       history, matchEnded, monitor, notices>>
    BY <1>11 DEF ReplayGameMoves, attachVars, requestVars, endVars
  <2>2. Safe'
    BY <2>1, <1>0, QuietIsSafe DEF Lifecycle
  <2>3. TypeOK'
    BY <2>1, <1>0 DEF TypeOK
  <2> QED BY <2>1, <2>2, <2>3 DEF Safe, KeepsHanded
<1>12. CASE MonitorReplay
  <2>1. /\ monitor' \in {"recording", "grace", "done"}
        /\ notices' = notices \/ notices' = Append(notices, "ReplayEnded")
        /\ Monitoring
    BY <1>12 DEF MonitorReplay, ReplayWaitTimesOut, DetectReplayGame, ReplayGameFreed,
                 ReplayGraceStarts, ReplayGraceOver, EmitReplayEnded
  <2>2. UNCHANGED <<phase, tick, awaiting, queued, announced, replayGame, linkUp,
                    gameConnected, attachCheck, turnId, sent, pending, age, telemetry,
                    lastValid, history, matchEnded>>
    BY <2>1 DEF Monitoring, gameVars, attachVars, requestVars
  <2>3. notices' \in Seq(NoticeKinds)
    <3>1. "ReplayEnded" \in NoticeKinds /\ notices \in Seq(NoticeKinds)
      BY <1>0 DEF TypeOK, NoticeKinds
    <3> QED BY <2>1, <3>1
  <2>4. Safe'
    BY <2>2, <1>0, QuietIsSafe DEF Lifecycle
  <2>5. TypeOK'
    BY <2>1, <2>2, <2>3, <1>0 DEF TypeOK
  <2> QED BY <2>2, <2>4, <2>5 DEF Safe, KeepsHanded
<1>13. CASE UNCHANGED vars
  <2>1. UNCHANGED <<phase, tick, awaiting, queued, announced, replayGame, linkUp,
                    gameConnected, attachCheck, turnId, sent, pending, age, lastValid,
                    history, matchEnded, monitor, telemetry, notices>>
    BY <1>13 DEF vars
  <2>2. Safe'
    BY <2>1, <1>0, QuietIsSafe DEF Lifecycle
  <2>3. TypeOK'
    BY <2>1, <1>0 DEF TypeOK
  <2> QED BY <2>1, <2>2, <2>3 DEF Safe, KeepsHanded
<1> QED BY <1>1, <1>2, <1>3, <1>4, <1>5, <1>6, <1>7, <1>8, <1>9, <1>10, <1>11, <1>12, <1>13
        DEF Next, MonitorReplay, Finished

\* Every reachable state satisfies the invariant.
LEMMA Safety == Spec => []IInv
<1>1. Init => IInv
  BY InitSafe
<1>2. IInv /\ [Next]_vars => IInv'
  BY NextSafe
<1> QED BY <1>1, <1>2, PTL DEF Spec

-----------------------------------------------------------------------------
(* What follows for the behaviours of the hook *)

\* Every variable keeps its type, for any bounds and configuration.
THEOREM TypesHold == Spec => []TypeOK
<1>1. IInv => TypeOK
  BY DEF IInv
<1> QED BY <1>1, Safety, PTL

\* An open request always describes the decision point the game stands at.
THEOREM RequestsAreCurrent == Spec => []PendingIsCurrent
<1>1. IInv => PendingIsCurrent
  BY DEF IInv
<1> QED BY <1>1, Safety, PTL

\* Repeated player_actionable signals never open a second request.
THEOREM RequestsAreSingle == Spec => []OneOpenRequest
<1>1. IInv => OneOpenRequest
  BY DEF IInv
<1> QED BY <1>1, Safety, PTL

\* Nothing illegal is handed to a fighter, whatever the daemon sends.
THEOREM HandedIsLegal == Spec => []HandedActionIsLegal
<1>1. IInv => HandedActionIsLegal
  BY DEF IInv
<1> QED BY <1>1, Safety, PTL

\* No fighter is handed a second action at one decision point.
THEOREM ActionsLockIn == Spec => LockedIn
<1>1. IInv /\ [Next]_vars =>
        [\A p \in Players : queued[p] # NoAction /\ tick' = tick => queued'[p] = queued[p]]_vars
  BY NextSafe DEF KeepsHanded
<1> QED BY <1>1, Safety, PTL DEF Spec, LockedIn

-----------------------------------------------------------------------------
(* TurnHook implements TurnContract: asking maps to Ask, the three ways of  *)
(* settling to Settle, the end of the match to Close, and every other step  *)
(* to a stutter.                                                            *)

\* Under the invariant, a turn's verdict can be read off its record.
LEMMA VerdictOfTurn ==
  ASSUME EmittedTells, turnId \in Nat, NEW t \in Turns
  PROVE  /\ t > turnId => TurnVerdict[t] = "unissued"
         /\ t \in pending => TurnVerdict[t] = "open"
         /\ t <= turnId /\ t \notin pending /\ telemetry[t] = <<"TurnRequested">> =>
              TurnVerdict[t] = "abandoned"
         /\ t <= turnId /\ t \notin pending /\ telemetry[t] = Settlement("DecisionApplied") =>
              TurnVerdict[t] = "decided"
         /\ \A r \in Reasons :
              t <= turnId /\ t \notin pending /\ telemetry[t] = Settlement(r) =>
                TurnVerdict[t] = "fallback"
<1>1. t \in Nat /\ (t > turnId => t \notin pending)
  BY ConfigAssumption DEF EmittedTells, Turns
<1>2. /\ Len(<<"TurnRequested">>) = 1
      /\ Len(Settlement("DecisionApplied")) = 3
      /\ \A r \in Reasons : Len(Settlement(r)) = 2
  BY DEF Settlement, Reasons
<1> QED BY <1>1, <1>2 DEF TurnVerdict

\* The two contract variables a step leaves alone when it leaves alone the
\* state they are read from.
LEMMA QuietStutters ==
  ASSUME UNCHANGED <<turnId, sent, pending, telemetry>>
  PROVE  TurnOwner' = TurnOwner /\ TurnVerdict' = TurnVerdict
BY DEF TurnOwner, TurnVerdict

OpenTurns == {t \in Turns : TurnVerdict[t] = "open"}

\* The turns that are open for the contract are the pending requests.
LEMMA OpenIsPending ==
  ASSUME IInv
  PROVE  OpenTurns = pending
<1>1. pending \subseteq Turns /\ turnId \in Nat /\ EmittedTells
  BY PendingIssued DEF IInv
<1>2. \A t \in pending : TurnVerdict[t] = "open"
  BY <1>1, VerdictOfTurn
<1>3. \A t \in Turns \ pending : TurnVerdict[t] # "open"
  BY DEF TurnVerdict
<1> QED BY <1>1, <1>2, <1>3 DEF OpenTurns

\* _on_player_actionable asks the players that have no request open.
LEMMA AskingMaps ==
  ASSUME IInv, IInv', ~matchEnded, matchEnded' = matchEnded, OnPlayerActionable
  PROVE  Contract!Ask \/ UNCHANGED <<TurnOwner, TurnVerdict, matchEnded>>
<1> DEFINE new == pending' \ pending
           ps  == {p \in awaiting : ~HasPending(p)}
<1>1. ps \in SUBSET Players /\ SendRequests(ps)
  BY DEF OnPlayerActionable, IInv, TypeOK
<1>2. /\ TypeOK /\ turnId \in Nat /\ turnId' \in Nat /\ turnId' >= turnId
      /\ Turns \subseteq Nat /\ pending \subseteq Turns /\ pending' \subseteq Turns
      /\ EmittedTells /\ EmittedTells' /\ \A t \in pending : t <= turnId
  <2>1. TypeOK /\ EmittedTells /\ EmittedTells'
    BY DEF IInv
  <2>2. /\ turnId \in Nat /\ pending \subseteq Turns /\ Turns \subseteq Nat
        /\ \A t \in pending : t <= turnId
    BY <2>1, PendingIssued
  <2>3. turnId' \in Nat /\ turnId' >= turnId /\ pending' \subseteq Turns
    BY <1>1, <2>1, SendRequestsEffect, ConfigAssumption
  <2> QED BY <2>1, <2>2, <2>3
<1> HIDE DEF ps
<1>3. /\ pending \subseteq pending'
      /\ \A t \in new : t > turnId /\ t <= turnId'
      /\ \A t \in Turns : t > turnId /\ t <= turnId' => t \in pending'
      /\ \A t \in Turns : t \notin new => telemetry'[t] = telemetry[t] /\ sent'[t] = sent[t]
  BY <1>1, <1>2, SendRequestsEffect
<1>4. \A t \in new : t \in Turns /\ TurnVerdict[t] = "unissued" /\ TurnVerdict'[t] = "open"
  <2> TAKE t \in new
  <2>1. t \in Turns /\ t \in pending' /\ t > turnId
    BY <1>2, <1>3
  <2>2. TurnVerdict[t] = "unissued"
    BY <1>2, <2>1, VerdictOfTurn
  <2>3. ~ (t > turnId')
    BY <1>2, <2>1 DEF EmittedTells
  <2>4. TurnVerdict'[t] = "open"
    BY <2>1, <2>3 DEF TurnVerdict
  <2> QED BY <2>1, <2>2, <2>4
<1>5. \A t \in Turns \ new : TurnVerdict'[t] = TurnVerdict[t] /\ TurnOwner'[t] = TurnOwner[t]
  <2> TAKE t \in Turns \ new
  <2>1. TurnOwner'[t] = TurnOwner[t]
    BY <1>3 DEF TurnOwner
  <2>2. (t \in pending' <=> t \in pending) /\ telemetry'[t] = telemetry[t]
    BY <1>3
  <2>3. t > turnId' <=> t > turnId
    BY <1>2, <1>3, <2>2
  <2> QED BY <2>1, <2>2, <2>3 DEF TurnVerdict
<1>6. TurnVerdict' = [t \in Turns |-> IF t \in new THEN "open" ELSE TurnVerdict[t]]
  <2>1. TurnVerdict' = [t \in Turns |-> TurnVerdict'[t]]
    BY DEF TurnVerdict
  <2> HIDE DEF new
  <2> QED BY <1>4, <1>5, <2>1
<1>7. CASE new = {}
  <2>1. TurnVerdict' = TurnVerdict
    BY <1>6, <1>7 DEF TurnVerdict
  <2>2. TurnOwner' = TurnOwner
    BY <1>5, <1>7 DEF TurnOwner
  <2> QED BY <2>1, <2>2
<1>8. CASE new # {}
  <2>1. new \in (SUBSET Turns) \ {{}} /\ \A t \in new : TurnVerdict[t] = "unissued"
    BY <1>4, <1>8
  <2>2. \A t \in Turns \ new : TurnOwner'[t] = TurnOwner[t]
    BY <1>5
  <2>3. \A t \in new, u \in new \cup OpenTurns : TurnOwner'[t] = TurnOwner'[u] => t = u
    <3>1. OpenTurns = pending
      BY OpenIsPending
    <3>2. \A t \in pending' : TurnOwner'[t] = sent'[t].player
      BY <1>2 DEF TurnOwner
    <3>3. OneOpenRequest'
      BY DEF IInv
    <3> QED BY <1>3, <3>1, <3>2, <3>3 DEF OneOpenRequest
  <2>4. TurnOwner' \in [Turns -> Players]
    <3>1. sent' \in [Turns -> Requests]
      BY <1>1, <1>2, SendRequestsEffect
    <3>2. \A t \in Turns : sent'[t].player \in Players
      BY <3>1 DEF Requests
    <3> QED BY <3>2 DEF TurnOwner
  <2> HIDE DEF new
  <2> QED BY <1>6, <2>1, <2>2, <2>3, <2>4 DEF Contract!Ask, Contract!Open, OpenTurns
<1> QED BY <1>7, <1>8

\* Whatever settles requests, settles them as decided or as fallbacks.
LEMMA SettlingMaps ==
  ASSUME IInv, IInv', ~matchEnded, matchEnded' = matchEnded,
         turnId' = turnId, sent' = sent, NEW ts \in SUBSET pending,
         pending' = pending \ ts, NEW r \in Resolutions,
         \A t \in Turns : telemetry'[t] = IF t \in ts THEN Settlement(r) ELSE telemetry[t]
  PROVE  Contract!Settle \/ UNCHANGED <<TurnOwner, TurnVerdict, matchEnded>>
<1> DEFINE v == IF r = "DecisionApplied" THEN "decided" ELSE "fallback"
<1>1. /\ EmittedTells /\ EmittedTells' /\ turnId \in Nat /\ Turns \subseteq Nat
      /\ pending \subseteq Turns /\ \A t \in pending : t <= turnId
  <2>1. EmittedTells /\ EmittedTells'
    BY DEF IInv
  <2> QED BY <2>1, PendingIssued DEF IInv
<1>2. /\ Len(Settlement("DecisionApplied")) = 3
      /\ \A q \in Reasons : Len(Settlement(q)) = 2 /\ q # "DecisionApplied"
  BY DEF Settlement, Reasons
<1>3. \A t \in ts : TurnVerdict'[t] = v
  <2> SUFFICES ASSUME NEW t \in ts PROVE TurnVerdict'[t] = v
    OBVIOUS
  <2>1. /\ t \in Turns /\ t \notin pending' /\ ~ (t > turnId') /\ telemetry'[t] = Settlement(r)
    BY <1>1
  <2>2. TurnVerdict'[t] = IF Len(Settlement(r)) = 1 THEN "abandoned"
                         ELSE IF Len(Settlement(r)) = 3 THEN "decided" ELSE "fallback"
    BY <2>1 DEF TurnVerdict
  <2> QED BY <1>2, <2>2 DEF Resolutions
<1>4. \A t \in Turns \ ts : TurnVerdict'[t] = TurnVerdict[t]
  BY <1>1 DEF TurnVerdict
<1>5. TurnVerdict' = [t \in Turns |-> IF t \in ts THEN v ELSE TurnVerdict[t]]
  <2>1. TurnVerdict' = [t \in Turns |-> TurnVerdict'[t]]
    BY DEF TurnVerdict
  <2> HIDE DEF v
  <2> QED BY <1>3, <1>4, <2>1
<1>6. TurnOwner' = TurnOwner
  BY DEF TurnOwner
<1>7. CASE ts = {}
  <2>1. TurnVerdict' = TurnVerdict
    BY <1>5, <1>7 DEF TurnVerdict
  <2> QED BY <1>6, <2>1
<1>8. CASE ts # {}
  <2>1. ts \in (SUBSET OpenTurns) \ {{}}
    BY <1>8, OpenIsPending
  <2>2. v \in Contract!Settled
    BY DEF Contract!Settled
  <2> HIDE DEF v
  <2> QED BY <1>5, <1>6, <2>1, <2>2 DEF Contract!Settle, Contract!Open, OpenTurns
<1> QED BY <1>7, <1>8

\* The end of the match abandons what is open.
LEMMA ClosingMaps ==
  ASSUME IInv, IInv', EndMatch
  PROVE  Contract!Close
<1>1. /\ ~matchEnded /\ matchEnded' = TRUE /\ pending' = {}
      /\ UNCHANGED <<turnId, sent, telemetry>>
  BY DEF EndMatch, ClearPending, IInv, Lifecycle
<1>2. /\ EmittedTells /\ turnId \in Nat /\ Turns \subseteq Nat /\ pending \subseteq Turns
      /\ \A t \in pending : t <= turnId
  <2>1. EmittedTells
    BY DEF IInv
  <2> QED BY <2>1, PendingIssued DEF IInv
<1>3. \A t \in pending : TurnVerdict'[t] = "abandoned"
  <2>1. Len(<<"TurnRequested">>) = 1
    OBVIOUS
  <2> QED BY <1>1, <1>2, <2>1 DEF TurnVerdict, EmittedTells
<1>4. \A t \in Turns \ pending : TurnVerdict'[t] = TurnVerdict[t]
  BY <1>1 DEF TurnVerdict
<1>5. TurnVerdict' = [t \in Turns |-> IF t \in pending THEN "abandoned" ELSE TurnVerdict[t]]
  <2>1. TurnVerdict' = [t \in Turns |-> TurnVerdict'[t]]
    BY DEF TurnVerdict
  <2> QED BY <1>3, <1>4, <2>1
<1>6. OpenTurns = pending
  BY OpenIsPending
<1>7. TurnOwner' = TurnOwner
  BY <1>1 DEF TurnOwner
<1> QED BY <1>1, <1>5, <1>6, <1>7 DEF Contract!Close, Contract!Open, OpenTurns

\* A round of fallbacks settles its turns with its reason.
LEMMA FallbacksMap ==
  ASSUME IInv, IInv', ~matchEnded, matchEnded' = matchEnded,
         NEW ts \in SUBSET pending, NEW reason \in Reasons, ApplyFallbacks(ts, reason)
  PROVE  Contract!Settle \/ UNCHANGED <<TurnOwner, TurnVerdict, matchEnded>>
<1>1. turnId' = turnId /\ sent' = sent /\ pending' = pending \ ts /\ reason \in Resolutions
  BY DEF ApplyFallbacks, ClearPending, Resolutions
<1>2. \A t \in Turns : telemetry'[t] = IF t \in ts THEN telemetry[t] \o <<reason>>
                                                    ELSE telemetry[t]
  BY DEF ApplyFallbacks, EmitFor
<1>3. \A t \in Turns : t \in ts => telemetry[t] = <<"TurnRequested">>
  BY DEF IInv, EmittedTells
<1>4. <<"TurnRequested">> \o <<reason>> = Settlement(reason)
  BY DEF Settlement, Reasons
<1> QED BY <1>1, <1>2, <1>3, <1>4, SettlingMaps

\* A valid decision settles its turn as decided.
LEMMA DecisionMaps ==
  ASSUME IInv, IInv', ~matchEnded, matchEnded' = matchEnded,
         NEW m \in Decisions, m.turn \in pending, ApplyValidDecision(m)
  PROVE  Contract!Settle \/ UNCHANGED <<TurnOwner, TurnVerdict, matchEnded>>
<1> DEFINE ts == {m.turn}
<1>1. /\ turnId' = turnId /\ sent' = sent /\ pending' = pending \ ts
      /\ ts \in SUBSET pending /\ "DecisionApplied" \in Resolutions
  BY DEF ApplyValidDecision, ClearPending, Resolutions
<1>2. \A t \in Turns : telemetry'[t] =
        IF t \in ts THEN telemetry[t] \o <<"DecisionReceived", "DecisionApplied">>
                    ELSE telemetry[t]
  BY DEF ApplyValidDecision, EmitFor
<1>3. \A t \in Turns : t \in ts => telemetry[t] = <<"TurnRequested">>
  BY <1>1 DEF IInv, EmittedTells
<1>4. <<"TurnRequested">> \o <<"DecisionReceived", "DecisionApplied">>
        = Settlement("DecisionApplied")
  <2>1. /\ "TurnRequested" \in EventKinds /\ "DecisionReceived" \in EventKinds
        /\ "DecisionApplied" \in EventKinds
    BY DEF EventKinds, Resolutions
  <2> QED BY <2>1, OneThenTwo DEF Settlement
<1> HIDE DEF ts
<1> QED BY <1>1, <1>2, <1>3, <1>4, SettlingMaps

\* Every step of the hook is a step of the contract, or leaves it alone.
LEMMA StepMaps ==
  ASSUME IInv, IInv', [Next]_vars
  PROVE  Contract!Next \/ UNCHANGED <<TurnOwner, TurnVerdict, matchEnded>>
<1> USE DEF Contract!Next
<1>1. CASE StartMatch
  BY <1>1, QuietStutters DEF StartMatch, requestVars, endVars
<1>2. CASE PlayerActionable
  <2>1. ~matchEnded /\ matchEnded' = matchEnded
    BY <1>2 DEF PlayerActionable, endVars, IInv, Lifecycle
  <2>2. CASE gameConnected
    BY <1>2, <2>1, <2>2, AskingMaps DEF PlayerActionable
  <2>3. CASE ~gameConnected
    BY <1>2, <2>1, <2>3, QuietStutters DEF PlayerActionable, requestVars
  <2> QED BY <2>2, <2>3
<1>3. CASE ResolveTick
  BY <1>3, QuietStutters DEF ResolveTick, requestVars, endVars
<1>4. CASE EndMatch
  BY <1>4, ClosingMaps
<1>5. CASE AttachToGame
  BY <1>5, QuietStutters DEF AttachToGame, requestVars, endVars
<1>6. CASE CheckAlreadyActionable
  <2>1. matchEnded' = matchEnded
    BY <1>6 DEF CheckAlreadyActionable, endVars
  <2>2. CASE ~matchEnded /\ awaiting # {}
    BY <1>6, <2>1, <2>2, AskingMaps DEF CheckAlreadyActionable
  <2>3. CASE ~(~matchEnded /\ awaiting # {})
    BY <1>6, <2>1, <2>3, QuietStutters DEF CheckAlreadyActionable, requestVars
  <2> QED BY <2>2, <2>3
<1>7. CASE CheckTimeouts
  <2>1. ~matchEnded /\ matchEnded' = matchEnded /\ ApplyFallbacks(Expired, "timeout")
    BY <1>7 DEF CheckTimeouts, endVars
  <2>2. Expired \in SUBSET pending /\ "timeout" \in Reasons
    BY DEF Expired, Reasons
  <2> QED BY <2>1, <2>2, FallbacksMap
<1>8. CASE TimePasses
  BY <1>8, QuietStutters DEF TimePasses, endVars
<1>9. ASSUME NEW m \in Decisions, OnDaemonMessage(m)
      PROVE  Contract!Next \/ UNCHANGED <<TurnOwner, TurnVerdict, matchEnded>>
  <2>1. ~matchEnded /\ m.turn \in pending /\ matchEnded' = matchEnded
    BY <1>9 DEF OnDaemonMessage, Correlates, endVars
  <2>2. CASE Verdict(m) = "ok"
    BY <1>9, <2>1, <2>2, DecisionMaps DEF OnDaemonMessage
  <2>3. CASE Verdict(m) # "ok"
    <3>1. Verdict(m) \in Reasons
      BY <2>3 DEF Verdict, Reasons, Decisions, Details
    <3>2. {m.turn} \in SUBSET pending /\ ApplyFallbacks({m.turn}, Verdict(m))
      BY <1>9, <2>1, <2>3 DEF OnDaemonMessage
    <3> QED BY <2>1, <3>1, <3>2, FallbacksMap
  <2> QED BY <2>2, <2>3
<1>10. CASE OnDaemonDisconnected
  <2>1. matchEnded' = matchEnded
    BY <1>10 DEF OnDaemonDisconnected, endVars
  <2>2. CASE matchEnded
    BY <1>10, <2>1, <2>2, QuietStutters DEF OnDaemonDisconnected, requestVars
  <2>3. CASE ~matchEnded
    <3>1. "disconnect" \in Reasons /\ pending \in SUBSET pending
      BY DEF Reasons
    <3> QED BY <1>10, <2>1, <2>3, <3>1, FallbacksMap DEF OnDaemonDisconnected
  <2> QED BY <2>2, <2>3
<1>11. CASE ReplayGameMoves
  BY <1>11, QuietStutters DEF ReplayGameMoves, requestVars, endVars
<1>12. CASE MonitorReplay
  BY <1>12, QuietStutters
     DEF MonitorReplay, ReplayWaitTimesOut, DetectReplayGame, ReplayGameFreed,
         ReplayGraceStarts, ReplayGraceOver, Monitoring, requestVars
<1>13. CASE UNCHANGED vars
  BY <1>13, QuietStutters DEF vars
<1> HIDE DEF Contract!Next
<1> QED BY <1>1, <1>2, <1>3, <1>4, <1>5, <1>6, <1>7, <1>8, <1>9, <1>10, <1>11, <1>12, <1>13
        DEF Next, MonitorReplay, Finished

\* The hook starts where the contract starts.
LEMMA InitMaps == Init => Contract!Init
<1> SUFFICES ASSUME Init PROVE Contract!Init
  OBVIOUS
<1>1. \A t \in Turns : t > 0
  BY ConfigAssumption DEF Turns
<1>2. TurnOwner \in [Turns -> Players]
  BY DEF Init, TurnOwner, Blank, Players
<1>3. TurnVerdict = [t \in Turns |-> "unissued"]
  BY <1>1 DEF Init, TurnVerdict
<1>4. matchEnded = FALSE
  BY DEF Init
<1> QED BY <1>2, <1>3, <1>4 DEF Contract!Init

\* TurnHook implements TurnContract: each request is settled at most once and
\* stays settled, a player has one open at a time, none is made after the
\* match - for any number of turns, any lists of legal actions, any fallback
\* mode and time limit, and any behaviour of the daemon.
THEOREM HookImplementsContract == Spec => ImplementsContract
<1>1. Init => Contract!Init
  BY InitMaps
<1>2. IInv /\ IInv' /\ [Next]_vars => [Contract!Next]_(Contract!vars)
  BY StepMaps DEF Contract!vars
<1> QED BY <1>1, <1>2, Safety, PTL DEF Spec, ImplementsContract, Contract!Spec

-----------------------------------------------------------------------------
(* The records agree: the telemetry, the pending requests and the history  *)
(* shown to the policies                                                   *)

\* Requests are about decision points that were reached.
SentPast == \A t \in 1..turnId : sent[t].tick <= tick

\* The open request of a player is the last one that went to it.
PendingIsLatest ==
  \A t \in pending, u \in 1..turnId : sent[u].player = sent[t].player => u <= t

\* The history says how the last settled request of a player and tick ended.
HistoryTells ==
  \A k \in 1..MatchLength, p \in Players : history[k].acted[p] = LastSettled(p, k)

\* An outcome taken while its tick is still being decided will be thrown away:
\* the game waits for a player whose decision builds the entry anew.
EnrichedIsAwaited ==
  \A k \in 1..MatchLength :
    k = tick /\ Recorded(k) /\ history[k].outcome # 0 => awaiting # {}

\* The game moves on only after somebody was asked.
AskedBeforeResolved ==
  phase # "absent" /\ awaiting = {} => \E t \in 1..turnId : sent[t].tick = tick

\* With IInv, the inductive invariant.
HInv == /\ SentPast
        /\ PendingIsLatest
        /\ HistoryTells
        /\ EnrichedIsAwaited
        /\ AskedBeforeResolved
        /\ OutcomesAreTrue
        /\ phase = "absent" => tick = 0

SettledFor(p, k) == {t \in SettledTurns : sent[t].player = p /\ sent[t].tick = k}

\* What a record of the telemetry says of how its turn ended.
Ending(record) ==
  IF record = <<"TurnRequested", "DecisionReceived", "DecisionApplied">>
  THEN "decision" ELSE "fallback"

-----------------------------------------------------------------------------
(* Settled turns *)

\* A set of turn numbers has a last one.
LEMMA LastOf ==
  ASSUME NEW n \in Nat, NEW S \in SUBSET (1..n), S # {}
  PROVE  \E t \in S : \A u \in S : u <= t
<1> DEFINE D == {d \in Nat : n - d \in S}
<1>1. D # {} /\ D \subseteq Nat
  <2>1. PICK t \in S : TRUE
    OBVIOUS
  <2>2. n - t \in Nat /\ n - (n - t) = t
    OBVIOUS
  <2> QED BY <2>2
<1>2. \E d \in D : \A e \in D : <<e, d>> \notin OpToRel(<, Nat)
  <2> HIDE DEF D
  <2> QED BY <1>1, NatLessThanWellFounded, WFMin
<1>3. PICK d \in D : \A e \in D : ~(e < d)
  <2>1. PICK d \in D : \A e \in D : <<e, d>> \notin OpToRel(<, Nat)
    BY <1>2
  <2>2. \A e \in D : ~(e < d)
    BY <1>1, <2>1 DEF OpToRel
  <2> QED BY <2>2
<1>4. \A u \in S : u <= n - d
  <2> TAKE u \in S
  <2>1. n - u \in Nat /\ n - (n - u) = u
    OBVIOUS
  <2>2. ~(n - u < d)
    BY <1>3, <2>1
  <2> QED BY <2>1, <2>2
<1> QED BY <1>4

\* The last of the settled turns that are in question.
LEMMA LastSettledIs ==
  ASSUME turnId \in Nat, NEW p, NEW k, NEW t \in SettledFor(p, k),
         \A u \in SettledFor(p, k) : u <= t
  PROVE  LastSettled(p, k) = Ending(telemetry[t])
<1> DEFINE ts == SettledFor(p, k)
           last == CHOOSE u \in ts : \A v \in ts : v <= u
<1>1. \A u \in ts : u \in Nat
  BY DEF SettledFor, SettledTurns
<1>2. last \in ts /\ \A v \in ts : v <= last
  OBVIOUS
<1>3. last = t
  BY <1>1, <1>2
<1>4. LastSettled(p, k) = IF ts = {} THEN "none" ELSE Ending(telemetry[last])
  BY DEF LastSettled, SettledFor, Ending
<1> HIDE DEF last
<1> QED BY <1>3, <1>4

\* Without a settled turn the player did not act.
LEMMA NoneSettled ==
  ASSUME NEW p, NEW k
  PROVE  (LastSettled(p, k) = "none") <=> (SettledFor(p, k) = {})
BY DEF LastSettled, SettledFor

\* As long as the settled turns of a player and tick stay as they are, so does
\* what the last of them says.
LEMMA LastSettledStays ==
  ASSUME turnId \in Nat, turnId' \in Nat, NEW p, NEW k,
         SettledFor(p, k)' = SettledFor(p, k),
         \A t \in SettledFor(p, k) : telemetry'[t] = telemetry[t]
  PROVE  LastSettled(p, k)' = LastSettled(p, k)
<1>1. CASE SettledFor(p, k) = {}
  <2>1. LastSettled(p, k) = "none"
    BY <1>1, NoneSettled
  <2>2. LastSettled(p, k)' = "none"
    BY <1>1 DEF LastSettled, SettledFor
  <2> QED BY <2>1, <2>2
<1>2. CASE SettledFor(p, k) # {}
  <2>1. SettledFor(p, k) \in SUBSET (1..turnId)
    BY DEF SettledFor, SettledTurns
  <2>2. PICK t \in SettledFor(p, k) : \A u \in SettledFor(p, k) : u <= t
    BY <1>2, <2>1, LastOf
  <2>3. LastSettled(p, k) = Ending(telemetry[t])
    BY <2>2, LastSettledIs
  <2>4. LastSettled(p, k)' = Ending(telemetry[t])'
    <3> DEFINE ts == SettledFor(p, k)'
               last == CHOOSE u \in ts : \A v \in ts : v <= u
    <3>1. \A u \in ts : u \in Nat
      BY <2>1
    <3>2. last \in ts /\ \A v \in ts : v <= last
      BY <2>2
    <3>3. last = t
      BY <2>2, <3>1, <3>2
    <3>4. LastSettled(p, k)' = IF ts = {} THEN "none" ELSE Ending(telemetry'[last])
      BY DEF LastSettled, SettledFor, Ending
    <3> HIDE DEF last
    <3> QED BY <1>2, <3>3, <3>4 DEF Ending
  <2> QED BY <2>2, <2>3, <2>4 DEF Ending
<1> QED BY <1>1, <1>2

-----------------------------------------------------------------------------
(* What the two kinds of handlers do to the invariant *)

\* What is known of the numbers of the turns.
LEMMA Numbers ==
  ASSUME IInv
  PROVE  /\ turnId \in Nat /\ turnId <= MaxTurns /\ MaxTurns \in Nat
         /\ Turns \subseteq Nat /\ 1..turnId \subseteq Turns
         /\ pending \subseteq 1..turnId
         /\ tick \in Nat /\ MatchLength \in Nat
<1>1. turnId \in Nat /\ turnId <= MaxTurns /\ MaxTurns \in Nat
  BY PendingIssued DEF IInv
<1>2. \A t \in pending : t \in 1..turnId
  BY PendingIssued DEF IInv
<1>3. tick \in Nat /\ MatchLength \in Nat
  BY ConfigAssumption DEF IInv, TypeOK
<1> QED BY <1>1, <1>2, <1>3 DEF Turns

\* An entry of the history tells who has acted, so its tick was reached, and
\* somebody was asked at it.
LEMMA RecordedWasAsked ==
  ASSUME IInv, HInv, NEW k \in 1..MatchLength, Recorded(k)
  PROVE  k <= tick /\ \E t \in 1..turnId : sent[t].tick = k
<1>1. PICK p \in Players : LastSettled(p, k) # "none"
  BY DEF Recorded, HInv, HistoryTells
<1>2. PICK t \in SettledFor(p, k) : TRUE
  BY <1>1, NoneSettled
<1>3. t \in 1..turnId /\ sent[t].tick = k
  BY <1>2 DEF SettledFor, SettledTurns
<1> QED BY <1>3 DEF HInv, SentPast

\* Asking the players that have no request open: the entry of the tick before
\* gets its outcome before anybody is asked about the new one.
LEMMA AskingAudits ==
  ASSUME IInv, HInv, ~matchEnded, OnPlayerActionable, awaiting # {},
         phase' = phase, tick' = tick, awaiting' = awaiting
  PROVE  HInv'
<1> DEFINE ps == {p \in awaiting : ~HasPending(p)}
           new == pending' \ pending
<1>1. ps \in SUBSET Players /\ SendRequests(ps) /\ EnrichLast
  BY DEF OnPlayerActionable, IInv, TypeOK
<1> HIDE DEF ps
<1>2. /\ turnId \in Nat /\ Turns \subseteq Nat /\ 1..turnId \subseteq Turns
      /\ pending \subseteq 1..turnId /\ tick \in Nat /\ MatchLength \in Nat
  BY Numbers
<1>3. /\ turnId' \in Nat /\ turnId' >= turnId
      /\ \A t \in 1..turnId : sent'[t] = sent[t] /\ telemetry'[t] = telemetry[t]
      /\ pending \subseteq pending'
      /\ \A t \in new :
           /\ t \in Turns /\ t > turnId /\ t <= turnId'
           /\ sent'[t].player \in ps /\ sent'[t].tick = tick
           /\ telemetry'[t] = <<"TurnRequested">>
      /\ \A t, u \in new : sent'[t].player = sent'[u].player => t = u
      /\ \A t \in 1..turnId' : t \in 1..turnId \/ t \in new
  <2>1. /\ turnId' \in 0..MaxTurns /\ turnId' >= turnId
        /\ pending' \in SUBSET Turns /\ pending \subseteq pending'
        /\ \A t \in Turns : t <= turnId => sent'[t] = sent[t]
        /\ \A t \in new :
             /\ t > turnId /\ t <= turnId'
             /\ sent'[t].player \in ps /\ sent'[t].tick = tick
        /\ \A t, u \in new : sent'[t].player = sent'[u].player => t = u
        /\ \A t \in Turns : t > turnId /\ t <= turnId' => t \in pending'
        /\ \A t \in Turns : telemetry'[t] = IF t \in new
                                            THEN Append(telemetry[t], "TurnRequested")
                                            ELSE telemetry[t]
    <3>1. \A t \in pending : t <= turnId
      BY <1>2
    <3> QED BY <1>1, <3>1, SendRequestsEffect DEF IInv
  <2>2. \A t \in 1..turnId : t \in Turns /\ t <= turnId /\ t \notin new
    BY <1>2, <2>1
  <2>3. \A t \in new : telemetry'[t] = <<"TurnRequested">>
    <3> TAKE t \in new
    <3>1. t \in Turns /\ t > turnId
      BY <2>1
    <3>2. telemetry[t] = <<>> /\ telemetry'[t] = Append(telemetry[t], "TurnRequested")
      BY <2>1, <3>1 DEF IInv, EmittedTells
    <3> QED BY <3>2
  <2>4. \A t \in 1..turnId' : t \in 1..turnId \/ t \in new
    <3> SUFFICES ASSUME NEW t \in 1..turnId', t \notin 1..turnId PROVE t \in new
      OBVIOUS
    <3>1. t \in Turns /\ t > turnId /\ t <= turnId'
      BY <1>2, <2>1, Numbers DEF Turns
    <3> QED BY <1>2, <2>1, <3>1
  <2>5. turnId' \in Nat /\ \A t \in new : t \in Turns
    BY <2>1
  <2> HIDE DEF new
  <2> QED BY <2>1, <2>2, <2>3, <2>4, <2>5
<1>4. \A p \in ps : \A t \in pending : sent[t].player # p
  BY DEF ps, HasPending
<1> HIDE DEF new
<1>5. SentPast'
  BY <1>2, <1>3 DEF HInv, SentPast
<1>6. PendingIsLatest'
  <2> SUFFICES ASSUME NEW t \in pending', NEW u \in 1..turnId',
                      sent'[u].player = sent'[t].player
               PROVE  u <= t
    BY DEF PendingIsLatest
  <2>1. CASE t \in new
    <3>1. CASE u \in new
      BY <1>2, <1>3, <2>1, <3>1
    <3>2. CASE u \in 1..turnId
      <4>1. t \in Nat /\ t > turnId /\ u <= turnId /\ u \in Nat
        BY <1>2, <1>3, <2>1, <3>2
      <4> QED BY <1>2, <4>1
    <3> QED BY <1>3, <3>1, <3>2
  <2>2. CASE t \notin new
    <3>1. t \in pending /\ t \in 1..turnId /\ sent'[t] = sent[t]
      BY <1>2, <1>3, <2>2 DEF new
    <3>2. u \notin new
      BY <1>3, <1>4, <3>1
    <3>3. u \in 1..turnId /\ sent'[u] = sent[u]
      BY <1>3, <3>2
    <3> QED BY <3>1, <3>3 DEF HInv, PendingIsLatest
  <2> QED BY <2>1, <2>2
<1>7. \A p, k : SettledFor(p, k)' = SettledFor(p, k)
                /\ \A t \in SettledFor(p, k) : telemetry'[t] = telemetry[t]
  <2>1. SettledTurns' = SettledTurns
    <3>1. SettledTurns' = {t \in 1..turnId' : telemetry'[t] # <<"TurnRequested">>}
      BY DEF SettledTurns
    <3>2. \A t \in 1..turnId : t \in 1..turnId'
      BY <1>2, <1>3
    <3> QED BY <1>3, <3>1, <3>2 DEF SettledTurns
  <2>2. \A t \in SettledTurns : sent'[t] = sent[t] /\ telemetry'[t] = telemetry[t]
    BY <1>3 DEF SettledTurns
  <2> QED BY <2>1, <2>2 DEF SettledFor
<1>8. \A k \in 1..MatchLength :
        /\ history'[k].acted = history[k].acted
        /\ history'[k].outcome = IF LastEntry(k) /\ history[k].outcome = 0
                                 THEN tick ELSE history[k].outcome
  <2>1. history \in [1..MatchLength -> Entries]
    BY DEF IInv, TypeOK
  <2>2. \A k \in 1..MatchLength : history[k] \in Entries
    BY <2>1
  <2> QED BY <1>1, <2>2 DEF EnrichLast, Entries
<1>9. HistoryTells'
  <2>1. \A k \in 1..MatchLength, p \in Players : LastSettled(p, k)' = LastSettled(p, k)
    BY <1>2, <1>3, <1>7, LastSettledStays
  <2> QED BY <1>8, <2>1 DEF HInv, HistoryTells
<1>10. \A k \in 1..MatchLength : Recorded(k)' <=> Recorded(k)
  BY <1>8 DEF Recorded
<1>11. OutcomesAreTrue'
  <2> SUFFICES ASSUME NEW k \in 1..MatchLength, Recorded(k), k < tick
               PROVE  history'[k].outcome = k + 1
    BY <1>10 DEF OutcomesAreTrue
  <2>1. CASE history[k].outcome = k + 1
    BY <1>2, <1>8, <2>1
  <2>2. CASE /\ history[k].outcome = 0 /\ k = tick - 1
             /\ \A t \in 1..turnId : sent[t].tick # tick
    <3>1. LastEntry(k)
      <4> SUFFICES ASSUME NEW j \in 1..MatchLength, Recorded(j) PROVE j <= k
        BY DEF LastEntry
      <4>1. j <= tick /\ j # tick
        BY <2>2, RecordedWasAsked
      <4> QED BY <1>2, <2>2, <4>1
    <3> QED BY <1>2, <1>8, <2>2, <3>1
  <2> QED BY <2>1, <2>2 DEF HInv, OutcomesAreTrue
<1>12. EnrichedIsAwaited'
  BY DEF EnrichedIsAwaited
<1>13. AskedBeforeResolved'
  BY DEF AskedBeforeResolved
<1> QED BY <1>5, <1>6, <1>9, <1>11, <1>12, <1>13 DEF HInv

\* What the record of a settled turn says is what the history is told.
LEMMA EndingOf ==
  ASSUME NEW r \in Resolutions
  PROVE  Ending(Settlement(r)) = IF r = "DecisionApplied" THEN "decision" ELSE "fallback"
<1>1. CASE r = "DecisionApplied"
  BY <1>1 DEF Ending, Settlement
<1>2. CASE r # "DecisionApplied"
  <2>1. Settlement(r) = <<"TurnRequested", r>>
    BY <1>2 DEF Settlement
  <2>2. Len(<<"TurnRequested", r>>) = 2
    OBVIOUS
  <2>3. Len(<<"TurnRequested", "DecisionReceived", "DecisionApplied">>) = 3
    OBVIOUS
  <2>4. <<"TurnRequested", r>> # <<"TurnRequested", "DecisionReceived", "DecisionApplied">>
    BY <2>2, <2>3
  <2> QED BY <1>2, <2>1, <2>4 DEF Ending
<1> QED BY <1>1, <1>2

\* The record of a settled turn is longer than that of an open one.
LEMMA SettlementIsLonger ==
  ASSUME NEW r \in Resolutions
  PROVE  Settlement(r) # <<"TurnRequested">>
<1>1. Len(<<"TurnRequested">>) = 1
  OBVIOUS
<1>2. Len(<<"TurnRequested", r>>) = 2
  OBVIOUS
<1>3. Len(<<"TurnRequested", "DecisionReceived", "DecisionApplied">>) = 3
  OBVIOUS
<1> QED BY <1>1, <1>2, <1>3 DEF Settlement

\* Settling open requests, in whichever way: the history gets an entry for the
\* tick that says the same as the telemetry, and has no outcome yet.
LEMMA SettlingAudits ==
  ASSUME IInv, HInv, NEW ts \in SUBSET pending,
         NEW act \in [ts -> Actions \cup {NoAction}],
         \A t \in ts : act[t] = NoAction \/ act[t] \in sent[t].legal,
         NEW r \in Resolutions, NEW events \in Seq(EventKinds),
         <<"TurnRequested">> \o events = Settlement(r),
         NEW how, how = IF r = "DecisionApplied" THEN "decision" ELSE "fallback",
         ApplyActions(act), EmitFor(ts, events), ClearPending(ts),
         RecordDecisions(ts, how),
         turnId' = turnId, sent' = sent, phase' = phase, tick' = tick
  PROVE  HInv'
<1>1. /\ turnId \in Nat /\ Turns \subseteq Nat /\ 1..turnId \subseteq Turns
      /\ pending \subseteq 1..turnId /\ tick \in Nat /\ MatchLength \in Nat
  BY Numbers
<1>2. /\ pending' = pending \ ts
      /\ \A t \in ts : t \in 1..turnId /\ sent[t].tick = tick
                     /\ telemetry[t] = <<"TurnRequested">>
                     /\ telemetry'[t] = Settlement(r)
      /\ \A t \in 1..turnId : t \notin ts => telemetry'[t] = telemetry[t]
  <2>1. \A t \in ts : t \in Turns /\ t \in 1..turnId /\ sent[t].tick = tick
                    /\ telemetry[t] = <<"TurnRequested">>
    BY <1>1 DEF IInv, PendingIsCurrent, EmittedTells
  <2> QED BY <1>1, <2>1 DEF ClearPending, EmitFor
<1>3. /\ \A p \in awaiting : (\A t \in ts : sent[t].player # p) => p \in awaiting'
      /\ awaiting' \subseteq awaiting
  BY ApplyActionsEffect DEF IInv
<1>4. \A k \in 1..MatchLength :
        IF k = tick /\ ts # {}
        THEN /\ history'[k].outcome = 0
             /\ \A p \in Players :
                  history'[k].acted[p] = IF \E t \in ts : sent[t].player = p
                                         THEN how ELSE history[k].acted[p]
        ELSE history'[k] = history[k]
  <2> TAKE k \in 1..MatchLength
  <2> DEFINE new == [acted |-> [p \in Players |-> IF \E t \in ts : sent[t].player = p
                                                 THEN how ELSE history[k].acted[p]],
                     outcome |-> 0]
  <2>1. history'[k] = IF k = tick /\ ts # {} THEN new ELSE history[k]
    BY DEF RecordDecisions
  <2>2. /\ new.outcome = 0
        /\ \A p \in Players : new.acted[p] = IF \E t \in ts : sent[t].player = p
                                            THEN how ELSE history[k].acted[p]
    OBVIOUS
  <2> HIDE DEF new
  <2> QED BY <2>1, <2>2
<1>5. SentPast' /\ PendingIsLatest'
  BY <1>2 DEF HInv, SentPast, PendingIsLatest
<1>6. SettledTurns' = SettledTurns \cup ts
  <2>1. SettledTurns' = {t \in 1..turnId : telemetry'[t] # <<"TurnRequested">>}
    BY DEF SettledTurns
  <2>2. \A t \in ts : telemetry'[t] # <<"TurnRequested">>
    BY <1>2, SettlementIsLonger
  <2> QED BY <1>2, <2>1, <2>2 DEF SettledTurns
<1>7. ASSUME NEW k \in 1..MatchLength, NEW p \in Players
      PROVE  history'[k].acted[p] = LastSettled(p, k)'
  <2>1. history[k].acted[p] = LastSettled(p, k)
    BY DEF HInv, HistoryTells
  <2>2. SettledFor(p, k)' = SettledFor(p, k)
                            \cup {t \in ts : sent[t].player = p /\ sent[t].tick = k}
    BY <1>6 DEF SettledFor
  <2>3. CASE k = tick /\ \E t \in ts : sent[t].player = p
    <3>1. PICK t \in ts : sent[t].player = p
      BY <2>3
    <3>2. t \in SettledFor(p, k)' /\ t \in pending
      BY <1>2, <2>2, <2>3, <3>1
    <3>3. \A u \in SettledFor(p, k)' : u \in 1..turnId /\ u <= t
      <4> TAKE u \in SettledFor(p, k)'
      <4>1. u \in 1..turnId /\ sent[u].player = p
        BY DEF SettledFor, SettledTurns
      <4> QED BY <3>1, <3>2, <4>1 DEF HInv, PendingIsLatest
    <3>4. LastSettled(p, k)' = Ending(telemetry'[t])
      <4> DEFINE us == SettledFor(p, k)'
                 last == CHOOSE u \in us : \A v \in us : v <= u
      <4>1. last \in us /\ \A v \in us : v <= last
        BY <3>2, <3>3
      <4>2. last = t
        BY <3>2, <3>3, <4>1
      <4>3. LastSettled(p, k)' = IF us = {} THEN "none" ELSE Ending(telemetry'[last])
        BY DEF LastSettled, SettledFor, Ending
      <4> HIDE DEF last
      <4> QED BY <3>2, <4>2, <4>3
    <3>5. Ending(telemetry'[t]) = how
      BY <1>2, <3>1, EndingOf
    <3>6. history'[k].acted[p] = how
      BY <1>4, <2>3
    <3> QED BY <3>4, <3>5, <3>6
  <2>4. CASE ~(k = tick /\ \E t \in ts : sent[t].player = p)
    <3>1. SettledFor(p, k)' = SettledFor(p, k)
      BY <1>2, <2>2, <2>4
    <3>2. \A t \in SettledFor(p, k) : telemetry'[t] = telemetry[t]
      BY <1>2 DEF SettledFor, SettledTurns
    <3>3. LastSettled(p, k)' = LastSettled(p, k)
      BY <1>1, <3>1, <3>2, LastSettledStays
    <3>4. history'[k].acted[p] = history[k].acted[p]
      BY <1>4, <2>4
    <3> QED BY <2>1, <3>3, <3>4
  <2> QED BY <2>3, <2>4
<1>8. HistoryTells'
  BY <1>7 DEF HistoryTells
<1>9. EnrichedIsAwaited'
  <2> SUFFICES ASSUME NEW k \in 1..MatchLength, k = tick, Recorded(k)',
                      history'[k].outcome # 0
               PROVE  awaiting' # {}
    BY DEF EnrichedIsAwaited
  <2>1. ts = {} /\ history'[k] = history[k]
    BY <1>4
  <2>2. Recorded(k)
    BY <2>1 DEF Recorded
  <2>3. awaiting # {}
    BY <2>1, <2>2 DEF HInv, EnrichedIsAwaited
  <2> QED BY <1>3, <2>1, <2>3
<1>10. AskedBeforeResolved'
  <2> SUFFICES ASSUME phase # "absent", awaiting' = {}
               PROVE  \E t \in 1..turnId : sent[t].tick = tick
    BY DEF AskedBeforeResolved
  <2>1. CASE awaiting = {}
    BY <2>1 DEF HInv, AskedBeforeResolved
  <2>2. CASE awaiting # {}
    <3>1. PICK t \in ts : TRUE
      BY <1>3, <2>2
    <3> QED BY <1>2, <3>1
  <2> QED BY <2>1, <2>2
<1>11. OutcomesAreTrue'
  <2> SUFFICES ASSUME NEW k \in 1..MatchLength, Recorded(k)', k < tick
               PROVE  \/ history'[k].outcome = k + 1
                      \/ /\ history'[k].outcome = 0 /\ k = tick - 1
                         /\ \A t \in 1..turnId : sent[t].tick # tick
    BY DEF OutcomesAreTrue
  <2>1. history'[k] = history[k]
    BY <1>1, <1>4
  <2>2. Recorded(k)
    BY <2>1 DEF Recorded
  <2> QED BY <2>1, <2>2 DEF HInv, OutcomesAreTrue
<1> QED BY <1>5, <1>8, <1>9, <1>10, <1>11 DEF HInv

\* Steps that change neither the history nor the game's decision point, and ask
\* or settle nothing; they may drop open requests, as the end of a match does.
LEMMA QuietAudits ==
  ASSUME IInv, HInv, pending' \subseteq pending,
         UNCHANGED <<tick, awaiting, turnId, sent, telemetry, history>>,
         phase' = "absent" <=> phase = "absent"
  PROVE  HInv'
<1>1. SentPast' /\ PendingIsLatest'
  BY DEF HInv, SentPast, PendingIsLatest
<1>2. HistoryTells'
  BY DEF HInv, HistoryTells, LastSettled, SettledTurns
<1>3. EnrichedIsAwaited'
  BY DEF HInv, EnrichedIsAwaited, Recorded
<1>4. AskedBeforeResolved'
  BY DEF HInv, AskedBeforeResolved
<1>5. OutcomesAreTrue'
  BY DEF HInv, OutcomesAreTrue, Recorded
<1> QED BY <1>1, <1>2, <1>3, <1>4, <1>5 DEF HInv

\* Steps that change nothing of this.
LEMMA StillAudits ==
  ASSUME IInv, HInv,
         UNCHANGED <<phase, tick, awaiting, turnId, sent, pending, telemetry, history>>
  PROVE  HInv'
<1>1. pending' \subseteq pending /\ (phase' = "absent" <=> phase = "absent")
  OBVIOUS
<1>2. UNCHANGED <<tick, awaiting, turnId, sent, telemetry, history>>
  OBVIOUS
<1> QED BY <1>1, <1>2, QuietAudits

-----------------------------------------------------------------------------
(* The invariant *)

\* A round of fallbacks.
LEMMA FallbacksAudit ==
  ASSUME IInv, HInv, NEW ts \in SUBSET pending, NEW reason \in Reasons,
         ApplyFallbacks(ts, reason), phase' = phase, tick' = tick
  PROVE  HInv'
<1>1. PICK act \in [ts -> Actions \cup {NoAction}] :
        (\A t \in ts : act[t] \in FallbackChoices(t)) /\ ApplyActions(act)
  BY DEF ApplyFallbacks
<1>2. \A t \in ts : act[t] = NoAction \/ act[t] \in sent[t].legal
  BY <1>1, FallbackIsLegal DEF IInv, TypeOK
<1>3. /\ reason \in Resolutions /\ reason # "DecisionApplied"
      /\ <<reason>> \in Seq(EventKinds)
      /\ <<"TurnRequested">> \o <<reason>> = Settlement(reason)
  BY DEF Resolutions, EventKinds, Settlement, Reasons
<1>4. /\ EmitFor(ts, <<reason>>) /\ ClearPending(ts) /\ RecordDecisions(ts, "fallback")
      /\ turnId' = turnId /\ sent' = sent
  BY DEF ApplyFallbacks
<1> QED BY <1>1, <1>2, <1>3, <1>4, SettlingAudits

\* A valid decision.
LEMMA DecisionAudits ==
  ASSUME IInv, HInv, NEW m \in Decisions, m.turn \in pending,
         Verdict(m) = "ok", ApplyValidDecision(m), phase' = phase, tick' = tick
  PROVE  HInv'
<1> DEFINE act == [t \in {m.turn} |-> m.action]
<1>1. /\ ApplyActions(act) /\ RecordDecisions({m.turn}, "decision")
      /\ EmitFor({m.turn}, <<"DecisionReceived", "DecisionApplied">>)
      /\ ClearPending({m.turn}) /\ turnId' = turnId /\ sent' = sent
  BY DEF ApplyValidDecision
<1>2. /\ act \in [{m.turn} -> Actions \cup {NoAction}]
      /\ \A t \in {m.turn} : act[t] \in sent[t].legal
  BY DEF Decisions, Verdict
<1>3. /\ "DecisionApplied" \in Resolutions
      /\ <<"DecisionReceived", "DecisionApplied">> \in Seq(EventKinds)
  BY DEF Resolutions, EventKinds
<1>4. <<"TurnRequested">> \o <<"DecisionReceived", "DecisionApplied">>
        = Settlement("DecisionApplied")
  <2>1. /\ "TurnRequested" \in EventKinds /\ "DecisionReceived" \in EventKinds
        /\ "DecisionApplied" \in EventKinds
    BY DEF EventKinds, Resolutions
  <2> QED BY <2>1, OneThenTwo DEF Settlement
<1>5. {m.turn} \in SUBSET pending
  OBVIOUS
<1> HIDE DEF act
<1> QED BY <1>1, <1>2, <1>3, <1>4, <1>5, SettlingAudits

\* Nothing is recorded when the mod has been loaded.
LEMMA InitAudits == Init => HInv
<1> SUFFICES ASSUME Init PROVE HInv
  OBVIOUS
<1>1. /\ turnId = 0 /\ pending = {} /\ phase = "absent" /\ tick = 0
      /\ \A k \in 1..MatchLength, p \in Players : history[k].acted[p] = "none"
  BY DEF Init, NoEntry
<1>2. 1..0 = {}
  OBVIOUS
<1>3. SettledTurns = {}
  BY <1>1, <1>2 DEF SettledTurns
<1>4. \A k \in 1..MatchLength, p \in Players : LastSettled(p, k) = "none"
  BY <1>3 DEF LastSettled
<1>5. \A k \in 1..MatchLength : ~Recorded(k)
  BY <1>1 DEF Recorded
<1> QED BY <1>1, <1>2, <1>4, <1>5
        DEF HInv, SentPast, PendingIsLatest, HistoryTells, EnrichedIsAwaited,
            AskedBeforeResolved, OutcomesAreTrue

\* Every step keeps it.
LEMMA NextAudits == IInv /\ HInv /\ [Next]_vars => HInv'
<1> SUFFICES ASSUME IInv, HInv, [Next]_vars PROVE HInv'
  OBVIOUS
<1>0. TypeOK /\ Lifecycle /\ PendingIsCurrent
  BY DEF IInv
<1>1. CASE StartMatch
  <2>1. /\ tick = 0 /\ tick' = 1 /\ awaiting' # {} /\ phase' = "live"
        /\ UNCHANGED <<turnId, sent, pending, telemetry, history>>
    BY <1>1 DEF StartMatch, HInv, requestVars
  <2>2. SentPast' /\ PendingIsLatest'
    <3>1. \A t \in 1..turnId : sent[t].tick \in Nat
      BY <1>0, Numbers DEF TypeOK, Requests
    <3> QED BY <2>1, <3>1 DEF HInv, SentPast, PendingIsLatest
  <2>3. HistoryTells'
    <3>1. \A k \in 1..MatchLength, p \in Players : LastSettled(p, k)' = LastSettled(p, k)
      BY <2>1 DEF LastSettled, SettledTurns
    <3> QED BY <2>1, <3>1 DEF HInv, HistoryTells
  <2>4. OutcomesAreTrue'
    <3>1. \A k \in 1..MatchLength : ~(k < 1)
      OBVIOUS
    <3> QED BY <2>1, <3>1 DEF OutcomesAreTrue
  <2> QED BY <2>1, <2>2, <2>3, <2>4 DEF HInv, EnrichedIsAwaited, AskedBeforeResolved
<1>2. CASE PlayerActionable
  <2>1. /\ phase = "live" /\ awaiting # {} /\ ~matchEnded
        /\ phase' = phase /\ tick' = tick /\ awaiting' = awaiting
    BY <1>2, <1>0 DEF PlayerActionable, Lifecycle
  <2>2. CASE gameConnected
    <3>1. OnPlayerActionable
      BY <1>2, <2>2 DEF PlayerActionable
    <3> QED BY <2>1, <3>1, AskingAudits
  <2>3. CASE ~gameConnected
    <3>1. UNCHANGED <<history, turnId, sent, pending, telemetry>>
      BY <1>2, <2>3 DEF PlayerActionable, requestVars
    <3> QED BY <2>1, <3>1, StillAudits
  <2> QED BY <2>2, <2>3
<1>3. CASE ResolveTick
  <2>1. /\ phase = "live" /\ awaiting = {} /\ tick < MatchLength
        /\ tick' = tick + 1 /\ awaiting' # {} /\ phase' = phase
        /\ UNCHANGED <<turnId, sent, pending, telemetry, history>>
    BY <1>3 DEF ResolveTick, requestVars
  <2>2. /\ tick \in Nat /\ MatchLength \in Nat
        /\ \A t \in 1..turnId : sent[t].tick \in Nat /\ sent[t].tick <= tick
    BY <1>0, Numbers DEF HInv, SentPast, TypeOK, Requests
  <2>3. SentPast' /\ PendingIsLatest'
    BY <2>1, <2>2 DEF HInv, SentPast, PendingIsLatest
  <2>4. HistoryTells'
    <3>1. \A k \in 1..MatchLength, p \in Players : LastSettled(p, k)' = LastSettled(p, k)
      BY <2>1 DEF LastSettled, SettledTurns
    <3> QED BY <2>1, <3>1 DEF HInv, HistoryTells
  <2>5. OutcomesAreTrue'
    <3> SUFFICES ASSUME NEW k \in 1..MatchLength, Recorded(k), k < tick + 1
                 PROVE  \/ history[k].outcome = k + 1
                        \/ /\ history[k].outcome = 0 /\ k = (tick + 1) - 1
                           /\ \A t \in 1..turnId : sent[t].tick # tick + 1
      BY <2>1 DEF OutcomesAreTrue, Recorded
    <3>1. CASE k = tick
      <4>1. history[k].outcome = 0
        BY <2>1, <3>1 DEF HInv, EnrichedIsAwaited
      <4> QED BY <2>2, <3>1, <4>1
    <3>2. CASE k # tick
      <4>1. k < tick
        BY <2>2, <3>2
      <4>2. PICK t \in 1..turnId : sent[t].tick = tick
        BY <2>1 DEF HInv, AskedBeforeResolved
      <4> QED BY <4>1, <4>2 DEF HInv, OutcomesAreTrue
    <3> QED BY <3>1, <3>2
  <2> QED BY <2>1, <2>3, <2>4, <2>5 DEF HInv, EnrichedIsAwaited, AskedBeforeResolved
<1>4. CASE EndMatch
  <2>1. /\ phase = "live" /\ phase' = "won" /\ pending' = {}
        /\ UNCHANGED <<tick, awaiting, turnId, sent, telemetry, history>>
    BY <1>4 DEF EndMatch, ClearPending
  <2>2. pending' \subseteq pending /\ (phase' = "absent" <=> phase = "absent")
    BY <2>1
  <2> QED BY <2>1, <2>2, QuietAudits
<1>5. CASE AttachToGame
  <2>1. UNCHANGED <<phase, tick, awaiting, turnId, sent, pending, telemetry, history>>
    BY <1>5 DEF AttachToGame, gameVars, requestVars
  <2> QED BY <2>1, StillAudits
<1>6. CASE CheckAlreadyActionable
  <2>1. UNCHANGED <<phase, tick, awaiting>>
    BY <1>6 DEF CheckAlreadyActionable, gameVars
  <2>2. CASE ~matchEnded /\ awaiting # {}
    <3>1. OnPlayerActionable
      BY <1>6, <2>2 DEF CheckAlreadyActionable
    <3> QED BY <2>1, <2>2, <3>1, AskingAudits
  <2>3. CASE ~(~matchEnded /\ awaiting # {})
    <3>1. UNCHANGED <<history, turnId, sent, pending, telemetry>>
      BY <1>6, <2>3 DEF CheckAlreadyActionable, requestVars
    <3> QED BY <2>1, <3>1, StillAudits
  <2> QED BY <2>2, <2>3
<1>7. CASE CheckTimeouts
  <2>1. /\ ApplyFallbacks(Expired, "timeout") /\ phase' = phase /\ tick' = tick
        /\ Expired \in SUBSET pending /\ "timeout" \in Reasons
    BY <1>7 DEF CheckTimeouts, Expired, Reasons
  <2> QED BY <2>1, FallbacksAudit
<1>8. CASE TimePasses
  <2>1. UNCHANGED <<phase, tick, awaiting, turnId, sent, pending, telemetry, history>>
    BY <1>8 DEF TimePasses, gameVars
  <2> QED BY <2>1, StillAudits
<1>9. ASSUME NEW m \in Decisions, OnDaemonMessage(m)
      PROVE  HInv'
  <2>1. m.turn \in pending /\ phase' = phase /\ tick' = tick
    BY <1>9 DEF OnDaemonMessage, Correlates
  <2>2. CASE Verdict(m) = "ok"
    <3>1. ApplyValidDecision(m)
      BY <1>9, <2>2 DEF OnDaemonMessage
    <3> QED BY <2>1, <2>2, <3>1, DecisionAudits
  <2>3. CASE Verdict(m) # "ok"
    <3>1. ApplyFallbacks({m.turn}, Verdict(m))
      BY <1>9, <2>3 DEF OnDaemonMessage
    <3>2. Verdict(m) \in Reasons
      BY <2>3 DEF Verdict, Reasons, Decisions, Details
    <3>3. {m.turn} \in SUBSET pending
      BY <2>1
    <3> QED BY <2>1, <3>1, <3>2, <3>3, FallbacksAudit
  <2> QED BY <2>2, <2>3
<1>10. CASE OnDaemonDisconnected
  <2>1. phase' = phase /\ tick' = tick
    BY <1>10 DEF OnDaemonDisconnected
  <2>2. CASE matchEnded
    <3>1. UNCHANGED <<awaiting, history, turnId, sent, pending, telemetry>>
      BY <1>10, <2>2 DEF OnDaemonDisconnected, requestVars
    <3> QED BY <2>1, <3>1, StillAudits
  <2>3. CASE ~matchEnded
    <3>1. ApplyFallbacks(pending, "disconnect") /\ "disconnect" \in Reasons
      BY <1>10, <2>3 DEF OnDaemonDisconnected, Reasons
    <3> QED BY <2>1, <3>1, FallbacksAudit
  <2> QED BY <2>2, <2>3
<1>11. CASE ReplayGameMoves
  <2>1. UNCHANGED <<phase, tick, awaiting, turnId, sent, pending, telemetry, history>>
    BY <1>11 DEF ReplayGameMoves, requestVars
  <2> QED BY <2>1, StillAudits
<1>12. CASE MonitorReplay
  <2>1. Monitoring
    BY <1>12 DEF MonitorReplay, ReplayWaitTimesOut, DetectReplayGame, ReplayGameFreed,
                 ReplayGraceStarts, ReplayGraceOver
  <2>2. UNCHANGED <<phase, tick, awaiting, turnId, sent, pending, telemetry, history>>
    BY <2>1 DEF Monitoring, gameVars, requestVars
  <2> QED BY <2>2, StillAudits
<1>13. CASE UNCHANGED vars
  <2>1. UNCHANGED <<phase, tick, awaiting, turnId, sent, pending, telemetry, history>>
    BY <1>13 DEF vars
  <2> QED BY <2>1, StillAudits
<1> QED BY <1>1, <1>2, <1>3, <1>4, <1>5, <1>6, <1>7, <1>8, <1>9, <1>10, <1>11, <1>12, <1>13
        DEF Next, MonitorReplay, Finished

\* Every reachable state satisfies both invariants.
LEMMA Audited == Spec => [](IInv /\ HInv)
<1>1. Init => IInv /\ HInv
  BY InitSafe, InitAudits
<1>2. IInv /\ HInv /\ [Next]_vars => IInv' /\ HInv'
  BY NextSafe, NextAudits
<1> QED BY <1>1, <1>2, PTL DEF Spec

-----------------------------------------------------------------------------
(* What follows for the behaviours of the hook *)

\* The pending requests, the telemetry and the history agree in every reachable
\* state, whatever the daemon, the game and the clock do.
THEOREM RecordsAgree == Spec => []AuditTrail
<1>1. IInv /\ HInv => AuditTrail
  <2> SUFFICES ASSUME IInv, HInv PROVE AuditTrail
    OBVIOUS
  <2>1. \A t \in 1..turnId : t \in Turns /\ t <= turnId
    BY Numbers
  <2>2. ASSUME NEW t \in SettledTurns
        PROVE  /\ t \notin pending
               /\ \/ telemetry[t] = <<"TurnRequested", "DecisionReceived", "DecisionApplied">>
                  \/ \E r \in Reasons : telemetry[t] = <<"TurnRequested", r>>
    <3>1. t \in Turns /\ t <= turnId /\ telemetry[t] # <<"TurnRequested">>
      BY <2>1 DEF SettledTurns
    <3>2. t \notin pending /\ \E r \in Resolutions : telemetry[t] = Settlement(r)
      BY <3>1 DEF IInv, EmittedTells
    <3>3. PICK r \in Resolutions : telemetry[t] = Settlement(r)
      BY <3>2
    <3> QED BY <3>2, <3>3 DEF Resolutions, Settlement
  <2>3. ASSUME ~matchEnded, NEW t \in (1..turnId) \ SettledTurns PROVE t \in pending
    <3>1. t \in Turns /\ t <= turnId /\ telemetry[t] = <<"TurnRequested">>
      BY <2>1 DEF SettledTurns
    <3>2. \A r \in Resolutions : telemetry[t] # Settlement(r)
      BY <3>1, SettlementIsLonger
    <3> QED BY <2>3, <3>1, <3>2 DEF IInv, EmittedTells
  <2> QED BY <2>2, <2>3 DEF AuditTrail, HInv, HistoryTells
<1> QED BY <1>1, Audited, PTL

\* The outcome of a tick that is over was taken at the decision point behind it,
\* however often and in whatever order signals and decisions came.
THEOREM OutcomesAreOfTheirTick == Spec => []OutcomesAreTrue
<1>1. IInv /\ HInv => OutcomesAreTrue
  BY DEF HInv
<1> QED BY <1>1, Audited, PTL

=============================================================================
