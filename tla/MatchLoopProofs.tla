--------------------------- MODULE MatchLoopProofs ---------------------------
(***************************************************************************)
(* Proofs about MatchLoop for every value of its constants.                *)
(***************************************************************************)
EXTENDS MatchLoop, FiniteSetTheorems, TLAPS

\* The requests waiting to be read were sent and not dispatched, each waits
\* once, and a match end names a match.
QueueTells(q, n, tk) ==
  /\ \A i \in DOMAIN q : q[i].kind = "decision_request" =>
       q[i].turn \in 1..n /\ tk[q[i].turn] = "none"
  /\ \A i, j \in DOMAIN q :
       (/\ q[i].kind = "decision_request" /\ q[j].kind = "decision_request"
        /\ q[i].turn = q[j].turn) => i = j
  /\ \A i \in DOMAIN q : q[i].kind = "match_ended" => q[i].match \in MatchIds

Queued == QueueTells(inbox, Len(request), task)

\* A dispatched request was sent, there is a writer since, and it is
\* remembered; no two of them are for one player and state.
Dispatched ==
  /\ \A t \in Turns : task[t] # "none" =>
       /\ t \in 1..Len(request) /\ matchId # NoMatch
       /\ <<request[t].player, request[t].hash>> \in seen
  /\ \A t, u \in Turns :
       (/\ task[t] # "none" /\ task[u] # "none"
        /\ request[t].player = request[u].player
        /\ request[t].hash = request[u].hash) => t = u

\* What a task has logged, by how far it has come, and whether its request is
\* of the writer's match.
TaskTells(s, c, own) ==
  /\ s \in {"none", "created"} => c = <<>>
  /\ s = "failed" => c = <<>> /\ ~own
  /\ s = "thinking" => c = <<"TurnRequested">> /\ own
  /\ s = "done" => own /\ \E how \in Answers : c = <<"TurnRequested", "decision", how>>

Logged == \A t \in Turns : TaskTells(task[t], trace[t], request[t].match = matchId)

\* Answers are those of finished tasks, one each.
Answered ==
  /\ \A i \in DOMAIN wire : task[wire[i]] = "done"
  /\ \A i, j \in DOMAIN wire : wire[i] = wire[j] => i = j

InLoop == loop \in {"reading", "draining"}
NoneCancelled == \A t \in Turns : task[t] # "cancelled"

\* What is known of the way out, by how far it has come.
Ending ==
  /\ loop = "reading" => ended = NoEnd
  /\ loop = "draining" => ended # NoEnd
  /\ InLoop => result.status = "in_progress" /\ NoneCancelled
  /\ ~InLoop => Live = {}
  /\ loop = "capturing" => result.status # "in_progress"
  /\ InLoop \/ loop = "capturing" => ~stopping
  /\ result.status = "in_progress" => result.reason = "none"
  /\ result.reason = "match_ended" => NoneCancelled

\* The inductive invariant.
IInv == /\ TypeOK /\ Queued /\ Dispatched /\ Logged /\ Answered /\ Ending
        /\ ResultIsFinal /\ StopAfterResult

-----------------------------------------------------------------------------
(* Sequences *)

\* The head and the tail of a sequence that is not empty.
LEMMA TailFacts ==
  ASSUME NEW S, NEW s \in Seq(S), s # <<>>
  PROVE  /\ Len(s) \in Nat \ {0} /\ DOMAIN s = 1..Len(s)
         /\ Head(s) = s[1] /\ Head(s) \in S
         /\ Tail(s) \in Seq(S) /\ DOMAIN Tail(s) = 1..(Len(s) - 1)
         /\ \A i \in 1..(Len(s) - 1) : Tail(s)[i] = s[i + 1]
OBVIOUS

\* One more element.
LEMMA AppendFacts ==
  ASSUME NEW S, NEW s \in Seq(S), NEW e \in S
  PROVE  /\ Len(s) \in Nat /\ DOMAIN s = 1..Len(s)
         /\ Append(s, e) \in Seq(S) /\ DOMAIN Append(s, e) = 1..(Len(s) + 1)
         /\ Len(Append(s, e)) = Len(s) + 1
         /\ \A i \in 1..Len(s) : Append(s, e)[i] = s[i]
         /\ Append(s, e)[Len(s) + 1] = e
OBVIOUS

\* Reading the first message leaves the others as they are, and none of them
\* is the same request.
LEMMA QueueTail ==
  ASSUME NEW q \in Seq(Messages), NEW n, NEW tk, q # <<>>, QueueTells(q, n, tk)
  PROVE  /\ QueueTells(Tail(q), n, tk)
         /\ Head(q).kind = "decision_request" =>
              /\ Head(q).turn \in 1..n /\ tk[Head(q).turn] = "none"
              /\ \A i \in DOMAIN Tail(q) : Tail(q)[i].kind = "decision_request" =>
                   Tail(q)[i].turn # Head(q).turn
         /\ Head(q).kind = "match_ended" => Head(q).match \in MatchIds
<1>1. /\ Len(q) \in Nat \ {0} /\ DOMAIN q = 1..Len(q) /\ Head(q) = q[1]
      /\ DOMAIN Tail(q) = 1..(Len(q) - 1)
      /\ \A i \in 1..(Len(q) - 1) : Tail(q)[i] = q[i + 1]
  BY TailFacts
<1>2. \A i \in DOMAIN Tail(q) : i + 1 \in DOMAIN q /\ i + 1 # 1 /\ Tail(q)[i] = q[i + 1]
  BY <1>1
<1>3. \A i, j \in DOMAIN Tail(q) : i + 1 = j + 1 => i = j
  BY <1>1
<1>4. 1 \in DOMAIN q
  BY <1>1
<1>5. QueueTells(Tail(q), n, tk)
  BY <1>2, <1>3 DEF QueueTells
<1>6. Head(q).kind = "decision_request" =>
        /\ Head(q).turn \in 1..n /\ tk[Head(q).turn] = "none"
        /\ \A i \in DOMAIN Tail(q) : Tail(q)[i].kind = "decision_request" =>
             Tail(q)[i].turn # Head(q).turn
  BY <1>1, <1>2, <1>4 DEF QueueTells
<1>7. Head(q).kind = "match_ended" => Head(q).match \in MatchIds
  BY <1>1, <1>4 DEF QueueTells
<1> QED BY <1>5, <1>6, <1>7

\* Tasks that were not dispatched may stay so.
LEMMA QueueTasks ==
  ASSUME NEW q, NEW n, NEW tk, NEW tl, QueueTells(q, n, tk),
         \A i \in DOMAIN q : q[i].kind = "decision_request" /\ tk[q[i].turn] = "none"
                             => tl[q[i].turn] = "none"
  PROVE  QueueTells(q, n, tl)
BY DEF QueueTells

\* A message other than a request joins the queue.
LEMMA QueueAppend ==
  ASSUME NEW q \in Seq(Messages), NEW n, NEW tk, NEW m \in Messages,
         QueueTells(q, n, tk), m.kind # "decision_request",
         m.kind = "match_ended" => m.match \in MatchIds
  PROVE  QueueTells(Append(q, m), n, tk)
<1>1. /\ Len(q) \in Nat /\ DOMAIN q = 1..Len(q)
      /\ DOMAIN Append(q, m) = 1..(Len(q) + 1)
      /\ \A i \in 1..Len(q) : Append(q, m)[i] = q[i]
      /\ Append(q, m)[Len(q) + 1] = m
  BY AppendFacts
<1>2. \A i \in DOMAIN Append(q, m) :
        \/ i \in DOMAIN q /\ Append(q, m)[i] = q[i]
        \/ Append(q, m)[i] = m
  BY <1>1
<1> QED BY <1>2 DEF QueueTells

\* A new request joins the queue.
LEMMA QueueRequest ==
  ASSUME NEW q \in Seq(Messages), NEW n \in Nat, NEW tk, NEW m \in Messages,
         QueueTells(q, n, tk), m.kind = "decision_request", m.turn = n + 1,
         tk[n + 1] = "none"
  PROVE  QueueTells(Append(q, m), n + 1, tk)
<1>1. /\ Len(q) \in Nat /\ DOMAIN q = 1..Len(q)
      /\ DOMAIN Append(q, m) = 1..(Len(q) + 1)
      /\ \A i \in 1..Len(q) : Append(q, m)[i] = q[i]
      /\ Append(q, m)[Len(q) + 1] = m
  BY AppendFacts
<1>2. \A i \in DOMAIN Append(q, m) :
        \/ i \in DOMAIN q /\ Append(q, m)[i] = q[i]
        \/ i = Len(q) + 1 /\ Append(q, m)[i] = m
  BY <1>1
<1>3. \A k \in 1..n : k \in 1..(n + 1) /\ k # n + 1
  OBVIOUS
<1>4. n + 1 \in 1..(n + 1) /\ m.kind # "match_ended"
  OBVIOUS
<1> QED BY <1>2, <1>3, <1>4 DEF QueueTells

-----------------------------------------------------------------------------
(* The decisions *)

\* There are no more decisions than requests.
LEMMA DecisionsCounted ==
  ASSUME NEW S, S \subseteq Turns
  PROVE  IsFiniteSet(S) /\ Cardinality(S) \in 0..MaxRequests
<1>1. IsFiniteSet(Turns) /\ Cardinality(Turns) = MaxRequests
  BY FS_Interval, BoundAssumption DEF Turns
<1>2. IsFiniteSet(S) /\ Cardinality(S) <= MaxRequests
  BY <1>1, FS_Subset
<1>3. Cardinality(S) \in Nat
  BY <1>2, FS_CardinalityType
<1> QED BY <1>2, <1>3, BoundAssumption

-----------------------------------------------------------------------------
(* The way out *)

\* What Finish comes to: no writer, a refused match end, or a result.
LEMMA FinishEffect ==
  ASSUME IInv, NEW payload \in Payloads, NEW failed \in BOOLEAN,
         Finish(payload, failed)
  PROVE  /\ task' = [t \in Turns |-> IF t \in Live THEN "cancelled" ELSE task[t]]
         /\ ended' = payload /\ errors' = failed
         /\ link' \in {"open", "closed", "lost"}
         /\ \/ /\ loop' = "returned" /\ stopping' = TRUE
               /\ matchId = NoMatch /\ result' = result
            \/ loop' = "raised" /\ stopping' = stopping /\ result' = result
            \/ /\ result' = FinalResult(payload, failed)
               /\ \/ loop' = "capturing" /\ stopping' = stopping
                  \/ loop' = "returned" /\ stopping' = TRUE
<1>1. task' = [t \in Turns |-> IF t \in Live THEN "cancelled" ELSE task[t]]
      /\ ended' = payload /\ errors' = failed
  BY DEF Finish, CancelLive
<1>2. link \in {"open", "closed", "lost"}
  BY DEF IInv, TypeOK
<1> QED BY <1>1, <1>2 DEF Finish, Leave, Escape

\* Ending the loop keeps the invariant, if nothing is left to cancel when the
\* match end was received.
LEMMA FinishIsSafe ==
  ASSUME IInv, NEW failed \in BOOLEAN, InLoop, Finish(ended, failed),
         ended # NoEnd => Live = {},
         inbox' = inbox \/ (inbox # <<>> /\ inbox' = Tail(inbox)),
         UNCHANGED <<request, extras, endSent, matchId, seen, trace, wire>>
  PROVE  IInv'
<1>1. TypeOK /\ ended \in Payloads /\ inbox \in Seq(Messages)
      /\ task \in [Turns -> Running \cup {"none", "done", "cancelled", "failed"}]
  BY DEF IInv, TypeOK
<1>2. /\ task' = [t \in Turns |-> IF t \in Live THEN "cancelled" ELSE task[t]]
      /\ ended' = ended /\ errors' = failed
      /\ link' \in {"open", "closed", "lost"}
      /\ \/ /\ loop' = "returned" /\ stopping' = TRUE
            /\ matchId = NoMatch /\ result' = result
         \/ loop' = "raised" /\ stopping' = stopping /\ result' = result
         \/ /\ result' = FinalResult(ended, failed)
            /\ \/ loop' = "capturing" /\ stopping' = stopping
               \/ loop' = "returned" /\ stopping' = TRUE
  BY <1>1, FinishEffect
<1>3. inbox' \in Seq(Messages) /\ QueueTells(inbox', Len(request), task)
  <2>1. QueueTells(inbox, Len(request), task)
    BY DEF IInv, Queued
  <2>2. ASSUME inbox # <<>>
        PROVE  Tail(inbox) \in Seq(Messages) /\ QueueTells(Tail(inbox), Len(request), task)
    <3>1. Tail(inbox) \in Seq(Messages)
      BY <1>1, <2>2, TailFacts
    <3>2. QueueTells(Tail(inbox), Len(request), task)
      BY <1>1, <2>1, <2>2, QueueTail
    <3> QED BY <3>1, <3>2
  <2> QED BY <1>1, <2>1, <2>2
<1>4. \A t \in Turns : /\ task[t] \notin Running => task'[t] = task[t]
                       /\ task[t] \in Running => task'[t] = "cancelled"
  BY <1>2 DEF Live
<1>5. Live' = {} /\ ~InLoop'
  BY <1>2, <1>4 DEF Live, Running, InLoop
<1>6. Decided' = Decided /\ Decided \subseteq Turns
  BY DEF Decided
<1>7. Cardinality(Decided) \in 0..MaxRequests
  BY <1>6, DecisionsCounted
<1>8. FinalResult(ended, failed) \in Results
      /\ FinalResult(ended, failed).status # "in_progress"
      /\ FinalResult(ended, failed).decisions = Cardinality(Decided)
      /\ (FinalResult(ended, failed).reason = "match_ended" => ended # NoEnd)
  BY <1>7 DEF FinalResult, Results, Statuses
<1>9. result \in Results /\ stopping \in BOOLEAN /\ ~stopping
      /\ result.status = "in_progress" /\ result.reason = "none" /\ NoneCancelled
  BY DEF IInv, TypeOK, Ending
<1>10. TypeOK'
  <2>1. task' \in [Turns -> Running \cup {"none", "done", "cancelled", "failed"}]
    BY <1>1, <1>2
  <2>2. loop' \in {"reading", "draining", "capturing", "returned", "raised"}
    BY <1>2
  <2>3. result' \in Results /\ stopping' \in BOOLEAN
    BY <1>2, <1>8, <1>9
  <2> QED BY <1>1, <1>2, <1>3, <2>1, <2>2, <2>3 DEF TypeOK
<1>11. Queued'
  <2>1. \A i \in DOMAIN inbox' : inbox'[i].kind = "decision_request" =>
          inbox'[i].turn \in Turns
    BY <1>3, BoundAssumption DEF QueueTells, IInv, TypeOK, Turns
  <2>2. \A i \in DOMAIN inbox' :
          inbox'[i].kind = "decision_request" /\ task[inbox'[i].turn] = "none"
          => task'[inbox'[i].turn] = "none"
    BY <1>4, <2>1 DEF Running
  <2> QED BY <1>3, <2>2, QueueTasks DEF Queued
<1>12. Dispatched'
  <2>1. \A t \in Turns : task'[t] # "none" => task[t] # "none"
    BY <1>4 DEF Running
  <2> QED BY <2>1 DEF IInv, Dispatched
<1>13. Logged'
  BY <1>4 DEF IInv, Logged, TaskTells
<1>14. Answered'
  <2>1. \A i \in DOMAIN wire : wire[i] \in Turns
    BY DEF IInv, TypeOK
  <2> QED BY <1>4, <2>1 DEF IInv, Answered, Running
<1>15. Ending'
  <2>1. ended # NoEnd => NoneCancelled'
    BY <1>4, <1>9 DEF NoneCancelled, Live
  <2> QED BY <1>2, <1>5, <1>8, <1>9, <2>1 DEF Ending, InLoop
<1>16. ResultIsFinal'
  BY <1>2, <1>5, <1>6, <1>8, <1>9 DEF ResultIsFinal
<1>17. StopAfterResult'
  BY <1>2, <1>8, <1>9 DEF StopAfterResult
<1> QED BY <1>10, <1>11, <1>12, <1>13, <1>14, <1>15, <1>16, <1>17 DEF IInv

\* The ways the loop ends are such ends.
LEMMA EndsAreSafe ==
  ASSUME IInv, EventFails \/ DrainDone \/ ReadClosed
  PROVE  IInv'
<1>1. ended \in Payloads /\ errors \in BOOLEAN
  BY DEF IInv, TypeOK
<1>2. CASE EventFails
  <2>1. /\ loop = "reading" /\ inbox # <<>> /\ inbox' = Tail(inbox)
        /\ Finish(ended, TRUE)
        /\ UNCHANGED <<request, extras, endSent, matchId, seen, trace, wire>>
    BY <1>2 DEF EventFails, Reading, modVars
  <2>2. ended = NoEnd
    BY <2>1 DEF IInv, Ending
  <2> QED BY <2>1, <2>2, FinishIsSafe DEF InLoop
<1>3. CASE DrainDone
  <2>1. /\ loop = "draining" /\ Live = {} /\ inbox' = inbox
        /\ Finish(ended, errors)
        /\ UNCHANGED <<request, extras, endSent, matchId, seen, trace, wire>>
    BY <1>3 DEF DrainDone, Drained, modVars
  <2> QED BY <1>1, <2>1, FinishIsSafe DEF InLoop
<1>4. CASE ReadClosed
  <2>1. /\ loop = "reading" /\ inbox' = inbox
        /\ Finish(ended, link = "lost")
        /\ UNCHANGED <<request, extras, endSent, matchId, seen, trace, wire>>
    BY <1>4 DEF ReadClosed, modVars
  <2>2. ended = NoEnd
    BY <2>1 DEF IInv, Ending
  <2>3. (link = "lost") \in BOOLEAN
    OBVIOUS
  <2> QED BY <2>1, <2>2, <2>3, FinishIsSafe DEF InLoop
<1> QED BY <1>2, <1>3, <1>4

\* The wait for the replay ends with the result written.
LEMMA CaptureIsSafe ==
  ASSUME IInv, CaptureReads \/ CaptureEnds
  PROVE  IInv'
<1>1. /\ loop = "capturing"
      /\ inbox' = inbox \/ (inbox # <<>> /\ inbox' = Tail(inbox))
      /\ UNCHANGED <<request, extras, endSent, matchId, seen, task, ended, errors,
                     trace, wire, result>>
  BY DEF CaptureReads, CaptureEnds, Capturing, modVars
<1>2. /\ link' \in {"open", "closed", "lost"}
      /\ \/ loop' = "capturing" /\ stopping' = stopping
         \/ loop' = "returned" /\ stopping' = TRUE
         \/ loop' = "raised" /\ stopping' = stopping
  BY <1>1 DEF CaptureReads, CaptureEnds, Leave, Escape, IInv, TypeOK
<1>3. inbox \in Seq(Messages) /\ QueueTells(inbox, Len(request), task)
  BY DEF IInv, TypeOK, Queued
<1>4. ASSUME inbox # <<>>
      PROVE  Tail(inbox) \in Seq(Messages) /\ QueueTells(Tail(inbox), Len(request), task)
  <2>1. Tail(inbox) \in Seq(Messages)
    BY <1>3, <1>4, TailFacts
  <2>2. QueueTells(Tail(inbox), Len(request), task)
    BY <1>3, <1>4, QueueTail
  <2> QED BY <2>1, <2>2
<1>5. inbox' \in Seq(Messages) /\ Queued'
  BY <1>1, <1>3, <1>4 DEF Queued
<1>6. result.status # "in_progress"
  BY <1>1 DEF IInv, Ending
<1>7. TypeOK'
  BY <1>1, <1>2, <1>5 DEF IInv, TypeOK
<1>8. Dispatched' /\ Logged' /\ Answered'
  BY <1>1 DEF IInv, Dispatched, Logged, Answered
<1>9. Ending'
  BY <1>1, <1>2, <1>6 DEF IInv, Ending, InLoop, NoneCancelled, Live
<1>10. ResultIsFinal' /\ StopAfterResult'
  BY <1>1, <1>6 DEF IInv, ResultIsFinal, StopAfterResult, Live, Decided
<1> QED BY <1>5, <1>7, <1>8, <1>9, <1>10 DEF IInv

-----------------------------------------------------------------------------
(* Reading *)

\* A request that is read for the first time is dispatched; one that repeats
\* a player and state is dropped.
LEMMA ReadRequestIsSafe ==
  ASSUME IInv, ReadRequest
  PROVE  IInv'
<1> DEFINE t == Head(inbox).turn
           key == <<request[t].player, request[t].hash>>
<1>1. /\ loop = "reading" /\ inbox # <<>> /\ Head(inbox).kind = "decision_request"
      /\ inbox' = Tail(inbox)
      /\ matchId' = WriterMatch(request[t].match)
      /\ \/ key \in seen /\ UNCHANGED <<seen, task>>
         \/ key \notin seen /\ seen' = seen \cup {key}
            /\ task' = [task EXCEPT ![t] = "created"]
      /\ UNCHANGED <<link, request, extras, endSent, loop, ended, errors, trace, wire,
                     result, stopping>>
  BY DEF ReadRequest, Reading, Remember, modVars
<1>2. /\ inbox \in Seq(Messages) /\ request \in Seq(Requests)
      /\ QueueTells(inbox, Len(request), task)
      /\ task \in [Turns -> Running \cup {"none", "done", "cancelled", "failed"}]
      /\ seen \in SUBSET (Players \X Hashes)
      /\ matchId \in MatchIds \cup {NoMatch}
      /\ Len(request) \in Nat /\ Len(request) <= MaxRequests
      /\ DOMAIN request = 1..Len(request)
  BY DEF IInv, TypeOK, Queued
<1>3. /\ QueueTells(Tail(inbox), Len(request), task)
      /\ t \in 1..Len(request) /\ task[t] = "none"
      /\ \A i \in DOMAIN Tail(inbox) : Tail(inbox)[i].kind = "decision_request" =>
           Tail(inbox)[i].turn # t
  BY <1>1, <1>2, QueueTail
<1>4. t \in Turns /\ request[t] \in Requests
  BY <1>2, <1>3, BoundAssumption DEF Turns
<1>5. key \in Players \X Hashes /\ request[t].match \in MatchIds
  BY <1>4 DEF Requests
<1>6. matchId' \in MatchIds /\ (matchId # NoMatch => matchId' = matchId)
  BY <1>1, <1>2, <1>5, MatchAssumption DEF WriterMatch
<1>7. \A u \in Turns : task[u] # "none" => matchId' = matchId
  BY <1>6 DEF IInv, Dispatched
<1>8. Tail(inbox) \in Seq(Messages)
  BY <1>1, <1>2, TailFacts
<1>9. ~stopping /\ result.status = "in_progress" /\ NoneCancelled
  BY <1>1 DEF IInv, Ending, InLoop
<1> HIDE DEF t, key
<1>10. \A u \in Turns : u # t => task'[u] = task[u]
  BY <1>1, <1>2, <1>4
<1>11. \/ task' = task
       \/ task'[t] = "created" /\ key \notin seen
  BY <1>1, <1>2, <1>4
<1>12. TypeOK'
  <2>1. task' \in [Turns -> Running \cup {"none", "done", "cancelled", "failed"}]
    BY <1>1, <1>2, <1>4 DEF Running
  <2>2. seen' \in SUBSET (Players \X Hashes)
    BY <1>1, <1>2, <1>5
  <2> QED BY <1>1, <1>6, <1>8, <2>1, <2>2 DEF IInv, TypeOK
<1>13. Queued'
  <2>1. \A i \in DOMAIN Tail(inbox) : Tail(inbox)[i].kind = "decision_request" =>
          Tail(inbox)[i].turn \in Turns
    BY <1>2, <1>3, BoundAssumption DEF QueueTells, Turns
  <2>2. \A i \in DOMAIN Tail(inbox) :
          Tail(inbox)[i].kind = "decision_request" /\ task[Tail(inbox)[i].turn] = "none"
          => task'[Tail(inbox)[i].turn] = "none"
    BY <1>3, <1>10, <2>1
  <2>3. QueueTells(Tail(inbox), Len(request), task')
    BY <1>3, <2>2, QueueTasks
  <2> QED BY <1>1, <2>3 DEF Queued
<1>14. Dispatched'
  <2>1. seen \subseteq seen' /\ matchId' # NoMatch
    BY <1>1, <1>6, MatchAssumption
  <2>2. task'[t] # "none" => key \in seen'
    BY <1>1, <1>3, <1>11
  <2>3. \A u \in Turns : task'[u] # "none" =>
          /\ u \in 1..Len(request)
          /\ <<request[u].player, request[u].hash>> \in seen'
    BY <1>3, <1>10, <2>1, <2>2 DEF IInv, Dispatched, key
  <2>4. ASSUME NEW u \in Turns, NEW v \in Turns, task'[u] # "none", task'[v] # "none",
               request[u].player = request[v].player,
               request[u].hash = request[v].hash
        PROVE  u = v
    <3>1. CASE task' = task
      BY <2>4, <3>1 DEF IInv, Dispatched
    <3>2. CASE key \notin seen
      <4>1. \A w \in Turns : task[w] # "none" =>
              <<request[w].player, request[w].hash>> # key
        BY <3>2 DEF IInv, Dispatched
      <4>2. CASE u = t /\ v # t
        <5>1. task[v] # "none"
          BY <1>10, <2>4, <4>2
        <5>2. <<request[v].player, request[v].hash>> = key
          BY <2>4, <4>2 DEF key
        <5> QED BY <4>1, <5>1, <5>2
      <4>3. CASE v = t /\ u # t
        <5>1. task[u] # "none"
          BY <1>10, <2>4, <4>3
        <5>2. <<request[u].player, request[u].hash>> = key
          BY <2>4, <4>3 DEF key
        <5> QED BY <4>1, <5>1, <5>2
      <4>4. CASE u # t /\ v # t
        BY <1>10, <2>4, <4>4 DEF IInv, Dispatched
      <4> QED BY <4>2, <4>3, <4>4
    <3> QED BY <1>11, <3>1, <3>2
  <2> QED BY <1>1, <2>1, <2>3, <2>4 DEF Dispatched
<1>15. Logged'
  <2>1. ASSUME NEW u \in Turns
        PROVE  TaskTells(task'[u], trace[u], request[u].match = matchId')
    <3>1. TaskTells(task[u], trace[u], request[u].match = matchId)
      BY DEF IInv, Logged
    <3>2. CASE u = t
      <4>1. task[u] = "none" /\ task'[u] \in {"none", "created"}
        BY <1>3, <1>11, <3>2
      <4> QED BY <3>1, <4>1 DEF TaskTells
    <3>3. CASE u # t /\ task[u] = "none"
      BY <1>10, <3>1, <3>3 DEF TaskTells
    <3>4. CASE u # t /\ task[u] # "none"
      BY <1>7, <1>10, <3>1, <3>4
    <3> QED BY <3>2, <3>3, <3>4
  <2> QED BY <1>1, <2>1 DEF Logged
<1>16. Answered'
  <2>1. \A i \in DOMAIN wire : wire[i] \in Turns /\ task[wire[i]] = "done"
    BY DEF IInv, TypeOK, Answered
  <2>2. \A i \in DOMAIN wire : task'[wire[i]] = "done"
    BY <1>3, <1>10, <2>1
  <2> QED BY <1>1, <2>2 DEF IInv, Answered
<1>17. Ending'
  <2>1. NoneCancelled'
    BY <1>9, <1>10, <1>11 DEF NoneCancelled
  <2> QED BY <1>1, <1>9, <2>1 DEF IInv, Ending, InLoop
<1>18. ResultIsFinal' /\ StopAfterResult'
  BY <1>1, <1>9 DEF ResultIsFinal, StopAfterResult
<1> QED BY <1>12, <1>13, <1>14, <1>15, <1>16, <1>17, <1>18 DEF IInv

\* Reading anything else leaves the tasks alone; a match end is remembered.
LEMMA ReadOtherIsSafe ==
  ASSUME IInv, ReadEvent \/ ReadIgnored \/ ReadMatchEnded
  PROVE  IInv'
<1>1. /\ loop = "reading" /\ inbox # <<>> /\ inbox' = Tail(inbox)
      /\ UNCHANGED <<link, request, extras, endSent, matchId, seen, task, errors,
                     trace, wire, result, stopping>>
      /\ \/ UNCHANGED <<loop, ended>>
         \/ /\ Head(inbox).kind = "match_ended"
            /\ loop' = "draining" /\ ended' = Received
  BY DEF ReadEvent, ReadIgnored, ReadMatchEnded, Reading, modVars
<1>2. inbox \in Seq(Messages) /\ QueueTells(inbox, Len(request), task)
  BY DEF IInv, TypeOK, Queued
<1>3. Tail(inbox) \in Seq(Messages)
  BY <1>1, <1>2, TailFacts
<1>4. /\ QueueTells(Tail(inbox), Len(request), task)
      /\ Head(inbox).kind = "match_ended" => Head(inbox).match \in MatchIds
  BY <1>1, <1>2, QueueTail
<1>5. \/ UNCHANGED <<loop, ended>>
      \/ loop' = "draining" /\ ended' \in Payloads /\ ended' # NoEnd
  <2>1. Head(inbox) \in Messages
    BY <1>1, <1>2, TailFacts
  <2>2. /\ Received \in Payloads
        /\ Head(inbox).match \in MatchIds => Received # NoEnd
    BY <2>1, MatchAssumption DEF Received, Messages, Payloads, NoEnd
  <2> QED BY <1>1, <1>4, <2>2
<1>6. TypeOK'
  BY <1>1, <1>3, <1>5 DEF IInv, TypeOK
<1>7. Queued' /\ Dispatched' /\ Logged' /\ Answered'
  BY <1>1, <1>4 DEF IInv, Queued, Dispatched, Logged, Answered
<1>8. Ending'
  BY <1>1, <1>5 DEF IInv, Ending, InLoop, NoneCancelled, Live
<1>9. ResultIsFinal' /\ StopAfterResult'
  BY <1>1 DEF IInv, Ending, InLoop, ResultIsFinal, StopAfterResult
<1> QED BY <1>6, <1>7, <1>8, <1>9 DEF IInv

-----------------------------------------------------------------------------
(* The tasks *)

\* The lines a task writes, one after the other.
LEMMA LinesJoin ==
  ASSUME NEW S, NEW a \in S, NEW b \in S, NEW c \in S
  PROVE  /\ <<>> \o <<a>> = <<a>>
         /\ <<a>> \o <<b, c>> = <<a, b, c>>
<1> DEFINE s == <<a>> \o <<b, c>>
<1>1. s \in Seq(S) /\ Len(s) = 3
  OBVIOUS
<1>2. s[1] = a /\ s[2] = b /\ s[3] = c
  OBVIOUS
<1>3. <<a, b, c>> \in Seq(S) /\ Len(<<a, b, c>>) = 3
  OBVIOUS
<1>4. <<>> \o <<a>> = <<a>>
  OBVIOUS
<1> HIDE DEF s
<1>5. s = <<a, b, c>>
  BY <1>1, <1>2, <1>3
<1> QED BY <1>4, <1>5 DEF s

\* A task that runs is in the loop, and goes on without touching the others.
LEMMA TaskIsSafe ==
  ASSUME IInv, NEW t \in Turns, NEW s \in {"thinking", "failed", "done"},
         task[t] \in Running, task' = [task EXCEPT ![t] = s],
         trace' \in [Turns -> Seq({"TurnRequested", "decision"} \cup Answers)],
         \A u \in Turns : u # t => trace'[u] = trace[u],
         TaskTells(s, trace'[t], request[t].match = matchId),
         wire' \in Seq(Turns), Answered',
         UNCHANGED <<link, inbox, request, extras, endSent, loop, matchId, seen,
                     ended, errors, result, stopping>>
  PROVE  IInv'
<1>1. task \in [Turns -> Running \cup {"none", "done", "cancelled", "failed"}]
  BY DEF IInv, TypeOK
<1>2. t \in Live
  BY DEF Live
<1>3. InLoop /\ result.status = "in_progress" /\ NoneCancelled /\ ~stopping
  BY <1>2 DEF IInv, Ending
<1>4. \A u \in Turns : u # t => task'[u] = task[u]
  BY <1>1
<1>5. task'[t] = s /\ s \notin {"none", "cancelled"} /\ task[t] # "none"
  BY <1>1 DEF Running
<1>6. TypeOK'
  <2>1. task' \in [Turns -> Running \cup {"none", "done", "cancelled", "failed"}]
    BY <1>1 DEF Running
  <2> QED BY <2>1 DEF IInv, TypeOK
<1>7. Queued'
  <2>1. QueueTells(inbox, Len(request), task)
    BY DEF IInv, Queued
  <2>2. \A i \in DOMAIN inbox : inbox[i].kind = "decision_request" =>
          inbox[i].turn \in Turns
    BY <2>1, BoundAssumption DEF QueueTells, IInv, TypeOK, Turns
  <2>3. \A i \in DOMAIN inbox :
          inbox[i].kind = "decision_request" /\ task[inbox[i].turn] = "none"
          => task'[inbox[i].turn] = "none"
    BY <1>4, <1>5, <2>2
  <2>4. QueueTells(inbox, Len(request), task')
    BY <2>1, <2>3, QueueTasks
  <2> QED BY <2>4 DEF Queued
<1>8. Dispatched'
  <2>1. \A u \in Turns : task'[u] # "none" => task[u] # "none"
    BY <1>4, <1>5
  <2> QED BY <2>1 DEF IInv, Dispatched
<1>9. Logged'
  BY <1>4, <1>5 DEF IInv, Logged
<1>10. Ending'
  <2>1. NoneCancelled'
    BY <1>3, <1>4, <1>5 DEF NoneCancelled
  <2> QED BY <1>3, <2>1 DEF IInv, Ending, InLoop
<1>11. ResultIsFinal' /\ StopAfterResult'
  BY <1>3 DEF ResultIsFinal, StopAfterResult
<1> QED BY <1>6, <1>7, <1>8, <1>9, <1>10, <1>11 DEF IInv

\* A task that starts logs its request, or is refused by the writer.
LEMMA StartIsSafe ==
  ASSUME IInv, NEW t \in Turns, TaskStarts(t)
  PROVE  IInv'
<1>1. /\ task[t] = "created" /\ wire' = wire
      /\ \/ /\ request[t].match # matchId
            /\ task' = [task EXCEPT ![t] = "failed"] /\ trace' = trace
         \/ /\ request[t].match = matchId
            /\ task' = [task EXCEPT ![t] = "thinking"]
            /\ trace' = [trace EXCEPT ![t] = trace[t] \o <<"TurnRequested">>]
      /\ UNCHANGED <<link, inbox, request, extras, endSent, loop, matchId, seen,
                     ended, errors, result, stopping>>
  BY DEF TaskStarts, Log, modVars
<1> DEFINE L == {"TurnRequested", "decision"} \cup Answers
<1>2. /\ trace \in [Turns -> Seq(L)] /\ wire \in Seq(Turns)
      /\ task \in [Turns -> Running \cup {"none", "done", "cancelled", "failed"}]
  BY DEF IInv, TypeOK
<1>3. trace[t] = <<>>
  BY <1>1 DEF IInv, Logged, TaskTells
<1>4. trace[t] \o <<"TurnRequested">> = <<"TurnRequested">>
      /\ <<"TurnRequested">> \in Seq(L)
  <2>1. "TurnRequested" \in L
    OBVIOUS
  <2> HIDE DEF L
  <2> QED BY <1>3, <2>1, LinesJoin
<1> HIDE DEF L
<1>5. \A i \in DOMAIN wire : wire[i] # t /\ wire[i] \in Turns
  BY <1>1, <1>2 DEF IInv, Answered
<1>6. task' = [task EXCEPT ![t] = "failed"] \/ task' = [task EXCEPT ![t] = "thinking"]
  BY <1>1
<1>7. Answered'
  BY <1>1, <1>2, <1>5, <1>6 DEF IInv, Answered
<1>8. task[t] \in Running
  BY <1>1 DEF Running
<1>9. CASE request[t].match # matchId
  <2>1. task' = [task EXCEPT ![t] = "failed"] /\ trace' = trace
    BY <1>1, <1>9
  <2>2. TaskTells("failed", trace'[t], request[t].match = matchId)
    BY <1>3, <1>9, <2>1 DEF TaskTells
  <2> QED BY <1>1, <1>2, <1>7, <1>8, <2>1, <2>2, TaskIsSafe DEF L
<1>10. CASE request[t].match = matchId
  <2>1. /\ task' = [task EXCEPT ![t] = "thinking"]
        /\ trace' = [trace EXCEPT ![t] = <<"TurnRequested">>]
    BY <1>1, <1>4, <1>10
  <2>2. trace' \in [Turns -> Seq(L)] /\ trace'[t] = <<"TurnRequested">>
        /\ \A u \in Turns : u # t => trace'[u] = trace[u]
    BY <1>2, <1>4, <2>1
  <2>3. TaskTells("thinking", trace'[t], request[t].match = matchId)
    BY <1>10, <2>2 DEF TaskTells
  <2> QED BY <1>1, <1>2, <1>7, <1>8, <2>1, <2>2, <2>3, TaskIsSafe DEF L
<1> QED BY <1>9, <1>10

\* A task that resolves logs its decision and answers once.
LEMMA ResolveIsSafe ==
  ASSUME IInv, NEW t \in Turns, NEW how \in Answers, TaskResolves(t, how)
  PROVE  IInv'
<1> DEFINE L == {"TurnRequested", "decision"} \cup Answers
           lines == <<"TurnRequested", "decision", how>>
<1>1. /\ task[t] = "thinking" /\ task' = [task EXCEPT ![t] = "done"]
      /\ trace' = [trace EXCEPT ![t] = trace[t] \o <<"decision", how>>]
      /\ wire' = wire \/ wire' = Append(wire, t)
      /\ UNCHANGED <<link, inbox, request, extras, endSent, loop, matchId, seen,
                     ended, errors, result, stopping>>
  BY DEF TaskResolves, Log, Reply, modVars
<1>2. /\ trace \in [Turns -> Seq(L)] /\ wire \in Seq(Turns)
      /\ task \in [Turns -> Running \cup {"none", "done", "cancelled", "failed"}]
  BY DEF IInv, TypeOK
<1>3. trace[t] = <<"TurnRequested">> /\ request[t].match = matchId
  BY <1>1 DEF IInv, Logged, TaskTells
<1>4. trace[t] \o <<"decision", how>> = lines /\ lines \in Seq(L)
  <2>1. "TurnRequested" \in L /\ "decision" \in L /\ how \in L
    OBVIOUS
  <2>2. lines \in Seq(L)
    BY <2>1
  <2> HIDE DEF L
  <2>3. <<"TurnRequested">> \o <<"decision", how>> = lines
    BY <2>1, LinesJoin
  <2> QED BY <1>3, <2>2, <2>3
<1>5. \A i \in DOMAIN wire : wire[i] # t /\ wire[i] \in Turns /\ task[wire[i]] = "done"
  BY <1>1, <1>2 DEF IInv, Answered
<1>6. wire' \in Seq(Turns) /\ Answered'
  <2>1. CASE wire' = wire
    BY <1>1, <1>2, <1>5, <2>1 DEF IInv, Answered
  <2>2. CASE wire' = Append(wire, t)
    <3>1. /\ Len(wire) \in Nat /\ DOMAIN wire = 1..Len(wire)
          /\ wire' \in Seq(Turns) /\ DOMAIN wire' = 1..(Len(wire) + 1)
          /\ \A i \in 1..Len(wire) : wire'[i] = wire[i]
          /\ wire'[Len(wire) + 1] = t
      BY <1>2, <2>2, AppendFacts
    <3>2. \A i \in DOMAIN wire' :
            \/ i \in DOMAIN wire /\ wire'[i] = wire[i]
            \/ i = Len(wire) + 1 /\ wire'[i] = t
      BY <3>1
    <3>3. task'[t] = "done" /\ \A u \in Turns : u # t => task'[u] = task[u]
      BY <1>1, <1>2
    <3> QED BY <1>5, <3>1, <3>2, <3>3 DEF IInv, Answered
  <2> QED BY <1>1, <2>1, <2>2
<1> HIDE DEF L, lines
<1>7. trace' \in [Turns -> Seq(L)] /\ trace'[t] = lines
      /\ \A u \in Turns : u # t => trace'[u] = trace[u]
  BY <1>1, <1>2, <1>4
<1>8. TaskTells("done", trace'[t], request[t].match = matchId)
  BY <1>3, <1>7 DEF TaskTells, lines
<1>9. task[t] \in Running
  BY <1>1 DEF Running
<1> QED BY <1>1, <1>6, <1>7, <1>8, <1>9, TaskIsSafe DEF L

-----------------------------------------------------------------------------
(* The mod *)

\* Sending puts a message in the queue; a request gets a number of its own.
LEMMA SendingIsSafe ==
  ASSUME IInv, SendRequest \/ SendExtra \/ SendMatchEnded \/ CloseLink
  PROVE  IInv'
<1>1. /\ inbox \in Seq(Messages) /\ request \in Seq(Requests)
      /\ Len(request) \in Nat /\ DOMAIN request = 1..Len(request)
      /\ QueueTells(inbox, Len(request), task)
  BY DEF IInv, TypeOK, Queued
<1>2. UNCHANGED <<loop, matchId, seen, task, ended, errors, trace, wire, result, stopping>>
  BY DEF SendRequest, SendExtra, SendMatchEnded, CloseLink, modVars
<1>3. CASE SendRequest
  <2>1. PICK r \in Requests :
          /\ request' = Append(request, r) /\ Len(request) < MaxRequests
          /\ inbox' = Append(inbox, [kind |-> "decision_request",
                                     turn |-> Len(request) + 1, match |-> r.match,
                                     errors |-> FALSE])
          /\ UNCHANGED <<link, extras, endSent>>
    BY <1>3 DEF SendRequest, Send
  <2> DEFINE m == [kind |-> "decision_request", turn |-> Len(request) + 1,
                   match |-> r.match, errors |-> FALSE]
  <2>2. m \in Messages /\ m.kind = "decision_request" /\ m.turn = Len(request) + 1
    BY <1>1, <2>1, BoundAssumption DEF Messages, Kinds, Requests
  <2> HIDE DEF m
  <2>3. /\ request' \in Seq(Requests) /\ Len(request') = Len(request) + 1
        /\ \A i \in 1..Len(request) : request'[i] = request[i]
    BY <1>1, <2>1, AppendFacts
  <2>4. \A u \in Turns : task[u] # "none" => u \in 1..Len(request)
    BY DEF IInv, Dispatched
  <2>5. Len(request) + 1 \in Turns /\ Len(request) + 1 \notin 1..Len(request)
    BY <1>1, <2>1, BoundAssumption DEF Turns
  <2>6. task[Len(request) + 1] = "none"
    BY <2>4, <2>5
  <2>7. inbox' = Append(inbox, m)
    BY <2>1 DEF m
  <2>8. inbox' \in Seq(Messages)
    BY <1>1, <2>2, <2>7, AppendFacts
  <2>9. QueueTells(inbox', Len(request) + 1, task)
    BY <1>1, <2>2, <2>6, <2>7, QueueRequest
  <2>10. TypeOK'
    BY <1>1, <1>2, <2>1, <2>3, <2>8, BoundAssumption DEF IInv, TypeOK
  <2>11. Queued'
    BY <1>2, <2>3, <2>9 DEF Queued
  <2>12. \A u \in Turns : task[u] # "none" =>
           u \in 1..Len(request') /\ request'[u] = request[u]
    BY <1>1, <2>3, <2>4
  <2>13. Dispatched'
    BY <1>2, <2>12 DEF IInv, Dispatched
  <2>14. Logged'
    <3>1. ASSUME NEW u \in Turns
          PROVE  TaskTells(task[u], trace[u], request'[u].match = matchId)
      <4>1. TaskTells(task[u], trace[u], request[u].match = matchId)
        BY DEF IInv, Logged
      <4>2. CASE task[u] = "none"
        BY <4>1, <4>2 DEF TaskTells
      <4>3. CASE task[u] # "none"
        BY <2>12, <4>1, <4>3
      <4> QED BY <4>2, <4>3
    <3> QED BY <1>2, <3>1 DEF Logged
  <2>15. Answered' /\ Ending' /\ ResultIsFinal' /\ StopAfterResult'
    BY <1>2 DEF IInv, Answered, Ending, InLoop, NoneCancelled, Live,
                ResultIsFinal, Decided, StopAfterResult
  <2> QED BY <2>10, <2>11, <2>13, <2>14, <2>15 DEF IInv
<1>4. CASE SendExtra \/ SendMatchEnded
  <2>1. /\ UNCHANGED <<link, request>>
        /\ extras' \in 0..MaxExtras /\ endSent' \in {"no", "clean", "errors"}
    <3>1. extras \in 0..MaxExtras /\ endSent \in {"no", "clean", "errors"}
      BY DEF IInv, TypeOK
    <3>2. CASE SendExtra
      <4>1. /\ UNCHANGED <<link, request, endSent>>
            /\ extras < MaxExtras /\ extras' = extras + 1
        BY <3>2 DEF SendExtra
      <4> QED BY <3>1, <4>1, BoundAssumption
    <3>3. CASE SendMatchEnded
      <4>1. UNCHANGED <<link, request, extras>> /\ endSent' \in {"clean", "errors"}
        BY <3>3 DEF SendMatchEnded
      <4> QED BY <3>1, <4>1
    <3> QED BY <1>4, <3>2, <3>3
  <2> DEFINE Extra(k, h) == /\ k \in {"event", "ReplayEnded", "ignored", "match_ended"}
                            /\ h \in MatchIds \cup {NoMatch}
                            /\ k = "match_ended" => h \in MatchIds
                            /\ \E b \in BOOLEAN : Send(k, 0, h, b)
  <2>2. \E k, h : Extra(k, h)
    <3>1. CASE \E h \in MatchIds : Send("event", 0, h, FALSE)
      <4>1. PICK h \in MatchIds : Send("event", 0, h, FALSE)
        BY <3>1
      <4>2. Extra("event", h)
        BY <4>1
      <4> QED BY <4>2
    <3>2. CASE \E h \in MatchIds : Send("ReplayEnded", 0, h, FALSE)
      <4>1. PICK h \in MatchIds : Send("ReplayEnded", 0, h, FALSE)
        BY <3>2
      <4>2. Extra("ReplayEnded", h)
        BY <4>1
      <4> QED BY <4>2
    <3>3. CASE Send("ignored", 0, NoMatch, FALSE)
      <4>1. Extra("ignored", NoMatch)
        BY <3>3
      <4> QED BY <4>1
    <3>4. CASE \E h \in MatchIds, b \in BOOLEAN : Send("match_ended", 0, h, b)
      <4>1. PICK h \in MatchIds, b \in BOOLEAN : Send("match_ended", 0, h, b)
        BY <3>4
      <4>2. Extra("match_ended", h)
        BY <4>1
      <4> QED BY <4>2
    <3> HIDE DEF Extra
    <3> QED BY <1>4, <3>1, <3>2, <3>3, <3>4 DEF SendExtra, SendMatchEnded
  <2>3. PICK k, h : Extra(k, h)
    BY <2>2
  <2>4. PICK b \in BOOLEAN : Send(k, 0, h, b)
    BY <2>3
  <2> DEFINE m == [kind |-> k, turn |-> 0, match |-> h, errors |-> b]
  <2>5. /\ m \in Messages /\ m.kind # "decision_request"
        /\ m.kind = "match_ended" => m.match \in MatchIds
    BY <2>3, <2>4, BoundAssumption DEF Messages, Kinds
  <2>6. inbox' = Append(inbox, m)
    BY <2>4 DEF Send
  <2> HIDE DEF m
  <2>7. inbox' \in Seq(Messages)
    BY <1>1, <2>5, <2>6, AppendFacts
  <2>8. QueueTells(inbox', Len(request), task)
    BY <1>1, <2>5, <2>6, QueueAppend
  <2>9. TypeOK'
    BY <1>2, <2>1, <2>7 DEF IInv, TypeOK
  <2>10. Queued' /\ Dispatched' /\ Logged' /\ Answered'
    BY <1>2, <2>1, <2>8 DEF IInv, Queued, Dispatched, Logged, Answered
  <2>11. Ending' /\ ResultIsFinal' /\ StopAfterResult'
    BY <1>2 DEF IInv, Ending, InLoop, NoneCancelled, Live, ResultIsFinal, Decided,
                StopAfterResult
  <2> QED BY <2>9, <2>10, <2>11 DEF IInv
<1>5. CASE CloseLink
  <2>1. /\ UNCHANGED <<inbox, request, extras, endSent>>
        /\ link' \in {"open", "closed", "lost"}
    BY <1>5 DEF CloseLink, modVars
  <2>2. TypeOK'
    BY <1>2, <2>1 DEF IInv, TypeOK
  <2>3. Queued' /\ Dispatched' /\ Logged' /\ Answered'
    BY <1>2, <2>1 DEF IInv, Queued, Dispatched, Logged, Answered
  <2>4. Ending' /\ ResultIsFinal' /\ StopAfterResult'
    BY <1>2 DEF IInv, Ending, InLoop, NoneCancelled, Live, ResultIsFinal, Decided,
                StopAfterResult
  <2> QED BY <2>2, <2>3, <2>4 DEF IInv
<1> QED BY <1>3, <1>4, <1>5

-----------------------------------------------------------------------------
(* The invariant *)

\* The invariant holds when a session begins.
LEMMA InitSafe == Init => IInv
<1> SUFFICES ASSUME Init PROVE IInv
  OBVIOUS
<1>1. TypeOK
  <2>1. /\ inbox \in Seq(Messages) /\ request \in Seq(Requests) /\ Len(request) = 0
        /\ wire \in Seq(Turns)
        /\ trace \in [Turns -> Seq({"TurnRequested", "decision"} \cup Answers)]
    BY DEF Init
  <2>2. result \in Results
    BY BoundAssumption DEF Init, Results, Statuses
  <2>3. task \in [Turns -> Running \cup {"none", "done", "cancelled", "failed"}]
    BY DEF Init
  <2>4. Len(request) <= MaxRequests
    BY <2>1, BoundAssumption
  <2>5. /\ link \in {"open", "closed", "lost"}
        /\ loop \in {"reading", "draining", "capturing", "returned", "raised"}
        /\ endSent \in {"no", "clean", "errors"}
        /\ errors \in BOOLEAN /\ stopping \in BOOLEAN
    BY DEF Init
  <2>6. /\ matchId \in MatchIds \cup {NoMatch} /\ ended \in Payloads
        /\ seen \in SUBSET (Players \X Hashes)
    BY DEF Init, NoEnd, Payloads
  <2>7. extras \in 0..MaxExtras
    BY BoundAssumption DEF Init
  <2> QED BY <2>1, <2>2, <2>3, <2>4, <2>5, <2>6, <2>7 DEF TypeOK
<1>2. Queued /\ Dispatched /\ Logged /\ Answered
  BY DEF Init, Queued, QueueTells, Dispatched, Logged, TaskTells, Answered
<1>3. Ending /\ ResultIsFinal /\ StopAfterResult
  BY DEF Init, Ending, InLoop, NoneCancelled, ResultIsFinal, StopAfterResult
<1> QED BY <1>1, <1>2, <1>3 DEF IInv

\* Every step keeps the invariant.
LEMMA NextSafe == IInv /\ [Next]_vars => IInv'
<1> SUFFICES ASSUME IInv, [Next]_vars PROVE IInv'
  OBVIOUS
<1>1. CASE SendRequest \/ SendExtra \/ SendMatchEnded \/ CloseLink
  BY <1>1, SendingIsSafe
<1>2. CASE ReadRequest
  BY <1>2, ReadRequestIsSafe
<1>3. CASE ReadEvent \/ ReadIgnored \/ ReadMatchEnded
  BY <1>3, ReadOtherIsSafe
<1>4. CASE EventFails \/ DrainDone \/ ReadClosed
  BY <1>4, EndsAreSafe
<1>5. ASSUME NEW t \in Turns, TaskStarts(t) PROVE IInv'
  BY <1>5, StartIsSafe
<1>6. ASSUME NEW t \in Turns, NEW how \in Answers, TaskResolves(t, how) PROVE IInv'
  BY <1>6, ResolveIsSafe
<1>7. CASE CaptureReads \/ CaptureEnds
  BY <1>7, CaptureIsSafe
<1>8. CASE UNCHANGED vars
  <2>1. TypeOK' /\ Queued' /\ Dispatched'
    BY <1>8 DEF vars, IInv, TypeOK, Queued, Dispatched
  <2>2. Logged' /\ Answered' /\ Ending' /\ ResultIsFinal' /\ StopAfterResult'
    BY <1>8 DEF vars, IInv, Logged, Answered, Ending, InLoop, NoneCancelled, Live,
                ResultIsFinal, Decided, StopAfterResult
  <2> QED BY <2>1, <2>2 DEF IInv
<1> QED BY <1>1, <1>2, <1>3, <1>4, <1>5, <1>6, <1>7, <1>8 DEF Next, Over

\* Every reachable state satisfies the invariant.
LEMMA Safety == Spec => []IInv
BY InitSafe, NextSafe, PTL DEF Spec

-----------------------------------------------------------------------------
\* Every variable keeps its type, for any number of requests and matches.
THEOREM TypesHold == Spec => []TypeOK
<1>1. IInv => TypeOK
  BY DEF IInv
<1> QED BY <1>1, Safety, PTL

\* No task logs or answers behind the result.
THEOREM ResultsAreFinal == Spec => []ResultIsFinal
<1>1. IInv => ResultIsFinal
  BY DEF IInv
<1> QED BY <1>1, Safety, PTL

\* The server is stopped with the result written, or without a match.
THEOREM StopsAreLate == Spec => []StopAfterResult
<1>1. IInv => StopAfterResult
  BY DEF IInv
<1> QED BY <1>1, Safety, PTL

\* A match that ends regularly has every dispatched request logged in full.
THEOREM MatchEndsAreComplete == Spec => []MatchEndLosesNothing
<1>1. IInv => MatchEndLosesNothing
  <2> SUFFICES ASSUME IInv, result.reason = "match_ended",
                      NEW t \in Turns, task[t] # "none"
               PROVE  IF request[t].match = matchId THEN Len(trace[t]) = 3
                                                    ELSE trace[t] = <<>>
    BY DEF MatchEndLosesNothing
  <2>1. result.status # "in_progress" /\ task[t] # "cancelled"
    BY DEF IInv, Ending, NoneCancelled
  <2>2. task[t] \notin Running
    BY <2>1 DEF IInv, ResultIsFinal, Live
  <2>3. task[t] \in {"done", "failed"}
    BY <2>1, <2>2 DEF IInv, TypeOK
  <2>4. TaskTells(task[t], trace[t], request[t].match = matchId)
    BY DEF IInv, Logged
  <2>5. CASE task[t] = "failed"
    BY <2>4, <2>5 DEF TaskTells
  <2>6. CASE task[t] = "done"
    <3>1. request[t].match = matchId
          /\ \E how \in Answers : trace[t] = <<"TurnRequested", "decision", how>>
      BY <2>4, <2>6 DEF TaskTells
    <3> QED BY <3>1
  <2> QED BY <2>3, <2>5, <2>6
<1> QED BY <1>1, Safety, PTL

\* Answers are accounted for, and single for a request and for a player's
\* state.
THEOREM AnswersAreSingle == Spec => []AnswersAreUnique
<1>1. IInv => AnswersAreUnique
  <2> SUFFICES ASSUME IInv PROVE AnswersAreUnique
    OBVIOUS
  <2>1. \A i \in DOMAIN wire : wire[i] \in Turns /\ task[wire[i]] = "done"
    BY DEF IInv, TypeOK, Answered
  <2>2. \A i \in DOMAIN wire : \E how \in Answers :
          trace[wire[i]] = <<"TurnRequested", "decision", how>>
    BY <2>1 DEF IInv, Logged, TaskTells
  <2>3. ASSUME NEW i \in DOMAIN wire, NEW j \in DOMAIN wire,
               request[wire[i]].player = request[wire[j]].player,
               request[wire[i]].hash = request[wire[j]].hash
        PROVE  i = j
    <3>1. task[wire[i]] # "none" /\ task[wire[j]] # "none"
      BY <2>1
    <3>2. wire[i] = wire[j]
      BY <2>1, <2>3, <3>1 DEF IInv, Dispatched
    <3> QED BY <3>2 DEF IInv, Answered
  <2> QED BY <2>2, <2>3 DEF AnswersAreUnique
<1> QED BY <1>1, Safety, PTL
=============================================================================
