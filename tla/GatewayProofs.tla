--------------------------- MODULE GatewayProofs ----------------------------
(* Theorems about Gateway, for every value of its constants.               *)
EXTENDS Gateway, TLAPS

\* A provider's record stays a record when it is marked down or ages.
LEMMA HealthTypes ==
  ASSUME NEW h \in HealthRecords
  PROVE  MarkDown(h) \in HealthRecords /\ Aged(h) \in HealthRecords
<1>1. MarkDown(h) \in HealthRecords
  BY ConstantsOK DEF MarkDown, HealthRecords
<1>2. CASE h.until = None \/ h.until = 0
  BY <1>1, <1>2 DEF Aged
<1>3. CASE ~(h.until = None \/ h.until = 0)
  <2>1. h.until \in 1..Cooldown
    BY <1>3 DEF HealthRecords
  <2>2. h.until - 1 \in 0..Cooldown
    BY <2>1, ConstantsOK
  <2> QED BY <1>1, <1>3, <2>2 DEF Aged, HealthRecords
<1> QED BY <1>2, <1>3

\* Statuses are numbers, which None is not.
LEMMA StatusFacts ==
  /\ None \notin {200, 400, 500, 504} \cup {"timeout", "unreachable", "broken"}
  /\ \A s \in Statuses : s \in Nat /\ s # None
<1>1. None \notin Nat \cup {"timeout", "unreachable", "broken"} /\ Statuses \subseteq Codes
  BY ConstantsOK
<1>2. Codes \subseteq Nat
  BY DEF Codes
<1> QED BY <1>1, <1>2

\* The gate answers with a status or lets the request in.
LEMMA GateType == \A q : Gate(q) \in Codes \cup {None}
BY ConstantsOK DEF Gate, Codes

\* What resolve() returns is a provider that is not down.
LEMMA ResolvesHealthy ==
  ASSUME NEW m, NEW p, Resolves(m, p)
  PROVE  p \in Providers /\ ~IsDown(health[p])
BY DEF Resolves, Candidates

\* A response keeps the types of the two variables it writes.
LEMMA RespondTypes ==
  ASSUME TypeOK, NEW r \in Requests, NEW s \in Codes, Respond(r, s)
  PROVE  /\ reply' \in [Requests -> Codes \cup {None}]
         /\ pc' \in [Requests -> Awaits]
BY DEF TypeOK, Respond, Awaits

\* Every action preserves the types.
LEMMA TypeStep == TypeOK /\ [Next]_vars => TypeOK'
<1> SUFFICES ASSUME TypeOK, [Next]_vars PROVE TypeOK'
  OBVIOUS
<1> USE ConstantsOK DEF TypeOK, Awaits
<1>0. {200, 400, 500, 504} \subseteq Codes
  BY DEF Codes
<1>1. ASSUME NEW r \in Requests, NEW q \in Inputs, Receive(r, q) PROVE TypeOK'
  <2>1. CASE Gate(q) = None
    BY <1>1, <2>1 DEF Receive
  <2>2. CASE Gate(q) # None
    <3>1. Gate(q) \in Codes
      BY <2>2, GateType, Zenon
    <3>2. /\ Respond(r, Gate(q))
          /\ inp' = [inp EXCEPT ![r] = q]
          /\ UNCHANGED <<health, target, upstream, conn>>
      BY <1>1, <2>2 DEF Receive
    <3> QED BY <3>1, <3>2, RespondTypes
  <2> QED BY <2>1, <2>2
<1>2. ASSUME NEW r \in Requests, Reject(r) PROVE TypeOK'
  BY <1>2, <1>0 DEF Reject, Respond
<1>3. ASSUME NEW r \in Requests, Choke(r) PROVE TypeOK'
  BY <1>3, <1>0 DEF Choke, Respond
<1>4. ASSUME NEW r \in Requests, NEW p \in Providers, Dispatch(r, p) PROVE TypeOK'
  BY <1>4 DEF Dispatch
<1>5. ASSUME NEW r \in Requests, NEW why \in {"timeout", "unreachable"},
             NoResponse(r, why)
      PROVE TypeOK'
  <2>1. health' \in [Providers -> HealthRecords]
    BY <1>5, HealthTypes DEF NoResponse, Judge
  <2> QED BY <1>0, <1>5, <2>1 DEF NoResponse, NotAnswered, UpstreamResults, Respond
<1>6. ASSUME NEW r \in Requests, Break(r) PROVE TypeOK'
  BY <1>0, <1>6 DEF Break, NotAnswered, UpstreamResults, Respond
<1>7. ASSUME NEW r \in Requests, NEW s \in Statuses, Forward(r, s) PROVE TypeOK'
  <2>1. health' \in [Providers -> HealthRecords]
    BY <1>7, HealthTypes DEF Forward, Judge
  <2>2. \E a \in Codes : Respond(r, a)
    <3>1. s \in Codes /\ 500 \in Codes
      BY <1>0
    <3> QED BY <1>7, <3>1 DEF Forward
  <2>3. /\ upstream' = [upstream EXCEPT ![r] = Answered(s)]
        /\ UNCHANGED <<inp, target, conn>>
    BY <1>7 DEF Forward
  <2>4. /\ reply' \in [Requests -> Codes \cup {None}]
        /\ pc' \in [Requests -> Awaits]
    BY <2>2, RespondTypes
  <2>5. Answered(s) \in UpstreamResults
    BY DEF Answered, UpstreamResults
  <2>6. upstream' \in [Requests -> UpstreamResults]
    BY <2>3, <2>5
  <2>7. /\ inp' \in [Requests -> Inputs \cup {None}]
        /\ target' \in [Requests -> Providers \cup {None}]
        /\ conn' \in [Requests -> {"none", "open", "closed", "abandoned"}]
    BY <2>3
  <2> QED BY <2>1, <2>4, <2>6, <2>7
<1>8. ASSUME NEW r \in Requests, NEW s \in Statuses, OpenStream(r, s) PROVE TypeOK'
  <2>1. Answered(s) \in UpstreamResults
    BY DEF Answered, UpstreamResults
  <2>2. upstream' \in [Requests -> UpstreamResults]
    BY <1>8, <2>1 DEF OpenStream
  <2>3. UNCHANGED <<health, inp, target>> /\ conn' = [conn EXCEPT ![r] = "open"]
    BY <1>8 DEF OpenStream
  <2>4. \/ pc' = [pc EXCEPT ![r] = "draining"] /\ UNCHANGED reply
        \/ /\ pc' = [pc EXCEPT ![r] = "piping"]
           /\ reply' = [reply EXCEPT ![r] = 200]
    BY <1>8, Zenon DEF OpenStream
  <2> QED BY <1>0, <2>2, <2>3, <2>4
<1>9. ASSUME NEW r \in Requests, Drain(r) PROVE TypeOK'
  BY <1>9 DEF Drain
<1>10. ASSUME NEW r \in Requests, DrainBreak(r) PROVE TypeOK'
  BY <1>0, <1>10 DEF DrainBreak, NotAnswered, UpstreamResults, Respond
<1>11. ASSUME NEW r \in Requests, CloseDrained(r) PROVE TypeOK'
  <2>1. health' \in [Providers -> HealthRecords]
    BY <1>11, HealthTypes DEF CloseDrained, Judge
  <2>2. upstream[r].status \in Codes \cup {None}
    BY DEF UpstreamResults
  <2> QED BY <1>11, <2>1, <2>2 DEF CloseDrained, Respond
<1>12. ASSUME NEW r \in Requests, PipeEnd(r) PROVE TypeOK'
  BY <1>12 DEF PipeEnd
<1>13. ASSUME NEW r \in Requests, ClosePiped(r) PROVE TypeOK'
  BY <1>13 DEF ClosePiped
<1>14. ASSUME NEW r \in Requests, Release(r) PROVE TypeOK'
  BY <1>14 DEF Release, Pending, UpstreamResults
<1>15. CASE Tick
  BY <1>15, HealthTypes DEF Tick
<1>16. CASE UNCHANGED vars
  BY <1>16 DEF vars
<1> HIDE DEF TypeOK
<1>17. ASSUME NEW r \in Requests, Progress(r) PROVE TypeOK'
  BY <1>2, <1>3, <1>4, <1>5, <1>6, <1>7, <1>8, <1>9, <1>10, <1>11, <1>12, <1>13,
     <1>17 DEF Progress
<1> QED
  BY <1>1, <1>14, <1>15, <1>16, <1>17 DEF Next

LEMMA TypeInit == Init => TypeOK
BY ConstantsOK DEF Init, TypeOK, Permanent, Pending, HealthRecords, UpstreamResults, Awaits

\* Every variable keeps its type, whatever clients and upstreams do.
THEOREM TypeCorrect == Spec => []TypeOK
BY TypeInit, TypeStep, PTL DEF Spec
-----------------------------------------------------------------------------
\* A step of request r, as opposed to a tick.
StepOf(r) == (\E q \in Inputs : Receive(r, q)) \/ Progress(r) \/ Release(r)

\* What it does to another request: nothing.
Same(x) ==
  /\ pc'[x] = pc[x] /\ inp'[x] = inp[x] /\ target'[x] = target[x]
  /\ upstream'[x] = upstream[x] /\ conn'[x] = conn[x] /\ reply'[x] = reply[x]

LEMMA SameCoherent ==
  ASSUME NEW x \in Requests, Coherent(x), Same(x)
  PROVE  Coherent(x)'
BY DEF Coherent, Same

\* Every step but a tick is one request's and touches no other request.
LEMMA OthersSame ==
  ASSUME TypeOK, NEW r \in Requests, NEW x \in Requests \ {r}, StepOf(r)
  PROVE  Same(x)
<1> USE DEF TypeOK, Same
<1>1. ASSUME NEW q \in Inputs, Receive(r, q) PROVE Same(x)
  BY <1>1 DEF Receive, Respond
<1>2. ASSUME Reject(r) PROVE Same(x)
  BY <1>2 DEF Reject, Respond
<1>3. ASSUME Choke(r) PROVE Same(x)
  BY <1>3 DEF Choke, Respond
<1>4. ASSUME NEW p \in Providers, Dispatch(r, p) PROVE Same(x)
  BY <1>4 DEF Dispatch
<1>5. ASSUME NEW why \in {"timeout", "unreachable"}, NoResponse(r, why) PROVE Same(x)
  BY <1>5 DEF NoResponse, Respond
<1>6. ASSUME Break(r) PROVE Same(x)
  BY <1>6 DEF Break, Respond
<1>7. ASSUME NEW s \in Statuses, Forward(r, s) PROVE Same(x)
  BY <1>7 DEF Forward, Respond
<1>8. ASSUME NEW s \in Statuses, OpenStream(r, s) PROVE Same(x)
  BY <1>8 DEF OpenStream
<1>9. ASSUME Drain(r) PROVE Same(x)
  BY <1>9 DEF Drain
<1>10. ASSUME DrainBreak(r) PROVE Same(x)
  BY <1>10 DEF DrainBreak, Respond
<1>11. ASSUME CloseDrained(r) PROVE Same(x)
  BY <1>11 DEF CloseDrained, Respond
<1>12. ASSUME PipeEnd(r) PROVE Same(x)
  BY <1>12 DEF PipeEnd
<1>13. ASSUME ClosePiped(r) PROVE Same(x)
  BY <1>13 DEF ClosePiped
<1>14. ASSUME Release(r) PROVE Same(x)
  BY <1>14 DEF Release
<1> HIDE DEF TypeOK, Same
<1> QED
  BY <1>1, <1>2, <1>3, <1>4, <1>5, <1>6, <1>7, <1>8, <1>9, <1>10, <1>11, <1>12, <1>13, <1>14 DEF StepOf, Progress

\* A step of r that leaves the others alone, keeps r coherent and keeps the
\* blocked providers down keeps the invariant.
LEMMA StepOfOne ==
  ASSUME IInv, TypeOK', NEW r \in Requests,
         StepOf(r), Coherent(r)', HealthSound'
  PROVE  IInv'
<1>1. \A x \in Requests \ {r} : Coherent(x)'
  BY OthersSame, SameCoherent DEF IInv
<1> QED BY <1>1 DEF IInv

\* The gate lets nobody in without llmport's key.
LEMMA GateKeeps ==
  ASSUME NEW q \in Inputs, Gate(q) = None
  PROVE  KeyConfigured /\ q.credential = "valid"
BY ConstantsOK DEF Gate

\* A provider that is permanently down is down.
LEMMA PermanentIsDown == IsDown(Permanent) /\ Aged(Permanent) = Permanent
BY DEF IsDown, Permanent, Aged

\* A provider that is judged is the target of a request, hence not blocked.
LEMMA JudgeSparesBlocked ==
  ASSUME TypeOK, NEW r \in Requests, NEW u, Judge(r, u), target[r] \notin Blocked,
         HealthSound
  PROVE  HealthSound'
<1>1. CASE health' = health
  BY <1>1 DEF HealthSound
<1>2. CASE health' = [health EXCEPT ![target[r]] = MarkDown(@)]
  <2>1. \A p \in Providers :
          \/ health'[p] = health[p]
          \/ p = target[r] /\ health'[p] = MarkDown(health[p])
    BY <1>2 DEF TypeOK
  <2>2. Cooldown # None
    BY ConstantsOK
  <2>3. \A h : MarkDown(h).status = "down" /\ MarkDown(h).until # None
    BY <2>2 DEF MarkDown
  <2> QED BY <2>1, <2>3 DEF HealthSound
<1> QED BY <1>1, <1>2 DEF Judge

\* The passage of time neither makes nor lifts a permanent down.
LEMMA TickSparesBlocked == TypeOK /\ HealthSound /\ Tick => HealthSound'
<1> SUFFICES ASSUME TypeOK, HealthSound, Tick PROVE HealthSound'
  OBVIOUS
<1>1. \A p \in Providers : health'[p] = Aged(health[p])
  BY DEF Tick
<1>2. ASSUME NEW h \in HealthRecords
      PROVE  Aged(h).status = h.status /\ (Aged(h).until = None <=> h.until = None)
  <2>1. CASE h.until = None \/ h.until = 0
    BY <2>1 DEF Aged
  <2>2. CASE ~(h.until = None \/ h.until = 0)
    <3>1. h.until \in Nat /\ h.until > 0
      BY <2>2, ConstantsOK DEF HealthRecords
    <3>2. h.until - 1 # None
      BY <3>1, ConstantsOK
    <3> QED BY <2>2, <3>2 DEF Aged, HealthRecords
  <2> QED BY <2>1, <2>2
<1> QED BY <1>1, <1>2, PermanentIsDown DEF HealthSound, TypeOK

\* A step of r keeps r coherent and the blocked providers down.
LEMMA CoherentStep ==
  ASSUME IInv, TypeOK', NEW r \in Requests, StepOf(r)
  PROVE  Coherent(r)' /\ HealthSound'
<1>0. TypeOK /\ Coherent(r) /\ HealthSound
  BY DEF IInv
<1>a. health' = health => HealthSound'
  BY <1>0 DEF HealthSound
<1> USE ConstantsOK
<1>1. ASSUME NEW q \in Inputs, Receive(r, q) PROVE Coherent(r)' /\ HealthSound'
  BY <1>0, <1>a, <1>1 DEF TypeOK, Receive, Respond, Coherent, Pending
<1>2. ASSUME Reject(r) PROVE Coherent(r)' /\ HealthSound'
  BY <1>0, <1>a, <1>2 DEF TypeOK, Reject, Respond, Coherent, Pending
<1>3. ASSUME Choke(r) PROVE Coherent(r)' /\ HealthSound'
  BY <1>0, <1>a, <1>3 DEF TypeOK, Choke, Respond, Coherent, Pending
<1>4. ASSUME NEW p \in Providers, Dispatch(r, p) PROVE Coherent(r)' /\ HealthSound'
  <2>1. p \notin Blocked
    BY <1>0, <1>a, <1>4, ResolvesHealthy, PermanentIsDown DEF Dispatch, HealthSound
  <2>2. KeyConfigured /\ inp[r].credential = "valid"
    BY <1>0, <1>a, <1>4, GateKeeps DEF Dispatch, Coherent
  <2> QED BY <1>0, <1>a, <1>4, <2>1, <2>2 DEF TypeOK, Dispatch, Coherent, Pending
<1>5. ASSUME NEW why \in {"timeout", "unreachable"}, NoResponse(r, why)
      PROVE  Coherent(r)' /\ HealthSound'
  <2>1. Coherent(r)'
    BY <1>0, <1>a, <1>5 DEF TypeOK, NoResponse, Respond, Coherent, NotAnswered, Pending
  <2> QED BY <1>0, <1>a, <1>5, <2>1, JudgeSparesBlocked DEF NoResponse, Coherent
<1>6. ASSUME Break(r) PROVE Coherent(r)' /\ HealthSound'
  BY <1>0, <1>a, <1>6 DEF TypeOK, Break, Respond, Coherent, NotAnswered, Pending
<1>7. ASSUME NEW s \in Statuses, Forward(r, s) PROVE Coherent(r)' /\ HealthSound'
  <2>1. Coherent(r)'
    BY <1>0, <1>a, <1>7, StatusFacts
    DEF TypeOK, Forward, Respond, Coherent, Answered, Pending
  <2> QED BY <1>0, <1>a, <1>7, <2>1, JudgeSparesBlocked DEF Forward, Coherent
<1>8. ASSUME NEW s \in Statuses, OpenStream(r, s) PROVE Coherent(r)' /\ HealthSound'
  <2>1. /\ inp'[r] = inp[r] /\ target'[r] = target[r]
        /\ upstream'[r] = Answered(s) /\ conn'[r] = "open"
    BY <1>0, <1>a, <1>8 DEF TypeOK, OpenStream
  <2>2. \/ s >= 400 /\ pc'[r] = "draining" /\ reply'[r] = None
        \/ s < 400 /\ pc'[r] = "piping" /\ reply'[r] = 200
    BY <1>0, <1>a, <1>8, StatusFacts DEF TypeOK, OpenStream, Coherent
  <2>3. target[r] # None
    BY <1>0, <1>a, <1>8 DEF OpenStream, Coherent
  <2>4. Coherent(r)'
    BY <1>0, <1>a, <2>1, <2>2, <2>3 DEF Coherent, Answered
  <2> QED BY <1>0, <1>a, <1>8, <2>4 DEF OpenStream
<1>9. ASSUME Drain(r) PROVE Coherent(r)' /\ HealthSound'
  BY <1>0, <1>a, <1>9 DEF TypeOK, Drain, Coherent
<1>10. ASSUME DrainBreak(r) PROVE Coherent(r)' /\ HealthSound'
  BY <1>0, <1>a, <1>10 DEF TypeOK, DrainBreak, Respond, Coherent, NotAnswered
<1>11. ASSUME CloseDrained(r) PROVE Coherent(r)' /\ HealthSound'
  <2>1. /\ inp'[r] = inp[r] /\ target'[r] = target[r]
        /\ upstream'[r] = upstream[r] /\ conn'[r] = "closed"
        /\ pc'[r] = "answered" /\ reply'[r] = upstream[r].status
    BY <1>0, <1>a, <1>11 DEF TypeOK, CloseDrained, Respond
  <2>2. /\ target[r] # None
        /\ upstream[r].status \in Statuses /\ upstream[r].status >= 400
        /\ upstream[r].reason = None
    BY <1>0, <1>a, <1>11 DEF CloseDrained, Coherent
  <2>3. upstream[r].status # None
    BY <2>2, StatusFacts
  <2>4. Coherent(r)'
    BY <1>0, <1>a, <2>1, <2>2, <2>3 DEF Coherent
  <2> QED BY <1>0, <1>a, <1>11, <2>4, JudgeSparesBlocked DEF CloseDrained, Coherent
<1>12. ASSUME PipeEnd(r) PROVE Coherent(r)' /\ HealthSound'
  BY <1>0, <1>a, <1>12 DEF TypeOK, PipeEnd, Coherent
<1>13. ASSUME ClosePiped(r) PROVE Coherent(r)' /\ HealthSound'
  BY <1>0, <1>a, <1>13 DEF TypeOK, ClosePiped, Coherent
<1>14. ASSUME Release(r) PROVE Coherent(r)' /\ HealthSound'
  BY <1>0, <1>a, <1>14 DEF TypeOK, Release, Coherent, Pending
<1> QED
  BY <1>1, <1>2, <1>3, <1>4, <1>5, <1>6, <1>7, <1>8, <1>9, <1>10, <1>11, <1>12,
     <1>13, <1>14 DEF StepOf, Progress

LEMMA InvariantStep == IInv /\ [Next]_vars => IInv'
<1> SUFFICES ASSUME IInv, [Next]_vars PROVE IInv'
  OBVIOUS
<1>0. TypeOK /\ TypeOK' /\ HealthSound
  BY TypeStep DEF IInv
<1>1. ASSUME NEW r \in Requests, StepOf(r) PROVE IInv'
  BY <1>0, <1>1, CoherentStep, StepOfOne
<1>2. CASE Tick
  <2>1. HealthSound'
    BY <1>0, <1>2, TickSparesBlocked
  <2>2. \A r \in Requests : Coherent(r)'
    BY <1>2, SameCoherent DEF IInv, Tick, Same
  <2> QED BY <1>0, <2>1, <2>2 DEF IInv
<1>3. CASE UNCHANGED vars
  <2>1. \A r \in Requests : Coherent(r)'
    BY <1>3, SameCoherent DEF IInv, vars, Same
  <2> QED BY <1>0, <1>3, <2>1 DEF IInv, vars, HealthSound
<1> QED BY <1>1, <1>2, <1>3 DEF Next, StepOf

LEMMA InvariantInit == Init => IInv
<1> SUFFICES ASSUME Init PROVE IInv
  OBVIOUS
<1>1. HealthSound
  <2>1. ASSUME NEW p \in Providers, p \notin Blocked
        PROVE  health[p].status = "down" <=> health[p].until # None
    <3>1. health[p] = [status |-> "unknown", until |-> None]
      BY <2>1 DEF Init
    <3> QED BY <3>1
  <2> QED BY <2>1 DEF Init, HealthSound
<1>2. \A r \in Requests : Coherent(r)
  BY DEF Init, Coherent, Pending
<1> QED BY <1>1, <1>2, TypeInit, Zenon DEF IInv

\* The inductive invariant, from which the safety properties below follow.
THEOREM Invariant == Spec => []IInv
BY InvariantInit, InvariantStep, PTL DEF Spec

\* A provider that was down at load stays down for good and is never used.
THEOREM PermanentDown == Spec => []PermanentStaysDown
<1>1. IInv => PermanentStaysDown
  BY ConstantsOK DEF IInv, HealthSound, Coherent, PermanentStaysDown
<1> QED BY <1>1, Invariant, PTL

\* No upstream is contacted for a request without llmport's key.
THEOREM Authorised == Spec => []AuthorisedContact
<1>1. IInv => AuthorisedContact
  BY DEF IInv, Coherent, AuthorisedContact
<1> QED BY <1>1, Invariant, PTL

\* Only a broken transport or a client that left before the pipe began leaves a
\* stream open behind an answered request.
THEOREM StreamsClose == Spec => []StreamsClosedUnlessBroken
<1>1. IInv => StreamsClosedUnlessBroken
  <2> SUFFICES ASSUME IInv, NEW r \in Requests, pc[r] = "answered"
               PROVE  /\ conn[r] = "open" => upstream[r].reason = "broken"
                      /\ conn[r] = "abandoned" =>
                           upstream[r].status # None /\ upstream[r].status < 400
    BY DEF StreamsClosedUnlessBroken
  <2>1. Coherent(r)
    BY DEF IInv
  <2> QED BY <2>1, StatusFacts DEF Coherent
<1> QED BY <1>1, Invariant, PTL

\* What the client is told is what the upstream said.
THEOREM TransparentErrors == Spec => []Transparent
<1>1. ASSUME IInv, NEW r \in Requests, target[r] # None, reply[r] # None
      PROVE  LET u == upstream[r] IN
             /\ u.status # None /\ u.status >= 400 => reply[r] = u.status
             /\ reply[r] < 400 => u.status # None /\ u.status < 400
             /\ reply[r] = 504 /\ u.status = None <=> u.reason \in {"timeout", "unreachable"}
  <2>1. Coherent(r)
    BY <1>1 DEF IInv
  <2>2. pc[r] \in {"answered", "piping", "closing"}
    BY <1>1, <2>1 DEF IInv, TypeOK, Awaits, Coherent
  <2>3. CASE upstream[r].status \in Statuses /\ upstream[r].status >= 400
    <3>1. upstream[r].reason = None /\ reply[r] = upstream[r].status
      BY <1>1, <2>1, <2>2, <2>3, StatusFacts DEF Coherent, NotAnswered
    <3> QED BY <2>3, <3>1, StatusFacts, ConstantsOK
  <2>4. CASE upstream[r].status \in Statuses /\ upstream[r].status < 400
    <3>1. upstream[r].reason = None /\ reply[r] \in {upstream[r].status, 200, 500}
      BY <1>1, <2>1, <2>2, <2>4, StatusFacts DEF Coherent, NotAnswered
    <3> QED BY <2>4, <3>1, StatusFacts, ConstantsOK
  <2>5. CASE upstream[r].status \notin Statuses
    <3>1. \/ upstream[r] = NotAnswered("broken") /\ reply[r] = 500
          \/ /\ upstream[r] \in {NotAnswered("timeout"), NotAnswered("unreachable")}
             /\ reply[r] = 504
      BY <1>1, <2>1, <2>2, <2>5 DEF Coherent
    <3> QED BY <3>1, ConstantsOK DEF NotAnswered
  <2>6. upstream[r].status \in Statuses =>
          upstream[r].status >= 400 \/ upstream[r].status < 400
    BY StatusFacts
  <2> QED BY <2>3, <2>4, <2>5, <2>6
<1>2. IInv => Transparent
  BY <1>1 DEF Transparent
<1> QED BY <1>2, Invariant, PTL
-----------------------------------------------------------------------------
(* The health records change only by judgement and by time                 *)

\* The step in which r's client is given its status.
Ends(r) == reply[r] = None /\ reply'[r] # None

\* A step of r marks its provider down when it ends a failed exchange, and
\* leaves the health records alone otherwise.
LEMMA Judgement ==
  ASSUME IInv, NEW r \in Requests, StepOf(r)
  PROVE  IF Ends(r) /\ Failed(upstream'[r])
           THEN health' = [health EXCEPT ![target[r]] = MarkDown(@)]
           ELSE health' = health
<1> DEFINE Goal == IF Ends(r) /\ Failed(upstream'[r])
                     THEN health' = [health EXCEPT ![target[r]] = MarkDown(@)]
                     ELSE health' = health
<1>0. TypeOK /\ Coherent(r)
  BY DEF IInv
<1>a. ~Failed(Pending) /\ ~Failed(NotAnswered("broken"))
  BY StatusFacts DEF Failed, Pending, NotAnswered
<1>1. ASSUME \/ \E q \in Inputs : Receive(r, q)
             \/ Reject(r) \/ Choke(r)
      PROVE  Goal
  <2>1. upstream'[r] = Pending
    BY <1>0, <1>1 DEF Receive, Reject, Choke, Coherent
  <2>2. health' = health
    BY <1>1 DEF Receive, Reject, Choke
  <2> QED BY <1>a, <2>1, <2>2
<1>2. ASSUME \/ \E p \in Providers : Dispatch(r, p)
             \/ Drain(r) \/ PipeEnd(r) \/ ClosePiped(r) \/ Release(r)
      PROVE  Goal
  <2>1. ~Ends(r)
    BY <1>0, <1>2 DEF TypeOK, Ends, Dispatch, Drain, PipeEnd, ClosePiped, Release
  <2>2. health' = health
    BY <1>2 DEF Dispatch, Drain, PipeEnd, ClosePiped, Release
  <2> QED BY <2>1, <2>2
<1>3. ASSUME NEW why \in {"timeout", "unreachable"}, NoResponse(r, why) PROVE Goal
  <2>1. upstream'[r] = NotAnswered(why) /\ reply'[r] = 504 /\ reply[r] = None
    BY <1>0, <1>3 DEF TypeOK, NoResponse, Respond, Coherent
  <2>2. Ends(r)
    BY <2>1, StatusFacts DEF Ends
  <2> QED BY <1>3, <2>1, <2>2 DEF NoResponse, Judge
<1>4. ASSUME Break(r) \/ DrainBreak(r) PROVE Goal
  <2>1. upstream'[r] = NotAnswered("broken") /\ health' = health
    BY <1>0, <1>4 DEF TypeOK, Break, DrainBreak
  <2> QED BY <1>a, <2>1
<1>5. ASSUME NEW s \in Statuses, Forward(r, s) PROVE Goal
  <2>1. upstream'[r] = Answered(s) /\ reply'[r] \in {s, 500} /\ reply[r] = None
    BY <1>0, <1>5 DEF TypeOK, Forward, Respond, Coherent
  <2>2. Ends(r)
    BY <2>1, StatusFacts DEF Ends
  <2> QED BY <1>5, <2>1, <2>2 DEF Forward, Judge
<1>6. ASSUME NEW s \in Statuses, OpenStream(r, s) PROVE Goal
  <2>1. upstream'[r] = Answered(s) /\ health' = health
    BY <1>0, <1>6 DEF TypeOK, OpenStream
  <2>2. CASE s >= 400
    BY <1>6, <2>1, <2>2 DEF OpenStream, Ends
  <2>3. CASE ~(s >= 400)
    <3>1. ~(s >= 500) /\ s # 429
      BY <2>3, StatusFacts
    <3>2. ~Failed(Answered(s))
      BY <3>1, StatusFacts DEF Failed, Answered, IsAvailabilityFailure
    <3> QED BY <2>1, <3>2
  <2> QED BY <2>2, <2>3
<1>7. ASSUME CloseDrained(r) PROVE Goal
  <2>1. upstream'[r] = upstream[r] /\ reply[r] = None /\ reply'[r] = upstream[r].status
    BY <1>0, <1>7 DEF TypeOK, CloseDrained, Respond
  <2>2. upstream[r].status \in Statuses
    BY <1>0, <1>7 DEF CloseDrained, Coherent
  <2>3. Ends(r)
    BY <2>1, <2>2, StatusFacts DEF Ends
  <2> QED BY <1>7, <2>1, <2>3 DEF CloseDrained, Judge
<1> HIDE DEF Goal
<1>8. Goal
  BY <1>1, <1>2, <1>3, <1>4, <1>5, <1>6, <1>7 DEF StepOf, Progress
<1> QED BY <1>8 DEF Goal

\* Two requests never end in one step.
LEMMA OneEnds ==
  ASSUME TypeOK, NEW r \in Requests, StepOf(r), NEW x \in Requests, Ends(x)
  PROVE  x = r
BY OthersSame DEF Same, Ends

\* Nobody's request ends in a tick or a stuttering step.
LEMMA NobodyEnds ==
  ASSUME Tick \/ UNCHANGED vars
  PROVE  \A x \in Requests : ~Ends(x)
BY DEF Tick, vars, Ends

\* Only a request that was routed can end a failed exchange.
LEMMA FailedNeedsTarget ==
  ASSUME IInv, IInv', NEW r \in Requests, Ends(r), Failed(upstream'[r]), StepOf(r)
  PROVE  target[r] # None /\ target'[r] = target[r]
<1>0. TypeOK /\ Coherent(r)' /\ pc'[r] \in Awaits
  BY DEF IInv, TypeOK
<1>1. ~Failed(Pending)
  BY StatusFacts DEF Failed, Pending
<1>2. target'[r] # None
  BY <1>0, <1>1 DEF Coherent, Awaits
<1>3. ~Release(r) /\ ~\E p \in Providers : Dispatch(r, p)
  BY <1>0 DEF Ends, Release, Dispatch, TypeOK
<1>4. target' = target
  BY <1>3 DEF StepOf, Progress, Receive, Reject, Choke, NoResponse, Break, Forward,
              OpenStream, Drain, DrainBreak, CloseDrained, PipeEnd, ClosePiped
<1> QED BY <1>2, <1>4

\* A provider seen to fail is down for the whole cooldown from the step that
\* tells the client, on every path through the code.
THEOREM FailuresCoolDown == Spec => FailureCoolsDown
<1>1. ASSUME IInv, [Next]_vars, NEW x \in Requests, Ends(x), Failed(upstream'[x])
      PROVE  health'[target[x]] = MarkDown(health[target[x]])
  <2>1. PICK r \in Requests : StepOf(r)
    BY <1>1, NobodyEnds DEF Next, StepOf
  <2>2. x = r /\ TypeOK /\ Coherent(r)
    BY <1>1, <2>1, OneEnds DEF IInv
  <2>3. health' = [health EXCEPT ![target[r]] = MarkDown(@)]
    BY <1>1, <2>1, <2>2, Judgement
  <2>4. target[r] \in Providers
    BY <1>1, <2>1, <2>2, InvariantStep, FailedNeedsTarget DEF TypeOK
  <2> QED BY <2>2, <2>3, <2>4 DEF TypeOK
<1>2. IInv /\ [Next]_vars =>
        [\A r \in Requests :
           reply[r] = None /\ reply'[r] # None /\ Failed(upstream'[r])
             => health'[target[r]] = MarkDown(health[target[r]])]_vars
  BY <1>1 DEF Ends
<1> QED BY <1>2, Invariant, PTL DEF Spec, FailureCoolsDown

\* A provider goes down only by its own failure.
THEOREM OnlyFailuresMarkDown == Spec => OnlyFailureMarksDown
<1>1. ASSUME IInv, [Next]_vars, NEW p \in Providers,
             ~IsDown(health[p]), IsDown(health'[p])
      PROVE  \E r \in Requests : target[r] = p /\ Failed(upstream'[r]) /\ Ends(r)
  <2>1. ~Tick /\ ~UNCHANGED vars
    <3>1. health[p] \in HealthRecords
      BY <1>1 DEF IInv, TypeOK
    <3>2. ~IsDown(Aged(health[p]))
      BY <1>1, <3>1, ConstantsOK DEF IsDown, Aged, HealthRecords
    <3>3. Tick => health'[p] = Aged(health[p])
      BY DEF Tick
    <3> QED BY <1>1, <3>2, <3>3 DEF vars
  <2>2. PICK r \in Requests : StepOf(r)
    BY <1>1, <2>1 DEF Next, StepOf
  <2>3. health' # health
    BY <1>1
  <2>4. /\ Ends(r) /\ Failed(upstream'[r])
        /\ health' = [health EXCEPT ![target[r]] = MarkDown(@)]
    BY <1>1, <2>2, <2>3, Judgement
  <2>5. target[r] = p
    BY <1>1, <2>4 DEF IInv, TypeOK
  <2> QED BY <2>4, <2>5
<1>2. IInv /\ [Next]_vars =>
        [\A p \in Providers :
           ~IsDown(health[p]) /\ IsDown(health[p])'
             => \E r \in Requests : /\ target[r] = p /\ Failed(upstream'[r])
                                    /\ reply[r] = None /\ reply'[r] # None]_vars
  BY <1>1 DEF Ends, IsDown
<1> QED BY <1>2, Invariant, PTL DEF Spec, OnlyFailureMarksDown

-----------------------------------------------------------------------------
(* The gateway implements the failover it promises.                        *)

\* The abstract variables, as Gateway maps them.
Breaker == [p \in Providers |-> TicksLeft(health[p])]
Verdict == [r \in Requests |-> VerdictOf(r)]

LEMMA TicksLeftFacts ==
  /\ \A h \in HealthRecords : TicksLeft(h) \in 0..Cooldown
  /\ \A h : TicksLeft(MarkDown(h)) = Cooldown
<1>1. Cooldown \in Nat /\ Cooldown # None /\ 0 \in 0..Cooldown
  BY ConstantsOK
<1> QED BY <1>1 DEF TicksLeft, MarkDown, HealthRecords

\* A closed breaker is a provider that is not down.
LEMMA ClosedIsHealthy ==
  ASSUME IInv, NEW n
  PROVE  F!Closed(n) <=> n \in Providers /\ ~IsDown(health[n])
<1>1. CASE n \notin Providers
  BY <1>1 DEF F!Closed
<1>2. CASE n \in Blocked
  BY <1>2, ConstantsOK, PermanentIsDown DEF F!Closed, IInv, HealthSound
<1>3. CASE n \in Providers \ Blocked
  <2>1. health[n] \in HealthRecords /\ (health[n].status = "down" <=> health[n].until # None)
    BY <1>3 DEF IInv, TypeOK, HealthSound
  <2>2. TicksLeft(health[n]) = 0 <=> ~IsDown(health[n])
    BY <2>1, ConstantsOK DEF TicksLeft, IsDown, HealthRecords
  <2> QED BY <1>3, <2>2 DEF F!Closed
<1> QED BY <1>1, <1>2, <1>3

\* resolve() routes to the first binding with a closed breaker.
LEMMA ResolvesFirst ==
  ASSUME IInv, NEW m, NEW p, Resolves(m, p)
  PROVE  m \in Models /\ p \in Providers /\ F!FirstUsable(m, p)
<1>1. Candidates(m) = F!Usable(m)
  BY ClosedIsHealthy DEF Candidates, F!Usable
<1> QED BY <1>1, ResolvesHealthy DEF Resolves, F!FirstUsable

\* A step of r changes no other request's verdict.
LEMMA OneVerdict ==
  ASSUME TypeOK, NEW r \in Requests, StepOf(r), NEW v, VerdictOf(r)' = v
  PROVE  Verdict' = [Verdict EXCEPT ![r] = v]
<1>1. \A x \in Requests \ {r} : VerdictOf(x)' = VerdictOf(x)
  BY OthersSame DEF Same, VerdictOf
<1> QED BY <1>1 DEF Verdict

\* What marking the target down does to the breakers.
LEMMA BreakerTrips ==
  ASSUME TypeOK, NEW p \in Providers, health' = [health EXCEPT ![p] = MarkDown(@)]
  PROVE  Breaker' = [Breaker EXCEPT ![p] = Cooldown]
BY TicksLeftFacts DEF TypeOK, Breaker

LEMMA BreakersAge == TypeOK /\ Tick => F!Elapse
<1> SUFFICES ASSUME TypeOK, Tick PROVE F!Elapse
  OBVIOUS
<1>1. \A p \in Providers :
        TicksLeft(health'[p]) = IF TicksLeft(health[p]) = 0 THEN 0
                                ELSE TicksLeft(health[p]) - 1
  <2> TAKE p \in Providers
  <2>1. health'[p] = Aged(health[p]) /\ health[p] \in HealthRecords
    BY DEF Tick, TypeOK
  <2> QED BY <2>1, ConstantsOK DEF Aged, TicksLeft, HealthRecords
<1>2. UNCHANGED <<target, Verdict>>
  BY DEF Tick, Verdict, VerdictOf
<1> QED BY <1>1, <1>2 DEF F!Elapse, Verdict

\* While r has its reply, it keeps reply, upstream answer and provider.
LEMMA RepliesStay ==
  ASSUME IInv, NEW r \in Requests, StepOf(r), reply[r] # None, ~Release(r)
  PROVE  reply'[r] = reply[r] /\ upstream'[r] = upstream[r] /\ target' = target
<1>1. Coherent(r) /\ pc[r] \in {"closing", "answered", "piping"}
  BY DEF IInv, TypeOK, Awaits, Coherent
<1>2. PipeEnd(r) \/ ClosePiped(r)
  BY <1>1 DEF StepOf, Progress, Receive, Reject, Choke, Dispatch, NoResponse, Break,
              Forward, OpenStream, Drain, DrainBreak, CloseDrained
<1> QED BY <1>2 DEF PipeEnd, ClosePiped

LEMMA RefineStep ==
  ASSUME IInv, [Next]_vars
  PROVE  [F!AbstractNext]_(F!abstractVars)
<1>0. TypeOK /\ IInv'
  BY InvariantStep DEF IInv
<1>1. ASSUME NEW r \in Requests, StepOf(r)
      PROVE  F!Route(r) \/ F!Serve(r) \/ F!Trip(r) \/ F!Leave(r) \/ UNCHANGED F!abstractVars
  <2>1. ASSUME NEW p \in Providers, Dispatch(r, p)
        PROVE  F!Route(r)
    <3>1. target[r] = None /\ reply[r] = None
      BY <2>1 DEF Dispatch, IInv, Coherent
    <3>2. target' = [target EXCEPT ![r] = p] /\ health' = health /\ reply' = reply
      BY <2>1 DEF Dispatch
    <3>3. inp[r].model \in Models /\ F!FirstUsable(inp[r].model, p)
      BY <2>1, ResolvesFirst DEF Dispatch
    <3>4. VerdictOf(r)' = "pending" /\ VerdictOf(r) = "pending"
      BY <3>1, <3>2 DEF VerdictOf
    <3>5. Verdict' = Verdict
      BY <1>0, <1>1, <3>4, OneVerdict DEF Verdict
    <3> QED BY <3>1, <3>2, <3>3, <3>5 DEF F!Route, Verdict
  <2>2. CASE Release(r)
    <3>1. health' = health /\ target' = [target EXCEPT ![r] = None] /\ reply[r] # None
      BY <2>2 DEF Release, IInv, Coherent
    <3>2. VerdictOf(r)' = "pending"
      BY <1>0, <3>1 DEF VerdictOf, TypeOK
    <3>3. Verdict' = [Verdict EXCEPT ![r] = "pending"]
      BY <1>0, <1>1, <3>2, OneVerdict
    <3>4. CASE target[r] = None
      <4>1. target' = target
        BY <1>0, <3>1, <3>4 DEF TypeOK
      <4>2. VerdictOf(r) = "pending"
        BY <3>4 DEF VerdictOf
      <4>3. Verdict' = Verdict
        BY <3>3, <4>2 DEF Verdict
      <4> QED BY <3>1, <4>1, <4>3 DEF F!abstractVars, Verdict
    <3>5. CASE target[r] # None
      <4>1. VerdictOf(r) # "pending"
        BY <3>1, <3>5 DEF VerdictOf
      <4> QED BY <3>1, <3>3, <3>5, <4>1 DEF F!Leave, Verdict
    <3> QED BY <3>4, <3>5
  <2>3. CASE ~Release(r) /\ (~\E p \in Providers : Dispatch(r, p)) /\ Ends(r)
    <3>1. target' = target
      BY <1>1, <2>3 DEF StepOf, Progress, Receive, Reject, Choke, NoResponse, Break,
                 Forward, OpenStream, Drain, DrainBreak, CloseDrained, PipeEnd, ClosePiped
    <3>2. VerdictOf(r) = "pending"
      BY <2>3 DEF Ends, VerdictOf
    <3>3. CASE Failed(upstream'[r])
      <4>1. target[r] # None /\ target[r] \in Providers
        BY <1>0, <1>1, <2>3, <3>3, FailedNeedsTarget DEF TypeOK
      <4>2. health' = [health EXCEPT ![target[r]] = MarkDown(@)]
        BY <1>1, <2>3, <3>3, Judgement
      <4>3. VerdictOf(r)' = "failed"
        BY <2>3, <3>1, <3>3, <4>1 DEF VerdictOf, Ends
      <4>4. Verdict' = [Verdict EXCEPT ![r] = "failed"]
        BY <1>0, <1>1, <4>3, OneVerdict
      <4>5. Breaker' = [Breaker EXCEPT ![target[r]] = Cooldown]
        BY <1>0, <4>1, <4>2, BreakerTrips
      <4> QED BY <3>1, <3>2, <4>1, <4>4, <4>5 DEF F!Trip, Verdict, Breaker
    <3>4. CASE ~Failed(upstream'[r])
      <4>1. health' = health
        BY <1>1, <3>4, Judgement
      <4>2. CASE target[r] = None
        <5>1. VerdictOf(r)' = "pending"
          BY <3>1, <4>2 DEF VerdictOf
        <5>2. Verdict' = Verdict
          BY <1>0, <1>1, <3>2, <5>1, OneVerdict DEF Verdict
        <5> QED BY <3>1, <4>1, <5>2 DEF F!abstractVars, Verdict
      <4>3. CASE target[r] # None
        <5>1. VerdictOf(r)' = "released"
          BY <2>3, <3>1, <3>4, <4>3 DEF VerdictOf, Ends
        <5>2. Verdict' = [Verdict EXCEPT ![r] = "released"]
          BY <1>0, <1>1, <5>1, OneVerdict
        <5> QED BY <3>1, <3>2, <4>1, <4>3, <5>2 DEF F!Serve, Verdict
      <4> QED BY <4>2, <4>3
    <3> QED BY <3>3, <3>4
  <2>4. CASE ~Release(r) /\ (~\E p \in Providers : Dispatch(r, p)) /\ ~Ends(r)
    <3>1. target' = target
      BY <1>1, <2>4 DEF StepOf, Progress, Receive, Reject, Choke, NoResponse, Break,
                 Forward, OpenStream, Drain, DrainBreak, CloseDrained, PipeEnd, ClosePiped
    <3>2. health' = health
      BY <1>1, <2>4, Judgement
    <3>3. VerdictOf(r)' = VerdictOf(r)
      <4>1. CASE reply[r] = None
        BY <2>4, <4>1 DEF VerdictOf, Ends
      <4>2. CASE reply[r] # None
        BY <1>1, <2>4, <4>2, RepliesStay DEF VerdictOf
      <4> QED BY <4>1, <4>2
    <3>4. Verdict' = Verdict
      BY <1>0, <1>1, <3>3, OneVerdict DEF Verdict
    <3> QED BY <3>1, <3>2, <3>4 DEF F!abstractVars, Verdict
  <2> QED BY <2>1, <2>2, <2>3, <2>4
<1>2. CASE Tick
  BY <1>0, <1>2, BreakersAge DEF F!AbstractNext
<1>3. CASE UNCHANGED vars
  BY <1>3 DEF vars, F!abstractVars, VerdictOf
<1> QED BY <1>1, <1>2, <1>3 DEF Next, StepOf, F!AbstractNext

LEMMA RefineInit == Init => F!AbstractInit
<1> SUFFICES ASSUME Init PROVE F!AbstractInit
  OBVIOUS
<1>1. \A p \in Providers : TicksLeft(health[p]) = 0
  <2> TAKE p \in Providers
  <2>1. health[p] \in {[status |-> "unknown", until |-> None], Permanent}
    BY DEF Init
  <2>2. health[p].until = None
    BY <2>1 DEF Permanent
  <2> QED BY <2>2 DEF TicksLeft
<1>2. \A r \in Requests : VerdictOf(r) = "pending"
  BY DEF Init, VerdictOf
<1> QED BY <1>1, <1>2 DEF Init, F!AbstractInit

\* Every behaviour of the gateway is one that Failover allows.
THEOREM GatewayImplementsFailover == Spec => ImplementsFailover
<1>1. IInv /\ [Next]_vars => [F!AbstractNext]_(F!abstractVars)
  BY RefineStep
<1> QED BY <1>1, RefineInit, Invariant, PTL DEF Spec, ImplementsFailover, F!AbstractSpec
=============================================================================
