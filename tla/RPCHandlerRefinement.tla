------------------------ MODULE RPCHandlerRefinement ------------------------
(***************************************************************************)
(* RPCHandler implements RPCConnection: under the mapping of RPCHandler    *)
(* every step of the handler is a step of the connection or leaves it      *)
(* alone.                                                                  *)
(***************************************************************************)
EXTENDS RPCHandlerAnswers

\* The two variables of RPCConnection as the handler implements them.
StagesOfRequests == [i \in 0..(inbound_id - 1) |-> InboundStage(i)]
CallOf(r) == [stage |-> CallStage(r), outcomes |-> outcomes[r]]
StagesOfCalls == [r \in ReqIds |-> CallOf(r)]

\* The stage of the request whose substream is info.
StageOf(info) ==
    IF info.state = "Busy" THEN [stage |-> "sending", what |-> info.sending]
    ELSE IF info.pending = <<>> THEN [stage |-> "waiting", what |-> info.protocol]
    ELSE [stage |-> "answered", what |-> Head(info.pending)]

\* Stages are read off the substreams, now and in the next state.
LEMMA StageRead ==
    ASSUME NEW i
    PROVE  /\ i \in DOMAIN inbound_substreams =>
                 InboundStage(i) = StageOf(inbound_substreams[i])
           /\ i \notin DOMAIN inbound_substreams => InboundStage(i) = Connection!Over
           /\ i \in DOMAIN inbound_substreams' =>
                 InboundStage(i)' = StageOf(inbound_substreams'[i])
           /\ i \notin DOMAIN inbound_substreams' => InboundStage(i)' = Connection!Over
  BY DEF InboundStage, StageOf, Connection!Over

\* What a well-formed substream says of its request.
LEMMA StageOfInfo ==
    ASSUME NEW info \in InboundInfo, GoodInfo(info)
    PROVE  /\ Open(info) => StageOf(info) = Connection!Waits(info.protocol)
           /\ info.state = "Busy" =>
                 StageOf(info) = Connection!Sends(AppResponse(info.protocol))
           /\ info.state = "Idle" /\ ~Open(info) =>
                 StageOf(info) = Connection!Answered(AppResponse(info.protocol))
<1>. DEFINE a == AppResponse(info.protocol)
            p == info.pending
<1>1. info.state = "Idle" /\ ~Open(info) => p # <<>> /\ Head(p) = a
  <2>1. Head(<<a>>) = a /\ Head(<<a, "Error">>) = a
    OBVIOUS
  <2>2. info.state = "Idle" /\ ~Open(info) => p \in {<<a>>, <<a, "Error">>} /\ p # <<>>
    BY DEF GoodInfo, Open
  <2>. HIDE DEF a, p
  <2>. QED BY <2>1, <2>2
<1>2. info.state = "Busy" => info.sending = a
  BY DEF GoodInfo
<1>3. info.state \in {"Idle", "Busy"}
  BY DEF InboundInfo
<1>4. Open(info) <=> info.state = "Idle" /\ p = <<>>
  BY DEF Open
<1>5. ASSUME info.state = "Busy"
      PROVE  StageOf(info) = [stage |-> "sending", what |-> info.sending]
  BY <1>5 DEF StageOf
<1>6. ASSUME info.state # "Busy", info.pending = <<>>
      PROVE  StageOf(info) = [stage |-> "waiting", what |-> info.protocol]
  BY <1>6 DEF StageOf
<1>7. ASSUME info.state # "Busy", info.pending # <<>>
      PROVE  StageOf(info) = [stage |-> "answered", what |-> Head(info.pending)]
  BY <1>7 DEF StageOf
<1>8. CASE Open(info)
  BY <1>4, <1>6, <1>8 DEF Connection!Waits
<1>9. CASE info.state = "Busy"
  BY <1>2, <1>4, <1>5, <1>9 DEF Connection!Sends
<1>10. CASE info.state = "Idle" /\ ~Open(info)
  BY <1>1, <1>4, <1>7, <1>10 DEF Connection!Answered
<1>. QED BY <1>3, <1>8, <1>9, <1>10

\* The stages that may follow each stage.
LEMMA AfterStages ==
    ASSUME NEW w
    PROVE  /\ Connection!Waits(w) \in Connection!After(Connection!Waits(w))
           /\ Connection!After(Connection!Answered(w)) =
                 {Connection!Answered(w), Connection!Sends(w), Connection!Over}
           /\ Connection!After(Connection!Sends(w)) =
                 {Connection!Sends(w), Connection!Over}
           /\ Connection!Over \in Connection!After(Connection!Over)
<1>1. /\ Connection!Waits(w).stage = "waiting"
      /\ Connection!Answered(w).stage = "answered" /\ Connection!Answered(w).what = w
      /\ Connection!Sends(w).stage = "sending"
      /\ Connection!Over.stage = "over"
  BY DEF Connection!Waits, Connection!Answered, Connection!Sends, Connection!Over
<1>. QED BY <1>1 DEF Connection!After

\* A substream that stays, with the same request, sends no sooner than it has
\* an answer and never returns to an earlier stage.
LEMMA InfoAdvances ==
    ASSUME NEW info \in InboundInfo, GoodInfo(info),
           NEW next \in InboundInfo, GoodInfo(next),
           next.protocol = info.protocol,
           Open(next) <=> Open(info),
           info.state = "Busy" => next.state = "Busy"
    PROVE  StageOf(next) \in Connection!After(StageOf(info))
<1>. DEFINE a == AppResponse(info.protocol)
<1>1. AppResponse(next.protocol) = a
  OBVIOUS
<1>2. info.state \in {"Idle", "Busy"} /\ next.state \in {"Idle", "Busy"}
  BY DEF InboundInfo
<1>. HIDE DEF a
<1>3. CASE Open(info)
  <2>1. StageOf(info) = Connection!Waits(info.protocol)
    BY <1>3, StageOfInfo
  <2>2. StageOf(next) = Connection!Waits(info.protocol)
    BY <1>3, StageOfInfo
  <2>. QED BY <2>1, <2>2, AfterStages
<1>4. CASE info.state = "Busy"
  <2>1. StageOf(info) = Connection!Sends(a)
    BY <1>4, StageOfInfo DEF a
  <2>2. StageOf(next) = Connection!Sends(a)
    BY <1>1, <1>4, StageOfInfo
  <2>. QED BY <2>1, <2>2, AfterStages
<1>5. CASE info.state = "Idle" /\ ~Open(info)
  <2>1. StageOf(info) = Connection!Answered(a)
    BY <1>5, StageOfInfo DEF a
  <2>2. StageOf(next) \in {Connection!Sends(a), Connection!Answered(a)}
    BY <1>1, <1>2, <1>5, StageOfInfo
  <2>. QED BY <2>1, <2>2, AfterStages
<1>. QED BY <1>2, <1>3, <1>4, <1>5

\* A substream may be dropped unless its request still waits for its answer.
LEMMA InfoEnds ==
    ASSUME NEW info \in InboundInfo, GoodInfo(info), ~Open(info)
    PROVE  Connection!Over \in Connection!After(StageOf(info))
<1>. DEFINE a == AppResponse(info.protocol)
<1>1. StageOf(info) \in {Connection!Sends(a), Connection!Answered(a)}
  BY StageOfInfo DEF InboundInfo
<1>. QED BY <1>1, AfterStages

-----------------------------------------------------------------------------
(***************************************************************************)
(* The steps.                                                              *)
(***************************************************************************)

\* RPCConnection has its own copies of these operators.
LEMMA SameOperators ==
    /\ \A req : Connection!AppResponse(req) = AppResponse(req)
    /\ \A req : Connection!expected_responses(req) = expected_responses(req)
    /\ \A S : Connection!Cardinality(S) = Cardinality(S)
<1>1. \A req : Connection!AppResponse(req) = AppResponse(req)
  BY Zenon DEF Connection!AppResponse, AppResponse
<1>2. \A req : Connection!expected_responses(req) = expected_responses(req)
  BY DEF Connection!expected_responses, expected_responses
<1>3. \A S : Connection!Cardinality(S) = Cardinality(S)
  BY Zenon DEF Connection!Cardinality, Cardinality
<1>. QED BY <1>1, <1>2, <1>3

\* The actions of the connection that change one request.
LEMMA ReceiveRead ==
    ASSUME NEW req,
           StagesOfRequests' =
              [i \in DOMAIN StagesOfRequests \cup {Cardinality(DOMAIN StagesOfRequests)} |->
                  IF i \in DOMAIN StagesOfRequests THEN StagesOfRequests[i]
                  ELSE IF expected_responses(req) > 0
                  THEN Connection!Waits(req) ELSE Connection!Over],
           Connection!Settle, closed' = closed
    PROVE  Connection!Receive(req)
  BY SameOperators DEF Connection!Receive, StagesOfRequests

LEMMA AnswerRead ==
    ASSUME NEW i, StagesOfRequests[i].stage = "waiting",
           StagesOfRequests' =
              [StagesOfRequests EXCEPT
                  ![i] = Connection!Answered(AppResponse(StagesOfRequests[i].what))],
           StagesOfCalls' = StagesOfCalls, closed' = closed
    PROVE  Connection!Answer(i)
  BY SameOperators DEF Connection!Answer, StagesOfRequests, StagesOfCalls, CallOf

\* The stages that may follow each stage of a call, by their fields.
LEMMA CallAfterStages ==
    ASSUME NEW c, NEW d,
           c.stage = "open" /\ d # c => d = Connection!Responded \/ d = Connection!Done(1),
           c.stage = "responded" /\ d # c =>
               d = Connection!Done(1) \/ d = Connection!Done(2),
           c.stage # "open" /\ c.stage # "responded" => d = c
    PROVE  d \in Connection!CallAfter(c)
<1>1. CASE c.stage = "open"
  BY <1>1 DEF Connection!CallAfter
<1>2. CASE c.stage = "responded"
  BY <1>2 DEF Connection!CallAfter
<1>3. CASE c.stage # "open" /\ c.stage # "responded"
  BY <1>3 DEF Connection!CallAfter
<1>. QED BY <1>1, <1>2, <1>3

\* The calls, when none is made and the outcomes in S are reported: S holds
\* calls without an outcome and calls whose substream is closing.  A call
\* enters the closing ones only with its outcome.
LEMMA CallsSettle ==
    ASSUME HandlerInv, RequestsConserved, RequestsConserved', issued' = issued,
           NEW S \in SUBSET ((issued \ settled) \cup ClosingIds), Report(S),
           ClosingIds' \subseteq ClosingIds \cup S
    PROVE  Connection!Settle
<1>1. issued \subseteq ReqIds /\ outcomes \in [ReqIds -> Nat] /\ OutboundOK
  BY DEF HandlerInv, AppOK
<1>2. /\ \A r \in ClosingIds : r \in ReqIds /\ r \in issued /\ outcomes[r] = 1
      /\ \A r \in ClosingIds' : outcomes'[r] = 1
      /\ settled \subseteq issued
  <2>1. \A r \in ClosingIds : r \in ReqIds /\ r \in settled /\ outcomes[r] = 1
    BY <1>1, ConservedParts, UnsettledAreNotClosing DEF ClosingIds, ClosingOnce, Closing
  <2>2. \A r \in ClosingIds' : outcomes'[r] = 1
    BY DEF RequestsConserved, ClosingIds
  <2>. QED BY <2>1, <2>2 DEF RequestsConserved
<1>3. S \in SUBSET ReqIds
  BY <1>1, <1>2
<1>4. /\ settled' = settled \cup S
      /\ \A r \in S : outcomes'[r] = outcomes[r] + 1
      /\ \A r \in ReqIds \ S : outcomes'[r] = outcomes[r]
  BY <1>1, <1>3, Reported
<1>5. \A r \in ReqIds : r \notin settled => outcomes[r] = 0
  BY <1>1 DEF settled
<1>. SUFFICES ASSUME NEW r \in ReqIds
              PROVE  CallOf(r)' \in Connection!CallAfter(CallOf(r))
  BY DEF Connection!Settle, CallOf
<1>6. CallOf(r).stage = CallStage(r)
  BY DEF CallOf
<1>7. CASE r \notin issued
  <2>1. r \notin S /\ CallStage(r) = "idle" /\ CallStage(r)' = "idle"
    BY <1>2, <1>7 DEF CallStage
  <2>2. CallOf(r)' = CallOf(r)
    BY <1>4, <2>1 DEF CallOf
  <2>. QED BY <1>6, <2>1, <2>2, CallAfterStages
<1>8. CASE r \in issued /\ r \notin settled
  <2>1. CallStage(r) = "open"
    BY <1>8 DEF CallStage
  <2>2. CASE r \notin S
    <3>1. CallStage(r)' = "open" /\ outcomes'[r] = outcomes[r]
      BY <1>4, <1>8, <2>2 DEF CallStage
    <3>2. CallOf(r)' = CallOf(r)
      BY <2>1, <3>1 DEF CallOf
    <3>. QED BY <1>6, <2>1, <3>2, CallAfterStages
  <2>3. CASE r \in S
    <3>1. outcomes'[r] = 1
      BY <1>4, <1>5, <1>8, <2>3
    <3>2. CallStage(r)' \in {"responded", "over"}
      BY <1>4, <1>8, <2>3 DEF CallStage
    <3>3. CallOf(r)' = Connection!Responded \/ CallOf(r)' = Connection!Done(1)
      BY <3>1, <3>2 DEF CallOf, Connection!Responded, Connection!Done
    <3>. QED BY <1>6, <2>1, <3>3, CallAfterStages
  <2>. QED BY <2>2, <2>3
<1>9. CASE r \in issued /\ r \in settled /\ r \notin ClosingIds
  <2>1. r \notin S /\ r \notin ClosingIds' /\ outcomes'[r] = outcomes[r]
    BY <1>4, <1>9
  <2>2. CallStage(r) = "over" /\ CallStage(r)' = "over"
    BY <1>4, <1>9, <2>1 DEF CallStage
  <2>3. CallOf(r)' = CallOf(r)
    BY <2>1, <2>2 DEF CallOf
  <2>. QED BY <1>6, <2>2, <2>3, CallAfterStages
<1>10. CASE r \in issued /\ r \in settled /\ r \in ClosingIds
  <2>1. CallStage(r) = "responded" /\ outcomes[r] = 1 /\ r \in settled'
    BY <1>2, <1>4, <1>10 DEF CallStage
  <2>2. CASE r \in ClosingIds'
    <3>1. CallStage(r)' = "responded" /\ outcomes'[r] = 1
      BY <1>2, <1>10, <2>1, <2>2 DEF CallStage
    <3>2. CallOf(r)' = CallOf(r)
      BY <2>1, <3>1 DEF CallOf
    <3>. QED BY <1>6, <2>1, <3>2, CallAfterStages
  <2>3. CASE r \notin ClosingIds'
    <3>1. CallStage(r)' = "over"
      BY <1>10, <2>1, <2>3 DEF CallStage
    <3>2. outcomes'[r] \in {1, 2}
      BY <1>4, <2>1
    <3>3. CallOf(r)' = Connection!Done(1) \/ CallOf(r)' = Connection!Done(2)
      BY <3>1, <3>2 DEF CallOf, Connection!Done
    <3>. QED BY <1>6, <2>1, <3>3, CallAfterStages
  <2>. QED BY <2>2, <2>3
<1>. QED BY <1>7, <1>8, <1>9, <1>10

\* No outcome is reported; closing substreams may go.
LEMMA NoOutcome ==
    ASSUME HandlerInv, RequestsConserved, RequestsConserved', issued' = issued,
           outcomes' = outcomes, ClosingIds' \subseteq ClosingIds
    PROVE  Connection!Settle
<1>1. Report({})
  BY DEF HandlerInv, AppOK, Report
<1>2. {} \in SUBSET ((issued \ settled) \cup ClosingIds)
  OBVIOUS
<1>. QED BY <1>1, <1>2, CallsSettle

\* Substreams that stay keep their requests, so no substream starts to close.
LEMMA NoNewClosing ==
    /\ outbound_substreams' = outbound_substreams => ClosingIds' = ClosingIds
    /\ \A K : RemoveClosed(K) => ClosingIds' \subseteq ClosingIds
<1>1. outbound_substreams' = outbound_substreams => ClosingIds' = ClosingIds
  BY DEF ClosingIds, Closing
<1>2. ASSUME NEW K, RemoveClosed(K) PROVE ClosingIds' \subseteq ClosingIds
  <2>1. \A o \in DOMAIN outbound_substreams' :
           /\ o \in DOMAIN outbound_substreams
           /\ outbound_substreams'[o] = outbound_substreams[o]
    BY <1>2 DEF RemoveClosed, Without, Restrict
  <2>. QED BY <2>1 DEF ClosingIds, Closing
<1>. QED BY <1>1, <1>2

\* The calls, when nothing happens to them.
LEMMA CallsUnchanged ==
    ASSUME UNCHANGED <<issued, outcomes, outbound_substreams>>
    PROVE  StagesOfCalls' = StagesOfCalls
<1>1. \A r \in ReqIds : CallStage(r)' = CallStage(r)
  BY NothingReported, NoNewClosing DEF CallStage
<1>. QED BY <1>1 DEF StagesOfCalls, CallOf

\* The requests, when nothing happens to them.
LEMMA RequestsUnchanged ==
    ASSUME inbound_id' = inbound_id, inbound_substreams' = inbound_substreams
    PROVE  StagesOfRequests' = StagesOfRequests
<1>1. \A i \in 0..(inbound_id - 1) : InboundStage(i)' = InboundStage(i)
  BY DEF InboundStage
<1>. QED BY <1>1 DEF StagesOfRequests

\* A step of the handler that drives the substreams, or leaves them alone, is
\* work of the connection.
LEMMA WorkStep ==
    ASSUME HandlerInv, HandlerInv', AnswersInv,
           inbound_id' = inbound_id, Connection!Settle,
           Driven \/ inbound_substreams' = inbound_substreams
    PROVE  Connection!Work
<1>1. closed' \in BOOLEAN
  BY DEF HandlerInv, AppOK
<1>2. \A i \in DOMAIN inbound_substreams :
         inbound_substreams[i] \in InboundInfo /\ GoodInfo(inbound_substreams[i])
  BY AnswersParts DEF HandlerInv, InboundOK, AnswersInv
<1>3. \A i \in DOMAIN inbound_substreams' : inbound_substreams'[i] \in InboundInfo
  BY DEF HandlerInv, InboundOK
<1>4. ASSUME NEW i \in 0..(inbound_id - 1)
      PROVE  InboundStage(i)' \in Connection!After(InboundStage(i))
  <2>1. CASE i \notin DOMAIN inbound_substreams
    <3>1. i \notin DOMAIN inbound_substreams'
      BY <2>1 DEF Driven
    <3>. QED BY <2>1, <3>1, StageRead, AfterStages
  <2>2. CASE i \in DOMAIN inbound_substreams /\ i \in DOMAIN inbound_substreams'
    <3>. DEFINE info == inbound_substreams[i]
                next == inbound_substreams'[i]
    <3>1. info \in InboundInfo /\ next \in InboundInfo /\ GoodInfo(info)
      BY <1>2, <1>3, <2>2
    <3>2. /\ GoodInfo(next) /\ next.protocol = info.protocol
          /\ Open(next) <=> Open(info)
          /\ info.state = "Busy" => next.state = "Busy"
      BY <1>2, <2>2 DEF Driven
    <3>3. StageOf(next) \in Connection!After(StageOf(info))
      <4>. HIDE DEF info, next
      <4>. QED BY <3>1, <3>2, InfoAdvances
    <3>. QED BY <2>2, <3>3, StageRead
  <2>3. CASE i \in DOMAIN inbound_substreams /\ i \notin DOMAIN inbound_substreams'
    <3>1. ~Open(inbound_substreams[i])
      BY <2>3 DEF Driven, OpenIds
    <3>2. Connection!Over \in Connection!After(StageOf(inbound_substreams[i]))
      BY <1>2, <2>3, <3>1, InfoEnds
    <3>. QED BY <2>3, <3>2, StageRead
  <2>. QED BY <2>1, <2>2, <2>3
<1>. QED BY <1>1, <1>4 DEF Connection!Work

\* The application makes a call.
LEMMA CallStep ==
    ASSUME HandlerInv, RequestsConserved, NEW r \in ReqIds, NEW req, SendRequest(r, req)
    PROVE  Connection!Call(r)
<1>1. /\ r \notin issued /\ r \notin settled /\ issued' = issued \cup {r}
      /\ UNCHANGED <<inbound_id, inbound_substreams, outbound_substreams, closed>>
  BY DEF SendRequest, RequestsConserved, inboundVars, outboundVars
<1>2. /\ outcomes \in [ReqIds -> Nat] /\ outcomes[r] = 0
      /\ r \notin ClosingIds /\ ClosingIds' = ClosingIds
  <2>1. outcomes \in [ReqIds -> Nat] /\ OutboundOK
    BY DEF HandlerInv, AppOK
  <2>2. r \notin ClosingIds
    BY <1>1, <2>1, ConservedParts, UnsettledAreNotClosing DEF ClosingIds
  <2>. QED BY <1>1, <2>1, <2>2, NoNewClosing DEF settled
<1>3. \/ settled' = settled /\ outcomes' = outcomes
      \/ /\ settled' = settled \cup {r} /\ outcomes'[r] = 1
         /\ \A x \in ReqIds \ {r} : outcomes'[x] = outcomes[x]
  <2>1. outcomes' = outcomes \/ Report({r})
    BY DEF SendRequest, send_request
  <2>2. CASE outcomes' = outcomes
    BY <2>2, NothingReported
  <2>3. CASE Report({r})
    BY <1>2, <2>3, Reported
  <2>. QED BY <2>1, <2>2, <2>3
<1>4. StagesOfRequests' = StagesOfRequests
  BY <1>1, RequestsUnchanged
<1>5. CallOf(r) = Connection!Idle
  BY <1>1, <1>2 DEF CallOf, CallStage, Connection!Idle
<1>6. CallOf(r)' \in {Connection!Open, Connection!Done(1)}
  <2>1. CASE settled' = settled /\ outcomes' = outcomes
    BY <1>1, <1>2, <2>1 DEF CallOf, CallStage, Connection!Open
  <2>2. CASE settled' = settled \cup {r} /\ outcomes'[r] = 1
    BY <1>1, <1>2, <2>2 DEF CallOf, CallStage, Connection!Done
  <2>. QED BY <1>3, <2>1, <2>2
<1>7. \A x \in ReqIds : x # r => CallOf(x)' = CallOf(x)
  <2>. SUFFICES ASSUME NEW x \in ReqIds, x # r PROVE CallOf(x)' = CallOf(x)
    OBVIOUS
  <2>1. /\ x \in issued' <=> x \in issued
        /\ x \in settled' <=> x \in settled
        /\ x \in ClosingIds' <=> x \in ClosingIds
        /\ outcomes'[x] = outcomes[x]
    BY <1>1, <1>2, <1>3
  <2>2. CallStage(x)' = CallStage(x)
    BY <2>1 DEF CallStage
  <2>. QED BY <2>1, <2>2 DEF CallOf
<1>8. PICK c \in {Connection!Open, Connection!Done(1)} : c = CallOf(r)'
  BY <1>6
<1>9. StagesOfCalls' = [StagesOfCalls EXCEPT ![r] = c]
  BY <1>7, <1>8 DEF StagesOfCalls
<1>10. StagesOfCalls[r] = Connection!Idle
  BY <1>5 DEF StagesOfCalls
<1>. QED BY <1>1, <1>4, <1>9, <1>10
         DEF Connection!Call, StagesOfCalls, StagesOfRequests, CallOf

\* The application answers a request; the answer to a Goodbye goes nowhere.
LEMMA AnswerStep ==
    ASSUME HandlerInv, AnswersInv, AnswersInv', HandlerInv', NEW m \in owed, SendResponse(m)
    PROVE  \/ \E i \in DOMAIN StagesOfRequests : Connection!Answer(i)
           \/ UNCHANGED <<StagesOfRequests, StagesOfCalls, closed>>
<1>1. UNCHANGED <<inbound_id, closed, issued, outcomes, outbound_substreams>>
  BY DEF SendResponse, outboundVars
<1>2. StagesOfCalls' = StagesOfCalls
  BY <1>1, CallsUnchanged
<1>3. CASE m.id \notin DOMAIN inbound_substreams
  <2>1. inbound_substreams' = inbound_substreams
    BY <1>3 DEF SendResponse
  <2>. QED BY <1>1, <1>2, <2>1, RequestsUnchanged
<1>4. CASE m.id \in OpenIds /\ inbound_substreams[m.id].protocol = m.req
  <2>. DEFINE i == m.id
              info == inbound_substreams[i]
              a == AppResponse(m.req)
              q == Append(info.pending, a)
              next == [info EXCEPT !.pending = q]
  <2>1. /\ i \in DOMAIN inbound_substreams /\ Open(info) /\ info \in InboundInfo
        /\ GoodInfo(info) /\ info.protocol = m.req /\ i \in 0..(inbound_id - 1)
    BY <1>4, AnswersParts DEF OpenIds, HandlerInv, InboundOK, AnswersInv
  <2>2. /\ inbound_substreams' = [inbound_substreams EXCEPT ![i] = next]
    BY <2>1 DEF SendResponse
  <2>3. a \in Responses
    BY AppResponseType
  <2>. HIDE DEF a
  <2>4. q = <<a>> /\ q \in Seq(Responses)
    BY <2>1, <2>3 DEF Open
  <2>. HIDE DEF q
  <2>5. next.state = "Idle" /\ next.pending = q /\ next.protocol = m.req
    BY <2>1, <2>4 DEF InboundInfo, Open
  <2>6. /\ DOMAIN inbound_substreams' = DOMAIN inbound_substreams
        /\ inbound_substreams'[i] = next
        /\ \A j \in DOMAIN inbound_substreams :
              j # i => inbound_substreams'[j] = inbound_substreams[j]
    BY <2>1, <2>2
  <2>. HIDE DEF next
  <2>7. next \in InboundInfo /\ GoodInfo(next) /\ ~Open(next)
    <3>1. next \in InboundInfo /\ GoodInfo(next)
      BY <2>1, <2>6, AnswersPartsNext DEF HandlerInv, InboundOK, AnswersInv
    <3>2. q # <<>>
      BY <2>4
    <3>. QED BY <2>5, <3>1, <3>2 DEF Open
  <2>8. InboundStage(i) = Connection!Waits(m.req)
    BY <2>1, StageRead, StageOfInfo
  <2>9. InboundStage(i)' = Connection!Answered(AppResponse(m.req))
    <3>1. InboundStage(i)' = StageOf(next)
      BY <2>1, <2>6, StageRead
    <3>2. StageOf(next) = Connection!Answered(AppResponse(next.protocol))
      BY <2>5, <2>7, StageOfInfo
    <3>. QED BY <2>5, <3>1, <3>2
  <2>10. \A j \in 0..(inbound_id - 1) : j # i => InboundStage(j)' = InboundStage(j)
    BY <2>6, StageRead
  <2>11. Connection!Waits(m.req).stage = "waiting" /\ Connection!Waits(m.req).what = m.req
    BY DEF Connection!Waits
  <2>12. /\ StagesOfRequests[i].stage = "waiting" /\ StagesOfRequests[i].what = m.req
         /\ i \in DOMAIN StagesOfRequests
    BY <2>1, <2>8, <2>11 DEF StagesOfRequests
  <2>13. StagesOfRequests' =
            [StagesOfRequests EXCEPT
                ![i] = Connection!Answered(AppResponse(StagesOfRequests[i].what))]
    BY <1>1, <2>1, <2>9, <2>10, <2>12 DEF StagesOfRequests
  <2>14. Connection!Answer(i)
    <3>. HIDE DEF i
    <3>. QED BY <1>1, <1>2, <2>12, <2>13, AnswerRead
  <2>. QED BY <2>12, <2>14
<1>. QED BY <1>3, <1>4, FindsSubstream

\* A request that gets the next id is received.
LEMMA ReceiveStep ==
    ASSUME HandlerInv, NEW req, NEW n, n = inbound_id,
           inbound_id' = n + 1, closed' = closed, Connection!Settle,
           \A j \in 0..(n - 1) : InboundStage(j)' = InboundStage(j),
           InboundStage(n)' = IF expected_responses(req) > 0
                              THEN Connection!Waits(req) ELSE Connection!Over
    PROVE  Connection!Receive(req)
<1>. DEFINE D == 0..(n - 1)
            f == [i \in D \cup {n} |->
                     IF i \in D THEN StagesOfRequests[i]
                     ELSE IF expected_responses(req) > 0
                     THEN Connection!Waits(req) ELSE Connection!Over]
<1>1. n \in Nat
  BY DEF HandlerInv, InboundOK
<1>2. DOMAIN StagesOfRequests = D /\ Cardinality(D) = n
  <2>1. Cardinality(D) = IF 0 > n - 1 THEN 0 ELSE n - 1 - 0 + 1
    BY <1>1, FS_Interval
  <2>. QED BY <1>1, <2>1 DEF StagesOfRequests
<1>3. 0..(inbound_id' - 1) = D \cup {n} /\ n \notin D
  BY <1>1
<1>4. \A j \in D : InboundStage(j)' = StagesOfRequests[j]
  BY DEF StagesOfRequests
<1>5. StagesOfRequests' = f
  <2>1. StagesOfRequests' = [i \in 0..(inbound_id' - 1) |-> InboundStage(i)']
    BY DEF StagesOfRequests
  <2>2. \A i \in D \cup {n} : InboundStage(i)' = f[i]
    BY <1>3, <1>4
  <2>. QED BY <1>3, <2>1, <2>2
<1>. QED BY <1>2, <1>5, ReceiveRead

\* A request that is answered gets a substream, which waits for the answer.
LEMMA AcceptStep ==
    ASSUME HandlerInv, NEW req, AcceptRequest(req), closed' = closed, Connection!Settle
    PROVE  Connection!Receive(req)
<1>. DEFINE n == inbound_id
            info == IdleInfo(req)
<1>1. /\ expected_responses(req) > 0 /\ n \notin DOMAIN inbound_substreams
      /\ inbound_substreams' = Insert(inbound_substreams, n, info)
      /\ inbound_id' = n + 1
  BY DEF AcceptRequest, HandlerInv, InboundOK
<1>2. StageOf(info) = Connection!Waits(req)
  BY DEF IdleInfo, StageOf, Connection!Waits
<1>3. /\ DOMAIN inbound_substreams' = DOMAIN inbound_substreams \cup {n}
      /\ inbound_substreams'[n] = info
      /\ \A i \in DOMAIN inbound_substreams : inbound_substreams'[i] = inbound_substreams[i]
  <2>. HIDE DEF info
  <2>. QED BY <1>1 DEF Insert
<1>4. PICK k : k = n
  OBVIOUS
<1>5. \A j \in 0..(k - 1) : InboundStage(j)' = InboundStage(j)
  <2>. SUFFICES ASSUME NEW j \in 0..(k - 1) PROVE InboundStage(j)' = InboundStage(j)
    OBVIOUS
  <2>1. j # n
    BY <1>4 DEF HandlerInv, InboundOK
  <2>. QED BY <1>3, <2>1, StageRead
<1>6. InboundStage(k)' = Connection!Waits(req)
  BY <1>2, <1>3, <1>4, StageRead
<1>. QED BY <1>1, <1>4, <1>5, <1>6, ReceiveStep

\* A Goodbye is over at once, and settles the calls that are queued.
LEMMA GoodbyeStep ==
    ASSUME HandlerInv, NEW req, ReceiveGoodbye(req), closed' = closed, Connection!Settle
    PROVE  Connection!Receive(req)
<1>1. /\ expected_responses(req) = 0 /\ inbound_id \notin DOMAIN inbound_substreams
      /\ inbound_substreams' = inbound_substreams
      /\ inbound_id' = inbound_id + 1
  BY DEF ReceiveGoodbye, shutdown, HandlerInv, InboundOK
<1>2. PICK k : k = inbound_id
  OBVIOUS
<1>3. \A j \in 0..(k - 1) : InboundStage(j)' = InboundStage(j)
  BY <1>1, StageRead
<1>4. InboundStage(k)' = Connection!Over
  BY <1>1, <1>2, StageRead
<1>. QED BY <1>1, <1>2, <1>3, <1>4, ReceiveStep

\* Every step of the handler is one of the connection or leaves it alone.
LEMMA StepIsConnections ==
    /\ HandlerInv /\ RequestsConserved /\ AnswersInv
    /\ HandlerInv' /\ RequestsConserved' /\ AnswersInv'
    /\ [Next]_vars
    => [Connection!Next]_(Connection!vars)
<1>. SUFFICES ASSUME HandlerInv, RequestsConserved, AnswersInv,
                     HandlerInv', RequestsConserved', AnswersInv', [Next]_vars
              PROVE  Connection!Next \/ UNCHANGED Connection!vars
  OBVIOUS
<1>1. ASSUME ~closed, Connection!Work PROVE Connection!Next
  BY <1>1 DEF Connection!Next
<1>2. InboundOK /\ OnlyAnswersAreSent
  BY DEF HandlerInv, AnswersInv
<1>3. ASSUME UNCHANGED <<StagesOfRequests, StagesOfCalls, closed>>
      PROVE  UNCHANGED Connection!vars
  BY <1>3 DEF Connection!vars, StagesOfRequests, StagesOfCalls, CallOf
<1>4. ASSUME PollInbound PROVE Driven
  <2>1. PICK ex \in SUBSET inbound_delay, sent \in SUBSET Sending :
           \E failed \in SUBSET (Sending \ sent) : DriveInbound(ex, sent, failed)
    BY <1>4 DEF PollInbound
  <2>2. PICK failed \in SUBSET (Sending \ sent) : DriveInbound(ex, sent, failed)
    BY <2>1
  <2>3. failed \in SUBSET Sending
    OBVIOUS
  <2>. QED BY <1>2, <2>2, <2>3, DriveInboundDrives
<1>5. ASSUME NEW r \in ReqIds, NEW req \in OutboundKinds, SendRequest(r, req)
      PROVE  Connection!Next
  <2>1. ~closed
    BY <1>5 DEF SendRequest
  <2>. QED BY <1>5, <2>1, CallStep DEF Connection!Next
<1>6. ASSUME NEW m \in owed, SendResponse(m)
      PROVE  Connection!Next \/ UNCHANGED Connection!vars
  <2>1. ~closed
    BY <1>6 DEF SendResponse
  <2>2. CASE UNCHANGED <<StagesOfRequests, StagesOfCalls, closed>>
    BY <1>3, <2>2
  <2>3. ASSUME NEW i \in DOMAIN StagesOfRequests, Connection!Answer(i)
        PROVE  Connection!Next
    BY <2>1, <2>3 DEF Connection!Next, StagesOfRequests
  <2>. QED BY <1>6, <2>2, <2>3, AnswerStep
<1>7. ASSUME NEW req \in InboundKinds, NegotiatedInbound(req)
      PROVE  Connection!Next
  <2>1. /\ ~closed /\ UNCHANGED <<closed, issued>> /\ ClosingIds' = ClosingIds
    BY <1>7, NoNewClosing DEF NegotiatedInbound, outboundVars
  <2>2. CASE AcceptRequest(req)
    <3>1. Connection!Settle
      BY <2>1, <2>2, NoOutcome DEF AcceptRequest
    <3>. QED BY <2>1, <2>2, <3>1, AcceptStep DEF Connection!Next
  <2>3. ASSUME NEW before, NEW after, shutdown(before, after) PROVE Connection!Settle
    <3>1. Report(QueuedIds) /\ QueuedIds \in SUBSET ((issued \ settled) \cup ClosingIds)
      BY <2>3 DEF shutdown, RequestsConserved
    <3>. QED BY <2>1, <3>1, CallsSettle
  <2>4. CASE ReceiveGoodbye(req)
    <3>1. Connection!Settle
      BY <2>3, <2>4 DEF ReceiveGoodbye
    <3>. QED BY <2>1, <2>4, <3>1, GoodbyeStep DEF Connection!Next
  <2>5. CASE RejectRequest(req)
    <3>1. /\ inbound_id' = inbound_id /\ inbound_substreams' = inbound_substreams
          /\ Connection!Settle
      BY <2>3, <2>5 DEF RejectRequest
    <3>. QED BY <1>1, <2>1, <3>1, WorkStep
  <2>. QED BY <1>7, <2>2, <2>4, <2>5 DEF NegotiatedInbound
<1>8. ASSUME NEW n \in negotiating, NegotiatedOutbound(n) \/ RetryDial(n) \/ FailDial(n)
      PROVE  Connection!Next
  <2>1. /\ ~closed /\ issued' = issued
        /\ inbound_id' = inbound_id /\ inbound_substreams' = inbound_substreams
    BY <1>8 DEF NegotiatedOutbound, RetryDial, FailDial, inboundVars
  <2>2. {n.id} \in SUBSET ((issued \ settled) \cup ClosingIds)
    BY DEF RequestsConserved, NegotiatingIds
  <2>3. outcomes' = outcomes \/ Report({n.id})
    BY <1>8 DEF NegotiatedOutbound, RetryDial, FailDial, send_request
  <2>4. ClosingIds' \subseteq ClosingIds
    <3>1. CASE outbound_substreams' = outbound_substreams
      BY <3>1, NoNewClosing
    <3>2. CASE outbound_substreams' = Insert(outbound_substreams, outbound_id, PendingInfo(n))
      <4>1. PendingInfo(n).state = "Pending"
        BY DEF PendingInfo
      <4>2. /\ outbound_id \notin DOMAIN outbound_substreams
            /\ DOMAIN outbound_substreams' = DOMAIN outbound_substreams \cup {outbound_id}
            /\ outbound_substreams'[outbound_id] = PendingInfo(n)
            /\ \A o \in DOMAIN outbound_substreams :
                  outbound_substreams'[o] = outbound_substreams[o]
        BY <3>2 DEF Insert, HandlerInv, OutboundOK
      <4>3. \A o \in Closing' :
               o \in Closing /\ outbound_substreams'[o] = outbound_substreams[o]
        BY <4>1, <4>2 DEF Closing
      <4>. QED BY <4>3 DEF ClosingIds
    <3>. QED BY <1>8, <3>1, <3>2
             DEF NegotiatedOutbound, RetryDial, FailDial, outboundVars
  <2>5. Connection!Settle
    <3>1. CASE outcomes' = outcomes
      BY <2>1, <2>4, <3>1, NoOutcome
    <3>2. CASE Report({n.id})
      <4>1. ClosingIds' \subseteq ClosingIds \cup {n.id}
        BY <2>4
      <4>. QED BY <2>1, <2>2, <3>2, <4>1, CallsSettle
    <3>. QED BY <2>3, <3>1, <3>2
  <2>. QED BY <1>1, <2>1, <2>5, WorkStep
<1>9. CASE PollEvent \/ PollShutdownElapsed
  <2>1. /\ ~closed /\ UNCHANGED <<issued, outcomes, outbound_substreams>>
        /\ inbound_id' = inbound_id /\ inbound_substreams' = inbound_substreams
    BY <1>9 DEF PollEvent, PollShutdownElapsed, Quiet, inboundVars, outboundVars
  <2>2. Connection!Settle
    BY <2>1, NoNewClosing, NoOutcome
  <2>. QED BY <1>1, <2>1, <2>2, WorkStep
<1>10. CASE PollTimerError
  <2>1. /\ ~closed /\ UNCHANGED <<issued, outcomes, outbound_substreams>>
        /\ inbound_id' = inbound_id
    BY <1>10 DEF PollTimerError, Quiet, outboundVars
  <2>2. Driven
    BY <1>2, <1>10, PollInboundTimersDrive DEF PollTimerError
  <2>3. Connection!Settle
    BY <2>1, NoNewClosing, NoOutcome
  <2>. QED BY <1>1, <2>1, <2>2, <2>3, WorkStep
<1>11. ASSUME NEW o \in DOMAIN outbound_substreams,
              Report({outbound_substreams[o].req_id}), issued' = issued,
              ClosingIds' \subseteq ClosingIds \cup {outbound_substreams[o].req_id}
       PROVE  Connection!Settle
  <2>1. PICK r : r = outbound_substreams[o].req_id
    OBVIOUS
  <2>2. r \in WaitingIds \/ r \in ClosingIds
    BY <2>1 DEF WaitingIds, ClosingIds, Waiting
  <2>3. {r} \in SUBSET ((issued \ settled) \cup ClosingIds)
    BY <2>2 DEF RequestsConserved
  <2>. QED BY <1>11, <2>1, <2>3, CallsSettle
<1>12. ASSUME NEW o \in DOMAIN outbound_substreams, PollOutboundTimeout(o)
       PROVE  Connection!Next
  <2>1. /\ ~closed /\ issued' = issued /\ inbound_id' = inbound_id
        /\ Report({outbound_substreams[o].req_id})
    BY <1>12 DEF PollOutboundTimeout, Quiet
  <2>2. Driven
    BY <1>2, <1>12, PollInboundTimersDrive DEF PollOutboundTimeout
  <2>3. RemoveClosed({o})
    BY <1>12 DEF PollOutboundTimeout, RemoveClosed
  <2>4. Connection!Settle
    BY <1>11, <2>1, <2>3, NoNewClosing
  <2>. QED BY <1>1, <2>1, <2>2, <2>4, WorkStep
<1>13. ASSUME NEW o \in DOMAIN outbound_substreams, PollResponse(o)
       PROVE  Connection!Next
  <2>1. /\ ~closed /\ issued' = issued /\ inbound_id' = inbound_id /\ PollInbound
        /\ Report({outbound_substreams[o].req_id})
    BY <1>13 DEF PollResponse, Quiet
  <2>2. PICK C \in SUBSET Closing :
            outbound_substreams' =
                [Without(outbound_substreams, C) EXCEPT ![o].state = "Closing"]
    BY <1>13 DEF PollResponse
  <2>3. ClosingIds' \subseteq ClosingIds \cup {outbound_substreams[o].req_id}
    <3>. DEFINE kept == Without(outbound_substreams, C)
                info == [kept[o] EXCEPT !.state = "Closing"]
    <3>1. /\ DOMAIN kept \subseteq DOMAIN outbound_substreams
          /\ \A x \in DOMAIN kept : kept[x] = outbound_substreams[x]
          /\ o \in DOMAIN kept /\ outbound_substreams[o] \in OutboundInfo
      BY <1>13 DEF Without, Restrict, PollResponse, Waiting, HandlerInv, OutboundOK
    <3>2. info.req_id = outbound_substreams[o].req_id
      BY <3>1 DEF OutboundInfo
    <3>3. outbound_substreams' = [kept EXCEPT ![o] = info]
      BY <2>2
    <3>. HIDE DEF kept, info
    <3>4. \A x \in Closing' :
             \/ x \in Closing /\ outbound_substreams'[x] = outbound_substreams[x]
             \/ outbound_substreams'[x].req_id = outbound_substreams[o].req_id
      BY <3>1, <3>2, <3>3 DEF Closing
    <3>. QED BY <3>4 DEF ClosingIds
  <2>4. Connection!Settle
    BY <1>11, <2>1, <2>3
  <2>. QED BY <1>1, <1>4, <2>1, <2>4, WorkStep
<1>14. ASSUME NEW o \in DOMAIN outbound_substreams, PollStreamEnd(o)
       PROVE  Connection!Next
  <2>1. /\ ~closed /\ issued' = issued /\ inbound_id' = inbound_id /\ PollInbound
        /\ Report({outbound_substreams[o].req_id})
    BY <1>14 DEF PollStreamEnd, Quiet
  <2>2. ClosingIds' \subseteq ClosingIds
    BY <1>14, NoNewClosing DEF PollStreamEnd
  <2>3. Connection!Settle
    BY <1>11, <2>1, <2>2
  <2>. QED BY <1>1, <1>4, <2>1, <2>3, WorkStep
<1>15. CASE PollDial \/ PollTail
  <2>1. /\ ~closed /\ issued' = issued /\ outcomes' = outcomes
        /\ inbound_id' = inbound_id /\ PollInbound
        /\ \E C \in SUBSET Closing : RemoveClosed(C)
    BY <1>15 DEF PollDial, PollTail, Quiet
  <2>2. Connection!Settle
    BY <2>1, NoNewClosing, NoOutcome
  <2>. QED BY <1>1, <1>4, <2>1, <2>2, WorkStep
<1>16. CASE UNCHANGED vars
  <2>1. UNCHANGED <<inbound_id, inbound_substreams, issued, outcomes,
                    outbound_substreams, closed>>
    BY <1>16 DEF vars, inboundVars, outboundVars
  <2>. QED BY <1>3, <2>1, RequestsUnchanged, CallsUnchanged
<1>. QED
  BY <1>5, <1>6, <1>7, <1>8, <1>9, <1>10, <1>12, <1>13, <1>14, <1>15, <1>16 DEF Next

\* A handler starts as a connection without requests and calls.
LEMMA InitIsConnections == Init => Connection!Init
<1>. SUFFICES ASSUME Init PROVE Connection!Init
  OBVIOUS
<1>1. /\ inbound_id = 0 /\ issued = {} /\ closed = FALSE
      /\ outcomes = [r \in ReqIds |-> 0]
  BY DEF Init
<1>2. StagesOfRequests = <<>>
  <2>1. 0..(inbound_id - 1) = {}
    BY <1>1
  <2>2. StagesOfRequests = [i \in {} |-> InboundStage(i)]
    BY <2>1 DEF StagesOfRequests
  <2>. QED BY <2>2
<1>3. \A r \in ReqIds : CallOf(r) = Connection!Idle
  BY <1>1 DEF CallOf, CallStage, Connection!Idle
<1>4. StagesOfCalls = [r \in ReqIds |-> Connection!Idle]
  BY <1>3 DEF StagesOfCalls
<1>. QED BY <1>1, <1>2, <1>4 DEF Connection!Init, StagesOfRequests, StagesOfCalls, CallOf

-----------------------------------------------------------------------------
(***************************************************************************)
(* The theorem.                                                            *)
(***************************************************************************)

\* Whatever the timers, retries and returns of poll do, the handler is a
\* connection: an accepted request waits for its answer, is sent that answer
\* and no other and no second one.  A call has no outcome before it was made;
\* afterwards it has at most one, or two when the first is its response and the
\* timer of the closing substream expires, and never a third.
THEOREM ConnectionImplemented == Spec => ImplementsConnection
<1>. DEFINE Inv == HandlerInv /\ RequestsConserved /\ AnswersInv
<1>1. Init => Connection!Init
  BY InitIsConnections
<1>2. Inv /\ Inv' /\ [Next]_vars => [Connection!Next]_(Connection!vars)
  BY StepIsConnections
<1>3. Spec => []Inv
  BY AnswersInvariance
<1>. HIDE DEF Inv
<1>. QED BY <1>1, <1>2, <1>3, PTL DEF Spec, ImplementsConnection, Connection!Spec

=============================================================================
