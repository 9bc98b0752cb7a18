------------------------- MODULE RPCHandlerAnswers -------------------------
(***************************************************************************)
(* Proofs about the inbound half of RPCHandler: every accepted request is  *)
(* answered on its own substream, with the answer to that request and with *)
(* nothing else.                                                           *)
(***************************************************************************)
EXTENDS RPCHandlerProofs

\* The requests in a sequence of events.
IsRequest(e) == e.type = "Request"
Incomings(ev) ==
    {[id |-> ev[k].id, req |-> ev[k].req] :
        k \in {j \in DOMAIN ev : ev[j].type = "Request"}}

\* No two requests in it have the same id.
DistinctIds(ev) ==
    \A j, k \in DOMAIN ev :
        IsRequest(ev[j]) /\ IsRequest(ev[k]) /\ ev[j].id = ev[k].id => j = k

\* A substream whose request has not been answered.
Open(info) == info.state = "Idle" /\ info.pending = <<>>
OpenIds == {j \in DOMAIN inbound_substreams : Open(inbound_substreams[j])}

\* A substream that carries the answer to its request or none.
GoodInfo(info) ==
    LET answer == AppResponse(info.protocol)
    IN  /\ info.state = "Busy" => info.sending = answer
        /\ info.state = "Busy" => info.pending \in {<<>>, <<"Error">>}
        /\ info.state = "Idle" =>
              info.pending \in {<<>>, <<answer>>, <<answer, "Error">>}

\* The ids of the requests under way are ids of the past, each of one request,
\* and a Goodbye has no substream under its id.
IdsOK ==
    /\ DistinctIds(events_out)
    /\ \A m \in owed, n \in Incomings(events_out) : m.id # n.id
    /\ \A m \in Unanswered : m.id < inbound_id
    /\ \A m \in Unanswered :
          expected_responses(m.req) = 0 => m.id \notin DOMAIN inbound_substreams

\* The inductive invariant: an answer finds its substream only if ids are
\* never confused, and what it finds there has no answer yet only if the
\* substreams carry nothing but answers.
AnswersInv == AnswersHaveSubstreams /\ OnlyAnswersAreSent /\ IdsOK

-----------------------------------------------------------------------------
(***************************************************************************)
(* Requests in sequences of events.                                        *)
(***************************************************************************)

\* Membership in Incomings.
LEMMA IncomingsMember ==
    ASSUME NEW ev, NEW m
    PROVE  m \in Incomings(ev) <=>
             \E k \in DOMAIN ev : IsRequest(ev[k]) /\ m = [id |-> ev[k].id, req |-> ev[k].req]
  BY DEF Incomings, IsRequest

\* The requests under way are those in events_out and those owed an answer.
LEMMA UnansweredParts == Unanswered = owed \cup Incomings(events_out)
  BY DEF Unanswered, Incomings

\* Errors are no requests.
LEMMA ErrsIncomings ==
    ASSUME NEW n \in Nat
    PROVE  Incomings(Errs(n)) = {} /\ DistinctIds(Errs(n))
<1>1. \A k \in DOMAIN Errs(n) : ~IsRequest(Errs(n)[k])
  BY DEF Errs, Err, IsRequest
<1>. QED BY <1>1, IncomingsMember DEF DistinctIds

\* The requests in two sequences, one after the other.
LEMMA ConcatIncomings ==
    ASSUME NEW s \in Seq(Events), NEW t \in Seq(Events)
    PROVE  /\ Incomings(s \o t) = Incomings(s) \cup Incomings(t)
           /\ DistinctIds(s) /\ DistinctIds(t)
                /\ (\A m \in Incomings(s), n \in Incomings(t) : m.id # n.id)
                => DistinctIds(s \o t)
<1>. DEFINE u == s \o t
<1>1. /\ u \in Seq(Events) /\ Len(u) = Len(s) + Len(t)
      /\ Len(s) \in Nat /\ Len(t) \in Nat
      /\ DOMAIN s = 1..Len(s) /\ DOMAIN t = 1..Len(t) /\ DOMAIN u = 1..Len(u)
      /\ \A k \in DOMAIN s : k \in DOMAIN u /\ u[k] = s[k]
      /\ \A k \in DOMAIN t : Len(s) + k \in DOMAIN u /\ u[Len(s) + k] = t[k]
      /\ \A k \in DOMAIN u : k \in DOMAIN s \/ k - Len(s) \in DOMAIN t
  BY ConcatProperties, LenProperties
<1>. HIDE DEF u
<1>2. \A k \in DOMAIN u : \/ k \in DOMAIN s /\ u[k] = s[k]
                          \/ k - Len(s) \in DOMAIN t /\ u[k] = t[k - Len(s)]
  <2>. SUFFICES ASSUME NEW k \in DOMAIN u, k \notin DOMAIN s
                PROVE  k - Len(s) \in DOMAIN t /\ u[k] = t[k - Len(s)]
    BY <1>1
  <2>1. k - Len(s) \in DOMAIN t
    BY <1>1
  <2>2. u[Len(s) + (k - Len(s))] = t[k - Len(s)]
    BY <1>1, <2>1
  <2>3. Len(s) + (k - Len(s)) = k
    BY <1>1
  <2>. QED BY <2>1, <2>2, <2>3
<1>3. Incomings(u) = Incomings(s) \cup Incomings(t)
  <2>1. ASSUME NEW m \in Incomings(u) PROVE m \in Incomings(s) \cup Incomings(t)
    BY <1>2, <2>1, IncomingsMember
  <2>2. ASSUME NEW m \in Incomings(s) PROVE m \in Incomings(u)
    <3>1. PICK k \in DOMAIN s : IsRequest(s[k]) /\ m = [id |-> s[k].id, req |-> s[k].req]
      BY <2>2, IncomingsMember
    <3>2. k \in DOMAIN u /\ u[k] = s[k]
      BY <1>1
    <3>. QED BY <3>1, <3>2, IncomingsMember
  <2>3. ASSUME NEW m \in Incomings(t) PROVE m \in Incomings(u)
    <3>1. PICK k \in DOMAIN t : IsRequest(t[k]) /\ m = [id |-> t[k].id, req |-> t[k].req]
      BY <2>3, IncomingsMember
    <3>2. PICK j \in DOMAIN u : u[j] = t[k]
      BY <1>1
    <3>. QED BY <3>1, <3>2, IncomingsMember
  <2>. QED BY <2>1, <2>2, <2>3
<1>4. ASSUME DistinctIds(s), DistinctIds(t),
             \A m \in Incomings(s), n \in Incomings(t) : m.id # n.id
      PROVE  DistinctIds(u)
  <2>. SUFFICES ASSUME NEW j \in DOMAIN u, NEW k \in DOMAIN u,
                       IsRequest(u[j]), IsRequest(u[k]), u[j].id = u[k].id
                PROVE  j = k
    BY DEF DistinctIds
  <2>1. ASSUME NEW a \in DOMAIN s, NEW b \in DOMAIN t,
               IsRequest(s[a]), IsRequest(t[b])
        PROVE  s[a].id # t[b].id
    <3>. DEFINE m == [id |-> s[a].id, req |-> s[a].req]
                n == [id |-> t[b].id, req |-> t[b].req]
    <3>1. m \in Incomings(s) /\ n \in Incomings(t)
      BY <2>1, IncomingsMember
    <3>2. m.id = s[a].id /\ n.id = t[b].id
      OBVIOUS
    <3>. HIDE DEF m, n
    <3>. QED BY <1>4, <3>1, <3>2
  <2>2. CASE j \in DOMAIN s /\ u[j] = s[j] /\ k \in DOMAIN s /\ u[k] = s[k]
    BY <1>4, <2>2 DEF DistinctIds
  <2>3. CASE /\ j - Len(s) \in DOMAIN t /\ u[j] = t[j - Len(s)]
             /\ k - Len(s) \in DOMAIN t /\ u[k] = t[k - Len(s)]
    <3>1. j - Len(s) = k - Len(s)
      BY <1>4, <2>3 DEF DistinctIds
    <3>. QED BY <1>1, <3>1
  <2>. QED BY <1>2, <2>1, <2>2, <2>3
<1>. QED BY <1>3, <1>4 DEF u

\* An event that is returned first.
LEMMA TailIncomings ==
    ASSUME NEW s \in Seq(Events), s # <<>>, DistinctIds(s)
    PROVE  /\ DistinctIds(Tail(s))
           /\ ~IsRequest(Head(s)) => Incomings(s) = Incomings(Tail(s))
           /\ IsRequest(Head(s)) =>
                LET h == [id |-> Head(s).id, req |-> Head(s).req]
                IN  /\ Incomings(s) = Incomings(Tail(s)) \cup {h}
                    /\ \A m \in Incomings(Tail(s)) : m.id # h.id
<1>. DEFINE t == Tail(s)
<1>1. /\ DOMAIN s = 1..Len(s) /\ Len(s) \in Nat /\ Len(s) > 0
      /\ DOMAIN t = 1..(Len(s) - 1) /\ Head(s) = s[1]
      /\ \A k \in DOMAIN t : t[k] = s[k + 1]
  BY HeadTailProperties, LenProperties, EmptySeq
<1>. HIDE DEF t
<1>2. DistinctIds(t)
  <2>. SUFFICES ASSUME NEW j \in DOMAIN t, NEW k \in DOMAIN t,
                       IsRequest(t[j]), IsRequest(t[k]), t[j].id = t[k].id
                PROVE  j = k
    BY DEF DistinctIds
  <2>1. j + 1 \in DOMAIN s /\ k + 1 \in DOMAIN s /\ t[j] = s[j + 1] /\ t[k] = s[k + 1]
    BY <1>1
  <2>2. j + 1 = k + 1
    BY <2>1 DEF DistinctIds
  <2>. QED BY <1>1, <2>2
<1>3. \A k \in DOMAIN s : k = 1 \/ (k - 1 \in DOMAIN t /\ t[k - 1] = s[k])
  <2>. SUFFICES ASSUME NEW k \in DOMAIN s, k # 1
                PROVE  k - 1 \in DOMAIN t /\ t[k - 1] = s[k]
    OBVIOUS
  <2>1. k - 1 \in DOMAIN t /\ (k - 1) + 1 = k
    BY <1>1
  <2>2. t[k - 1] = s[(k - 1) + 1]
    BY <1>1, <2>1
  <2>. QED BY <2>1, <2>2
<1>4. \A k \in DOMAIN t : k + 1 \in DOMAIN s /\ k + 1 # 1 /\ s[k + 1] = t[k]
  BY <1>1
<1>5. 1 \in DOMAIN s
  BY <1>1
<1>6. Incomings(t) \subseteq Incomings(s)
  BY <1>4, IncomingsMember
<1>7. ASSUME NEW m \in Incomings(s), m \notin Incomings(t)
      PROVE  IsRequest(s[1]) /\ m = [id |-> s[1].id, req |-> s[1].req]
  BY <1>3, <1>7, IncomingsMember
<1>8. IsRequest(s[1]) => [id |-> s[1].id, req |-> s[1].req] \in Incomings(s)
  BY <1>5, IncomingsMember
<1>9. ASSUME IsRequest(s[1]), NEW m \in Incomings(t) PROVE m.id # s[1].id
  <2>1. PICK k \in DOMAIN t : IsRequest(t[k]) /\ m = [id |-> t[k].id, req |-> t[k].req]
    BY <1>9, IncomingsMember
  <2>2. m.id = s[k + 1].id /\ IsRequest(s[k + 1])
    BY <1>4, <2>1
  <2>. QED BY <1>4, <1>5, <1>9, <2>2 DEF DistinctIds
<1>10. CASE ~IsRequest(Head(s))
  BY <1>1, <1>2, <1>6, <1>7, <1>10 DEF t
<1>11. CASE IsRequest(Head(s))
  <2>. DEFINE h == [id |-> s[1].id, req |-> s[1].req]
  <2>1. h \in Incomings(s) /\ \A m \in Incomings(s) : m \in Incomings(t) \/ m = h
    BY <1>1, <1>7, <1>8, <1>11
  <2>2. h.id = s[1].id
    OBVIOUS
  <2>. HIDE DEF h
  <2>3. Incomings(s) = Incomings(t) \cup {h} /\ \A m \in Incomings(t) : m.id # h.id
    BY <1>1, <1>6, <1>9, <1>11, <2>1, <2>2
  <2>. QED BY <1>1, <1>2, <1>11, <2>3 DEF h, t
<1>. QED BY <1>10, <1>11

\* One event is queued behind the others.
LEMMA AppendIncomings ==
    ASSUME NEW s \in Seq(Events), NEW e \in Events, DistinctIds(s)
    PROVE  /\ ~IsRequest(e) => /\ DistinctIds(Append(s, e))
                               /\ Incomings(Append(s, e)) = Incomings(s)
           /\ IsRequest(e) =>
                LET h == [id |-> e.id, req |-> e.req]
                IN  /\ Incomings(Append(s, e)) = Incomings(s) \cup {h}
                    /\ (\A m \in Incomings(s) : m.id # e.id) => DistinctIds(Append(s, e))
<1>. DEFINE t == <<e>>
<1>1. /\ t \in Seq(Events) /\ Append(s, e) = s \o t
      /\ DOMAIN t = {1} /\ t[1] = e
  BY AppendIsConcat
<1>. HIDE DEF t
<1>2. DistinctIds(t)
  BY <1>1 DEF DistinctIds
<1>3. ~IsRequest(e) => Incomings(t) = {}
  BY <1>1, IncomingsMember
<1>4. IsRequest(e) => Incomings(t) = {[id |-> e.id, req |-> e.req]}
  BY <1>1, IncomingsMember
<1>5. CASE ~IsRequest(e)
  <2>1. Incomings(s \o t) = Incomings(s) \cup Incomings(t) /\ Incomings(t) = {}
    BY <1>1, <1>3, <1>5, ConcatIncomings
  <2>2. DistinctIds(s \o t)
    BY <1>1, <1>2, <2>1, ConcatIncomings
  <2>. QED BY <1>1, <1>5, <2>1, <2>2
<1>6. CASE IsRequest(e)
  <2>. DEFINE h == [id |-> e.id, req |-> e.req]
  <2>1. h.id = e.id
    OBVIOUS
  <2>2. Incomings(t) = {h}
    BY <1>4, <1>6
  <2>. HIDE DEF h
  <2>3. Incomings(s \o t) = Incomings(s) \cup {h}
    BY <1>1, <2>2, ConcatIncomings
  <2>4. (\A m \in Incomings(s) : m.id # e.id) => DistinctIds(s \o t)
    BY <1>1, <1>2, <2>1, <2>2, ConcatIncomings
  <2>. QED BY <1>1, <1>6, <2>3, <2>4 DEF h
<1>. QED BY <1>5, <1>6

-----------------------------------------------------------------------------
(***************************************************************************)
(* Inbound substreams.                                                     *)
(***************************************************************************)
OpenRequests == {[id |-> i, req |-> inbound_substreams[i].protocol] : i \in OpenIds}

\* The invariants in terms of the definitions above.
LEMMA AnswersParts ==
    /\ AnswersHaveSubstreams <=>
          OpenRequests = {m \in Unanswered : expected_responses(m.req) > 0}
    /\ OnlyAnswersAreSent <=>
          \A i \in DOMAIN inbound_substreams : GoodInfo(inbound_substreams[i])
  BY DEF AnswersHaveSubstreams, OpenRequests, OpenIds, Open, OnlyAnswersAreSent, GoodInfo

\* The same in the next state.
LEMMA AnswersPartsNext ==
    /\ AnswersHaveSubstreams' <=>
          OpenRequests' = {m \in Unanswered' : expected_responses(m.req) > 0}
    /\ OnlyAnswersAreSent' <=>
          \A i \in DOMAIN inbound_substreams' : GoodInfo(inbound_substreams'[i])
  BY DEF AnswersHaveSubstreams, OpenRequests, OpenIds, Open, OnlyAnswersAreSent, GoodInfo

\* A second response is queued behind the first.
LEMMA AppendPair ==
    ASSUME NEW a, NEW b
    PROVE  Append(<<a>>, b) = <<a, b>>
<1>1. ASSUME NEW S, NEW s \in Seq(S), NEW c \in S
      PROVE  /\ Append(s, c) \in Seq(S) /\ Len(Append(s, c)) = Len(s) + 1
             /\ \A i \in 1..Len(s) : Append(s, c)[i] = s[i]
             /\ Append(s, c)[Len(s) + 1] = c
  OBVIOUS
<1>. DEFINE s == <<a>>
            q == Append(s, b)
            S == {a, b}
<1>2. s \in Seq(S) /\ Len(s) = 1 /\ s[1] = a /\ b \in S
  OBVIOUS
<1>. HIDE DEF s, S
<1>3. /\ q \in Seq(S) /\ Len(q) = Len(s) + 1
      /\ \A i \in 1..Len(s) : q[i] = s[i]
      /\ q[Len(s) + 1] = b
  BY <1>1, <1>2
<1>. HIDE DEF q
<1>4. Len(q) = 2 /\ q[1] = a /\ q[2] = b
  BY <1>2, <1>3
<1>5. q = <<q[1], q[2]>>
  BY <1>3, <1>4
<1>6. q = <<a, b>>
  BY <1>4, <1>5
<1>. QED BY <1>6 DEF q, s

\* The expiry of a timer queues an error behind an answer, if there is one.
LEMMA ExpireGood ==
    ASSUME NEW info \in InboundInfo, GoodInfo(info)
    PROVE  /\ GoodInfo(Expire(info))
           /\ Expire(info).protocol = info.protocol
           /\ Expire(info).state = info.state
           /\ Open(Expire(info)) <=> Open(info)
<1>. DEFINE a == AppResponse(info.protocol)
            p == info.pending
            q == IF p # <<>> /\ ~close_after(p[Len(p)]) THEN Append(p, "Error") ELSE p
            e == [info EXCEPT !.delay_key = FALSE, !.pending = q]
<1>1. Expire(info) = e
  BY DEF Expire
<1>2. a \in Responses /\ p \in Seq(Responses) /\ info.state \in {"Idle", "Busy"}
  BY AppResponseType DEF InboundInfo
<1>3. /\ info.state = "Busy" => info.sending = a /\ p \in {<<>>, <<"Error">>}
      /\ info.state = "Idle" => p \in {<<>>, <<a>>, <<a, "Error">>}
  BY DEF GoodInfo
<1>. HIDE DEF a
<1>4. /\ p = <<>> => q = <<>>
      /\ p = <<"Error">> => q = <<"Error">>
      /\ p = <<a, "Error">> => q = <<a, "Error">>
      /\ p = <<a>> => q \in {<<a>>, <<a, "Error">>}
  <2>1. /\ Len(<<"Error">>) = 1 /\ <<"Error">>[1] = "Error"
        /\ Len(<<a, "Error">>) = 2 /\ <<a, "Error">>[2] = "Error"
    OBVIOUS
  <2>2. p \in {<<"Error">>, <<a, "Error">>} => p[Len(p)] = "Error"
    BY <2>1
  <2>3. Append(<<a>>, "Error") = <<a, "Error">>
    BY AppendPair
  <2>. QED BY <2>2, <2>3 DEF close_after
<1>5. q \in Seq(Responses)
  BY <1>2 DEF Responses
<1>. HIDE DEF p, q
<1>6. /\ e.protocol = info.protocol /\ e.state = info.state
      /\ e.sending = info.sending /\ e.pending = q
  BY <1>5 DEF InboundInfo
<1>. HIDE DEF e
<1>7. GoodInfo(e)
  <2>1. AppResponse(e.protocol) = a
    BY <1>6 DEF a
  <2>2. e.state = "Busy" => e.sending = a /\ e.pending \in {<<>>, <<"Error">>}
    BY <1>3, <1>4, <1>6
  <2>3. e.state = "Idle" => e.pending \in {<<>>, <<a>>, <<a, "Error">>}
    BY <1>3, <1>4, <1>6
  <2>. QED BY <2>1, <2>2, <2>3 DEF GoodInfo
<1>8. Open(e) <=> Open(info)
  <2>1. info.state = "Idle" => (q = <<>> <=> p = <<>>)
    BY <1>3, <1>4
  <2>. QED BY <1>6, <2>1 DEF Open, p
<1>. QED BY <1>1, <1>6, <1>7, <1>8

\* A substream that starts to send takes its answer from the queue.
LEMMA StartSendingGood ==
    ASSUME NEW info \in InboundInfo, GoodInfo(info)
    PROVE  /\ GoodInfo(StartSending(info))
           /\ StartSending(info).protocol = info.protocol
           /\ Open(StartSending(info)) <=> Open(info)
           /\ info.state = "Busy" => StartSending(info) = info
<1>. DEFINE a == AppResponse(info.protocol)
            p == info.pending
<1>1. CASE info.state = "Idle" /\ p # <<>>
  <2>. DEFINE f == Head(p)
              q == Tail(p)
              e == [info EXCEPT !.state = "Busy", !.sending = f, !.pending = q]
  <2>1. StartSending(info) = e
    BY <1>1 DEF StartSending
  <2>2. a \in Responses /\ p \in {<<a>>, <<a, "Error">>}
    BY <1>1, AppResponseType DEF GoodInfo
  <2>3. f = a /\ q \in {<<>>, <<"Error">>}
    <3>1. /\ Head(<<a>>) = a /\ Tail(<<a>>) = <<>>
          /\ Head(<<a, "Error">>) = a /\ Tail(<<a, "Error">>) = <<"Error">>
      OBVIOUS
    <3>. HIDE DEF a, p
    <3>. QED BY <2>2, <3>1
  <2>4. f \in Responses /\ q \in Seq(Responses)
    <3>1. <<>> \in Seq(Responses) /\ <<"Error">> \in Seq(Responses)
      BY DEF Responses
    <3>. HIDE DEF f, q, a
    <3>. QED BY <2>2, <2>3, <3>1
  <2>. HIDE DEF f, q
  <2>5. /\ e.protocol = info.protocol /\ e.state = "Busy" /\ e.sending = f
        /\ e.pending = q
    BY <2>4 DEF InboundInfo
  <2>. HIDE DEF e
  <2>6. GoodInfo(e)
    BY <2>3, <2>5 DEF GoodInfo
  <2>7. ~Open(e) /\ ~Open(info)
    BY <1>1, <2>5 DEF Open
  <2>. QED BY <1>1, <2>1, <2>5, <2>6, <2>7
<1>2. CASE ~(info.state = "Idle" /\ p # <<>>)
  BY <1>2 DEF StartSending
<1>. QED BY <1>1, <1>2

\* What a poll does to the substreams: those without an answer stay that way,
\* and of the others some end and some start to send.
Driven ==
    /\ DOMAIN inbound_substreams' \subseteq DOMAIN inbound_substreams
    /\ OpenIds \subseteq DOMAIN inbound_substreams'
    /\ \A i \in DOMAIN inbound_substreams' :
          /\ GoodInfo(inbound_substreams'[i])
          /\ inbound_substreams'[i].protocol = inbound_substreams[i].protocol
          /\ Open(inbound_substreams'[i]) <=> Open(inbound_substreams[i])
          /\ inbound_substreams[i].state = "Busy" => inbound_substreams'[i].state = "Busy"

\* What a poll that got past its first return has to show: it drives the
\* substreams and queues only errors.
LEMMA DrivenStep ==
    ASSUME AnswersInv, events_out = <<>>,
           Incomings(events_out') = {}, DistinctIds(events_out'),
           owed' = owed, inbound_id' = inbound_id, Driven
    PROVE  AnswersInv'
<1>. USE DEF Driven
<1>1. OpenIds' = OpenIds
  BY DEF OpenIds
<1>2. OpenRequests' = OpenRequests
  <2>1. \A i \in OpenIds : inbound_substreams'[i].protocol = inbound_substreams[i].protocol
    OBVIOUS
  <2>. QED BY <1>1, <2>1 DEF OpenRequests
<1>3. Incomings(events_out) = {}
  BY IncomingsMember
<1>4. Unanswered = owed /\ Unanswered' = owed
  BY <1>3, UnansweredParts DEF Unanswered, Incomings
<1>5. AnswersHaveSubstreams'
  BY <1>2, <1>4, AnswersParts, AnswersPartsNext DEF AnswersInv
<1>6. OnlyAnswersAreSent'
  BY AnswersPartsNext
<1>7. IdsOK'
  BY <1>4 DEF AnswersInv, IdsOK
<1>. QED BY <1>5, <1>6, <1>7 DEF AnswersInv

\* The inbound half of poll up to its timers: nothing but their expiry.
LEMMA PollInboundTimersDrive ==
    ASSUME InboundOK, OnlyAnswersAreSent, NEW ex, PollInboundTimers(ex)
    PROVE  Driven
<1>1. ASSUME NEW i \in DOMAIN inbound_substreams
      PROVE  /\ GoodInfo(ExpireAll(ex)[i])
             /\ ExpireAll(ex)[i].protocol = inbound_substreams[i].protocol
             /\ ExpireAll(ex)[i].state = inbound_substreams[i].state
             /\ Open(ExpireAll(ex)[i]) <=> Open(inbound_substreams[i])
  <2>1. inbound_substreams[i] \in InboundInfo /\ GoodInfo(inbound_substreams[i])
    BY AnswersParts DEF InboundOK
  <2>2. CASE i \in ex
    BY <2>1, <2>2, ExpireGood DEF ExpireAll
  <2>3. CASE i \notin ex
    BY <2>1, <2>3 DEF ExpireAll
  <2>. QED BY <2>2, <2>3
<1>2. inbound_substreams' = ExpireAll(ex) /\ DOMAIN ExpireAll(ex) = DOMAIN inbound_substreams
  BY DEF PollInboundTimers, ExpireAll
<1>3. OpenIds \subseteq DOMAIN inbound_substreams'
  BY <1>2 DEF OpenIds
<1>. QED BY <1>1, <1>2, <1>3 DEF Driven

\* The whole inbound half of poll: a substream that ends had an answer.
LEMMA DriveInboundDrives ==
    ASSUME InboundOK, OnlyAnswersAreSent, NEW ex, NEW sent \in SUBSET Sending,
           NEW failed \in SUBSET Sending, DriveInbound(ex, sent, failed)
    PROVE  Driven
<1>. DEFINE ended == sent \cup failed
            left  == DOMAIN inbound_substreams \ ended
<1>1. /\ inbound_substreams' = [i \in left |-> StartSending(ExpireAll(ex)[i])]
      /\ ended \subseteq Sending
  BY DEF DriveInbound
<1>2. ASSUME NEW i \in DOMAIN inbound_substreams
      PROVE  LET x == StartSending(ExpireAll(ex)[i])
             IN  /\ GoodInfo(x)
                 /\ x.protocol = inbound_substreams[i].protocol
                 /\ Open(x) <=> Open(inbound_substreams[i])
                 /\ inbound_substreams[i].state = "Busy" => x.state = "Busy"
  <2>. DEFINE y == ExpireAll(ex)[i]
  <2>1. inbound_substreams[i] \in InboundInfo /\ GoodInfo(inbound_substreams[i])
    BY AnswersParts DEF InboundOK
  <2>2. /\ y \in InboundInfo /\ GoodInfo(y)
        /\ y.protocol = inbound_substreams[i].protocol
        /\ y.state = inbound_substreams[i].state
        /\ Open(y) <=> Open(inbound_substreams[i])
    <3>1. CASE i \in ex
      BY <2>1, <3>1, ExpireGood, ExpireType DEF ExpireAll
    <3>2. CASE i \notin ex
      BY <2>1, <3>2 DEF ExpireAll
    <3>. QED BY <3>1, <3>2
  <2>. HIDE DEF y
  <2>3. /\ GoodInfo(StartSending(y)) /\ StartSending(y).protocol = y.protocol
        /\ Open(StartSending(y)) <=> Open(y)
        /\ y.state = "Busy" => StartSending(y) = y
    BY <2>2, StartSendingGood
  <2>. QED BY <2>2, <2>3 DEF y
<1>3. OpenIds \cap Sending = {}
  <2>. SUFFICES ASSUME NEW i \in OpenIds PROVE i \notin Sending
    OBVIOUS
  <2>1. StartSending(inbound_substreams[i]) = inbound_substreams[i]
        /\ inbound_substreams[i].state = "Idle"
    BY DEF OpenIds, Open, StartSending
  <2>. QED BY <2>1 DEF Sending
<1>4. /\ DOMAIN inbound_substreams' = left
      /\ \A i \in left : inbound_substreams'[i] = StartSending(ExpireAll(ex)[i])
  BY <1>1
<1>5. OpenIds \subseteq DOMAIN inbound_substreams'
  BY <1>1, <1>3, <1>4 DEF OpenIds
<1>. QED BY <1>2, <1>4, <1>5 DEF Driven

\* The two halves keep the invariant.
LEMMA PollInboundTimersAnswers ==
    ASSUME InboundOK, AnswersInv, events_out = <<>>,
           NEW ex \in SUBSET inbound_delay, PollInboundTimers(ex),
           owed' = owed, inbound_id' = inbound_id
    PROVE  AnswersInv'
<1>1. /\ IsFiniteSet(0..(inbound_id - 1))
      /\ ex \cap DOMAIN inbound_substreams \in SUBSET (0..(inbound_id - 1))
  BY FS_Interval DEF InboundOK
<1>2. Cardinality(ex \cap DOMAIN inbound_substreams) \in Nat
  BY <1>1, FS_Subset, FS_CardinalityType
<1>3. Incomings(events_out') = {} /\ DistinctIds(events_out')
  BY <1>2, ErrsIncomings DEF PollInboundTimers
<1>4. Driven
  BY PollInboundTimersDrive DEF AnswersInv
<1>. QED BY <1>3, <1>4, DrivenStep

LEMMA PollInboundAnswers ==
    ASSUME InboundOK, AnswersInv, events_out = <<>>, PollInbound,
           owed' = owed, inbound_id' = inbound_id
    PROVE  AnswersInv'
<1>1. PICK ex \in SUBSET inbound_delay, sent \in SUBSET Sending :
         \E failed \in SUBSET (Sending \ sent) : DriveInbound(ex, sent, failed)
  BY DEF PollInbound
<1>2. PICK failed \in SUBSET (Sending \ sent) : DriveInbound(ex, sent, failed)
  BY <1>1
<1>3. /\ Cardinality(ex \cap DOMAIN inbound_substreams) \in Nat
      /\ Cardinality(failed) \in Nat
  <2>1. IsFiniteSet(0..(inbound_id - 1))
    BY FS_Interval DEF InboundOK
  <2>2. /\ ex \cap DOMAIN inbound_substreams \in SUBSET (0..(inbound_id - 1))
        /\ failed \in SUBSET (0..(inbound_id - 1))
    BY DEF InboundOK, Sending
  <2>. QED BY <2>1, <2>2, FS_Subset, FS_CardinalityType
<1>4. Incomings(events_out') = {} /\ DistinctIds(events_out')
  BY <1>2, <1>3, ErrsIncomings DEF DriveInbound
<1>5. failed \in SUBSET Sending
  OBVIOUS
<1>6. Driven
  BY <1>2, <1>5, DriveInboundDrives DEF AnswersInv
<1>. QED BY <1>4, <1>6, DrivenStep

-----------------------------------------------------------------------------
(***************************************************************************)
(* The steps.                                                              *)
(***************************************************************************)

\* Requests under way have ids and kinds.
LEMMA UnansweredType ==
    ASSUME HandlerInv
    PROVE  Unanswered \subseteq Incoming
<1>1. events_out \in Seq(Events) /\ owed \subseteq Incoming
  BY DEF HandlerInv, AppOK
<1>2. ASSUME NEW m \in Incomings(events_out) PROVE m \in Incoming
  <2>1. PICK k \in DOMAIN events_out :
           /\ IsRequest(events_out[k])
           /\ m = [id |-> events_out[k].id, req |-> events_out[k].req]
    BY <1>2, IncomingsMember
  <2>2. events_out[k] \in Events
    BY <1>1, ElementOfSeq, LenProperties
  <2>. QED BY <2>1, <2>2 DEF Events, Err, IsRequest, Incoming
<1>. QED BY <1>1, <1>2, UnansweredParts

\* A step that leaves the substreams and the requests under way alone.
LEMMA NothingReceived ==
    ASSUME AnswersInv, UNCHANGED <<inbound_substreams, inbound_id, owed>>,
           Incomings(events_out') = Incomings(events_out), DistinctIds(events_out')
    PROVE  AnswersInv'
<1>1. Unanswered = owed \cup Incomings(events_out)
  BY UnansweredParts
<1>2. Unanswered' = owed' \cup Incomings(events_out')
  BY DEF Unanswered, Incomings
<1>3. Unanswered' = Unanswered /\ OpenRequests' = OpenRequests
  BY <1>1, <1>2 DEF OpenRequests, OpenIds
<1>4. AnswersHaveSubstreams' /\ OnlyAnswersAreSent'
  BY <1>3, AnswersParts, AnswersPartsNext DEF AnswersInv
<1>5. IdsOK'
  BY <1>3 DEF AnswersInv, IdsOK
<1>. QED BY <1>4, <1>5 DEF AnswersInv

\* An error that is queued is no request.
LEMMA ErrorQueued ==
    ASSUME HandlerInv, AnswersInv, events_out' = Append(events_out, Err)
    PROVE  Incomings(events_out') = Incomings(events_out) /\ DistinctIds(events_out')
<1>1. Err \in Events /\ ~IsRequest(Err) /\ events_out \in Seq(Events)
  BY DEF Err, Events, IsRequest, HandlerInv, AppOK
<1>2. DistinctIds(events_out)
  BY DEF AnswersInv, IdsOK
<1>. QED BY <1>1, <1>2, AppendIncomings

\* send_request queues nothing but an error for the behaviour.
LEMMA send_requestAnswers ==
    ASSUME HandlerInv, AnswersInv, NEW n, send_request(n)
    PROVE  Incomings(events_out') = Incomings(events_out) /\ DistinctIds(events_out')
<1>1. CASE events_out' = events_out
  BY <1>1 DEF AnswersInv, IdsOK
<1>2. CASE events_out' = Append(events_out, Err)
  BY <1>2, ErrorQueued
<1>. QED BY <1>1, <1>2 DEF send_request

\* shutdown queues errors around the request that began it.
LEMMA shutdownAnswers ==
    ASSUME HandlerInv, AnswersInv, NEW before \in Seq(Events), NEW after \in Seq(Events),
           shutdown(before, after), Incomings(before) = {}, DistinctIds(before),
           DistinctIds(after),
           \A m \in Incomings(events_out), n \in Incomings(after) : m.id # n.id
    PROVE  /\ Incomings(events_out') = Incomings(events_out) \cup Incomings(after)
           /\ DistinctIds(events_out')
<1>. DEFINE errs == Errs(Len(dial_queue))
            s == events_out \o before
            t == s \o errs
<1>1. Len(dial_queue) \in Nat
  BY LenProperties DEF HandlerInv, DialOK
<1>2. errs \in Seq(Events) /\ Incomings(errs) = {} /\ DistinctIds(errs)
  BY <1>1, ErrsType, ErrsIncomings
<1>3. events_out \in Seq(Events) /\ DistinctIds(events_out)
  BY DEF HandlerInv, AppOK, AnswersInv, IdsOK
<1>4. events_out' = t \o after
  BY DEF shutdown
<1>. HIDE DEF errs
<1>5. /\ s \in Seq(Events) /\ Incomings(s) = Incomings(events_out) /\ DistinctIds(s)
  <2>1. s \in Seq(Events)
    BY <1>3, ConcatProperties
  <2>2. Incomings(s) = Incomings(events_out) \cup Incomings(before)
    BY <1>3, ConcatIncomings
  <2>3. DistinctIds(s)
    BY <1>3, ConcatIncomings
  <2>. QED BY <2>1, <2>2, <2>3
<1>. HIDE DEF s
<1>6. /\ t \in Seq(Events) /\ Incomings(t) = Incomings(events_out) /\ DistinctIds(t)
  <2>1. t \in Seq(Events)
    BY <1>2, <1>5, ConcatProperties
  <2>2. Incomings(t) = Incomings(s) \cup Incomings(errs)
    BY <1>2, <1>5, ConcatIncomings
  <2>3. DistinctIds(t)
    BY <1>2, <1>5, ConcatIncomings
  <2>. QED BY <1>2, <1>5, <2>1, <2>2, <2>3
<1>. HIDE DEF t
<1>. QED BY <1>4, <1>6, ConcatIncomings

\* The event that tells the application of a request.
LEMMA RequestEvent ==
    ASSUME InboundOK, NEW req \in InboundKinds
    PROVE  LET e == Request(inbound_id, req)
           IN  /\ e \in Events /\ IsRequest(e)
               /\ e.id = inbound_id /\ e.req = req
               /\ DistinctIds(<<e>>)
               /\ Incomings(<<e>>) = {[id |-> inbound_id, req |-> req]}
<1>. DEFINE e == Request(inbound_id, req)
<1>1. e \in Events /\ IsRequest(e) /\ e.id = inbound_id /\ e.req = req
  BY DEF Request, Events, IsRequest, InboundOK
<1>. HIDE DEF e
<1>2. DOMAIN <<e>> = {1} /\ <<e>>[1] = e
  OBVIOUS
<1>3. DistinctIds(<<e>>)
  BY <1>2 DEF DistinctIds
<1>4. Incomings(<<e>>) = {[id |-> e.id, req |-> e.req]}
  BY <1>1, <1>2, IncomingsMember
<1>. QED BY <1>1, <1>3, <1>4 DEF e

\* A new substream waits for the answer to its request.
LEMMA AcceptAnswers ==
    ASSUME HandlerInv, AnswersInv, NEW req \in InboundKinds, AcceptRequest(req),
           owed' = owed
    PROVE  AnswersInv'
<1>. DEFINE e == Request(inbound_id, req)
            h == [id |-> inbound_id, req |-> req]
            info == IdleInfo(req)
<1>1. /\ expected_responses(req) > 0
      /\ inbound_substreams' = Insert(inbound_substreams, inbound_id, info)
      /\ events_out' = Append(events_out, e)
      /\ inbound_id' = inbound_id + 1
  BY DEF AcceptRequest
<1>2. /\ inbound_id \in Nat /\ inbound_id \notin DOMAIN inbound_substreams
      /\ InboundOK /\ events_out \in Seq(Events)
  BY DEF HandlerInv, InboundOK, AppOK
<1>3. /\ e \in Events /\ IsRequest(e) /\ e.id = inbound_id /\ e.req = req
  BY <1>2, RequestEvent
<1>4. \A m \in Unanswered : m.id \in Nat /\ m.id < inbound_id /\ m.id # inbound_id
  BY <1>2, UnansweredType DEF Incoming, AnswersInv, IdsOK
<1>5. /\ Incomings(events_out') = Incomings(events_out) \cup {h}
      /\ DistinctIds(events_out')
  <2>1. DistinctIds(events_out) /\ \A m \in Incomings(events_out) : m.id # e.id
    BY <1>3, <1>4, UnansweredParts DEF AnswersInv, IdsOK
  <2>. HIDE DEF e
  <2>. QED BY <1>1, <1>2, <1>3, <2>1, AppendIncomings
<1>6. Unanswered' = Unanswered \cup {h}
  <2>1. Unanswered' = owed' \cup Incomings(events_out')
    BY DEF Unanswered, Incomings
  <2>. QED BY <1>5, <2>1, UnansweredParts
<1>7. /\ DOMAIN inbound_substreams' = DOMAIN inbound_substreams \cup {inbound_id}
      /\ inbound_substreams'[inbound_id] = info
      /\ \A i \in DOMAIN inbound_substreams : inbound_substreams'[i] = inbound_substreams[i]
  BY <1>1, <1>2 DEF Insert
<1>8. Open(info) /\ info.protocol = req /\ GoodInfo(info)
  <2>1. info.state = "Idle" /\ info.pending = <<>> /\ info.protocol = req
    BY DEF IdleInfo
  <2>. HIDE DEF info
  <2>. QED BY <2>1 DEF Open, GoodInfo
<1>9. h.id = inbound_id /\ h.req = req
  OBVIOUS
<1>. HIDE DEF e, h, info
<1>10. OpenIds' = OpenIds \cup {inbound_id}
  BY <1>7, <1>8 DEF OpenIds
<1>11. OpenRequests' = OpenRequests \cup {h}
  <2>1. \A i \in OpenIds : inbound_substreams'[i].protocol = inbound_substreams[i].protocol
    BY <1>7 DEF OpenIds
  <2>2. h = [id |-> inbound_id, req |-> inbound_substreams'[inbound_id].protocol]
    BY <1>7, <1>8 DEF h
  <2>. QED BY <1>10, <2>1, <2>2 DEF OpenRequests
<1>12. AnswersHaveSubstreams'
  BY <1>1, <1>6, <1>9, <1>11, AnswersParts, AnswersPartsNext DEF AnswersInv
<1>13. OnlyAnswersAreSent'
  BY <1>7, <1>8, AnswersParts, AnswersPartsNext DEF AnswersInv
<1>14. IdsOK'
  <2>1. \A m \in owed', n \in Incomings(events_out') : m.id # n.id
    BY <1>4, <1>5, <1>9, UnansweredParts DEF AnswersInv, IdsOK
  <2>2. \A m \in Unanswered' : m.id < inbound_id'
    <3>1. h.id < inbound_id'
      BY <1>1, <1>2, <1>9
    <3>2. \A m \in Unanswered : m.id < inbound_id'
      BY <1>1, <1>2, <1>4
    <3>. QED BY <1>6, <3>1, <3>2
  <2>3. \A m \in Unanswered' :
           expected_responses(m.req) = 0 => m.id \notin DOMAIN inbound_substreams'
    <3>1. expected_responses(h.req) # 0
      BY <1>1, <1>9, ExpectedType
    <3>. QED BY <1>4, <1>6, <1>7, <3>1 DEF AnswersInv, IdsOK
  <2>. QED BY <1>5, <2>1, <2>2, <2>3 DEF IdsOK
<1>. QED BY <1>12, <1>13, <1>14 DEF AnswersInv

\* A Goodbye is passed on and needs no substream.
LEMMA GoodbyeAnswers ==
    ASSUME HandlerInv, AnswersInv, NEW req \in InboundKinds, ReceiveGoodbye(req),
           owed' = owed
    PROVE  AnswersInv'
<1>. DEFINE e == Request(inbound_id, req)
            h == [id |-> inbound_id, req |-> req]
<1>1. /\ expected_responses(req) = 0 /\ shutdown(<<>>, <<e>>)
      /\ inbound_id' = inbound_id + 1 /\ inbound_substreams' = inbound_substreams
  BY DEF ReceiveGoodbye
<1>2. /\ inbound_id \in Nat /\ inbound_id \notin DOMAIN inbound_substreams /\ InboundOK
  BY DEF HandlerInv, InboundOK
<1>3. e \in Events /\ DistinctIds(<<e>>) /\ Incomings(<<e>>) = {h}
  BY <1>2, RequestEvent
<1>4. \A m \in Unanswered : m.id \in Nat /\ m.id < inbound_id /\ m.id # inbound_id
  BY <1>2, UnansweredType DEF Incoming, AnswersInv, IdsOK
<1>5. h.id = inbound_id /\ h.req = req
  OBVIOUS
<1>. HIDE DEF e, h
<1>6. /\ Incomings(events_out') = Incomings(events_out) \cup {h}
      /\ DistinctIds(events_out')
  <2>1. <<>> \in Seq(Events) /\ Incomings(<<>>) = {} /\ DistinctIds(<<>>)
    BY IncomingsMember DEF DistinctIds
  <2>2. <<e>> \in Seq(Events)
    BY <1>3
  <2>3. \A m \in Incomings(events_out), n \in Incomings(<<e>>) : m.id # n.id
    BY <1>3, <1>4, <1>5, UnansweredParts
  <2>. QED BY <1>1, <1>3, <2>1, <2>2, <2>3, shutdownAnswers
<1>7. Unanswered' = Unanswered \cup {h}
  <2>1. Unanswered' = owed' \cup Incomings(events_out')
    BY DEF Unanswered, Incomings
  <2>. QED BY <1>6, <2>1, UnansweredParts
<1>8. OpenRequests' = OpenRequests
  BY <1>1 DEF OpenRequests, OpenIds
<1>9. AnswersHaveSubstreams' /\ OnlyAnswersAreSent'
  BY <1>1, <1>5, <1>7, <1>8, AnswersParts, AnswersPartsNext DEF AnswersInv
<1>10. IdsOK'
  <2>1. \A m \in owed', n \in Incomings(events_out') : m.id # n.id
    BY <1>4, <1>5, <1>6, UnansweredParts DEF AnswersInv, IdsOK
  <2>2. \A m \in Unanswered' : m.id < inbound_id'
    <3>1. h.id < inbound_id'
      BY <1>1, <1>2, <1>5
    <3>2. \A m \in Unanswered : m.id < inbound_id'
      BY <1>1, <1>2, <1>4
    <3>. QED BY <1>7, <3>1, <3>2
  <2>3. \A m \in Unanswered' :
           expected_responses(m.req) = 0 => m.id \notin DOMAIN inbound_substreams'
    BY <1>1, <1>2, <1>5, <1>7 DEF AnswersInv, IdsOK
  <2>. QED BY <1>6, <2>1, <2>2, <2>3 DEF IdsOK
<1>. QED BY <1>9, <1>10 DEF AnswersInv

\* The answer to a request finds the substream of that request, still without
\* an answer; the answer to a Goodbye finds none.
LEMMA FindsSubstream ==
    ASSUME HandlerInv, AnswersInv, NEW m \in owed
    PROVE  \/ /\ expected_responses(m.req) > 0
              /\ m.id \in OpenIds /\ inbound_substreams[m.id].protocol = m.req
              /\ m = [id |-> m.id, req |-> inbound_substreams[m.id].protocol]
           \/ expected_responses(m.req) = 0 /\ m.id \notin DOMAIN inbound_substreams
<1>1. m \in Unanswered
  BY UnansweredParts
<1>2. CASE expected_responses(m.req) = 0
  BY <1>1, <1>2 DEF AnswersInv, IdsOK
<1>3. CASE expected_responses(m.req) # 0
  <2>1. expected_responses(m.req) > 0
    BY <1>3, ExpectedType
  <2>2. m \in OpenRequests
    BY <1>1, <2>1, AnswersParts DEF AnswersInv
  <2>3. PICK i \in OpenIds : m = [id |-> i, req |-> inbound_substreams[i].protocol]
    BY <2>2 DEF OpenRequests
  <2>. QED BY <2>1, <2>3
<1>. QED BY <1>2, <1>3

\* The application answers a request.
LEMMA SendResponseAnswers ==
    ASSUME HandlerInv, AnswersInv, NEW m \in owed, SendResponse(m)
    PROVE  AnswersInv'
<1>. DEFINE a == AppResponse(m.req)
<1>1. owed' = owed \ {m} /\ inbound_id' = inbound_id
  BY DEF SendResponse
<1>2. m \notin Incomings(events_out)
  BY DEF AnswersInv, IdsOK
<1>3. /\ Incomings(events_out') = Incomings(events_out) /\ DistinctIds(events_out')
  <2>1. events_out' = events_out \/ events_out' = Append(events_out, Err)
    BY DEF SendResponse
  <2>. QED BY <2>1, ErrorQueued DEF AnswersInv, IdsOK
<1>4. Unanswered' = Unanswered \ {m}
  <2>1. Unanswered' = owed' \cup Incomings(events_out')
    BY DEF Unanswered, Incomings
  <2>. QED BY <1>1, <1>2, <1>3, <2>1, UnansweredParts
<1>5. CASE expected_responses(m.req) = 0 /\ m.id \notin DOMAIN inbound_substreams
  <2>1. inbound_substreams' = inbound_substreams
    BY <1>5 DEF SendResponse
  <2>2. OpenRequests' = OpenRequests
    BY <2>1 DEF OpenRequests, OpenIds
  <2>3. AnswersHaveSubstreams' /\ OnlyAnswersAreSent'
    BY <1>4, <1>5, <2>1, <2>2, AnswersParts, AnswersPartsNext DEF AnswersInv
  <2>4. IdsOK'
    BY <1>1, <1>3, <1>4, <2>1 DEF AnswersInv, IdsOK
  <2>. QED BY <2>3, <2>4 DEF AnswersInv
<1>6. CASE /\ expected_responses(m.req) > 0
           /\ m.id \in OpenIds /\ inbound_substreams[m.id].protocol = m.req
           /\ m = [id |-> m.id, req |-> inbound_substreams[m.id].protocol]
  <2>. DEFINE info == inbound_substreams[m.id]
              q == Append(info.pending, a)
              e == [info EXCEPT !.pending = q]
  <2>1. m.id \in DOMAIN inbound_substreams /\ info.state = "Idle" /\ info.pending = <<>>
    BY <1>6 DEF OpenIds, Open
  <2>2. info \in InboundInfo
    BY <2>1 DEF HandlerInv, InboundOK
  <2>3. inbound_substreams' = [inbound_substreams EXCEPT ![m.id] = e]
    BY <2>1 DEF SendResponse
  <2>4. a \in Responses
    BY AppResponseType
  <2>. HIDE DEF a
  <2>5. q = <<a>> /\ q \in Seq(Responses)
    BY <2>1, <2>4
  <2>. HIDE DEF q
  <2>6. e.state = "Idle" /\ e.pending = q /\ e.protocol = m.req
    BY <1>6, <2>1, <2>2, <2>5 DEF InboundInfo
  <2>7. /\ DOMAIN inbound_substreams' = DOMAIN inbound_substreams
        /\ inbound_substreams'[m.id] = e
        /\ \A i \in DOMAIN inbound_substreams :
              i # m.id => inbound_substreams'[i] = inbound_substreams[i]
    BY <2>1, <2>3
  <2>. HIDE DEF e
  <2>8. GoodInfo(e) /\ ~Open(e)
    <3>1. q # <<>>
      BY <2>5
    <3>. QED BY <2>5, <2>6, <3>1 DEF GoodInfo, Open, a
  <2>9. OpenIds' = OpenIds \ {m.id}
    BY <2>7, <2>8 DEF OpenIds
  <2>10. OpenRequests' = OpenRequests \ {m}
    <3>1. \A i \in OpenIds' :
             /\ inbound_substreams'[i].protocol = inbound_substreams[i].protocol
             /\ i # m.id /\ i \in OpenIds
      BY <2>7, <2>9 DEF OpenIds
    <3>2. ASSUME NEW n \in OpenRequests' PROVE n \in OpenRequests \ {m}
      <4>1. PICK i \in OpenIds' : n = [id |-> i, req |-> inbound_substreams'[i].protocol]
        BY <3>2 DEF OpenRequests
      <4>2. n = [id |-> i, req |-> inbound_substreams[i].protocol] /\ n.id = i
        BY <3>1, <4>1
      <4>. QED BY <3>1, <4>2 DEF OpenRequests
    <3>3. ASSUME NEW n \in OpenRequests, n # m PROVE n \in OpenRequests'
      <4>1. PICK i \in OpenIds : n = [id |-> i, req |-> inbound_substreams[i].protocol]
        BY <3>3 DEF OpenRequests
      <4>2. i # m.id
        BY <1>6, <3>3, <4>1
      <4>3. i \in OpenIds' /\ n = [id |-> i, req |-> inbound_substreams'[i].protocol]
        BY <2>9, <3>1, <4>1, <4>2
      <4>. QED BY <4>3 DEF OpenRequests
    <3>. QED BY <3>2, <3>3
  <2>11. AnswersHaveSubstreams'
    BY <1>4, <2>10, AnswersParts, AnswersPartsNext DEF AnswersInv
  <2>12. OnlyAnswersAreSent'
    BY <2>7, <2>8, AnswersParts, AnswersPartsNext DEF AnswersInv
  <2>13. IdsOK'
    BY <1>1, <1>3, <1>4, <2>7 DEF AnswersInv, IdsOK
  <2>. QED BY <2>11, <2>12, <2>13 DEF AnswersInv
<1>. QED BY <1>5, <1>6, FindsSubstream

\* poll hands the oldest event to the behaviour.
LEMMA PollEventAnswers ==
    ASSUME HandlerInv, AnswersInv, PollEvent
    PROVE  AnswersInv'
<1>. DEFINE h == [id |-> Head(events_out).id, req |-> Head(events_out).req]
            t == Tail(events_out)
<1>1. /\ events_out \in Seq(Events) /\ events_out # <<>> /\ events_out' = t
      /\ UNCHANGED <<inbound_substreams, inbound_id>>
      /\ owed' = IF IsRequest(Head(events_out)) THEN owed \cup {h} ELSE owed
      /\ DistinctIds(events_out)
  BY DEF HandlerInv, AppOK, PollEvent, AnswersInv, IdsOK, IsRequest
<1>2. CASE ~IsRequest(Head(events_out))
  <2>1. Incomings(events_out) = Incomings(t) /\ DistinctIds(t) /\ owed' = owed
    BY <1>1, <1>2, TailIncomings
  <2>. QED BY <1>1, <2>1, NothingReceived
<1>3. CASE IsRequest(Head(events_out))
  <2>1. /\ Incomings(events_out) = Incomings(t) \cup {h} /\ DistinctIds(t)
        /\ \A n \in Incomings(t) : n.id # h.id
        /\ owed' = owed \cup {h}
    BY <1>1, <1>3, TailIncomings
  <2>. HIDE DEF h, t
  <2>2. Unanswered' = owed' \cup Incomings(events_out')
    BY DEF Unanswered, Incomings
  <2>3. Unanswered' = Unanswered
    BY <1>1, <2>1, <2>2, UnansweredParts
  <2>4. OpenRequests' = OpenRequests
    BY <1>1 DEF OpenRequests, OpenIds
  <2>5. AnswersHaveSubstreams' /\ OnlyAnswersAreSent'
    BY <1>1, <2>3, <2>4, AnswersParts, AnswersPartsNext DEF AnswersInv
  <2>6. \A m \in owed', n \in Incomings(events_out') : m.id # n.id
    BY <1>1, <2>1 DEF AnswersInv, IdsOK
  <2>7. IdsOK'
    BY <1>1, <2>1, <2>3, <2>6 DEF AnswersInv, IdsOK
  <2>. QED BY <2>5, <2>7 DEF AnswersInv
<1>. QED BY <1>2, <1>3

\* A request that is turned away leaves nothing behind.
LEMMA RejectAnswers ==
    ASSUME HandlerInv, AnswersInv, NEW req, RejectRequest(req), owed' = owed
    PROVE  AnswersInv'
<1>1. shutdown(<<Err>>, <<>>) /\ UNCHANGED <<inbound_substreams, inbound_id>>
  BY DEF RejectRequest
<1>2. <<>> \in Seq(Events) /\ Incomings(<<>>) = {} /\ DistinctIds(<<>>)
  BY IncomingsMember DEF DistinctIds
<1>3. <<Err>> \in Seq(Events) /\ Incomings(<<Err>>) = {} /\ DistinctIds(<<Err>>)
  <2>1. Err \in Events /\ ~IsRequest(Err)
    BY DEF Err, Events, IsRequest
  <2>2. DOMAIN <<Err>> = {1} /\ <<Err>>[1] = Err
    OBVIOUS
  <2>. QED BY <2>1, <2>2, IncomingsMember DEF DistinctIds
<1>4. Incomings(events_out') = Incomings(events_out) \cup {} /\ DistinctIds(events_out')
  BY <1>1, <1>2, <1>3, shutdownAnswers
<1>. QED BY <1>1, <1>4, NothingReceived

\* The invariant holds initially.
LEMMA AnswersInit == Init => AnswersInv
<1>. SUFFICES ASSUME Init PROVE AnswersInv
  OBVIOUS
<1>1. events_out = <<>> /\ owed = {} /\ inbound_substreams = <<>>
  BY DEF Init
<1>2. DOMAIN inbound_substreams = {} /\ DOMAIN events_out = {}
  BY <1>1
<1>3. Incomings(events_out) = {} /\ DistinctIds(events_out)
  BY <1>2, IncomingsMember DEF DistinctIds
<1>4. Unanswered = {} /\ OpenRequests = {}
  BY <1>1, <1>2, <1>3, UnansweredParts DEF OpenRequests, OpenIds
<1>5. AnswersHaveSubstreams /\ OnlyAnswersAreSent
  BY <1>2, <1>4, AnswersParts
<1>6. IdsOK
  BY <1>1, <1>3, <1>4 DEF IdsOK
<1>. QED BY <1>5, <1>6 DEF AnswersInv

\* Every step keeps it.
LEMMA AnswersStep == HandlerInv /\ AnswersInv /\ [Next]_vars => AnswersInv'
<1>. SUFFICES ASSUME HandlerInv, AnswersInv, [Next]_vars PROVE AnswersInv'
  OBVIOUS
<1>0. InboundOK /\ DistinctIds(events_out)
  BY DEF HandlerInv, AnswersInv, IdsOK
<1>1. ASSUME NEW r \in ReqIds, NEW req \in OutboundKinds, SendRequest(r, req)
      PROVE  AnswersInv'
  <2>1. UNCHANGED <<inbound_substreams, inbound_id, owed>>
        /\ send_request([id |-> r, req |-> req])
    BY <1>1 DEF SendRequest, inboundVars
  <2>. QED BY <2>1, send_requestAnswers, NothingReceived
<1>2. ASSUME NEW m \in owed, SendResponse(m)
      PROVE  AnswersInv'
  BY <1>2, SendResponseAnswers
<1>3. ASSUME NEW req \in InboundKinds, NegotiatedInbound(req)
      PROVE  AnswersInv'
  BY <1>3, AcceptAnswers, RejectAnswers, GoodbyeAnswers DEF NegotiatedInbound
<1>4. ASSUME NEW n \in negotiating, NegotiatedOutbound(n)
      PROVE  AnswersInv'
  BY <1>0, <1>4, NothingReceived DEF NegotiatedOutbound, inboundVars
<1>5. ASSUME NEW n \in negotiating, RetryDial(n)
      PROVE  AnswersInv'
  BY <1>5, send_requestAnswers, NothingReceived DEF RetryDial, inboundVars
<1>6. ASSUME NEW n \in negotiating, FailDial(n)
      PROVE  AnswersInv'
  BY <1>6, ErrorQueued, NothingReceived DEF FailDial, inboundVars
<1>7. CASE PollEvent
  BY <1>7, PollEventAnswers
<1>8. CASE PollShutdownElapsed
  BY <1>0, <1>8, NothingReceived DEF PollShutdownElapsed, inboundVars
<1>9. CASE PollTimerError
  BY <1>0, <1>9, PollInboundTimersAnswers DEF PollTimerError, Quiet
<1>10. ASSUME NEW o \in DOMAIN outbound_substreams, PollOutboundTimeout(o)
       PROVE  AnswersInv'
  BY <1>0, <1>10, PollInboundTimersAnswers DEF PollOutboundTimeout, Quiet
<1>11. ASSUME NEW o \in DOMAIN outbound_substreams, PollResponse(o)
       PROVE  AnswersInv'
  BY <1>0, <1>11, PollInboundAnswers DEF PollResponse, Quiet
<1>12. ASSUME NEW o \in DOMAIN outbound_substreams, PollStreamEnd(o)
       PROVE  AnswersInv'
  BY <1>0, <1>12, PollInboundAnswers DEF PollStreamEnd, Quiet
<1>13. CASE PollDial
  BY <1>0, <1>13, PollInboundAnswers DEF PollDial, Quiet
<1>14. CASE PollTail
  BY <1>0, <1>14, PollInboundAnswers DEF PollTail, Quiet
<1>15. CASE UNCHANGED vars
  BY <1>0, <1>15, NothingReceived DEF vars, inboundVars
<1>. QED
  BY <1>1, <1>2, <1>3, <1>4, <1>5, <1>6, <1>7, <1>8, <1>9, <1>10, <1>11, <1>12,
     <1>13, <1>14, <1>15 DEF Next

\* All invariants of the handler together.
LEMMA AnswersInvariance == Spec => [](HandlerInv /\ RequestsConserved /\ AnswersInv)
<1>1. Init => AnswersInv
  BY AnswersInit
<1>2. (HandlerInv /\ RequestsConserved) /\ AnswersInv /\ [Next]_vars => AnswersInv'
  BY AnswersStep
<1>. QED BY <1>1, <1>2, Invariance, PTL DEF Spec

-----------------------------------------------------------------------------
(***************************************************************************)
(* Theorems.                                                               *)
(***************************************************************************)

\* No accepted request is forgotten, and every answer finds the substream of
\* its own request.
THEOREM AnswersFindSubstreams == Spec => []AnswersHaveSubstreams
<1>1. AnswersInv => AnswersHaveSubstreams
  BY DEF AnswersInv
<1>. QED BY <1>1, AnswersInvariance, PTL

\* The remote peer is sent the application's answer to its own request and
\* nothing else.
THEOREM AnswersAreOwn == Spec => []OnlyAnswersAreSent
<1>1. AnswersInv => OnlyAnswersAreSent
  BY DEF AnswersInv
<1>. QED BY <1>1, AnswersInvariance, PTL

=============================================================================
