-------------------------- MODULE RPCHandlerProofs --------------------------
(***************************************************************************)
(* Proofs about RPCHandler for every number of requests and substreams and *)
(* every value of the limits.                                              *)
(***************************************************************************)
EXTENDS RPCHandler, FiniteSetTheorems, SequenceTheorems, TLAPS

\* The part of the state that the inbound half of poll touches.
InboundOK ==
    /\ inbound_substreams \in [DOMAIN inbound_substreams -> InboundInfo]
    /\ inbound_id \in Nat
    /\ DOMAIN inbound_substreams \cup inbound_delay \subseteq 0..(inbound_id - 1)
    /\ inbound_delay = {i \in DOMAIN inbound_substreams :
                           inbound_substreams[i].delay_key}

OutboundOK ==
    /\ outbound_substreams \in [DOMAIN outbound_substreams -> OutboundInfo]
    /\ outbound_id \in Nat
    /\ DOMAIN outbound_substreams \cup outbound_delay \subseteq 0..(outbound_id - 1)
    /\ outbound_delay = DOMAIN outbound_substreams

DialOK ==
    /\ dial_queue \in Seq(Outgoing)
    /\ dial_negotiated \in 0..max_dial_negotiated
    /\ io_retries \in 0..(IO_ERROR_RETRIES - 1)
    /\ negotiating \subseteq Outgoing /\ IsFiniteSet(negotiating)
    /\ leaked \in Nat
    /\ dial_negotiated = Cardinality(negotiating) + leaked

AppOK ==
    /\ state \in {"Active", "ShuttingDown", "Deactivated"}
    /\ events_out \in Seq(Events)
    /\ owed \subseteq Incoming
    /\ closed \in BOOLEAN
    /\ issued \subseteq ReqIds /\ outcomes \in [ReqIds -> Nat]
    /\ state # "Active" => dial_queue = <<>>

\* The inductive invariant.  The bounds of dial_negotiated need its exact
\* value, and the timers need the types of the maps.
HandlerInv == InboundOK /\ OutboundOK /\ DialOK /\ AppOK

\* HandlerInv regroups the invariants that TLC checks.
LEMMA HandlerInvEquiv ==
    HandlerInv <=> /\ TypeOK
                   /\ TimersMatchSubstreams
                   /\ NegotiationsAccounted
                   /\ NoDialAfterShutdown
<1>1. HandlerInv => /\ TypeOK
                    /\ TimersMatchSubstreams
                    /\ NegotiationsAccounted
                    /\ NoDialAfterShutdown
  BY LimitsAssumption
  DEF HandlerInv, InboundOK, OutboundOK, DialOK, AppOK, TypeOK,
      TimersMatchSubstreams, NegotiationsAccounted, NoDialAfterShutdown
<1>2. TypeOK /\ TimersMatchSubstreams /\ NegotiationsAccounted /\ NoDialAfterShutdown
        => HandlerInv
  BY DEF HandlerInv, InboundOK, OutboundOK, DialOK, AppOK, TypeOK,
         TimersMatchSubstreams, NegotiationsAccounted, NoDialAfterShutdown
<1>. QED BY <1>1, <1>2

-----------------------------------------------------------------------------
(***************************************************************************)
(* The operators the actions are built from.                               *)
(***************************************************************************)

\* A run of error events is a sequence of events.
LEMMA ErrsType == ASSUME NEW n \in Nat PROVE Errs(n) \in Seq(Events)
<1>1. Errs(n) \in [1..n -> Events]
  BY DEF Errs, Events
<1>. QED BY <1>1, SeqDef

\* Reporting an outcome for the requests in S adds one to their count.
LEMMA Reported ==
    ASSUME outcomes \in [ReqIds -> Nat], NEW S \in SUBSET ReqIds, Report(S)
    PROVE  /\ outcomes' \in [ReqIds -> Nat]
           /\ settled' = settled \cup S
           /\ \A r \in S : outcomes'[r] = outcomes[r] + 1
           /\ \A r \in ReqIds \ S : outcomes'[r] = outcomes[r]
<1>1. /\ outcomes' \in [ReqIds -> Nat]
      /\ \A r \in S : outcomes'[r] = outcomes[r] + 1
      /\ \A r \in ReqIds \ S : outcomes'[r] = outcomes[r]
  BY DEF Report
<1>2. \A r \in ReqIds : outcomes'[r] > 0 <=> outcomes[r] > 0 \/ r \in S
  BY <1>1
<1>3. settled' = settled \cup S
  BY <1>2 DEF settled
<1>. QED BY <1>1, <1>3

LEMMA NothingReported ==
    ASSUME outcomes' = outcomes PROVE settled' = settled
  BY DEF settled

\* The response the application gives is a response.
LEMMA AppResponseType == ASSUME NEW req PROVE AppResponse(req) \in Responses
  BY DEF AppResponse, Responses

\* Only a Goodbye expects no response; the others expect one.
LEMMA ExpectedType == ASSUME NEW req PROVE expected_responses(req) \in {0, 1}
  BY DEF expected_responses

\* Removing keys from a map keeps the others as they were.
LEMMA WithoutType ==
    ASSUME NEW S, NEW f, f \in [DOMAIN f -> S], NEW K
    PROVE  /\ DOMAIN Without(f, K) = DOMAIN f \ K
           /\ Without(f, K) \in [DOMAIN Without(f, K) -> S]
           /\ \A x \in DOMAIN f \ K : Without(f, K)[x] = f[x]
  BY DEF Without, Restrict

\* An expired substream has lost its timer key and is otherwise well formed.
LEMMA ExpireType ==
    ASSUME NEW info \in InboundInfo
    PROVE  Expire(info) \in InboundInfo /\ Expire(info).delay_key = FALSE
<1>. DEFINE items == IF info.pending # <<>> /\ ~close_after(info.pending[Len(info.pending)])
                     THEN Append(info.pending, "Error")
                     ELSE info.pending
<1>1. items \in Seq(Responses)
  BY DEF InboundInfo, Responses
<1>2. Expire(info) = [info EXCEPT !.delay_key = FALSE, !.pending = items]
  BY DEF Expire
<1>3. ASSUME NEW q \in Seq(Responses)
      PROVE  LET e == [info EXCEPT !.delay_key = FALSE, !.pending = q]
             IN  e \in InboundInfo /\ e.delay_key = FALSE
  BY DEF InboundInfo
<1>. HIDE DEF items
<1>. QED BY <1>1, <1>2, <1>3

\* Starting to send leaves the timer key alone.
LEMMA StartSendingType ==
    ASSUME NEW info \in InboundInfo
    PROVE  /\ StartSending(info) \in InboundInfo
           /\ StartSending(info).delay_key = info.delay_key
<1>1. CASE info.state = "Idle" /\ info.pending # <<>>
  <2>. DEFINE first == Head(info.pending)
              rest  == Tail(info.pending)
  <2>1. info.pending \in Seq(Responses) /\ info.pending # <<>>
    BY <1>1 DEF InboundInfo
  <2>2. first \in Responses /\ rest \in Seq(Responses)
    BY <2>1, HeadTailProperties
  <2>3. ASSUME NEW f \in Responses, NEW q \in Seq(Responses), NEW b,
               b = [info EXCEPT !.state = "Busy", !.sending = f, !.pending = q]
        PROVE  b \in InboundInfo /\ b.delay_key = info.delay_key
    BY <2>3 DEF InboundInfo
  <2>4. StartSending(info) =
            [info EXCEPT !.state = "Busy", !.sending = first, !.pending = rest]
    BY <1>1 DEF StartSending
  <2>. HIDE DEF first, rest
  <2>. QED BY <2>2, <2>3, <2>4
<1>2. CASE ~(info.state = "Idle" /\ info.pending # <<>>)
  BY <1>2 DEF StartSending
<1>. QED BY <1>1, <1>2

\* The inbound half of poll up to its timers, as PollTimerError and
\* PollOutboundTimeout run it.
LEMMA PollInboundTimersOK ==
    ASSUME InboundOK, NEW ex \in SUBSET inbound_delay, PollInboundTimers(ex),
           inbound_id' = inbound_id
    PROVE  InboundOK' /\ events_out' \in Seq(Events)
<1>1. /\ IsFiniteSet(0..(inbound_id - 1))
      /\ ex \cap DOMAIN inbound_substreams \in SUBSET (0..(inbound_id - 1))
  BY FS_Interval DEF InboundOK
<1>2. Cardinality(ex \cap DOMAIN inbound_substreams) \in Nat
  BY <1>1, FS_Subset, FS_CardinalityType
<1>3. events_out' \in Seq(Events)
  BY <1>2, ErrsType DEF PollInboundTimers
<1>4. /\ DOMAIN ExpireAll(ex) = DOMAIN inbound_substreams
      /\ \A i \in DOMAIN inbound_substreams :
            /\ ExpireAll(ex)[i] \in InboundInfo
            /\ i \in ex => ExpireAll(ex)[i].delay_key = FALSE
            /\ i \notin ex => ExpireAll(ex)[i].delay_key = inbound_substreams[i].delay_key
  BY ExpireType DEF ExpireAll, InboundOK
<1>5. ExpireAll(ex) \in [DOMAIN inbound_substreams -> InboundInfo]
  BY <1>4 DEF ExpireAll
<1>6. inbound_delay' = {i \in DOMAIN inbound_substreams' :
                           inbound_substreams'[i].delay_key}
  BY <1>4 DEF PollInboundTimers, InboundOK
<1>. QED BY <1>3, <1>4, <1>5, <1>6 DEF PollInboundTimers, InboundOK

\* The whole inbound half of poll.
LEMMA PollInboundOK ==
    ASSUME InboundOK, PollInbound, inbound_id' = inbound_id
    PROVE  InboundOK' /\ events_out' \in Seq(Events)
<1>1. PICK ex \in SUBSET inbound_delay, sent \in SUBSET Sending :
         \E failed \in SUBSET (Sending \ sent) : DriveInbound(ex, sent, failed)
  BY DEF PollInbound
<1>2. PICK failed \in SUBSET (Sending \ sent) : DriveInbound(ex, sent, failed)
  BY <1>1
<1>. DEFINE ended == sent \cup failed
            left  == DOMAIN inbound_substreams \ ended
<1>3. /\ inbound_substreams' = [i \in left |-> StartSending(ExpireAll(ex)[i])]
      /\ inbound_delay' = (inbound_delay \ ex) \ {i \in ended : ExpireAll(ex)[i].delay_key}
      /\ events_out' = Errs(Cardinality(ex \cap DOMAIN inbound_substreams)
                            + Cardinality(failed))
  BY <1>2 DEF DriveInbound
<1>4. /\ ex \cap DOMAIN inbound_substreams \in SUBSET (0..(inbound_id - 1))
      /\ failed \in SUBSET (0..(inbound_id - 1))
      /\ ended \subseteq DOMAIN inbound_substreams
  BY DEF InboundOK, Sending
<1>5. /\ Cardinality(ex \cap DOMAIN inbound_substreams) \in Nat
      /\ Cardinality(failed) \in Nat
  <2>1. IsFiniteSet(0..(inbound_id - 1))
    BY FS_Interval DEF InboundOK
  <2>. QED BY <1>4, <2>1, FS_Subset, FS_CardinalityType
<1>6. events_out' \in Seq(Events)
  BY <1>3, <1>5, ErrsType
<1>7. \A i \in DOMAIN inbound_substreams :
            /\ ExpireAll(ex)[i] \in InboundInfo
            /\ i \in ex => ExpireAll(ex)[i].delay_key = FALSE
            /\ i \notin ex => ExpireAll(ex)[i].delay_key = inbound_substreams[i].delay_key
  BY ExpireType DEF ExpireAll, InboundOK
<1>8. \A i \in left :
            /\ StartSending(ExpireAll(ex)[i]) \in InboundInfo
            /\ StartSending(ExpireAll(ex)[i]).delay_key = ExpireAll(ex)[i].delay_key
  BY <1>7, StartSendingType
<1>9. /\ inbound_substreams' \in [left -> InboundInfo]
      /\ DOMAIN inbound_substreams' = left
      /\ \A i \in left : inbound_substreams'[i].delay_key = ExpireAll(ex)[i].delay_key
  BY <1>3, <1>8
<1>10. inbound_delay' = {i \in left : inbound_substreams'[i].delay_key}
  BY <1>3, <1>4, <1>7, <1>9 DEF InboundOK
<1>. QED BY <1>6, <1>9, <1>10 DEF InboundOK

\* The outbound half of poll removes substreams together with their timers.
LEMMA RemoveClosedOK ==
    ASSUME OutboundOK, NEW C, RemoveClosed(C), outbound_id' = outbound_id
    PROVE  OutboundOK'
<1>1. /\ DOMAIN outbound_substreams' = DOMAIN outbound_substreams \ C
      /\ outbound_substreams' \in [DOMAIN outbound_substreams' -> OutboundInfo]
  BY WithoutType DEF RemoveClosed, OutboundOK
<1>. QED BY <1>1 DEF RemoveClosed, OutboundOK

\* Taking a request out of negotiation lowers the count of negotiations.
LEMMA LeaveNegotiation ==
    ASSUME DialOK, NEW n \in negotiating, negotiating' = negotiating \ {n}
    PROVE  /\ negotiating' \subseteq Outgoing /\ IsFiniteSet(negotiating')
           /\ Cardinality(negotiating') = Cardinality(negotiating) - 1
           /\ Cardinality(negotiating') \in Nat
           /\ dial_negotiated - 1 \in 0..max_dial_negotiated
           /\ dial_negotiated - 1 = Cardinality(negotiating') + leaked
<1>1. /\ IsFiniteSet(negotiating \ {n})
      /\ Cardinality(negotiating \ {n}) = Cardinality(negotiating) - 1
  BY FS_RemoveElement DEF DialOK
<1>2. Cardinality(negotiating \ {n}) \in Nat /\ Cardinality(negotiating) \in Nat
  BY <1>1, FS_CardinalityType DEF DialOK
<1>. QED BY <1>1, <1>2, LimitsAssumption DEF DialOK

-----------------------------------------------------------------------------
(***************************************************************************)
(* Where the ids of the outstanding requests are.                          *)
(***************************************************************************)
QueueDistinct ==
    \A j, k \in DOMAIN dial_queue : dial_queue[j].id = dial_queue[k].id => j = k
NegotiatingDistinct == \A m, n \in negotiating : m.id = n.id => m = n
SubstreamsDistinct ==
    \A o, p \in DOMAIN outbound_substreams :
        outbound_substreams[o].req_id = outbound_substreams[p].req_id => o = p
ClosingOnce == \A o \in Closing : outcomes[outbound_substreams[o].req_id] = 1

\* A step reports nothing for the closing substreams outside K.
QuietOutside(K) ==
    \A o \in Closing \ K :
        outcomes'[outbound_substreams[o].req_id] = outcomes[outbound_substreams[o].req_id]

\* Outstanding requests are in exactly one of the three places.
Partition ==
    /\ settled \subseteq issued
    /\ issued \ settled = QueuedIds \cup NegotiatingIds \cup WaitingIds
    /\ QueuedIds \cap NegotiatingIds = {}
    /\ (QueuedIds \cup NegotiatingIds) \cap WaitingIds = {}

\* RequestsConserved in the parts that the steps below treat separately.
LEMMA ConservedParts ==
    RequestsConserved <=> /\ Partition
                          /\ QueueDistinct
                          /\ NegotiatingDistinct
                          /\ SubstreamsDistinct
                          /\ ClosingOnce
  BY DEF RequestsConserved, Partition, QueueDistinct, NegotiatingDistinct,
         SubstreamsDistinct, ClosingOnce

\* The same in the next state.
LEMMA ConservedPartsNext ==
    (Partition /\ QueueDistinct /\ NegotiatingDistinct /\ SubstreamsDistinct
        /\ ClosingOnce)' => RequestsConserved'
  BY DEF RequestsConserved, Partition, QueueDistinct, NegotiatingDistinct,
         SubstreamsDistinct, ClosingOnce

\* The head of the queue is one of the queued requests.
LEMMA QueueHead ==
    ASSUME dial_queue \in Seq(Outgoing), dial_queue # <<>>
    PROVE  Head(dial_queue).id \in QueuedIds
<1>1. 1 \in DOMAIN dial_queue /\ Head(dial_queue) = dial_queue[1]
  BY HeadTailProperties, EmptySeq, LenProperties
<1>. QED BY <1>1 DEF QueuedIds

\* Appending a request adds its id.
LEMMA QueueAppend ==
    ASSUME dial_queue \in Seq(Outgoing), NEW n \in Outgoing,
           dial_queue' = Append(dial_queue, n)
    PROVE  /\ QueuedIds' = QueuedIds \cup {n.id}
           /\ QueueDistinct /\ n.id \notin QueuedIds => QueueDistinct'
<1>. DEFINE L == Len(dial_queue)
<1>1. /\ L \in Nat
      /\ DOMAIN dial_queue = 1..L
      /\ DOMAIN dial_queue' = 1..(L + 1)
      /\ dial_queue'[L + 1] = n
      /\ \A k \in 1..L : dial_queue'[k] = dial_queue[k]
  BY AppendProperties, LenProperties
<1>. HIDE DEF L
<1>2. 1..(L + 1) = (1..L) \cup {L + 1}
  BY <1>1
<1>3. QueuedIds' = QueuedIds \cup {n.id}
  BY <1>1, <1>2 DEF QueuedIds
<1>4. ASSUME QueueDistinct, n.id \notin QueuedIds PROVE QueueDistinct'
  BY <1>1, <1>2, <1>4 DEF QueueDistinct, QueuedIds
<1>. QED BY <1>3, <1>4

\* Taking the head removes its id, and only that.
LEMMA QueueTail ==
    ASSUME dial_queue \in Seq(Outgoing), dial_queue # <<>>, QueueDistinct,
           dial_queue' = Tail(dial_queue)
    PROVE  /\ QueuedIds' = QueuedIds \ {Head(dial_queue).id}
           /\ QueueDistinct'
<1>. DEFINE L == Len(dial_queue)
<1>1. /\ L \in Nat /\ L > 0
      /\ DOMAIN dial_queue = 1..L
      /\ DOMAIN dial_queue' = 1..(L - 1)
      /\ Head(dial_queue) = dial_queue[1]
      /\ \A k \in 1..(L - 1) : dial_queue'[k] = dial_queue[k + 1]
  BY HeadTailProperties, LenProperties, EmptySeq
<1>. HIDE DEF L
<1>2. /\ \A k \in 1..(L - 1) : k + 1 \in 1..L /\ k + 1 # 1
      /\ \A k \in 1..L : k # 1 => k - 1 \in 1..(L - 1) /\ (k - 1) + 1 = k
  BY <1>1
<1>3. ASSUME NEW x \in QueuedIds' PROVE x \in QueuedIds \ {Head(dial_queue).id}
  <2>1. PICK k \in 1..(L - 1) : x = dial_queue[k + 1].id
    BY <1>1, <1>3 DEF QueuedIds
  <2>2. k + 1 \in 1..L /\ k + 1 # 1 /\ 1 \in 1..L
    BY <1>1, <1>2
  <2>. QED BY <1>1, <2>1, <2>2 DEF QueueDistinct, QueuedIds
<1>4. ASSUME NEW x \in QueuedIds, x # Head(dial_queue).id PROVE x \in QueuedIds'
  <2>1. PICK k \in 1..L : x = dial_queue[k].id
    BY <1>1 DEF QueuedIds
  <2>2. k - 1 \in 1..(L - 1) /\ (k - 1) + 1 = k
    BY <1>1, <1>2, <1>4, <2>1
  <2>3. dial_queue'[k - 1] = dial_queue[k]
    BY <1>1, <2>2
  <2>. QED BY <1>1, <2>1, <2>2, <2>3 DEF QueuedIds
<1>5. QueueDistinct'
  <2>. SUFFICES ASSUME NEW j \in 1..(L - 1), NEW k \in 1..(L - 1),
                       dial_queue'[j].id = dial_queue'[k].id
                PROVE  j = k
    BY <1>1 DEF QueueDistinct
  <2>1. j + 1 = k + 1
    BY <1>1, <1>2 DEF QueueDistinct
  <2>. QED BY <2>1
<1>. QED BY <1>3, <1>4, <1>5

\* Ending a negotiation removes the request's id, and only that.
LEMMA NegotiationEnds ==
    ASSUME NegotiatingDistinct, NEW n \in negotiating,
           negotiating' = negotiating \ {n}
    PROVE  /\ NegotiatingIds' = NegotiatingIds \ {n.id}
           /\ n.id \in NegotiatingIds
           /\ NegotiatingDistinct'
  BY DEF NegotiatingIds, NegotiatingDistinct

\* The request of a closing substream is settled, so what is reported for
\* unsettled requests concerns none of them.
LEMMA UnsettledAreNotClosing ==
    ASSUME OutboundOK, ClosingOnce, outcomes \in [ReqIds -> Nat]
    PROVE  /\ \A o \in DOMAIN outbound_substreams : outbound_substreams[o].req_id \in ReqIds
           /\ \A o \in Closing : outbound_substreams[o].req_id \in settled
           /\ \A S \in SUBSET ReqIds :
                 Report(S) /\ S \cap settled = {} => QuietOutside({})
           /\ \A o \in DOMAIN outbound_substreams :
                 SubstreamsDistinct /\ Report({outbound_substreams[o].req_id})
                    => QuietOutside({o})
           /\ outcomes' = outcomes => QuietOutside({})
<1>1. \A o \in DOMAIN outbound_substreams : outbound_substreams[o].req_id \in ReqIds
  BY DEF OutboundOK, OutboundInfo
<1>2. \A o \in Closing : outbound_substreams[o].req_id \in settled
  BY <1>1 DEF ClosingOnce, Closing, settled
<1>3. ASSUME NEW S \in SUBSET ReqIds, Report(S), S \cap settled = {}
      PROVE  QuietOutside({})
  BY <1>1, <1>2, <1>3, Reported DEF QuietOutside, Closing
<1>4. ASSUME NEW o \in DOMAIN outbound_substreams, SubstreamsDistinct,
             Report({outbound_substreams[o].req_id})
      PROVE  QuietOutside({o})
  <2>1. \A r \in ReqIds : r # outbound_substreams[o].req_id => outcomes'[r] = outcomes[r]
    BY <1>1, <1>4, Reported
  <2>. QED BY <1>1, <1>4, <2>1 DEF QuietOutside, Closing, SubstreamsDistinct
<1>5. outcomes' = outcomes => QuietOutside({})
  BY DEF QuietOutside
<1>. QED BY <1>1, <1>2, <1>3, <1>4, <1>5

\* Removing closing substreams concerns no waiting request; removing a
\* waiting substream o with them removes the id of o, and only that.
LEMMA SubstreamsRemoved ==
    ASSUME OutboundOK, SubstreamsDistinct, ClosingOnce, NEW C \in SUBSET Closing,
           NEW D, RemoveClosed(C \cup D), QuietOutside(C \cup D)
    PROVE  /\ D = {} => WaitingIds' = WaitingIds
           /\ \A o \in Waiting :
                 D = {o} => WaitingIds' = WaitingIds \ {outbound_substreams[o].req_id}
           /\ SubstreamsDistinct' /\ ClosingOnce'
<1>1. /\ DOMAIN outbound_substreams' = DOMAIN outbound_substreams \ (C \cup D)
      /\ \A x \in DOMAIN outbound_substreams' :
            outbound_substreams'[x] = outbound_substreams[x]
  BY DEF RemoveClosed, Without, Restrict
<1>2. /\ Waiting' = Waiting \ D
      /\ Closing' = Closing \ (C \cup D)
  BY <1>1 DEF Waiting, Closing
<1>3. /\ \A x \in Waiting' : outbound_substreams'[x] = outbound_substreams[x]
      /\ \A x \in Closing' : outbound_substreams'[x] = outbound_substreams[x]
  BY <1>1, <1>2 DEF Waiting, Closing
<1>4. SubstreamsDistinct' /\ ClosingOnce'
  <2>1. SubstreamsDistinct'
    BY <1>1 DEF SubstreamsDistinct
  <2>2. ClosingOnce'
    BY <1>2, <1>3 DEF ClosingOnce, QuietOutside
  <2>. QED BY <2>1, <2>2
<1>5. D = {} => WaitingIds' = WaitingIds
  BY <1>2, <1>3 DEF WaitingIds
<1>6. ASSUME NEW o \in Waiting, D = {o}
      PROVE  WaitingIds' = WaitingIds \ {outbound_substreams[o].req_id}
  BY <1>2, <1>3, <1>6 DEF WaitingIds, SubstreamsDistinct, Waiting
<1>. QED BY <1>4, <1>5, <1>6

-----------------------------------------------------------------------------
(***************************************************************************)
(* HandlerInv is inductive.                                                *)
(***************************************************************************)
LEMMA HandlerInit == Init => HandlerInv
<1>. SUFFICES ASSUME Init PROVE HandlerInv
  OBVIOUS
<1>1. InboundOK /\ OutboundOK
  BY DEF Init, InboundOK, OutboundOK
<1>2. DialOK
  BY FS_EmptySet, LimitsAssumption DEF Init, DialOK
<1>3. AppOK
  BY EmptySeq DEF Init, AppOK
<1>. QED BY <1>1, <1>2, <1>3 DEF HandlerInv

\* send_request queues the request or reports its failure.
LEMMA send_requestOK ==
    ASSUME AppOK, dial_queue \in Seq(Outgoing), NEW n \in Outgoing, send_request(n),
           state' = state
    PROVE  /\ dial_queue' \in Seq(Outgoing)
           /\ events_out' \in Seq(Events)
           /\ outcomes' \in [ReqIds -> Nat]
           /\ state' # "Active" => dial_queue' = <<>>
<1>1. n.id \in ReqIds /\ Err \in Events
  BY DEF Outgoing, Events
<1>2. CASE state = "Active"
  <2>1. /\ dial_queue' = Append(dial_queue, n)
        /\ events_out' = events_out /\ outcomes' = outcomes
    BY <1>2 DEF send_request
  <2>2. dial_queue' \in Seq(Outgoing)
    BY <2>1, AppendProperties
  <2>. QED BY <1>2, <2>1, <2>2 DEF AppOK
<1>3. CASE state # "Active"
  <2>1. /\ events_out' = Append(events_out, Err)
        /\ Report({n.id})
        /\ dial_queue' = dial_queue
    BY <1>3 DEF send_request
  <2>2. events_out' \in Seq(Events)
    BY <1>1, <2>1, AppendProperties DEF AppOK
  <2>3. outcomes' \in [ReqIds -> Nat]
    BY <1>1, <2>1, Reported DEF AppOK
  <2>. QED BY <1>1, <1>3, <2>1, <2>2, <2>3 DEF AppOK
<1>. QED BY <1>2, <1>3

\* shutdown reports everything that was queued.
LEMMA shutdownOK ==
    ASSUME AppOK, DialOK, NEW before \in Seq(Events), NEW after \in Seq(Events),
           shutdown(before, after)
    PROVE  /\ state' = "ShuttingDown"
           /\ dial_queue' = <<>>
           /\ events_out' \in Seq(Events)
           /\ outcomes' \in [ReqIds -> Nat]
<1>1. Errs(Len(dial_queue)) \in Seq(Events)
  BY ErrsType DEF DialOK
<1>2. events_out' \in Seq(Events)
  BY <1>1, ConcatProperties DEF shutdown, AppOK
<1>3. QueuedIds \subseteq ReqIds
  <2>1. \A k \in DOMAIN dial_queue : dial_queue[k] \in Outgoing
    BY ElementOfSeq, LenProperties DEF DialOK
  <2>. QED BY <2>1 DEF QueuedIds, Outgoing
<1>4. outcomes' \in [ReqIds -> Nat]
  BY <1>3, Reported DEF shutdown, AppOK
<1>. QED BY <1>2, <1>4 DEF shutdown, AppOK

\* The step of each poll action that only drives the substreams and reports
\* one outcome: what is left to show is about the outbound half.
LEMMA SubstreamStep ==
    ASSUME HandlerInv, PollInbound, OutboundOK', outcomes' \in [ReqIds -> Nat],
           UNCHANGED <<state, inbound_id, owed, dialVars, closed, issued>>
    PROVE  HandlerInv'
<1>1. InboundOK' /\ events_out' \in Seq(Events)
  BY PollInboundOK DEF HandlerInv
<1>2. DialOK'
  BY DEF HandlerInv, DialOK, dialVars
<1>3. AppOK'
  BY <1>1 DEF HandlerInv, AppOK, dialVars
<1>. QED BY <1>1, <1>2, <1>3 DEF HandlerInv

LEMMA HandlerStep == HandlerInv /\ RequestsConserved /\ [Next]_vars => HandlerInv'
<1>. SUFFICES ASSUME HandlerInv, RequestsConserved, [Next]_vars PROVE HandlerInv'
  OBVIOUS
<1>. USE DEF HandlerInv
<1>1. ASSUME NEW r \in ReqIds, NEW req \in OutboundKinds, SendRequest(r, req)
      PROVE  HandlerInv'
  <2>1. [id |-> r, req |-> req] \in Outgoing
    BY DEF Outgoing
  <2>2. /\ dial_queue' \in Seq(Outgoing) /\ events_out' \in Seq(Events)
        /\ outcomes' \in [ReqIds -> Nat]
        /\ state' # "Active" => dial_queue' = <<>>
    BY <1>1, <2>1, send_requestOK DEF SendRequest, DialOK
  <2>3. InboundOK' /\ OutboundOK'
    BY <1>1 DEF SendRequest, InboundOK, OutboundOK, inboundVars, outboundVars
  <2>4. DialOK'
    BY <1>1, <2>2 DEF SendRequest, DialOK
  <2>5. AppOK'
    BY <1>1, <2>2 DEF SendRequest, AppOK, inboundVars
  <2>. QED BY <2>3, <2>4, <2>5
<1>2. ASSUME NEW m \in owed, SendResponse(m)
      PROVE  HandlerInv'
  <2>1. InboundOK'
    <3>1. CASE m.id \in DOMAIN inbound_substreams
      <4>. DEFINE items == Append(inbound_substreams[m.id].pending, AppResponse(m.req))
                  info  == [inbound_substreams[m.id] EXCEPT !.pending = items]
      <4>1. inbound_substreams[m.id] \in InboundInfo
        BY <3>1 DEF InboundOK
      <4>2. items \in Seq(Responses)
        BY <4>1, AppResponseType DEF InboundInfo
      <4>3. info \in InboundInfo /\ info.delay_key = inbound_substreams[m.id].delay_key
        <5>. HIDE DEF items
        <5>. QED BY <4>1, <4>2 DEF InboundInfo
      <4>4. inbound_substreams' = [inbound_substreams EXCEPT ![m.id] = info]
        BY <1>2, <3>1 DEF SendResponse
      <4>. HIDE DEF info
      <4>5. /\ DOMAIN inbound_substreams' = DOMAIN inbound_substreams
            /\ inbound_substreams' \in [DOMAIN inbound_substreams -> InboundInfo]
            /\ \A i \in DOMAIN inbound_substreams :
                  inbound_substreams'[i].delay_key = inbound_substreams[i].delay_key
        BY <3>1, <4>3, <4>4 DEF InboundOK
      <4>. QED BY <1>2, <4>5 DEF SendResponse, InboundOK
    <3>2. CASE m.id \notin DOMAIN inbound_substreams
      BY <1>2, <3>2 DEF SendResponse, InboundOK
    <3>. QED BY <3>1, <3>2
  <2>2. OutboundOK' /\ DialOK'
    BY <1>2 DEF SendResponse, OutboundOK, DialOK, outboundVars, dialVars
  <2>3. events_out' \in Seq(Events)
    <3>1. Err \in Events
      BY DEF Events
    <3>2. events_out' = events_out \/ events_out' = Append(events_out, Err)
      BY <1>2 DEF SendResponse
    <3>. QED BY <3>1, <3>2, AppendProperties DEF AppOK
  <2>4. AppOK'
    BY <1>2, <2>3 DEF SendResponse, AppOK, dialVars
  <2>. QED BY <2>1, <2>2, <2>4
<1>3. ASSUME NEW req \in InboundKinds, NegotiatedInbound(req)
      PROVE  HandlerInv'
  <2>1. OutboundOK'
    BY <1>3 DEF NegotiatedInbound, OutboundOK, outboundVars
  <2>2. /\ Request(inbound_id, req) \in Events
        /\ <<Err>> \in Seq(Events) /\ <<Request(inbound_id, req)>> \in Seq(Events)
        /\ <<>> \in Seq(Events)
    BY DEF Events, Request, InboundOK
  <2>3. CASE AcceptRequest(req)
    <3>1. IdleInfo(req) \in InboundInfo /\ IdleInfo(req).delay_key
      BY DEF IdleInfo, InboundInfo
    <3>2. /\ inbound_substreams' = Insert(inbound_substreams, inbound_id, IdleInfo(req))
          /\ inbound_id \notin DOMAIN inbound_substreams
      BY <2>3 DEF AcceptRequest, InboundOK
    <3>3. /\ DOMAIN inbound_substreams' = DOMAIN inbound_substreams \cup {inbound_id}
          /\ inbound_substreams' \in [DOMAIN inbound_substreams' -> InboundInfo]
          /\ inbound_substreams'[inbound_id].delay_key
          /\ \A i \in DOMAIN inbound_substreams :
                inbound_substreams'[i] = inbound_substreams[i]
      BY <3>1, <3>2 DEF Insert, InboundOK
    <3>4. InboundOK'
      BY <2>3, <3>3 DEF AcceptRequest, InboundOK
    <3>5. DialOK'
      BY <1>3, <2>3 DEF NegotiatedInbound, AcceptRequest, DialOK
    <3>6. AppOK'
      BY <1>3, <2>2, <2>3 DEF NegotiatedInbound, AcceptRequest, AppOK
    <3>. QED BY <2>1, <3>4, <3>5, <3>6
  <2>4. CASE RejectRequest(req)
    <3>1. /\ state' = "ShuttingDown" /\ dial_queue' = <<>>
          /\ events_out' \in Seq(Events) /\ outcomes' \in [ReqIds -> Nat]
      BY <2>2, <2>4, shutdownOK DEF RejectRequest
    <3>2. InboundOK'
      BY <2>4 DEF RejectRequest, InboundOK
    <3>3. DialOK'
      BY <1>3, <3>1 DEF NegotiatedInbound, DialOK
    <3>4. AppOK'
      BY <1>3, <3>1 DEF NegotiatedInbound, AppOK
    <3>. QED BY <2>1, <3>2, <3>3, <3>4
  <2>5. CASE ReceiveGoodbye(req)
    <3>1. /\ state' = "ShuttingDown" /\ dial_queue' = <<>>
          /\ events_out' \in Seq(Events) /\ outcomes' \in [ReqIds -> Nat]
      BY <2>2, <2>5, shutdownOK DEF ReceiveGoodbye
    <3>2. InboundOK'
      BY <2>5 DEF ReceiveGoodbye, InboundOK
    <3>3. DialOK'
      BY <1>3, <3>1 DEF NegotiatedInbound, DialOK
    <3>4. AppOK'
      BY <1>3, <3>1 DEF NegotiatedInbound, AppOK
    <3>. QED BY <2>1, <3>2, <3>3, <3>4
  <2>. QED BY <1>3, <2>3, <2>4, <2>5 DEF NegotiatedInbound
<1>4. ASSUME NEW n \in negotiating, NegotiatedOutbound(n)
      PROVE  HandlerInv'
  <2>1. n \in Outgoing
    BY DEF DialOK
  <2>2. DialOK'
    BY <1>4, LeaveNegotiation DEF NegotiatedOutbound, DialOK
  <2>3. InboundOK'
    BY <1>4 DEF NegotiatedOutbound, InboundOK, inboundVars
  <2>4. OutboundOK'
    <3>1. CASE expected_responses(n.req) > 0
      <4>1. PendingInfo(n) \in OutboundInfo
        BY <2>1 DEF PendingInfo, OutboundInfo, Outgoing
      <4>2. outbound_substreams' = Insert(outbound_substreams, outbound_id, PendingInfo(n))
        BY <1>4, <3>1, ExpectedType DEF NegotiatedOutbound
      <4>3. /\ DOMAIN outbound_substreams' = DOMAIN outbound_substreams \cup {outbound_id}
            /\ outbound_substreams' \in [DOMAIN outbound_substreams' -> OutboundInfo]
        BY <4>1, <4>2 DEF Insert, OutboundOK
      <4>. QED BY <1>4, <3>1, <4>3 DEF NegotiatedOutbound, OutboundOK
    <3>2. CASE ~(expected_responses(n.req) > 0)
      BY <1>4, <3>2 DEF NegotiatedOutbound, OutboundOK, outboundVars
    <3>. QED BY <3>1, <3>2
  <2>5. AppOK'
    <3>1. outcomes' \in [ReqIds -> Nat]
      BY <1>4, <2>1, Reported DEF NegotiatedOutbound, AppOK, Outgoing
    <3>. QED BY <1>4, <3>1 DEF NegotiatedOutbound, AppOK, inboundVars
  <2>. QED BY <2>2, <2>3, <2>4, <2>5
<1>5. ASSUME NEW n \in negotiating, RetryDial(n)
      PROVE  HandlerInv'
  <2>1. n \in Outgoing
    BY DEF DialOK
  <2>2. /\ dial_queue' \in Seq(Outgoing) /\ events_out' \in Seq(Events)
        /\ outcomes' \in [ReqIds -> Nat]
        /\ state' # "Active" => dial_queue' = <<>>
    BY <1>5, <2>1, send_requestOK DEF RetryDial, DialOK
  <2>3. /\ negotiating' \subseteq Outgoing /\ IsFiniteSet(negotiating')
        /\ Cardinality(negotiating') = Cardinality(negotiating) - 1
        /\ Cardinality(negotiating') \in Nat
    BY <1>5, LeaveNegotiation DEF RetryDial
  <2>4. io_retries' \in 0..(IO_ERROR_RETRIES - 1)
    BY <1>5, LimitsAssumption DEF RetryDial, DialOK
  <2>5. Cardinality(negotiating) \in Nat
    BY FS_CardinalityType DEF DialOK
  <2>6. DialOK'
    BY <1>5, <2>2, <2>3, <2>4, <2>5 DEF RetryDial, DialOK
  <2>7. InboundOK' /\ OutboundOK'
    BY <1>5 DEF RetryDial, InboundOK, OutboundOK, inboundVars, outboundVars
  <2>8. AppOK'
    BY <1>5, <2>2 DEF RetryDial, AppOK, inboundVars
  <2>. QED BY <2>6, <2>7, <2>8
<1>6. ASSUME NEW n \in negotiating, FailDial(n)
      PROVE  HandlerInv'
  <2>1. n.id \in ReqIds /\ Err \in Events
    BY DEF DialOK, Outgoing, Events
  <2>2. io_retries' \in 0..(IO_ERROR_RETRIES - 1)
    BY <1>6, LimitsAssumption DEF FailDial
  <2>3. DialOK'
    BY <1>6, <2>2, LeaveNegotiation DEF FailDial, DialOK
  <2>4. InboundOK' /\ OutboundOK'
    BY <1>6 DEF FailDial, InboundOK, OutboundOK, inboundVars, outboundVars
  <2>5. AppOK'
    BY <1>6, <2>1, Reported DEF FailDial, AppOK, inboundVars
  <2>. QED BY <2>3, <2>4, <2>5
<1>7. CASE PollEvent
  <2>1. /\ Head(events_out) \in Events
        /\ Tail(events_out) \in Seq(Events)
    BY <1>7, HeadTailProperties DEF PollEvent, AppOK
  <2>2. owed' \subseteq Incoming
    <3>1. Head(events_out).type = "Request" =>
             [id |-> Head(events_out).id, req |-> Head(events_out).req] \in Incoming
      BY <2>1 DEF Events, Err, Incoming
    <3>. QED BY <1>7, <3>1 DEF PollEvent, AppOK
  <2>3. AppOK'
    BY <1>7, <2>1, <2>2 DEF PollEvent, AppOK, dialVars
  <2>4. InboundOK' /\ OutboundOK' /\ DialOK'
    BY <1>7 DEF PollEvent, InboundOK, OutboundOK, DialOK, outboundVars, dialVars
  <2>. QED BY <2>3, <2>4
<1>8. CASE PollShutdownElapsed
  <2>1. InboundOK' /\ OutboundOK' /\ DialOK'
    BY <1>8 DEF PollShutdownElapsed, InboundOK, OutboundOK, DialOK, inboundVars,
                outboundVars, dialVars
  <2>2. AppOK'
    BY <1>8 DEF PollShutdownElapsed, AppOK, inboundVars, dialVars
  <2>. QED BY <2>1, <2>2
<1>9. CASE PollTimerError
  <2>1. PICK ex \in SUBSET inbound_delay : PollInboundTimers(ex)
    BY <1>9 DEF PollTimerError
  <2>2. InboundOK' /\ events_out' \in Seq(Events)
    BY <1>9, <2>1, PollInboundTimersOK DEF PollTimerError
  <2>3. OutboundOK' /\ DialOK'
    BY <1>9 DEF PollTimerError, OutboundOK, DialOK, outboundVars, dialVars
  <2>4. AppOK'
    BY <1>9, <2>2 DEF PollTimerError, AppOK, dialVars
  <2>. QED BY <2>2, <2>3, <2>4
<1>10. ASSUME NEW o \in DOMAIN outbound_substreams, PollOutboundTimeout(o)
       PROVE  HandlerInv'
  <2>1. PICK ex \in SUBSET inbound_delay : PollInboundTimers(ex)
    BY <1>10 DEF PollOutboundTimeout
  <2>2. InboundOK' /\ events_out' \in Seq(Events)
    BY <1>10, <2>1, PollInboundTimersOK DEF PollOutboundTimeout
  <2>3. OutboundOK'
    BY <1>10, RemoveClosedOK DEF PollOutboundTimeout, RemoveClosed
  <2>4. outcomes' \in [ReqIds -> Nat]
    BY <1>10, Reported DEF PollOutboundTimeout, AppOK, OutboundOK, OutboundInfo
  <2>5. DialOK'
    BY <1>10 DEF PollOutboundTimeout, DialOK, dialVars
  <2>6. AppOK'
    BY <1>10, <2>2, <2>4 DEF PollOutboundTimeout, AppOK, dialVars
  <2>. QED BY <2>2, <2>3, <2>5, <2>6
<1>11. ASSUME NEW o \in DOMAIN outbound_substreams, PollResponse(o)
       PROVE  HandlerInv'
  <2>1. PICK C \in SUBSET Closing :
            /\ outbound_substreams' =
                   [Without(outbound_substreams, C) EXCEPT ![o].state = "Closing"]
            /\ outbound_delay' = outbound_delay \ C
    BY <1>11 DEF PollResponse
  <2>. DEFINE kept == Without(outbound_substreams, C)
              info == [kept[o] EXCEPT !.state = "Closing"]
  <2>2. /\ DOMAIN kept = DOMAIN outbound_substreams \ C
        /\ kept \in [DOMAIN kept -> OutboundInfo]
        /\ o \in DOMAIN kept
    <3>1. o \in DOMAIN outbound_substreams \ C
      BY <1>11 DEF PollResponse, Waiting, Closing
    <3>2. outbound_substreams \in [DOMAIN outbound_substreams -> OutboundInfo]
      BY DEF OutboundOK
    <3>. QED BY <3>1, <3>2, WithoutType
  <2>3. info \in OutboundInfo
    BY <2>2 DEF OutboundInfo
  <2>4. outbound_substreams' = [kept EXCEPT ![o] = info]
    BY <2>1
  <2>. HIDE DEF kept, info
  <2>5. /\ DOMAIN outbound_substreams' = DOMAIN outbound_substreams \ C
        /\ outbound_substreams' \in [DOMAIN outbound_substreams' -> OutboundInfo]
    BY <2>2, <2>3, <2>4
  <2>6. OutboundOK'
    BY <1>11, <2>1, <2>5 DEF PollResponse, OutboundOK
  <2>7. outcomes' \in [ReqIds -> Nat]
    BY <1>11, Reported DEF PollResponse, AppOK, OutboundOK, OutboundInfo
  <2>. QED BY <1>11, <2>6, <2>7, SubstreamStep DEF PollResponse
<1>12. ASSUME NEW o \in DOMAIN outbound_substreams, PollStreamEnd(o)
       PROVE  HandlerInv'
  <2>1. OutboundOK'
    BY <1>12, RemoveClosedOK DEF PollStreamEnd
  <2>2. outcomes' \in [ReqIds -> Nat]
    BY <1>12, Reported DEF PollStreamEnd, AppOK, OutboundOK, OutboundInfo
  <2>. QED BY <1>12, <2>1, <2>2, SubstreamStep DEF PollStreamEnd
<1>13. CASE PollDial
  <2>1. InboundOK' /\ events_out' \in Seq(Events)
    BY <1>13, PollInboundOK DEF PollDial
  <2>2. OutboundOK'
    BY <1>13, RemoveClosedOK DEF PollDial
  <2>3. /\ Head(dial_queue) \in Outgoing
        /\ Tail(dial_queue) \in Seq(Outgoing)
    BY <1>13, HeadTailProperties DEF PollDial, CanDial, DialOK
  <2>4. Head(dial_queue) \notin negotiating
    <3>1. Head(dial_queue).id \in QueuedIds
      BY <1>13, QueueHead DEF PollDial, CanDial, DialOK
    <3>. QED BY <3>1 DEF RequestsConserved, NegotiatingIds
  <2>5. /\ IsFiniteSet(negotiating')
        /\ Cardinality(negotiating') = Cardinality(negotiating) + 1
        /\ Cardinality(negotiating) \in Nat
    BY <1>13, <2>4, FS_AddElement, FS_CardinalityType DEF PollDial, DialOK
  <2>6. DialOK'
    BY <1>13, <2>3, <2>5, LimitsAssumption DEF PollDial, CanDial, DialOK
  <2>7. AppOK'
    BY <1>13, <2>1 DEF PollDial, CanDial, AppOK
  <2>. QED BY <2>1, <2>2, <2>6, <2>7
<1>14. CASE PollTail
  <2>1. InboundOK' /\ events_out' \in Seq(Events)
    BY <1>14, PollInboundOK DEF PollTail
  <2>2. OutboundOK'
    BY <1>14, RemoveClosedOK DEF PollTail
  <2>3. DialOK'
    BY <1>14 DEF PollTail, DialOK, dialVars
  <2>4. AppOK'
    BY <1>14, <2>1 DEF PollTail, AppOK, dialVars, Drained
  <2>. QED BY <2>1, <2>2, <2>3, <2>4
<1>15. CASE UNCHANGED vars
  BY <1>15 DEF vars, InboundOK, OutboundOK, DialOK, AppOK, inboundVars, outboundVars,
               dialVars
<1>. QED
  BY <1>1, <1>2, <1>3, <1>4, <1>5, <1>6, <1>7, <1>8, <1>9, <1>10, <1>11, <1>12,
     <1>13, <1>14, <1>15 DEF Next
-----------------------------------------------------------------------------
(***************************************************************************)
(* RequestsConserved is inductive.                                         *)
(***************************************************************************)
LEMMA ConservedInit == Init => RequestsConserved
  BY DEF Init, RequestsConserved, QueuedIds, NegotiatingIds, WaitingIds, Waiting, Closing,
         settled

\* A step that leaves the requests where they are.
LEMMA NothingMoves ==
    ASSUME RequestsConserved,
           UNCHANGED <<dial_queue, negotiating, outbound_substreams, issued, outcomes>>
    PROVE  RequestsConserved'
<1>1. Waiting' = Waiting /\ Closing' = Closing
  BY DEF Waiting, Closing
<1>2. /\ QueuedIds' = QueuedIds /\ NegotiatingIds' = NegotiatingIds
      /\ WaitingIds' = WaitingIds
  BY <1>1 DEF QueuedIds, NegotiatingIds, WaitingIds
<1>. QED BY <1>1, <1>2, NothingReported DEF RequestsConserved

\* A request that is in no other place goes through send_request: it is
\* queued or it is settled.
LEMMA send_requestConserves ==
    ASSUME DialOK, OutboundOK, ClosingOnce, outcomes \in [ReqIds -> Nat],
           NEW n \in Outgoing, send_request(n),
           QueueDistinct, n.id \notin QueuedIds, n.id \notin settled
    PROVE  /\ QueueDistinct' /\ QuietOutside({})
           /\ \/ QueuedIds' = QueuedIds \cup {n.id} /\ settled' = settled
              \/ QueuedIds' = QueuedIds /\ settled' = settled \cup {n.id}
<1>1. CASE dial_queue' = Append(dial_queue, n) /\ outcomes' = outcomes
  BY <1>1, QueueAppend, NothingReported, UnsettledAreNotClosing DEF DialOK
<1>2. CASE dial_queue' = dial_queue /\ Report({n.id})
  <2>1. n.id \in ReqIds
    BY DEF Outgoing
  <2>2. settled' = settled \cup {n.id}
    BY <1>2, <2>1, Reported
  <2>3. QuietOutside({})
    BY <1>2, <2>1, UnsettledAreNotClosing
  <2>. QED BY <1>2, <2>2, <2>3 DEF QueueDistinct, QueuedIds
<1>. QED BY <1>1, <1>2 DEF send_request

\* The outbound maps stay as they are and nothing is reported for the closing
\* substreams.
LEMMA SubstreamsUnchanged ==
    ASSUME SubstreamsDistinct, ClosingOnce, outbound_substreams' = outbound_substreams,
           QuietOutside({})
    PROVE  WaitingIds' = WaitingIds /\ SubstreamsDistinct' /\ ClosingOnce'
  BY DEF SubstreamsDistinct, ClosingOnce, WaitingIds, Waiting, Closing, QuietOutside

\* The same for the queue and the negotiations.
LEMMA DialUnchanged ==
    ASSUME QueueDistinct, NegotiatingDistinct
    PROVE  /\ dial_queue' = dial_queue => QueuedIds' = QueuedIds /\ QueueDistinct'
           /\ negotiating' = negotiating =>
                 NegotiatingIds' = NegotiatingIds /\ NegotiatingDistinct'
  BY DEF QueueDistinct, NegotiatingDistinct, QueuedIds, NegotiatingIds

\* A step that settles the request of substream o and removes o from the
\* waiting ones; if o is closing its request is settled already.
LEMMA SubstreamSettled ==
    ASSUME RequestsConserved, OutboundOK, outcomes \in [ReqIds -> Nat],
           NEW o \in DOMAIN outbound_substreams,
           settled' = settled \cup {outbound_substreams[o].req_id},
           UNCHANGED <<dial_queue, negotiating, issued>>,
           o \in Waiting =>
               WaitingIds' = WaitingIds \ {outbound_substreams[o].req_id},
           o \in Closing => WaitingIds' = WaitingIds,
           SubstreamsDistinct', ClosingOnce'
    PROVE  RequestsConserved'
<1>1. /\ QueuedIds' = QueuedIds /\ QueueDistinct'
      /\ NegotiatingIds' = NegotiatingIds /\ NegotiatingDistinct'
  BY ConservedParts, DialUnchanged
<1>2. CASE o \in Waiting
  <2>1. outbound_substreams[o].req_id \in WaitingIds
    BY <1>2 DEF WaitingIds
  <2>2. Partition'
    BY <1>1, <1>2, <2>1, ConservedParts DEF Partition
  <2>. QED BY <1>1, <2>2, ConservedPartsNext
<1>3. CASE o \in Closing
  <2>1. Partition'
    <3>1. outbound_substreams[o].req_id \in settled
      BY <1>3, ConservedParts, UnsettledAreNotClosing
    <3>. QED BY <1>1, <1>3, <3>1, ConservedParts DEF Partition
  <2>. QED BY <1>1, <2>1, ConservedPartsNext
<1>. QED BY <1>2, <1>3 DEF Waiting

\* A shutdown settles what is queued.
LEMMA shutdownConserves ==
    ASSUME RequestsConserved, OutboundOK, issued \subseteq ReqIds,
           outcomes \in [ReqIds -> Nat], NEW before, NEW after, shutdown(before, after),
           negotiating' = negotiating, outbound_substreams' = outbound_substreams,
           issued' = issued
    PROVE  RequestsConserved'
<1>1. QueuedIds \subseteq ReqIds /\ QueuedIds \cap settled = {} /\ Report(QueuedIds)
  BY ConservedParts DEF Partition, shutdown
<1>2. QueuedIds' = {} /\ QueueDistinct' /\ settled' = settled \cup QueuedIds
  <2>1. QueuedIds' = {} /\ QueueDistinct'
    BY DEF shutdown, QueuedIds, QueueDistinct
  <2>. QED BY <1>1, <2>1, Reported
<1>3. QuietOutside({})
  BY <1>1, ConservedParts, UnsettledAreNotClosing
<1>4. NegotiatingIds' = NegotiatingIds /\ NegotiatingDistinct'
  BY ConservedParts, DialUnchanged
<1>5. WaitingIds' = WaitingIds /\ SubstreamsDistinct' /\ ClosingOnce'
  BY <1>3, ConservedParts, SubstreamsUnchanged
<1>6. Partition'
  BY <1>2, <1>4, <1>5, ConservedParts DEF Partition
<1>. QED BY <1>2, <1>4, <1>5, <1>6, ConservedPartsNext

LEMMA ConservedStep ==
    HandlerInv /\ RequestsConserved /\ [Next]_vars => RequestsConserved'
<1>. SUFFICES ASSUME HandlerInv, RequestsConserved, [Next]_vars
              PROVE  RequestsConserved'
  OBVIOUS
<1>. /\ Partition /\ QueueDistinct /\ NegotiatingDistinct
     /\ SubstreamsDistinct /\ ClosingOnce
  BY ConservedParts
<1>. /\ DialOK /\ OutboundOK /\ issued \subseteq ReqIds
     /\ outcomes \in [ReqIds -> Nat]
  BY DEF HandlerInv, AppOK
<1>1. ASSUME NEW r \in NegotiatingIds, Report({r})
      PROVE  settled' = settled \cup {r} /\ QuietOutside({})
  <2>1. r \in ReqIds /\ r \notin settled
    BY DEF Partition
  <2>2. settled' = settled \cup {r}
    BY <1>1, <2>1, Reported
  <2>. QED BY <1>1, <2>1, <2>2, UnsettledAreNotClosing
<1>2. ASSUME NEW r \in ReqIds, NEW req \in OutboundKinds, SendRequest(r, req)
      PROVE  RequestsConserved'
  <2>. DEFINE n == [id |-> r, req |-> req]
  <2>1. n \in Outgoing /\ n.id = r
    BY DEF Outgoing
  <2>2. /\ r \notin issued /\ issued' = issued \cup {r} /\ send_request(n)
        /\ negotiating' = negotiating /\ outbound_substreams' = outbound_substreams
    BY <1>2 DEF SendRequest, outboundVars
  <2>. HIDE DEF n
  <2>3. r \notin QueuedIds /\ r \notin settled
    BY <2>2 DEF Partition
  <2>4. /\ QueueDistinct' /\ QuietOutside({})
        /\ \/ QueuedIds' = QueuedIds \cup {r} /\ settled' = settled
           \/ QueuedIds' = QueuedIds /\ settled' = settled \cup {r}
    BY <2>1, <2>2, <2>3, send_requestConserves
  <2>5. NegotiatingIds' = NegotiatingIds /\ NegotiatingDistinct'
    BY <2>2, DialUnchanged
  <2>6. WaitingIds' = WaitingIds /\ SubstreamsDistinct' /\ ClosingOnce'
    BY <2>2, <2>4, SubstreamsUnchanged
  <2>7. Partition'
    BY <2>2, <2>3, <2>4, <2>5, <2>6 DEF Partition
  <2>. QED BY <2>4, <2>5, <2>6, <2>7, ConservedPartsNext
<1>3. ASSUME NEW m \in owed, SendResponse(m) PROVE RequestsConserved'
  BY <1>3, NothingMoves DEF SendResponse, outboundVars, dialVars
<1>4. ASSUME NEW req \in InboundKinds, NegotiatedInbound(req)
      PROVE  RequestsConserved'
  <2>1. /\ negotiating' = negotiating /\ outbound_substreams' = outbound_substreams
        /\ issued' = issued
    BY <1>4 DEF NegotiatedInbound, outboundVars
  <2>2. CASE AcceptRequest(req)
    BY <2>1, <2>2, NothingMoves DEF AcceptRequest
  <2>3. CASE RejectRequest(req)
    BY <2>1, <2>3, shutdownConserves DEF RejectRequest
  <2>4. CASE ReceiveGoodbye(req)
    BY <2>1, <2>4, shutdownConserves DEF ReceiveGoodbye
  <2>. QED BY <1>4, <2>2, <2>3, <2>4 DEF NegotiatedInbound
<1>5. ASSUME NEW n \in negotiating, NegotiatedOutbound(n) PROVE RequestsConserved'
  <2>1. /\ NegotiatingIds' = NegotiatingIds \ {n.id}
        /\ n.id \in NegotiatingIds
        /\ NegotiatingDistinct'
    BY <1>5, NegotiationEnds DEF NegotiatedOutbound
  <2>2. QueuedIds' = QueuedIds /\ QueueDistinct' /\ issued' = issued
    BY <1>5, DialUnchanged DEF NegotiatedOutbound
  <2>3. CASE expected_responses(n.req) > 0
    <3>1. /\ outbound_substreams' =
                 Insert(outbound_substreams, outbound_id, PendingInfo(n))
          /\ outcomes' = outcomes
      BY <1>5, <2>3, ExpectedType DEF NegotiatedOutbound
    <3>2. /\ DOMAIN outbound_substreams' = DOMAIN outbound_substreams \cup {outbound_id}
          /\ outbound_id \notin DOMAIN outbound_substreams
          /\ outbound_substreams'[outbound_id] = PendingInfo(n)
          /\ \A o \in DOMAIN outbound_substreams :
                outbound_substreams'[o] = outbound_substreams[o]
      BY <3>1 DEF Insert, OutboundOK
    <3>3. /\ PendingInfo(n).state = "Pending"
          /\ PendingInfo(n).req_id = n.id
      BY DEF PendingInfo
    <3>4. Waiting' = Waiting \cup {outbound_id} /\ Closing' = Closing
      BY <3>2, <3>3 DEF Waiting, Closing
    <3>5. /\ outbound_substreams'[outbound_id].req_id = n.id
          /\ \A o \in Waiting \cup Closing :
                outbound_substreams'[o] = outbound_substreams[o]
      BY <3>2, <3>3 DEF Waiting, Closing
    <3>6. WaitingIds' = WaitingIds \cup {n.id} /\ n.id \notin WaitingIds
      BY <2>1, <3>4, <3>5 DEF WaitingIds, Partition
    <3>7. SubstreamsDistinct'
      <4>1. \A o \in DOMAIN outbound_substreams : outbound_substreams[o].req_id # n.id
        <5>1. \A o \in Closing : outbound_substreams[o].req_id \in settled
          BY UnsettledAreNotClosing
        <5>. QED BY <2>1, <3>6, <5>1 DEF Partition, WaitingIds, Waiting
      <4>. QED BY <3>2, <3>5, <4>1 DEF SubstreamsDistinct
    <3>8. ClosingOnce'
      BY <3>1, <3>4, <3>5 DEF ClosingOnce
    <3>9. Partition'
      BY <2>1, <2>2, <3>1, <3>6, NothingReported DEF Partition
    <3>. QED BY <2>1, <2>2, <3>7, <3>8, <3>9, ConservedPartsNext
  <2>4. CASE expected_responses(n.req) = 0
    <3>1. /\ Report({n.id})
          /\ outbound_substreams' = outbound_substreams
      BY <1>5, <2>4 DEF NegotiatedOutbound, outboundVars
    <3>2. settled' = settled \cup {n.id} /\ QuietOutside({})
      BY <1>1, <2>1, <3>1
    <3>3. WaitingIds' = WaitingIds /\ SubstreamsDistinct' /\ ClosingOnce'
      BY <3>1, <3>2, SubstreamsUnchanged
    <3>4. Partition'
      BY <2>1, <2>2, <3>2, <3>3 DEF Partition
    <3>. QED BY <2>1, <2>2, <3>3, <3>4, ConservedPartsNext
  <2>. QED BY <2>3, <2>4, ExpectedType
<1>6. ASSUME NEW n \in negotiating, RetryDial(n) PROVE RequestsConserved'
  <2>1. /\ NegotiatingIds' = NegotiatingIds \ {n.id}
        /\ n.id \in NegotiatingIds
        /\ NegotiatingDistinct'
    BY <1>6, NegotiationEnds DEF RetryDial
  <2>2. n \in Outgoing /\ n.id \notin QueuedIds /\ n.id \notin settled
    BY <2>1 DEF DialOK, Partition
  <2>3. /\ QueueDistinct' /\ QuietOutside({})
        /\ \/ QueuedIds' = QueuedIds \cup {n.id} /\ settled' = settled
           \/ QueuedIds' = QueuedIds /\ settled' = settled \cup {n.id}
    BY <1>6, <2>2, send_requestConserves DEF RetryDial
  <2>4. WaitingIds' = WaitingIds /\ SubstreamsDistinct' /\ ClosingOnce'
    BY <1>6, <2>3, SubstreamsUnchanged DEF RetryDial, outboundVars
  <2>5. Partition'
    BY <1>6, <2>1, <2>2, <2>3, <2>4 DEF RetryDial, Partition
  <2>. QED BY <2>1, <2>3, <2>4, <2>5, ConservedPartsNext
<1>7. ASSUME NEW n \in negotiating, FailDial(n) PROVE RequestsConserved'
  <2>1. /\ NegotiatingIds' = NegotiatingIds \ {n.id}
        /\ n.id \in NegotiatingIds
        /\ NegotiatingDistinct'
    BY <1>7, NegotiationEnds DEF FailDial
  <2>2. QueuedIds' = QueuedIds /\ QueueDistinct'
    BY <1>7, DialUnchanged DEF FailDial
  <2>3. settled' = settled \cup {n.id} /\ QuietOutside({})
    BY <1>1, <1>7, <2>1 DEF FailDial
  <2>4. WaitingIds' = WaitingIds /\ SubstreamsDistinct' /\ ClosingOnce'
    BY <1>7, <2>3, SubstreamsUnchanged DEF FailDial, outboundVars
  <2>5. Partition'
    BY <1>7, <2>1, <2>2, <2>3, <2>4 DEF FailDial, Partition
  <2>. QED BY <2>1, <2>2, <2>4, <2>5, ConservedPartsNext
<1>8. CASE PollEvent
  BY <1>8, NothingMoves DEF PollEvent, outboundVars, dialVars
<1>9. CASE PollShutdownElapsed
  BY <1>9, NothingMoves DEF PollShutdownElapsed, outboundVars, dialVars
<1>10. CASE PollTimerError
  BY <1>10, NothingMoves DEF PollTimerError, outboundVars, dialVars
<1>11. ASSUME NEW o \in DOMAIN outbound_substreams,
              Report({outbound_substreams[o].req_id})
       PROVE  settled' = settled \cup {outbound_substreams[o].req_id} /\ QuietOutside({o})
  <2>1. outbound_substreams[o].req_id \in ReqIds
    BY UnsettledAreNotClosing
  <2>2. settled' = settled \cup {outbound_substreams[o].req_id}
    BY <1>11, <2>1, Reported
  <2>. QED BY <1>11, <2>2, UnsettledAreNotClosing
<1>12. ASSUME NEW o \in DOMAIN outbound_substreams, PollOutboundTimeout(o)
       PROVE  RequestsConserved'
  <2>1. /\ settled' = settled \cup {outbound_substreams[o].req_id}
        /\ UNCHANGED <<dial_queue, negotiating, issued>>
        /\ RemoveClosed({o}) /\ QuietOutside({o})
    BY <1>12, <1>11 DEF PollOutboundTimeout, RemoveClosed, dialVars
  <2>2. CASE o \in Waiting
    <3>1. /\ RemoveClosed({} \cup {o}) /\ {} \in SUBSET Closing
          /\ QuietOutside({} \cup {o})
      BY <2>1 DEF RemoveClosed, QuietOutside
    <3>2. /\ WaitingIds' = WaitingIds \ {outbound_substreams[o].req_id}
          /\ SubstreamsDistinct' /\ ClosingOnce'
      BY <2>1, <2>2, <3>1, SubstreamsRemoved
    <3>. QED BY <2>1, <2>2, <3>2, SubstreamSettled DEF Waiting
  <2>3. CASE o \in Closing
    <3>1. /\ RemoveClosed({o} \cup {}) /\ {o} \in SUBSET Closing
          /\ QuietOutside({o} \cup {})
      BY <2>1, <2>3 DEF RemoveClosed, QuietOutside
    <3>2. WaitingIds' = WaitingIds /\ SubstreamsDistinct' /\ ClosingOnce'
      BY <2>1, <3>1, SubstreamsRemoved
    <3>. QED BY <2>1, <2>3, <3>2, SubstreamSettled DEF Waiting
  <2>. QED BY <2>2, <2>3 DEF Waiting
<1>13. ASSUME NEW o \in DOMAIN outbound_substreams, PollResponse(o)
       PROVE  RequestsConserved'
  <2>1. PICK C \in SUBSET Closing :
            outbound_substreams' =
                [Without(outbound_substreams, C) EXCEPT ![o].state = "Closing"]
    BY <1>13 DEF PollResponse
  <2>2. /\ o \in Waiting
        /\ settled' = settled \cup {outbound_substreams[o].req_id}
        /\ QuietOutside({o})
        /\ UNCHANGED <<dial_queue, negotiating, issued>>
    BY <1>13, <1>11 DEF PollResponse, dialVars
  <2>. DEFINE kept == Without(outbound_substreams, C)
              info == [kept[o] EXCEPT !.state = "Closing"]
  <2>3. /\ DOMAIN kept = DOMAIN outbound_substreams \ C
        /\ \A x \in DOMAIN kept : kept[x] = outbound_substreams[x]
    BY DEF Without, Restrict
  <2>4. o \in DOMAIN kept /\ outbound_substreams[o] \in OutboundInfo
    BY <2>2, <2>3 DEF Waiting, OutboundOK
  <2>5. info.state = "Closing" /\ info.req_id = outbound_substreams[o].req_id
    BY <2>3, <2>4 DEF OutboundInfo
  <2>6. outbound_substreams' = [kept EXCEPT ![o] = info]
    BY <2>1
  <2>. HIDE DEF kept, info
  <2>7. /\ DOMAIN outbound_substreams' = DOMAIN outbound_substreams \ C
        /\ outbound_substreams'[o] = info
        /\ \A x \in DOMAIN outbound_substreams' :
              x # o => outbound_substreams'[x] = outbound_substreams[x]
    BY <2>3, <2>4, <2>6
  <2>8. /\ Waiting' = Waiting \ {o}
        /\ Closing' = (Closing \ C) \cup {o}
    BY <2>2, <2>5, <2>7 DEF Waiting, Closing
  <2>9. /\ \A x \in Waiting' : outbound_substreams'[x] = outbound_substreams[x]
        /\ \A x \in Closing' :
              x # o => outbound_substreams'[x] = outbound_substreams[x]
    BY <2>7, <2>8 DEF Waiting, Closing
  <2>10. WaitingIds' = WaitingIds \ {outbound_substreams[o].req_id}
    BY <2>2, <2>8, <2>9 DEF WaitingIds, SubstreamsDistinct, Waiting
  <2>11. SubstreamsDistinct'
    <3>1. \A x \in DOMAIN outbound_substreams' :
             /\ x \in DOMAIN outbound_substreams
             /\ outbound_substreams'[x].req_id = outbound_substreams[x].req_id
      BY <2>5, <2>7
    <3>. QED BY <3>1 DEF SubstreamsDistinct
  <2>12. ClosingOnce'
    <3>1. outbound_substreams[o].req_id \in ReqIds /\ outbound_substreams[o].req_id \notin settled
      BY <2>2, UnsettledAreNotClosing DEF Partition, WaitingIds
    <3>2. outcomes'[outbound_substreams[o].req_id] = 1
      <4>1. outcomes[outbound_substreams[o].req_id] = 0
        BY <3>1 DEF settled
      <4>. QED BY <1>13, <3>1, <4>1, Reported DEF PollResponse
    <3>3. \A x \in Closing \ C : outcomes'[outbound_substreams[x].req_id] = 1
      BY <2>2 DEF ClosingOnce, QuietOutside, Waiting
    <3>. QED BY <2>5, <2>7, <2>8, <2>9, <3>2, <3>3 DEF ClosingOnce
  <2>. QED BY <2>2, <2>10, <2>11, <2>12, SubstreamSettled DEF Waiting
<1>14. ASSUME NEW o \in DOMAIN outbound_substreams, PollStreamEnd(o)
       PROVE  RequestsConserved'
  <2>1. PICK C \in SUBSET Closing : RemoveClosed(C \cup {o})
    BY <1>14 DEF PollStreamEnd
  <2>2. /\ o \in Waiting
        /\ settled' = settled \cup {outbound_substreams[o].req_id}
        /\ QuietOutside(C \cup {o})
        /\ UNCHANGED <<dial_queue, negotiating, issued>>
    BY <1>14, <1>11 DEF PollStreamEnd, dialVars, QuietOutside
  <2>3. /\ WaitingIds' = WaitingIds \ {outbound_substreams[o].req_id}
        /\ SubstreamsDistinct' /\ ClosingOnce'
    BY <2>1, <2>2, SubstreamsRemoved
  <2>. QED BY <2>2, <2>3, SubstreamSettled DEF Waiting
<1>15. ASSUME \E C \in SUBSET Closing : RemoveClosed(C), outcomes' = outcomes
       PROVE  WaitingIds' = WaitingIds /\ SubstreamsDistinct' /\ ClosingOnce'
  <2>1. PICK C \in SUBSET Closing : RemoveClosed(C)
    BY <1>15
  <2>2. RemoveClosed(C \cup {}) /\ QuietOutside(C \cup {})
    BY <1>15, <2>1 DEF RemoveClosed, QuietOutside
  <2>. QED BY <2>2, SubstreamsRemoved
<1>16. CASE PollDial
  <2>1. /\ QueuedIds' = QueuedIds \ {Head(dial_queue).id}
        /\ QueueDistinct'
        /\ Head(dial_queue).id \in QueuedIds
    BY <1>16, QueueTail, QueueHead DEF PollDial, CanDial, DialOK
  <2>2. NegotiatingIds' = NegotiatingIds \cup {Head(dial_queue).id}
    BY <1>16 DEF PollDial, NegotiatingIds
  <2>3. NegotiatingDistinct'
    BY <1>16, <2>1 DEF PollDial, NegotiatingDistinct, NegotiatingIds, Partition
  <2>4. WaitingIds' = WaitingIds /\ SubstreamsDistinct' /\ ClosingOnce'
    BY <1>15, <1>16 DEF PollDial
  <2>5. Partition'
    BY <1>16, <2>1, <2>2, <2>4, NothingReported DEF PollDial, Partition
  <2>. QED BY <2>1, <2>3, <2>4, <2>5, ConservedPartsNext
<1>17. CASE PollTail
  <2>1. WaitingIds' = WaitingIds /\ SubstreamsDistinct' /\ ClosingOnce'
    BY <1>15, <1>17 DEF PollTail
  <2>2. /\ QueuedIds' = QueuedIds /\ QueueDistinct'
        /\ NegotiatingIds' = NegotiatingIds /\ NegotiatingDistinct'
    BY <1>17, DialUnchanged DEF PollTail, dialVars
  <2>3. Partition'
    BY <1>17, <2>1, <2>2, NothingReported DEF PollTail, Partition
  <2>. QED BY <2>1, <2>2, <2>3, ConservedPartsNext
<1>18. CASE UNCHANGED vars
  BY <1>18, NothingMoves DEF vars, outboundVars, dialVars
<1>. QED
  BY <1>2, <1>3, <1>4, <1>5, <1>6, <1>7, <1>8, <1>9, <1>10, <1>12, <1>13, <1>14,
     <1>16, <1>17, <1>18 DEF Next

-----------------------------------------------------------------------------
(***************************************************************************)
(* The theorems.                                                           *)
(***************************************************************************)

\* The inductive invariant holds in every reachable state.
LEMMA Invariance == Spec => [](HandlerInv /\ RequestsConserved)
<1>1. Init => HandlerInv /\ RequestsConserved
  BY HandlerInit, ConservedInit
<1>2. HandlerInv /\ RequestsConserved /\ [Next]_vars => (HandlerInv /\ RequestsConserved)'
  BY HandlerStep, ConservedStep
<1>. QED BY <1>1, <1>2, PTL DEF Spec

\* Every field of the handler keeps its type; the retry counter stays below
\* IO_ERROR_RETRIES and no substream id is handed out twice.
THEOREM TypeCorrect == Spec => []TypeOK
  BY Invariance, HandlerInvEquiv, PTL

\* Timers and substreams match, so poll never removes a timer twice.
THEOREM TimersCorrect == Spec => []TimersMatchSubstreams
  BY Invariance, HandlerInvEquiv, PTL

\* The dial slots are accounted for, those leaked by retries included, so
\* the u32 subtraction in the negotiation handlers never underflows.
THEOREM SlotsCorrect == Spec => []NegotiationsAccounted
  BY Invariance, HandlerInvEquiv, PTL

\* No request is queued for dialling once the handler shuts down.
THEOREM ShutdownStopsDialling == Spec => []NoDialAfterShutdown
  BY Invariance, HandlerInvEquiv, PTL

\* Requests are neither lost nor duplicated between queue, negotiation and
\* substream, for any number of requests, retries, timeouts and shutdowns.
THEOREM RequestsNeverLost == Spec => []RequestsConserved
  BY Invariance, PTL
=============================================================================
