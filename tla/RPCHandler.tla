----------------------------- MODULE RPCHandler -----------------------------
(***************************************************************************)
(* RPCHandler (src/rpc/handler.rs): the state machine that libp2p runs for *)
(* one connection.  Remote peers open inbound substreams that carry one    *)
(* request each; the application opens outbound substreams through a dial  *)
(* queue; a timer guards every substream; a Goodbye or an overload shuts   *)
(* the handler down.                                                       *)
(*                                                                         *)
(* libp2p calls the handler from one task, so every inject_* call and      *)
(* every poll is atomic.  Each action below is one such call, and a poll   *)
(* is one action per point at which it returns.  What the call finds out   *)
(* from the timers and the streams (which expired, which finished) is      *)
(* chosen nondeterministically.                                            *)
(*                                                                         *)
(* Once poll has returned Close libp2p 0.50 drops the handler; closed      *)
(* stands for that.  The handler becomes Deactivated only in the poll that *)
(* returns Close, so the code's Deactivated arms never run.                *)
(***************************************************************************)
EXTENDS Naturals, Sequences, FiniteSets, Functions, RPCProtocol

CONSTANTS
    ReqIds,                  \* ids the application gives its requests
    InboundKinds,            \* request kinds the remote peer sends
    OutboundKinds,           \* request kinds the application sends
    MAX_INBOUND_SUBSTREAMS,
    max_dial_negotiated,
    IO_ERROR_RETRIES,
    MaxInbound               \* bound: requests received on a connection

ASSUME KindsAssumption ==
    InboundKinds \subseteq Requests /\ OutboundKinds \subseteq Requests

ASSUME LimitsAssumption ==
    /\ MAX_INBOUND_SUBSTREAMS \in Nat
    /\ max_dial_negotiated \in Nat
    /\ IO_ERROR_RETRIES \in Nat \ {0}
    /\ MaxInbound \in Nat

VARIABLES
    state,               \* HandlerState
    events_out,          \* events queued for the behaviour
    dial_queue,          \* requests waiting for a substream
    dial_negotiated,     \* slots taken by substreams under negotiation
    inbound_substreams,  \* SubstreamId -> InboundInfo
    inbound_delay,       \* ids with a timer in inbound_substreams_delay
    outbound_substreams, \* SubstreamId -> OutboundInfo
    outbound_delay,      \* ids with a timer in outbound_substreams_delay
    inbound_id,          \* current_inbound_substream_id
    outbound_id,         \* current_outbound_substream_id
    io_retries,          \* outbound_io_error_retries
    \* The surroundings of the handler.
    negotiating,         \* outbound requests whose substream libp2p negotiates
    owed,                \* requests handed to the application, not yet answered
    closed,              \* poll has returned Close
    \* History, read by the properties only.
    issued,              \* ids of the requests the application has sent
    outcomes,            \* how many outcomes each request has had: events reported
                         \* for it or, for a Goodbye, that it was sent
    leaked               \* negotiations that ended without freeing their slot

inboundVars  == <<inbound_substreams, inbound_delay, inbound_id, owed>>
outboundVars == <<outbound_substreams, outbound_delay, outbound_id>>
dialVars     == <<dial_queue, dial_negotiated, io_retries, negotiating, leaked>>
vars == <<state, events_out, inboundVars, outboundVars, dialVars, closed,
          issued, outcomes>>

-----------------------------------------------------------------------------
\* Events are either an error (the handler's errors carry no request id) or
\* an inbound request under the id of its substream.
Err == [type |-> "Err"]
Request(i, req) == [type |-> "Request", id |-> i, req |-> req]
Errs(n) == [k \in 1..n |-> Err]

\* Function update and removal, as HashMap::insert and HashMap::remove.
Insert(f, k, v) == [x \in DOMAIN f \cup {k} |-> IF x = k THEN v ELSE f[x]]
Without(f, S) == Restrict(f, DOMAIN f \ S)

\* InboundInfo.  Busy is sending the response in field sending; delay_key
\* says whether the info still holds a timer key.
IdleInfo(req) ==
    [state |-> "Idle", sending |-> "none", pending |-> <<>>,
     protocol |-> req, delay_key |-> TRUE]

PendingInfo(n) == [state |-> "Pending", req_id |-> n.id, proto |-> n.req]

QueuedIds == {dial_queue[k].id : k \in DOMAIN dial_queue}

\* Requests that have an outcome, and an outcome for each request in S.
settled == {r \in ReqIds : outcomes[r] > 0}
Report(S) ==
    outcomes' = [r \in ReqIds |-> IF r \in S THEN outcomes[r] + 1 ELSE outcomes[r]]

Init ==
    /\ state = "Active"
    /\ events_out = <<>>
    /\ dial_queue = <<>>
    /\ dial_negotiated = 0
    /\ inbound_substreams = <<>>
    /\ inbound_delay = {}
    /\ outbound_substreams = <<>>
    /\ outbound_delay = {}
    /\ inbound_id = 0
    /\ outbound_id = 0
    /\ io_retries = 0
    /\ negotiating = {}
    /\ owed = {}
    /\ closed = FALSE
    /\ issued = {}
    /\ outcomes = [r \in ReqIds |-> 0]
    /\ leaked = 0

-----------------------------------------------------------------------------
(***************************************************************************)
(* Calls into the handler.                                                 *)
(***************************************************************************)

\* Mutant of send_request: the handler's state is not looked at.
send_request_Always(n) ==
    /\ dial_queue' = Append(dial_queue, n)
    /\ UNCHANGED <<events_out, outcomes>>

\* send_request, for a new request and for one that is retried.
send_request(n) ==
    \/ /\ state = "Active"
       /\ dial_queue' = Append(dial_queue, n)
       /\ UNCHANGED <<events_out, outcomes>>
    \/ /\ state # "Active"
       /\ events_out' = Append(events_out, Err)
       /\ Report({n.id})
       /\ UNCHANGED dial_queue

\* inject_event(RPCSend::Request): the application sends request r.
SendRequest(r, req) ==
    /\ ~closed
    /\ r \notin issued
    /\ issued' = issued \cup {r}
    /\ send_request([id |-> r, req |-> req])
    /\ UNCHANGED <<state, inboundVars, outboundVars, dial_negotiated, io_retries,
                   negotiating, leaked, closed>>

\* inject_event(RPCSend::Response): the application answers request m.  The
\* answer to a Goodbye finds no substream and is dropped.
SendResponse(m) ==
    /\ ~closed
    /\ m \in owed
    /\ owed' = owed \ {m}
    /\ LET response == AppResponse(m.req) IN
       IF m.id \in DOMAIN inbound_substreams
       THEN /\ inbound_substreams' =
                   [inbound_substreams EXCEPT ![m.id].pending = Append(@, response)]
            /\ events_out' = IF response = "Error" THEN Append(events_out, Err)
                                                   ELSE events_out
       ELSE UNCHANGED <<inbound_substreams, events_out>>
    /\ UNCHANGED <<state, inbound_delay, inbound_id, outboundVars, dialVars,
                   closed, issued, outcomes>>

\* Mutant of shutdown: the queue is cleared without reporting the requests.
shutdown_Silent(before, after) ==
    /\ state' = "ShuttingDown"
    /\ events_out' = events_out \o before \o after
    /\ dial_queue' = <<>>
    /\ UNCHANGED outcomes

\* shutdown(None), both callers of which are Active: every queued request
\* is reported as failed.  The events precede and follow those errors.
shutdown(before, after) ==
    /\ state' = "ShuttingDown"
    /\ events_out' = events_out \o before \o Errs(Len(dial_queue)) \o after
    /\ dial_queue' = <<>>
    /\ Report(QueuedIds)

\* inject_fully_negotiated_inbound for a request that is answered.
AcceptRequest(req) ==
    /\ expected_responses(req) > 0
    /\ Cardinality(DOMAIN inbound_substreams) < MAX_INBOUND_SUBSTREAMS
    /\ inbound_substreams' = Insert(inbound_substreams, inbound_id, IdleInfo(req))
    /\ inbound_delay' = inbound_delay \cup {inbound_id}
    /\ events_out' = Append(events_out, Request(inbound_id, req))
    /\ inbound_id' = inbound_id + 1
    /\ UNCHANGED <<state, dial_queue, outcomes>>

\* Mutant of RejectRequest: no early return, the request is passed on.
RejectRequest_PassedOn(req) ==
    /\ expected_responses(req) > 0
    /\ Cardinality(DOMAIN inbound_substreams) >= MAX_INBOUND_SUBSTREAMS
    /\ shutdown(<<Err>>, <<Request(inbound_id, req)>>)
    /\ inbound_id' = inbound_id + 1
    /\ UNCHANGED <<inbound_substreams, inbound_delay>>

\* ... when all substreams are taken: "HandlerRejected", then shutdown.
RejectRequest(req) ==
    /\ expected_responses(req) > 0
    /\ Cardinality(DOMAIN inbound_substreams) >= MAX_INBOUND_SUBSTREAMS
    /\ shutdown(<<Err>>, <<>>)
    /\ UNCHANGED <<inbound_substreams, inbound_delay, inbound_id>>

\* ... for a Goodbye, which has no substream and shuts the handler down.
ReceiveGoodbye(req) ==
    /\ expected_responses(req) = 0
    /\ shutdown(<<>>, <<Request(inbound_id, req)>>)
    /\ inbound_id' = inbound_id + 1
    /\ UNCHANGED <<inbound_substreams, inbound_delay>>

\* inject_fully_negotiated_inbound; unless Active the substream is dropped.
NegotiatedInbound(req) ==
    /\ ~closed
    /\ state = "Active"
    /\ inbound_id < MaxInbound
    /\ \/ AcceptRequest(req)
       \/ RejectRequest(req)
       \/ ReceiveGoodbye(req)
    /\ UNCHANGED <<outboundVars, dial_negotiated, io_retries, negotiating, leaked,
                   owed, closed, issued>>

\* Mutant of NegotiatedOutbound: the substream gets no timer.
NegotiatedOutbound_NoTimer(n) ==
    /\ ~closed
    /\ n \in negotiating
    /\ negotiating' = negotiating \ {n}
    /\ dial_negotiated' = dial_negotiated - 1
    /\ outbound_substreams' =
           IF expected_responses(n.req) > 0
           THEN Insert(outbound_substreams, outbound_id, PendingInfo(n))
           ELSE outbound_substreams
    /\ outbound_id' = outbound_id + expected_responses(n.req)
    /\ Report(IF expected_responses(n.req) > 0 THEN {} ELSE {n.id})
    /\ UNCHANGED <<state, events_out, inboundVars, outbound_delay, dial_queue,
                   io_retries, leaked, closed, issued>>

\* inject_fully_negotiated_outbound: a Goodbye is done once it is sent, any
\* other request waits for its response.
NegotiatedOutbound(n) ==
    /\ ~closed
    /\ n \in negotiating
    /\ negotiating' = negotiating \ {n}
    /\ dial_negotiated' = dial_negotiated - 1
    /\ \/ /\ expected_responses(n.req) > 0
          /\ outbound_substreams' =
                 Insert(outbound_substreams, outbound_id, PendingInfo(n))
          /\ outbound_delay' = outbound_delay \cup {outbound_id}
          /\ outbound_id' = outbound_id + 1
          /\ UNCHANGED outcomes
       \/ /\ expected_responses(n.req) = 0
          /\ Report({n.id})
          /\ UNCHANGED outboundVars
    /\ UNCHANGED <<state, events_out, inboundVars, dial_queue, io_retries, leaked,
                   closed, issued>>

\* Mutant of RetryDial: one retry too many.
RetryDial_OnceMore(n) ==
    /\ ~closed
    /\ n \in negotiating
    /\ io_retries < IO_ERROR_RETRIES
    /\ negotiating' = negotiating \ {n}
    /\ io_retries' = io_retries + 1
    /\ send_request(n)
    /\ leaked' = leaked + 1
    /\ UNCHANGED <<state, inboundVars, outboundVars, dial_negotiated, closed, issued>>

\* inject_dial_upgrade_error, after an I/O error of the upgrade while retries
\* remain: the request goes back to send_request, and the early return skips
\* the decrement of dial_negotiated.
RetryDial(n) ==
    /\ ~closed
    /\ n \in negotiating
    /\ io_retries + 1 < IO_ERROR_RETRIES
    /\ negotiating' = negotiating \ {n}
    /\ io_retries' = io_retries + 1
    /\ send_request(n)
    /\ leaked' = leaked + 1
    /\ UNCHANGED <<state, inboundVars, outboundVars, dial_negotiated, closed, issued>>

\* Mutant of FailDial: the slot is not given back.
FailDial_KeepsSlot(n) ==
    /\ ~closed
    /\ n \in negotiating
    /\ negotiating' = negotiating \ {n}
    /\ io_retries' = 0
    /\ events_out' = Append(events_out, Err)
    /\ Report({n.id})
    /\ UNCHANGED <<state, inboundVars, outboundVars, dial_queue, dial_negotiated,
                   leaked, closed, issued>>

\* inject_dial_upgrade_error, in every other case.  An I/O error that may
\* still be retried never comes here; any other error may come at any time.
FailDial(n) ==
    /\ ~closed
    /\ n \in negotiating
    /\ negotiating' = negotiating \ {n}
    /\ dial_negotiated' = dial_negotiated - 1
    /\ io_retries' = 0
    /\ events_out' = Append(events_out, Err)
    /\ Report({n.id})
    /\ UNCHANGED <<state, inboundVars, outboundVars, dial_queue, leaked, closed,
                   issued>>

-----------------------------------------------------------------------------
(***************************************************************************)
(* poll, one action per return.                                            *)
(***************************************************************************)

\* A queued event is returned before anything else is looked at.
PollEvent ==
    /\ ~closed
    /\ events_out # <<>>
    /\ events_out' = Tail(events_out)
    /\ owed' = IF Head(events_out).type = "Request"
               THEN owed \cup {[id  |-> Head(events_out).id,
                                req |-> Head(events_out).req]}
               ELSE owed
    /\ UNCHANGED <<state, inbound_substreams, inbound_delay, inbound_id,
                   outboundVars, dialVars, closed, issued, outcomes>>

\* poll gets past its first return.
Quiet == ~closed /\ events_out = <<>>

\* Mutant of PollShutdownElapsed: the handler is deactivated but not closed.
PollShutdownElapsed_StaysOpen ==
    /\ Quiet
    /\ state = "ShuttingDown"
    /\ state' = "Deactivated"
    /\ UNCHANGED <<events_out, inboundVars, outboundVars, dialVars, closed, issued,
                   outcomes>>

\* The sleep that shutdown started is over.
PollShutdownElapsed ==
    /\ Quiet
    /\ state = "ShuttingDown"
    /\ state' = "Deactivated"
    /\ closed' = TRUE
    /\ UNCHANGED <<events_out, inboundVars, outboundVars, dialVars, issued, outcomes>>

\* The timer of an inbound substream expired.  An answer that is still
\* waiting gets an Error queued behind it; without one only the event tells.
Expire(info) ==
    [info EXCEPT !.delay_key = FALSE,
                 !.pending = IF @ # <<>> /\ ~close_after(@[Len(@)])
                             THEN Append(@, "Error")
                             ELSE @]

\* Mutant of StartSending: a substream whose timer expired is skipped.
StartSending_OnlyTimely(info) ==
    IF info.state = "Idle" /\ info.pending # <<>> /\ info.delay_key
    THEN [info EXCEPT !.state = "Busy", !.sending = Head(info.pending),
                      !.pending = Tail(info.pending)]
    ELSE info

\* Mutant of StartSending: the newest response is taken, not the oldest.
StartSending_Newest(info) ==
    IF info.state = "Idle" /\ info.pending # <<>>
    THEN [info EXCEPT !.state = "Busy", !.sending = info.pending[Len(info.pending)],
                      !.pending = Tail(info.pending)]
    ELSE info

\* An idle substream starts to send its next response.  It closes after one
\* response, because remaining_chunks is 1 from the start.
StartSending(info) ==
    IF info.state = "Idle" /\ info.pending # <<>>
    THEN [info EXCEPT !.state = "Busy", !.sending = Head(info.pending),
                      !.pending = Tail(info.pending)]
    ELSE info

\* The inbound timers in ex expire: their keys and their entries are gone.
ExpireAll(ex) ==
    [i \in DOMAIN inbound_substreams |->
        IF i \in ex THEN Expire(inbound_substreams[i]) ELSE inbound_substreams[i]]

PollInboundTimers(ex) ==
    /\ inbound_substreams' = ExpireAll(ex)
    /\ inbound_delay' = inbound_delay \ ex
    /\ events_out' = Errs(Cardinality(ex \cap DOMAIN inbound_substreams))

\* Substreams on which a send is under way once the idle ones have started.
Sending == {i \in DOMAIN inbound_substreams :
               StartSending(inbound_substreams[i]).state = "Busy"}

\* Some substream has an answer that the next poll starts to send.
AnswerWaits == \E i \in Sending : inbound_substreams[i].state = "Idle"

\* Mutant of DriveInbound: a substream whose timer expired is dropped.
DriveInbound_DropExpired(ex, sent, failed) ==
    LET ended == sent \cup failed \cup ex IN
    /\ inbound_substreams' = [i \in DOMAIN inbound_substreams \ ended |->
                                 StartSending(inbound_substreams[i])]
    /\ inbound_delay' = inbound_delay \ ended
    /\ events_out' = Errs(Cardinality(ex) + Cardinality(failed))

\* The timers in ex expire, then every substream is driven: those in sent
\* deliver their response and close, those in failed end with an error.
DriveInbound(ex, sent, failed) ==
    LET ended == sent \cup failed IN
    /\ inbound_substreams' = [i \in DOMAIN inbound_substreams \ ended |->
                                 StartSending(ExpireAll(ex)[i])]
    /\ inbound_delay' = (inbound_delay \ ex) \
                            {i \in ended : ExpireAll(ex)[i].delay_key}
    /\ events_out' = Errs(  Cardinality(ex \cap DOMAIN inbound_substreams)
                          + Cardinality(failed))

PollInbound ==
    \E ex \in SUBSET inbound_delay, sent \in SUBSET Sending :
        \E failed \in SUBSET (Sending \ sent) : DriveInbound(ex, sent, failed)

\* DelayQueue::poll_expired fails, for either queue.
PollTimerError ==
    /\ Quiet
    /\ \E ex \in SUBSET inbound_delay : PollInboundTimers(ex)
    /\ closed' = TRUE
    /\ UNCHANGED <<state, inbound_id, owed, outboundVars, dialVars, issued, outcomes>>

\* The timer of outbound substream o expired: the substream is dropped,
\* whether it waits for its response or is closing after it.
PollOutboundTimeout(o) ==
    /\ Quiet
    /\ o \in outbound_delay \cap DOMAIN outbound_substreams
    /\ \E ex \in SUBSET inbound_delay : PollInboundTimers(ex)
    /\ outbound_substreams' = Without(outbound_substreams, {o})
    /\ outbound_delay' = outbound_delay \ {o}
    /\ Report({outbound_substreams[o].req_id})
    /\ UNCHANGED <<state, inbound_id, owed, outbound_id, dialVars, closed, issued>>

Closing == {o \in DOMAIN outbound_substreams :
               outbound_substreams[o].state = "Closing"}

Waiting == DOMAIN outbound_substreams \ Closing

\* Some of the closing substreams, visited in the map's order, are closed.
RemoveClosed(C) ==
    /\ outbound_substreams' = Without(outbound_substreams, C)
    /\ outbound_delay' = outbound_delay \ C

\* Substream o yields a response (a success or an error): it is reported
\* and the substream keeps its timer while it closes.
PollResponse(o) ==
    /\ Quiet
    /\ o \in Waiting
    /\ PollInbound
    /\ \E C \in SUBSET Closing :
        /\ outbound_substreams' =
               [Without(outbound_substreams, C) EXCEPT ![o].state = "Closing"]
        /\ outbound_delay' = outbound_delay \ C
    /\ Report({outbound_substreams[o].req_id})
    /\ UNCHANGED <<state, inbound_id, owed, outbound_id, dialVars, closed, issued>>

\* Mutant of PollStreamEnd: the timer of the dropped substream is kept.
PollStreamEnd_KeepsTimer(o) ==
    /\ Quiet
    /\ o \in Waiting
    /\ PollInbound
    /\ outbound_substreams' = Without(outbound_substreams, {o})
    /\ Report({outbound_substreams[o].req_id})
    /\ UNCHANGED <<state, inbound_id, owed, outbound_delay, outbound_id, dialVars,
                   closed, issued>>

\* Substream o ends or breaks before its response: it is dropped with an error.
PollStreamEnd(o) ==
    /\ Quiet
    /\ o \in Waiting
    /\ PollInbound
    /\ \E C \in SUBSET Closing : RemoveClosed(C \cup {o})
    /\ Report({outbound_substreams[o].req_id})
    /\ UNCHANGED <<state, inbound_id, owed, outbound_id, dialVars, closed, issued>>

CanDial == dial_queue # <<>> /\ dial_negotiated < max_dial_negotiated

\* The oldest queued request asks libp2p for a substream.
PollDial ==
    /\ Quiet
    /\ CanDial
    /\ PollInbound
    /\ \E C \in SUBSET Closing : RemoveClosed(C)
    /\ dial_negotiated' = dial_negotiated + 1
    /\ negotiating' = negotiating \cup {Head(dial_queue)}
    /\ dial_queue' = Tail(dial_queue)
    /\ UNCHANGED <<state, inbound_id, owed, outbound_id, io_retries, leaked, closed,
                   issued, outcomes>>

\* The test that poll makes after everything has been driven, and that
\* connection_keep_alive makes on its own.
Drained ==
    /\ state = "ShuttingDown"
    /\ dial_queue = <<>>
    /\ DOMAIN outbound_substreams = {}
    /\ DOMAIN inbound_substreams = {}
    /\ events_out = <<>>
    /\ dial_negotiated = 0

\* Nothing is left to report or to dial: Close when the shutdown has nothing
\* to wait for, Pending otherwise.
PollTail ==
    /\ Quiet
    /\ ~CanDial
    /\ PollInbound
    /\ \E C \in SUBSET Closing : RemoveClosed(C)
    /\ UNCHANGED <<state, inbound_id, owed, outbound_id, dialVars, issued, outcomes>>
    /\ closed' = Drained'

-----------------------------------------------------------------------------
Next ==
    \/ \E r \in ReqIds, req \in OutboundKinds : SendRequest(r, req)
    \/ \E m \in owed : SendResponse(m)
    \/ \E req \in InboundKinds : NegotiatedInbound(req)
    \/ \E n \in negotiating : NegotiatedOutbound(n) \/ RetryDial(n) \/ FailDial(n)
    \/ PollEvent
    \/ PollShutdownElapsed
    \/ PollTimerError
    \/ \E o \in DOMAIN outbound_substreams :
          PollOutboundTimeout(o) \/ PollResponse(o) \/ PollStreamEnd(o)
    \/ PollDial
    \/ PollTail

Spec == Init /\ [][Next]_vars

(***************************************************************************)
(* Fairness.  libp2p polls a handler again after every event it returns    *)
(* and after every call into it, and wakes it when a timer expires; it     *)
(* ends every negotiation, by a timeout if by nothing else; the event loop *)
(* of main.rs answers every request it is given.  Nothing is assumed of    *)
(* the remote peer: it may never read a response nor send one.             *)
(***************************************************************************)
Fairness ==
    /\ WF_vars(PollEvent)
    /\ WF_vars(PollShutdownElapsed)
    /\ WF_vars(PollDial)
    /\ WF_vars(AnswerWaits /\ PollTail)
    /\ \A o \in 0..Cardinality(ReqIds) : WF_vars(PollOutboundTimeout(o))
    /\ \A n \in [id : ReqIds, req : OutboundKinds] :
          WF_vars(NegotiatedOutbound(n) \/ RetryDial(n) \/ FailDial(n))
    /\ \A m \in [id : 0..MaxInbound, req : InboundKinds] : WF_vars(SendResponse(m))

FairSpec == Spec /\ Fairness

-----------------------------------------------------------------------------
(***************************************************************************)
(* Properties.                                                             *)
(***************************************************************************)
Outgoing == [id : ReqIds, req : OutboundKinds]
Incoming == [id : Nat, req : InboundKinds]
InboundInfo ==
    [state : {"Idle", "Busy"}, sending : Responses \cup {"none"},
     pending : Seq(Responses), protocol : InboundKinds, delay_key : BOOLEAN]
OutboundInfo ==
    [state : {"Pending", "Closing"}, req_id : ReqIds, proto : OutboundKinds]
Events == {Err} \cup [type : {"Request"}, id : Nat, req : InboundKinds]

\* Types of the handler's fields.  The retry counter of
\* inject_dial_upgrade_error stays below IO_ERROR_RETRIES between calls, and
\* substreams and timers only carry ids that have been handed out, so no id
\* is ever used twice.
TypeOK ==
    /\ state \in {"Active", "ShuttingDown", "Deactivated"}
    /\ events_out \in Seq(Events)
    /\ dial_queue \in Seq(Outgoing)
    /\ dial_negotiated \in 0..max_dial_negotiated
    /\ inbound_substreams \in [DOMAIN inbound_substreams -> InboundInfo]
    /\ outbound_substreams \in [DOMAIN outbound_substreams -> OutboundInfo]
    /\ inbound_id \in Nat /\ outbound_id \in Nat
    /\ DOMAIN inbound_substreams \cup inbound_delay \subseteq 0..(inbound_id - 1)
    /\ DOMAIN outbound_substreams \cup outbound_delay \subseteq 0..(outbound_id - 1)
    /\ io_retries \in 0..(IO_ERROR_RETRIES - 1)
    /\ negotiating \subseteq Outgoing /\ IsFiniteSet(negotiating)
    /\ owed \subseteq Incoming
    /\ closed \in BOOLEAN
    /\ issued \subseteq ReqIds /\ outcomes \in [ReqIds -> Nat]
    /\ leaked \in Nat

\* The two DelayQueues hold exactly one live timer per substream that still
\* has its key, whichever of expiry, response, stream error and close comes
\* first.  This is what keeps DelayQueue::remove, called in poll with a
\* stored key, from panicking, and what makes the "timed out substream not
\* in the books" arm dead.
TimersMatchSubstreams ==
    /\ outbound_delay = DOMAIN outbound_substreams
    /\ inbound_delay = {i \in DOMAIN inbound_substreams :
                           inbound_substreams[i].delay_key}

\* dial_negotiated counts the substreams under negotiation plus one slot for
\* every negotiation that ended in the retry branch of
\* inject_dial_upgrade_error, and never goes below zero or above its limit,
\* whatever the order of dials, failures, retries and a shutdown.
NegotiationsAccounted ==
    /\ dial_negotiated = Cardinality(negotiating) + leaked
    /\ dial_negotiated <= max_dial_negotiated

\* After a shutdown nothing is queued for dialling any more, not even by the
\* retry of a negotiation that was under way when the shutdown began.
NoDialAfterShutdown == state # "Active" => dial_queue = <<>>

NegotiatingIds == {n.id : n \in negotiating}
WaitingIds == {outbound_substreams[o].req_id : o \in Waiting}
ClosingIds == {outbound_substreams[o].req_id : o \in Closing}

\* Every request the application sent and that has had no outcome is in
\* exactly one place: queued, under negotiation, or waiting on one
\* substream.  No two substreams, waiting or closing, belong to one request,
\* and one that is closing belongs to a request with exactly one outcome, its
\* response.  None is lost and none is duplicated by retries, timeouts,
\* shutdown or stream errors.
RequestsConserved ==
    /\ settled \subseteq issued
    /\ issued \ settled = QueuedIds \cup NegotiatingIds \cup WaitingIds
    /\ QueuedIds \cap NegotiatingIds = {}
    /\ (QueuedIds \cup NegotiatingIds) \cap WaitingIds = {}
    /\ \A j, k \in DOMAIN dial_queue : dial_queue[j].id = dial_queue[k].id => j = k
    /\ \A m, n \in negotiating : m.id = n.id => m = n
    /\ \A o, p \in DOMAIN outbound_substreams :
          outbound_substreams[o].req_id = outbound_substreams[p].req_id => o = p
    /\ \A o \in Closing : outcomes[outbound_substreams[o].req_id] = 1

\* Requests that are on their way to the application or wait for its answer.
Unanswered ==
    owed \cup {[id |-> events_out[k].id, req |-> events_out[k].req] :
                  k \in {j \in DOMAIN events_out : events_out[j].type = "Request"}}

\* An inbound substream without an answer is one whose request is still on
\* its way to the application or waits there, and for every such request
\* that expects an answer the substream is still there, with the request's
\* own protocol: no accepted request is forgotten and no answer is sent to
\* the wrong substream or finds its substream gone.
AnswersHaveSubstreams ==
    {[id |-> i, req |-> inbound_substreams[i].protocol] :
        i \in {j \in DOMAIN inbound_substreams :
                  /\ inbound_substreams[j].state = "Idle"
                  /\ inbound_substreams[j].pending = <<>>}}
    = {m \in Unanswered : expected_responses(m.req) > 0}

\* The remote peer is sent the application's answer to its own request and
\* nothing else.  The Error that a timeout queues always stands behind that
\* answer, and the substream closes before it is reached.
OnlyAnswersAreSent ==
    \A i \in DOMAIN inbound_substreams :
        LET info   == inbound_substreams[i]
            answer == AppResponse(info.protocol)
        IN  /\ info.state = "Busy" => info.sending = answer
            /\ info.state = "Busy" => info.pending \in {<<>>, <<"Error">>}
            /\ info.state = "Idle" =>
                  info.pending \in {<<>>, <<answer>>, <<answer, "Error">>}

\* The stage of inbound request i, read off its substream.
InboundStage(i) ==
    IF i \notin DOMAIN inbound_substreams THEN [stage |-> "over"]
    ELSE LET info == inbound_substreams[i] IN
         IF info.state = "Busy" THEN [stage |-> "sending", what |-> info.sending]
         ELSE IF info.pending = <<>> THEN [stage |-> "waiting", what |-> info.protocol]
         ELSE [stage |-> "answered", what |-> Head(info.pending)]

\* The stage of call r: responded while its substream closes.
CallStage(r) == IF r \notin issued THEN "idle"
                ELSE IF r \notin settled THEN "open"
                ELSE IF r \in ClosingIds THEN "responded" ELSE "over"

Connection == INSTANCE RPCConnection
    WITH Kinds <- InboundKinds, Calls <- ReqIds,
         inbound <- [i \in 0..(inbound_id - 1) |-> InboundStage(i)],
         calls <- [r \in ReqIds |-> [stage |-> CallStage(r), outcomes |-> outcomes[r]]]

\* The handler implements RPCConnection: timers, retries, the order of the
\* events and the returns of poll do not show.  In particular a request that
\* was passed on is not given up before its answer, not even when its timer
\* expires, the answer that is sent is the one to that request, and no second
\* one follows it.  A call has no outcome before it was made and then one; a
\* second one, which is the last, comes only to a call that got its response,
\* from the timer that its substream keeps while it closes.
ImplementsConnection == Connection!Spec

\* A shutdown ends with Close, even if negotiations or leaked slots never let
\* the handler drain.
ShutdownCompletes == (state = "ShuttingDown") ~> closed

\* Every request the application sends gets an outcome, unless the
\* connection closes or retries have leaked every dial slot.
RequestsSettle ==
    \A r \in ReqIds : (r \in issued) ~>
        (r \in settled \/ closed \/ leaked >= max_dial_negotiated)

\* Every accepted request comes to the point where its answer is being
\* sent, also when its timer expired before the application answered.
AnswersAreSent ==
    \A i \in 0..MaxInbound : (i \in DOMAIN inbound_substreams) ~>
        (closed \/ (i \in DOMAIN inbound_substreams =>
                        inbound_substreams[i].state = "Busy"))
=============================================================================
