--------------------------- MODULE RPCConnection ---------------------------
(***************************************************************************)
(* What the RPC side of one connection promises, whatever its queues,      *)
(* timers and polls: RPCHandler implements this specification.             *)
(*                                                                         *)
(* Inbound, a request that expects an answer waits until the application   *)
(* has answered it, is sent that answer and nothing else, once, and is     *)
(* never given up before that while the connection lives.  Outbound, a     *)
(* call gets no outcome before it was made and one after it.  There is one *)
(* exception: a call that got a response may then be reported as timed     *)
(* out, once, as the timer of its substream runs until the substream has   *)
(* closed.  After the connection has closed nothing happens.               *)
(***************************************************************************)
EXTENDS Naturals, FiniteSets, RPCProtocol

CONSTANTS
    Kinds,     \* request kinds the remote peer sends
    Calls      \* ids the application gives its own requests

VARIABLES
    inbound,   \* SubstreamId -> stage of the request received under it
    calls,     \* stage of each call and the number of its outcomes
    closed

vars == <<inbound, calls, closed>>

\* The stages of a request, in the order it passes through them.
Waits(req)    == [stage |-> "waiting", what |-> req]
Answered(rsp) == [stage |-> "answered", what |-> rsp]
Sends(rsp)    == [stage |-> "sending", what |-> rsp]
Over          == [stage |-> "over"]

\* The stages of a call: made, with its response while the substream closes,
\* and done with n outcomes.
Idle      == [stage |-> "idle", outcomes |-> 0]
Open      == [stage |-> "open", outcomes |-> 0]
Responded == [stage |-> "responded", outcomes |-> 1]
Done(n)   == [stage |-> "over", outcomes |-> n]

Init ==
    /\ inbound = <<>>
    /\ calls = [r \in Calls |-> Idle]
    /\ closed = FALSE

\* Stages a call can be in after the connection has worked on it.  The
\* substream of a call with a response closes or is timed out.
CallAfter(c) ==
    CASE c.stage = "open"      -> {c, Responded, Done(1)}
      [] c.stage = "responded" -> {c, Done(1), Done(2)}
      [] OTHER                 -> {c}

\* Some calls get an outcome.
Settle == \A r \in Calls : calls'[r] \in CallAfter(calls[r])

\* The next request gets the next id; one that expects no answer is over.
\* The shutdown that a Goodbye or an overload begins settles calls.
Receive(req) ==
    /\ inbound' = [i \in DOMAIN inbound \cup {Cardinality(DOMAIN inbound)} |->
                      IF i \in DOMAIN inbound THEN inbound[i]
                      ELSE IF expected_responses(req) > 0 THEN Waits(req) ELSE Over]
    /\ Settle
    /\ UNCHANGED closed

\* The application answers request i, with the answer to that request.
Answer(i) ==
    /\ inbound[i].stage = "waiting"
    /\ inbound' = [inbound EXCEPT ![i] = Answered(AppResponse(inbound[i].what))]
    /\ UNCHANGED <<calls, closed>>

\* A call is made.  It may fail at once.
Call(r) ==
    /\ calls[r] = Idle
    /\ \E c \in {Open, Done(1)} : calls' = [calls EXCEPT ![r] = c]
    /\ UNCHANGED <<inbound, closed>>

\* Stages a request can be in after the connection has worked on it.
After(s) ==
    CASE s.stage = "answered" -> {s, Sends(s.what), Over}
      [] s.stage = "sending"  -> {s, Over}
      [] OTHER                -> {s}

\* Answers are sent, calls get their outcomes, the connection may close.
Work ==
    /\ DOMAIN inbound' = DOMAIN inbound
    /\ \A i \in DOMAIN inbound : inbound'[i] \in After(inbound[i])
    /\ Settle
    /\ closed' \in BOOLEAN

Next ==
    /\ ~closed
    /\ \/ \E req \in Kinds : Receive(req)
       \/ \E i \in DOMAIN inbound : Answer(i)
       \/ \E r \in Calls : Call(r)
       \/ Work

Spec == Init /\ [][Next]_vars
=============================================================================
