------------------------------ MODULE RPCNode ------------------------------
(***************************************************************************)
(* The way of a request through the program: from the handler of its       *)
(* connection to the RPC behaviour (src/rpc/mod.rs), on to the event loop  *)
(* (src/main.rs), and the way of the answer back to the same handler.      *)
(*                                                                         *)
(* Each connection is a task of its own with a handler, here reduced to    *)
(* what RPCConnection promises and its queue of events.  The tasks and the *)
(* swarm talk through bounded channels: one for the events of all          *)
(* connections, one for the commands to each.  libp2p's swarm is external. *)
(* It holds back a command for a connection whose channel is full, and     *)
(* while it does so it does not poll the behaviour, but still takes events *)
(* from the connections; it drops a command for a connection that is gone. *)
(***************************************************************************)
EXTENDS Naturals, Sequences, FiniteSets, RPCProtocol

CONSTANTS
    Conns,         \* connections, of one or of several peers
    Kinds,         \* request kinds the remote peers send
    MaxInbound,    \* bound: requests received, on all connections
    notify_handler_buffer_size,
    connection_event_buffer_size

ASSUME NodeAssumption ==
    /\ Kinds \subseteq Requests
    /\ MaxInbound \in Nat
    /\ notify_handler_buffer_size \in Nat \ {0}
    /\ connection_event_buffer_size \in Nat \ {0}

VARIABLES
    \* Each connection.
    conn,      \* "new", "open", "closing" (a Goodbye was received) or "closed"
    inbound,   \* SubstreamId -> stage of the request, as in RPCConnection
    out,       \* events_out of the handler
    hand,      \* <<e>> while the task waits to send event e to the swarm
    cmds,      \* commands sent to the connection
    \* The swarm.
    up,        \* events the connections have sent
    pending,   \* <<c>> while command c is held back
    \* RPC.
    events

connVars  == <<conn, inbound, out, hand, cmds>>
vars == <<connVars, up, pending, events>>

\* An event of the handler of c, and the RPCSend::Response to c's substream i.
Request(c, i, req)  == [type |-> "Request", conn |-> c, id |-> i, what |-> req]
Err(c)              == [type |-> "Err", conn |-> c]
Response(c, i, rsp) == [type |-> "Response", conn |-> c, id |-> i, what |-> rsp]

Init ==
    /\ conn = [c \in Conns |-> "new"]
    /\ inbound = [c \in Conns |-> <<>>]
    /\ out = [c \in Conns |-> <<>>]
    /\ hand = [c \in Conns |-> <<>>]
    /\ cmds = [c \in Conns |-> <<>>]
    /\ up = <<>>
    /\ pending = <<>>
    /\ events = <<>>

-----------------------------------------------------------------------------
(***************************************************************************)
(* The task of connection c.  It does nothing else while it waits to hand  *)
(* an event to the swarm.                                                  *)
(***************************************************************************)
Running(c) == conn[c] \in {"open", "closing"} /\ hand[c] = <<>>

\* A connection is established: new_handler.
Open(c) ==
    /\ conn[c] = "new"
    /\ conn' = [conn EXCEPT ![c] = "open"]
    /\ UNCHANGED <<inbound, out, hand, cmds, up, pending, events>>

Received == UNION {{c} \X DOMAIN inbound[c] : c \in Conns}

\* The handler accepts a request and queues it for the behaviour.
Receive(c, req) ==
    LET i == Cardinality(DOMAIN inbound[c]) IN
    /\ Running(c) /\ conn[c] = "open"
    /\ Cardinality(Received) < MaxInbound
    /\ inbound' = [inbound EXCEPT ![c] =
                      [j \in 0..i |-> IF j < i THEN @[j]
                                      ELSE IF expected_responses(req) > 0
                                      THEN [stage |-> "waiting", what |-> req]
                                      ELSE [stage |-> "over"]]]
    /\ out' = [out EXCEPT ![c] = Append(@, Request(c, i, req))]
    /\ conn' = [conn EXCEPT ![c] = IF expected_responses(req) > 0 THEN @ ELSE "closing"]
    /\ UNCHANGED <<hand, cmds, up, pending, events>>

\* The handler's poll returns its oldest event.
Emit(c) ==
    /\ Running(c)
    /\ out[c] # <<>>
    /\ hand' = [hand EXCEPT ![c] = <<Head(out[c])>>]
    /\ out' = [out EXCEPT ![c] = Tail(@)]
    /\ UNCHANGED <<conn, inbound, cmds, up, pending, events>>

\* The event goes into the channel when there is room.
Deliver(c) ==
    /\ conn[c] # "closed"
    /\ hand[c] # <<>>
    /\ Len(up) < connection_event_buffer_size
    /\ up' = Append(up, Head(hand[c]))
    /\ hand' = [hand EXCEPT ![c] = <<>>]
    /\ UNCHANGED <<conn, inbound, out, cmds, pending, events>>

\* The handler is given the answer to request i, which is dropped if no
\* substream waits for it.
Command(c) ==
    LET m == Head(cmds[c]) IN
    /\ Running(c)
    /\ cmds[c] # <<>>
    /\ cmds' = [cmds EXCEPT ![c] = Tail(@)]
    /\ inbound' = IF m.id \in DOMAIN inbound[c] /\ inbound[c][m.id].stage # "over"
                  THEN [inbound EXCEPT ![c][m.id] = [stage |-> "answered", what |-> m.what]]
                  ELSE inbound
    /\ UNCHANGED <<conn, out, hand, up, pending, events>>

\* An answer has been sent, or its sending has failed.
Transmit(c, i, report) ==
    /\ Running(c)
    /\ out[c] = <<>>
    /\ inbound[c][i].stage = "answered"
    /\ inbound' = [inbound EXCEPT ![c][i] = [stage |-> "over"]]
    /\ out' = [out EXCEPT ![c] = report]
    /\ UNCHANGED <<conn, hand, cmds, up, pending, events>>

\* The connection is lost or the handler closes it.  What has not left the
\* task is gone with it.
Close(c) ==
    /\ conn[c] \in {"open", "closing"}
    /\ conn' = [conn EXCEPT ![c] = "closed"]
    /\ out' = [out EXCEPT ![c] = <<>>]
    /\ hand' = [hand EXCEPT ![c] = <<>>]
    /\ cmds' = [cmds EXCEPT ![c] = <<>>]
    /\ UNCHANGED <<inbound, up, pending, events>>

-----------------------------------------------------------------------------
(***************************************************************************)
(* The swarm, the behaviour and the event loop, in one task.               *)
(***************************************************************************)
CanNotify(m) == conn[m.conn] = "closed" \/ Len(cmds[m.conn]) < notify_handler_buffer_size

\* The command goes to its connection, or nowhere if that is closed.
SwarmNotify ==
    /\ pending # <<>>
    /\ CanNotify(Head(pending))
    /\ LET m == Head(pending) IN
       cmds' = [cmds EXCEPT ![m.conn] = IF conn[m.conn] = "closed" THEN @ ELSE Append(@, m)]
    /\ pending' = <<>>
    /\ UNCHANGED <<conn, inbound, out, hand, up, events>>

\* Mutant of inject_event: there is room for one event only.
inject_event_Overwrite(m) == events' = <<m>>

\* RPC::inject_event.
inject_event(m) == events' = Append(events, m)

\* The swarm looks at the connections once the behaviour has nothing more
\* for it, or while it holds back a command.
SwarmTakes ==
    /\ up # <<>>
    /\ IF pending = <<>> THEN events = <<>> ELSE ~CanNotify(Head(pending))
    /\ inject_event(Head(up))
    /\ up' = Tail(up)
    /\ UNCHANGED <<connVars, pending>>

\* Mutant of send_response: NotifyHandler::Any, as in _send_request.
send_response_Any(c, i, response) ==
    LET live == {d \in Conns : conn[d] = "open"} IN
    Response(IF live = {} THEN c ELSE CHOOSE d \in live : TRUE, i, response)

\* RPC::send_response: the command it appends to events.
send_response(c, i, response) == Response(c, i, response)

\* The event loop handles a message of the behaviour: a request is answered,
\* an error is logged.  Nothing sends requests, so there are no responses.
EventLoop(m) ==
    IF m.type = "Request"
    THEN <<send_response(m.conn, m.id, AppResponse(m.what))>>
    ELSE <<>>

\* Mutant of Poll: the event is returned but not removed.
Poll_Kept ==
    /\ pending = <<>>
    /\ events # <<>>
    /\ LET m == Head(events) IN
       IF m.type = "Response"
       THEN pending' = <<m>> /\ events' = Tail(events)
       ELSE events' = Append(Tail(events), m) \o EventLoop(m) /\ UNCHANGED pending
    /\ UNCHANGED <<connVars, up>>

\* RPC::poll returns the oldest of events: a command, which the swarm takes,
\* or a message, which the event loop handles before it polls again.
Poll ==
    /\ pending = <<>>
    /\ events # <<>>
    /\ LET m == Head(events) IN
       IF m.type = "Response"
       THEN pending' = <<m>> /\ events' = Tail(events)
       ELSE events' = Tail(events) \o EventLoop(m) /\ UNCHANGED pending
    /\ UNCHANGED <<connVars, up>>

-----------------------------------------------------------------------------
Next ==
    \/ \E c \in Conns :
          \/ Open(c)
          \/ \E req \in Kinds : Receive(c, req)
          \/ Emit(c)
          \/ Deliver(c)
          \/ Command(c)
          \/ \E i \in DOMAIN inbound[c], report \in {<<>>, <<Err(c)>>} :
                Transmit(c, i, report)
          \/ Close(c)
    \/ SwarmNotify
    \/ SwarmTakes
    \/ Poll

(***************************************************************************)
(* Fairness.  Every task is woken when it has something to do: the swarm's *)
(* by its channels and the loop of main.rs, a connection's by commands and *)
(* by room in the channel.  Nothing is assumed of the remote peers: they   *)
(* may never read an answer.                                               *)
(***************************************************************************)
Fairness ==
    /\ WF_vars(Poll)
    /\ WF_vars(SwarmNotify)
    /\ WF_vars(SwarmTakes)
    /\ \A c \in Conns : WF_vars(Emit(c)) /\ WF_vars(Deliver(c)) /\ WF_vars(Command(c))

Spec == Init /\ [][Next]_vars /\ Fairness

-----------------------------------------------------------------------------
(***************************************************************************)
(* Properties.                                                             *)
(***************************************************************************)

\* Everything that is under way from the handler of connection c to the
\* event loop and back, and whether m in it is about c's request i.
Flow(c) == out[c] \o hand[c] \o up \o events \o pending \o cmds[c]
IsAbout(m, c, i) == m.conn = c /\ m.type # "Err" /\ m.id = i

\* For every request that waits on a connection exactly one thing is under
\* way between handler, behaviour and event loop: the request itself or its
\* answer.  It bears the request's own connection and substream and the right
\* content, and nothing is under way for a request that has its answer.  So
\* no answer reaches the substream of another request or connection, none is
\* lost and none is given twice, while connections come and go.
OneAnswerUnderWay ==
    \A c \in {d \in Conns : conn[d] # "closed"} : \A i \in DOMAIN inbound[c] :
        LET about == {k \in DOMAIN Flow(c) : IsAbout(Flow(c)[k], c, i)}
        IN  CASE inbound[c][i].stage = "waiting" ->
                   /\ Cardinality(about) = 1
                   /\ \A k \in about :
                         Flow(c)[k].what = IF Flow(c)[k].type = "Request"
                                           THEN inbound[c][i].what
                                           ELSE AppResponse(inbound[c][i].what)
              [] inbound[c][i].stage = "answered" -> about = {}
              [] OTHER -> \A k \in about :
                             Flow(c)[k].what \in {"Goodbye", AppResponse("Goodbye")}

Connection(c) == INSTANCE RPCConnection
    WITH Calls <- {}, inbound <- inbound[c], calls <- <<>>,
         closed <- conn[c] = "closed"

\* On every connection the node does what RPCConnection promises: a request
\* is answered with its own answer, once, whatever happens on the others.
\* (The quantifier stands inside the box, which says the same as
\* \A c \in Conns : Connection(c)!Spec.)
ConnectionsImplemented ==
    /\ \A c \in Conns : Connection(c)!Init
    /\ [][\A c \in Conns : \/ Connection(c)!Next
                           \/ UNCHANGED <<inbound[c], conn[c] = "closed">>]_vars

WaitsForAnswer(c, i) == i \in DOMAIN inbound[c] /\ inbound[c][i].stage = "waiting"

\* Every request that a live connection passes on gets its answer, also with
\* all channels full: handlers that wait for room in the event channel and a
\* swarm that holds back a command never wait for each other, and a remote
\* peer that reads nothing holds up no one else.
AnswersArrive ==
    \A c \in Conns, i \in 0..(MaxInbound - 1) :
        WaitsForAnswer(c, i) ~> (conn[c] = "closed" \/ ~WaitsForAnswer(c, i))
=============================================================================
