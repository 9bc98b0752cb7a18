--------------------------- MODULE PeerDiscovery ---------------------------
(***************************************************************************)
(* PeerManager and Discovery as the event loop of src/main.rs joins them:  *)
(* a DiscoverPeers event of the peer manager is handed to                  *)
(* set_peers_to_discover, an event of discovery to add_peers.  The loop    *)
(* handles an event before it polls the swarm again, so each hand-over is  *)
(* one step of both components.                                            *)
(***************************************************************************)
EXTENDS Naturals, FiniteSets

CONSTANTS
    Peers, target_peer_number, MIN_AVERAGE_CONNECTION_DURATION, Durations,
    U32, OverflowChecks, MaxAttempts, MaxConnections, MaxRestarts,
    Queries

ASSUME QueriesAssumption == IsFiniteSet(Queries)

VARIABLES
    \* The peer manager and its swarm.
    connected_peers, dialling_peers, new_peers, peer_data, peers_to_discover,
    waiting, phase, file, conns, dials, restarts,
    \* Discovery.
    to_discover,        \* its field peers_to_discover
    peers_future,
    event_stream,
    \* History.
    lost                \* queries that failed since the program started

PM == INSTANCE PeerManager
D  == INSTANCE Discovery WITH peers_to_discover <- to_discover

managerVars   == <<connected_peers, dialling_peers, new_peers, peer_data,
                   peers_to_discover, waiting, phase, file, conns, dials, restarts>>
discoveryVars == <<to_discover, peers_future, event_stream>>
vars == <<managerVars, discoveryVars, lost>>

Init == PM!Init /\ D!Init /\ lost = 0

-----------------------------------------------------------------------------
\* Mutant of Ask: the event is received and nothing is done with it.
Ask_Ignored == PM!PollDiscover /\ UNCHANGED <<discoveryVars, lost>>

\* PeerManagerEvent::DiscoverPeers.
Ask == /\ PM!PollDiscover
       /\ D!set_peers_to_discover(peers_to_discover)
       /\ UNCHANGED lost

\* BehaviourEvent::Discovery, with any peers, known or not, or none.
Answer(q, found) ==
    /\ D!PollPeers(q)
    /\ PM!add_peers(found)
    /\ UNCHANGED lost

\* A poll of discovery without an event.
Find == phase = "running" /\ D!PollFind /\ UNCHANGED <<managerVars, lost>>

Pending ==
    /\ phase = "running"
    /\ D!PollPending
    /\ lost' = lost + Cardinality(D!Failed)
    /\ UNCHANGED managerVars

QueryEnds(q, result) ==
    phase = "running" /\ D!QueryEnds(q, result) /\ UNCHANGED <<managerVars, lost>>

\* What the peer manager does without discovery.
ManagerStep == (PM!HeartbeatTick \/ PM!SwarmEvent) /\ UNCHANGED <<discoveryVars, lost>>

End == PM!ProgramEnds /\ D!Reset /\ lost' = 0

Start == PM!ProgramStarts /\ UNCHANGED <<discoveryVars, lost>>

Next ==
    \/ Ask
    \/ \E q \in Queries, found \in SUBSET Peers : Answer(q, found)
    \/ Find
    \/ Pending
    \/ \E q \in Queries, result \in {"ok", "err"} : QueryEnds(q, result)
    \/ ManagerStep
    \/ End
    \/ Start

(***************************************************************************)
(* Fairness.  The swarm is polled again at the latest when the one-second  *)
(* sleep in the select! of main.rs is over, so the polls of both           *)
(* components and the ticks of the heartbeat go on; discv5 ends every      *)
(* query at its timeout.  Nothing is assumed of peers and connections.     *)
(***************************************************************************)
Fairness ==
    /\ WF_vars(Ask)
    /\ WF_vars(Find)
    /\ WF_vars(Pending)
    /\ WF_vars(\E q \in Queries, found \in SUBSET Peers : Answer(q, found))
    /\ \A q \in Queries : WF_vars(\E result \in {"ok", "err"} : QueryEnds(q, result))
    /\ WF_vars(PM!HeartbeatTick /\ UNCHANGED <<discoveryVars, lost>>)
    /\ \A p \in Peers : WF_vars(PM!HeartbeatFinds(p) /\ UNCHANGED <<discoveryVars, lost>>)

Spec == Init /\ [][Next]_vars /\ Fairness

-----------------------------------------------------------------------------
(***************************************************************************)
(* Properties.                                                             *)
(***************************************************************************)

\* Requests for discovery that are somewhere between the two components.
InFlight == (IF to_discover > 0 THEN 1 ELSE 0) + Cardinality(D!Live)

\* waiting_for_peer_discovery is set exactly while one request is on its way
\* through discovery, or its query has failed.  So set_peers_to_discover never
\* overwrites a request, the fresh FuturesUnordered of get_peers never drops
\* a query whose answer somebody needs, and add_peers is never called for a
\* request that was not made.  It also tells what a failed query does: the
\* flag stays set with nothing on its way, and no discovery is ever asked for
\* again.
OneRequestAtATime ==
    phase = "running" => InFlight + lost = IF waiting THEN 1 ELSE 0

\* A request for discovery is answered unless its query fails.
DiscoveryAnswered ==
    (phase = "running" /\ waiting) ~> (phase # "running" \/ ~waiting \/ lost > 0)

\* The peer manager beside discovery is the peer manager on its own: discovery
\* answers only what was asked, and its polls, its queries and their failures
\* change nothing of the manager.
ImplementsPeerManager == PM!Spec

Alive == connected_peers \cup dialling_peers

\* When fewer peers than the target are connected or dialled, the heartbeat
\* and discovery do something about it: the number recovers, or a request
\* for more peers is on its way, unless an earlier query failed.
GapIsActedOn ==
    (phase = "running" /\ Cardinality(Alive) < target_peer_number) ~>
        \/ phase # "running"
        \/ Cardinality(Alive) >= target_peer_number
        \/ InFlight > 0
        \/ lost > 0

\* A dial about which the swarm reports nothing is given up by some
\* heartbeat: its peer leaves dialling_peers and stops counting as alive.
DialsTimeOut == PM!DialsTimeOut
=============================================================================
