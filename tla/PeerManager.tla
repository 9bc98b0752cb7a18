----------------------------- MODULE PeerManager -----------------------------
(***************************************************************************)
(* PeerManager (src/peer_manager.rs): keeps the number of connected and    *)
(* dialling peers at a target.  On every heartbeat it gives up dials that  *)
(* take too long, redials peers that once stayed connected, dials newly    *)
(* discovered peers and asks for the discovery of what is still missing.   *)
(* What it learned of each peer is saved when the program ends and loaded  *)
(* when it starts again.                                                   *)
(*                                                                         *)
(* The swarm around it is external: it carries out dials, accepts inbound  *)
(* connections from any peer, may hold several connections to a peer, and  *)
(* reports each through on_swarm_event.  Both run in the event loop of     *)
(* main.rs, so every call is atomic and the event a poll returns           *)
(* (DiscoverPeers, DialPeers) is handled before the next call.             *)
(*                                                                         *)
(* Time is abstract: a dial is late when the heartbeat says so, and a      *)
(* connection lasted for any of Durations.                                 *)
(***************************************************************************)
EXTENDS Integers, FiniteSets, Functions

CONSTANTS
    Peers,
    target_peer_number,
    MIN_AVERAGE_CONNECTION_DURATION,
    Durations,       \* how long a connection may have lasted
    U32,             \* the modulus of u32 arithmetic, 2^32 in the program
    OverflowChecks,  \* a debug build panics on overflow, a release build wraps
    MaxAttempts,     \* bound: entries in one peer's connection_history
    MaxConnections,  \* bound: connections to one peer
    MaxRestarts      \* bound: restarts of the program

ASSUME NumbersAssumption ==
    /\ target_peer_number \in Nat
    /\ MIN_AVERAGE_CONNECTION_DURATION \in Nat
    /\ Durations \subseteq Nat
    /\ U32 \in Nat \ {0}
    /\ target_peer_number < U32
    /\ OverflowChecks \in BOOLEAN
    /\ MaxAttempts \in Nat /\ MaxConnections \in Nat /\ MaxRestarts \in Nat

ASSUME PeersAssumption == IsFiniteSet(Peers) /\ Cardinality(Peers) < U32

VARIABLES
    connected_peers,
    dialling_peers,
    new_peers,
    peer_data,          \* known peer -> PeerData
    peers_to_discover,
    waiting,            \* waiting_for_peer_discovery
    phase,              \* "running", "stopped" or "panicked"
    file,               \* the peer data file
    \* The swarm.
    conns,              \* established connections to each peer
    dials,              \* dials of each peer under way
    restarts

manager == <<connected_peers, dialling_peers, new_peers, peer_data,
             peers_to_discover, waiting>>
swarm == <<conns, dials>>
vars == <<manager, phase, file, swarm, restarts>>

-----------------------------------------------------------------------------
\* average_connection_duration: None before the first attempt has ended.
NoAverage == -1

\* PeerData, with connection_history reduced to its length and to the
\* status of its last entry and whether that entry was ever established.
NewPeer == [attempts |-> 0, status |-> "None", est |-> FALSE, avg |-> NoAverage]

get_peer_score(data) == IF data.avg = NoAverage THEN 0 ELSE data.avg

HasHistory(p) == p \in DOMAIN peer_data /\ peer_data[p].attempts > 0

\* u32 subtraction without overflow checks.
Sub32(a, b) == (a - b) % U32

\* Mutant of update_average_connection_duration: the old average weighs one
\* attempt too much.
update_average_Overweight(data, duration) ==
    IF data.avg = NoAverage
    THEN duration
    ELSE (data.avg * data.attempts + duration) \div data.attempts

\* The running average over all attempts; the first duration starts it.
update_average_connection_duration(data, duration) ==
    IF data.avg = NoAverage
    THEN duration
    ELSE (data.avg * (data.attempts - 1) + duration) \div data.attempts

\* PeerData after on_connection_closed: a last entry that was never
\* established counts as duration 0.
Disconnected(data, d) ==
    [data EXCEPT !.status = "Disconnected",
                 !.avg = update_average_connection_duration(
                             data, IF data.est THEN d ELSE 0)]

\* PeerData after on_dial_failure.
Failed(data) ==
    [data EXCEPT !.status = "Failed",
                 !.avg = update_average_connection_duration(data, 0)]

\* Mutant of Connecting: the last entry is reused instead of a fresh one.
Connecting_SameEntry(data) == [data EXCEPT !.status = "Connecting", !.est = FALSE]

\* PeerData after peer_connecting: a fresh entry.
Connecting(data) ==
    [data EXCEPT !.attempts = @ + 1, !.status = "Connecting", !.est = FALSE]

Init ==
    /\ connected_peers = {}
    /\ dialling_peers = {}
    /\ new_peers = {}
    /\ peer_data = <<>>
    /\ peers_to_discover = 0
    /\ waiting = FALSE
    /\ phase = "running"
    /\ file = [kind |-> "none", data |-> <<>>]
    /\ conns = [p \in Peers |-> 0]
    /\ dials = [p \in Peers |-> 0]
    /\ restarts = 0

Panic == phase' = "panicked" /\ UNCHANGED <<manager, file, swarm, restarts>>

-----------------------------------------------------------------------------
(***************************************************************************)
(* poll.                                                                   *)
(***************************************************************************)
DiscoverReady == ~waiting /\ peers_to_discover > 0

\* poll asks for the discovery of peers_to_discover peers.
PollDiscover ==
    /\ phase = "running"
    /\ DiscoverReady
    /\ peers_to_discover' = 0
    /\ waiting' = TRUE
    /\ UNCHANGED <<connected_peers, dialling_peers, new_peers, peer_data, phase, file,
                   swarm, restarts>>

\* Peers whose dial the heartbeat may find to have taken too long.
Overdue == {p \in dialling_peers : HasHistory(p) /\ peer_data[p].status = "Connecting"}

\* Mutant of TimedOut: late peers get their status but stay in dialling_peers.
TimedOut_Kept(late) == {p \in dialling_peers : ~HasHistory(p)}

\* timeout_dialling_peers: the peers in late are given up, and so is any
\* dialling peer without a connection history.
TimedOut(late) == late \cup {p \in dialling_peers : ~HasHistory(p)}

TimeoutData(late) ==
    [p \in DOMAIN peer_data |->
        IF p \in late THEN [peer_data[p] EXCEPT !.status = "Timeout"] ELSE peer_data[p]]

\* The candidates of get_best_peers_for_redial.
Redialable(data) ==
    {p \in DOMAIN data :
        /\ data[p].status \in {"Failed", "Disconnected"}
        /\ get_peer_score(data[p]) > MIN_AVERAGE_CONNECTION_DURATION}

\* The first n candidates, sorted by ascending score: every choice of n
\* candidates none of which scores more than one left out.
get_best_peers_for_redial(data, n) ==
    {S \in SUBSET Redialable(data) :
        /\ Cardinality(S) <= n
        /\ Cardinality(S) < n => S = Redialable(data)
        /\ \A p \in S, q \in Redialable(data) \ S :
              get_peer_score(data[p]) <= get_peer_score(data[q])}

\* The first n new peers in the arbitrary order of the hash set.
get_new_peers_for_dialling(n) ==
    {S \in SUBSET new_peers :
        Cardinality(S) <= n /\ (Cardinality(S) < n => S = new_peers)}

\* Mutant of connected_and_dialling_peers: dials under way are not counted.
connected_only(late) == connected_peers

connected_and_dialling_peers(late) ==
    connected_peers \cup (dialling_peers \ TimedOut(late))

\* Mutant of TimeoutAndDial: dialled peers stay new.
TimeoutAndDial_StillNew(late, D) ==
    /\ peer_data' = [p \in DOMAIN peer_data |->
                        IF p \in D THEN Connecting(TimeoutData(late)[p])
                                   ELSE TimeoutData(late)[p]]
    /\ dialling_peers' = (dialling_peers \ TimedOut(late)) \cup D
    /\ dials' = [p \in Peers |-> IF p \in D /\ conns[p] = 0 THEN dials[p] + 1
                                                            ELSE dials[p]]
    /\ UNCHANGED new_peers

\* The late dials are given up; then the peers in D, chosen by
\* get_peers_to_dial, get a new history entry.  main.rs hands them to
\* gossipsub, which dials the ones it is not connected to.
TimeoutAndDial(late, D) ==
    /\ peer_data' = [p \in DOMAIN peer_data |->
                        IF p \in D THEN Connecting(TimeoutData(late)[p])
                                   ELSE TimeoutData(late)[p]]
    /\ dialling_peers' = (dialling_peers \ TimedOut(late)) \cup D
    /\ new_peers' = new_peers \ D
    /\ dials' = [p \in Peers |-> IF p \in D /\ conns[p] = 0 THEN dials[p] + 1
                                                            ELSE dials[p]]

\* One tick of the heartbeat that finds missing peers.  Ticks in a burst have
\* the effect of one, so a tick is taken only when poll would not first ask
\* for discovery.
Heartbeat(late) ==
    LET live    == Cardinality(connected_and_dialling_peers(late))
        missing == Sub32(target_peer_number, live)
    IN
    /\ phase = "running"
    /\ ~DiscoverReady
    /\ late \subseteq Overdue
    /\ ~(OverflowChecks /\ live > target_peer_number)
    /\ \/ /\ missing > peers_to_discover \div 4
          /\ \E R \in get_best_peers_for_redial(TimeoutData(late), missing) :
             \E N \in get_new_peers_for_dialling(missing - Cardinality(R)) :
                /\ \A p \in R : peer_data[p].attempts < MaxAttempts
                /\ TimeoutAndDial(late, R \cup N)
                /\ peers_to_discover' = missing - Cardinality(R \cup N)
       \/ /\ missing <= peers_to_discover \div 4
          /\ TimeoutAndDial(late, {})
          /\ UNCHANGED peers_to_discover
    /\ UNCHANGED <<connected_peers, waiting, phase, file, conns, restarts>>

\* A debug build panics when more peers than the target are alive.
HeartbeatOverflow(late) ==
    /\ phase = "running"
    /\ ~DiscoverReady
    /\ late \subseteq Overdue
    /\ OverflowChecks
    /\ Cardinality(connected_and_dialling_peers(late)) > target_peer_number
    /\ Panic

-----------------------------------------------------------------------------
(***************************************************************************)
(* Calls from the event loop and the swarm.                                *)
(***************************************************************************)

\* Mutant of add_peers: known peers are not skipped.
add_peers_Overwrite(found) ==
    /\ phase = "running"
    /\ peer_data' = [p \in DOMAIN peer_data \cup found |->
                        IF p \in found THEN NewPeer ELSE peer_data[p]]
    /\ new_peers' = new_peers \cup found
    /\ waiting' = FALSE
    /\ UNCHANGED <<connected_peers, dialling_peers, peers_to_discover, phase, file,
                   swarm, restarts>>

\* add_peers: known peers are skipped.
add_peers(found) ==
    /\ phase = "running"
    /\ LET fresh == found \ DOMAIN peer_data IN
       /\ peer_data' = [p \in DOMAIN peer_data \cup fresh |->
                           IF p \in fresh THEN NewPeer ELSE peer_data[p]]
       /\ new_peers' = new_peers \cup fresh
    /\ waiting' = FALSE
    /\ UNCHANGED <<connected_peers, dialling_peers, peers_to_discover, phase, file,
                   swarm, restarts>>

\* on_connection_established; unwrap and expect need a connection history.
on_connection_established(p) ==
    /\ HasHistory(p)
    /\ peer_data' = [peer_data EXCEPT ![p].status = "Connected", ![p].est = TRUE]
    /\ connected_peers' = connected_peers \cup {p}
    /\ dialling_peers' = dialling_peers \ {p}
    /\ conns' = [conns EXCEPT ![p] = @ + 1]
    /\ UNCHANGED <<new_peers, peers_to_discover, waiting, phase, file, restarts>>

\* A dial under way succeeds, be it late or not.
OutboundEstablished(p) ==
    /\ phase = "running"
    /\ dials[p] > 0
    /\ conns[p] < MaxConnections
    /\ dials' = [dials EXCEPT ![p] = @ - 1]
    /\ on_connection_established(p)

\* The program listens, so any peer may connect to it.
InboundEstablished(p) ==
    /\ phase = "running"
    /\ conns[p] < MaxConnections
    /\ UNCHANGED dials
    /\ on_connection_established(p)

\* A peer connects that was never dialled: unwrap or expect panics.  The
\* other reports cannot be about such a peer (HistoryForEveryAttempt).
InboundPanic(p) ==
    /\ phase = "running"
    /\ conns[p] < MaxConnections
    /\ ~HasHistory(p)
    /\ Panic

\* on_connection_closed, for any one of the connections to p.
on_connection_closed(p, d) ==
    /\ phase = "running"
    /\ conns[p] > 0
    /\ HasHistory(p)
    /\ conns' = [conns EXCEPT ![p] = @ - 1]
    /\ peer_data' = [peer_data EXCEPT ![p] = Disconnected(@, d)]
    /\ connected_peers' = connected_peers \ {p}
    /\ UNCHANGED <<dialling_peers, new_peers, peers_to_discover, waiting, phase, file,
                   dials, restarts>>

\* on_dial_failure, be the dial late or not.
on_dial_failure(p) ==
    /\ phase = "running"
    /\ dials[p] > 0
    /\ HasHistory(p)
    /\ dials' = [dials EXCEPT ![p] = @ - 1]
    /\ peer_data' = [peer_data EXCEPT ![p] = Failed(@)]
    /\ dialling_peers' = dialling_peers \ {p}
    /\ UNCHANGED <<connected_peers, new_peers, peers_to_discover, waiting, phase, file,
                   conns, restarts>>

-----------------------------------------------------------------------------
(***************************************************************************)
(* The end of the program and its next start.                              *)
(***************************************************************************)

\* The process is gone and with it the peer manager and its connections.
Gone ==
    /\ phase' = "stopped"
    /\ connected_peers' = {}
    /\ dialling_peers' = {}
    /\ new_peers' = {}
    /\ peer_data' = <<>>
    /\ peers_to_discover' = 0
    /\ waiting' = FALSE
    /\ conns' = [p \in Peers |-> 0]
    /\ dials' = [p \in Peers |-> 0]
    /\ UNCHANGED restarts

\* Mutant of save_peer_data: the peers are not disconnected first.
save_peer_data_Connected(lasted) ==
    /\ phase = "running"
    /\ file' = [kind |-> "ok", data |-> peer_data]
    /\ Gone

\* save_peer_data at the end of main: disconnect_all_peers, then the file.
save_peer_data(lasted) ==
    /\ phase = "running"
    /\ file' = [kind |-> "ok",
                data |-> [p \in DOMAIN peer_data |->
                             IF p \in connected_peers
                             THEN Disconnected(peer_data[p], lasted[p])
                             ELSE peer_data[p]]]
    /\ Gone

\* The program is killed before it saves.
Kill == phase = "running" /\ UNCHANGED file /\ Gone

\* It is killed after File::create has emptied the file, before write_all is
\* done.
KillDuringSave ==
    /\ phase = "running"
    /\ file' = [kind |-> "torn", data |-> <<>>]
    /\ Gone

\* main starts: new, then load_peer_data.
load_peer_data ==
    /\ phase = "stopped"
    /\ restarts < MaxRestarts
    /\ file.kind # "torn"
    /\ restarts' = restarts + 1
    /\ phase' = "running"
    /\ peer_data' = IF file.kind = "ok" THEN file.data ELSE <<>>
    /\ UNCHANGED <<connected_peers, dialling_peers, new_peers, peers_to_discover, waiting,
                   file, swarm>>

\* A torn file cannot be deserialized: expect panics.
LoadPanic ==
    /\ phase = "stopped"
    /\ file.kind = "torn"
    /\ Panic

-----------------------------------------------------------------------------
HeartbeatTick == \E late \in SUBSET Overdue : Heartbeat(late) \/ HeartbeatOverflow(late)

SwarmEvent ==
    \E p \in Peers :
        \/ OutboundEstablished(p)
        \/ InboundEstablished(p)
        \/ InboundPanic(p)
        \/ \E d \in Durations : on_connection_closed(p, d)
        \/ on_dial_failure(p)

ProgramEnds ==
    \/ \E lasted \in [connected_peers -> Durations] : save_peer_data(lasted)
    \/ Kill
    \/ KillDuringSave

ProgramStarts == load_peer_data \/ LoadPanic

\* Here discovery answers whenever it was asked, with any peers; PeerDiscovery
\* puts the code of discovery in its place.
Next ==
    \/ PollDiscover
    \/ HeartbeatTick
    \/ \E found \in SUBSET Peers : waiting /\ add_peers(found)
    \/ SwarmEvent
    \/ ProgramEnds
    \/ ProgramStarts

Spec == Init /\ [][Next]_vars

\* A dial of p that stays under way is late at some tick of the heartbeat.
HeartbeatFinds(p) ==
    \E late \in SUBSET Overdue :
        p \in late /\ (Heartbeat(late) \/ HeartbeatOverflow(late))

-----------------------------------------------------------------------------
(***************************************************************************)
(* Properties.                                                             *)
(***************************************************************************)
Statuses == {"None", "Connecting", "Connected", "Disconnected", "Failed", "Timeout"}
PeerData == [attempts : Nat, status : Statuses, est : BOOLEAN, avg : Nat \cup {NoAverage}]

\* Types of the peer manager's fields.  A peer has a status exactly when it
\* has a connection history, and peers_to_discover fits a u32.
TypeOK ==
    /\ connected_peers \subseteq Peers
    /\ dialling_peers \subseteq Peers
    /\ new_peers \subseteq Peers
    /\ DOMAIN peer_data \subseteq Peers
    /\ peer_data \in [DOMAIN peer_data -> PeerData]
    /\ \A p \in DOMAIN peer_data :
          (peer_data[p].status = "None") <=> (peer_data[p].attempts = 0)
    /\ peers_to_discover \in 0..(U32 - 1)
    /\ waiting \in BOOLEAN
    /\ phase \in {"running", "stopped", "panicked"}
    /\ file.kind \in {"none", "ok", "torn"}
    /\ DOMAIN file.data \subseteq Peers
    /\ file.data \in [DOMAIN file.data -> PeerData]
    /\ conns \in [Peers -> Nat]
    /\ dials \in [Peers -> Nat]
    /\ restarts \in Nat

\* Every peer that is connected, dialled, or counted as either has a
\* connection history, whatever the order of timeouts, late answers,
\* inbound connections and restarts: the unwrap and expect calls of
\* on_connection_closed, on_dial_failure and update_average_connection_duration
\* cannot fail, and those of on_connection_established only for a peer that
\* connects without ever having been dialled.  (The run is of one process, the
\* theorem covers restarts.)
HistoryForEveryAttempt ==
    \A p \in Peers :
        (conns[p] > 0 \/ dials[p] > 0 \/ p \in connected_peers \cup dialling_peers)
            => HasHistory(p)

\* connected_peers holds only peers with a live connection, a history that
\* says Connected is of a peer in connected_peers, and no saved history says
\* Connected: a peer is never taken for connected after its last connection
\* has closed, nor after a restart.
ConnectedIsLive ==
    /\ \A p \in connected_peers : conns[p] > 0
    /\ \A p \in DOMAIN peer_data :
          peer_data[p].status = "Connected" => p \in connected_peers
    /\ \A p \in DOMAIN file.data : file.data[p].status # "Connected"

\* What was saved is never lost by a later run of the program: when a run
\* loads the file and saves again, every peer in the file is still there with
\* at least its attempts, whatever discovery, heartbeats and the swarm did in
\* between.  (A kill in the middle of save_peer_data leaves no file to read.)
SavedPeersKept ==
    [][file.kind = "ok" /\ file'.kind = "ok" =>
          \A p \in DOMAIN file.data :
              /\ p \in DOMAIN file'.data
              /\ file'.data[p].attempts >= file.data[p].attempts]_vars

LoadedPeers == IF file.kind = "ok" THEN DOMAIN file.data ELSE {}

\* new_peers holds exactly the known peers that were never dialled, except
\* those loaded from the file: add_peers, get_peers_to_dial and
\* peer_connecting keep it in step with the histories.
NewPeersUndialled ==
    phase = "running" =>
        new_peers = {p \in DOMAIN peer_data : peer_data[p].attempts = 0} \ LoadedPeers

\* The average that update_average_connection_duration keeps never exceeds
\* the longest connection, whatever mix of failures, late failures and
\* several closes of one entry it is computed from.
AverageWithinDurations ==
    \A p \in DOMAIN peer_data :
        peer_data[p].avg # NoAverage =>
            \E d \in Durations \cup {0} : peer_data[p].avg <= d

Alive == connected_peers \cup dialling_peers

\* A heartbeat never dials more peers than are missing: as long as no more
\* than the target are alive, only a connection being established can exceed
\* the target.
HeartbeatDialsAtMostMissing ==
    [][Cardinality(Alive) <= target_peer_number =>
          \/ Cardinality(Alive') <= target_peer_number
          \/ connected_peers' # connected_peers]_vars

\* A dial about which the swarm reports nothing is given up by some
\* heartbeat: its peer leaves dialling_peers and stops counting as alive.
DialsTimeOut ==
    \A p \in Peers :
        (phase = "running" /\ p \in Overdue) ~>
            \/ phase # "running"
            \/ p \notin dialling_peers
            \/ peer_data[p].status \in {"Connected", "Disconnected", "Failed"}

(***************************************************************************)
(* What comments and messages in the code say, and the code does not do.   *)
(***************************************************************************)

\* peer_manager.rs:270-274: every established peer has an entry; the program
\* does not panic on "Missing connectio_data entry for established peer".
EstablishedPeersHaveData == phase # "panicked"

\* peer_manager.rs:361-362: "Get the best num_peers peers".
RedialsTheBest ==
    \A n \in 1..Cardinality(DOMAIN peer_data) :
        \A S \in get_best_peers_for_redial(peer_data, n) :
            \A p \in S, q \in Redialable(peer_data) \ S :
                get_peer_score(peer_data[p]) >= get_peer_score(peer_data[q])

\* peer_manager.rs:36: DiscoverPeers carries "the amount of peers to
\* discover", which is at most the number of peers wanted.
DiscoversWhatIsMissing == peers_to_discover <= target_peer_number

\* peer_manager.rs:29 and :85: the heartbeat is there "to timeout dialling
\* peers" whose attempt takes too long.  A dialling peer whose dial is over
\* must be one that the heartbeat can still time out.
DiallingPeersCanTimeOut ==
    \A p \in dialling_peers : dials[p] > 0 \/ p \in Overdue
=============================================================================
