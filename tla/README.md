# Formal model of cl-p2p-setup

cl-p2p-setup joins the peer-to-peer network of Ethereum's consensus layer: it
discovers nodes, dials them, keeps a number of them connected, answers their
RPC requests (Status, Goodbye, Ping, MetaData), listens to gossip, and after
three minutes saves what it learned of each peer. This directory holds TLA+
models of the parts of it that keep state, the TLC runs that check them on small
instances, and TLAPS proofs for instances of any size.

    tlc -config RPCHandler_safety.cfg MCRPCHandler
    tlc -config PeerDiscovery.cfg PeerDiscovery
    tlc -config RPCNode.cfg RPCNode
    tlc -config RPCSubstream.cfg RPCSubstream
    tlapm RPCHandlerProofs.tla
    tlapm PeerManagerProofs.tla

## The system

| Part | Source | State | Operations |
| --- | --- | --- | --- |
| RPC connection handler | `src/rpc/handler.rs` | handler state, events for the behaviour, dial queue and slots, inbound and outbound substreams, a timer queue for each, retry counter | `inject_event`, `inject_fully_negotiated_inbound`, `inject_fully_negotiated_outbound`, `inject_dial_upgrade_error`, `poll` |
| RPC messages | `src/rpc/protocol.rs`, `methods.rs` | none | `expected_responses`, `close_after`, the substream upgrades |
| RPC behaviour | `src/rpc/mod.rs` | queue of events and commands | `send_response`, `inject_event`, `poll` |
| Codec | `src/rpc/codec/` | code and length of a partly read message | encode and decode for both directions |
| Peer manager | `src/peer_manager.rs` | connected, dialling and new peers, data of every known peer, number of peers to discover, whether discovery is awaited | `poll` with its heartbeat, `on_swarm_event`, `add_peers`, `save_peer_data`, `load_peer_data` |
| Discovery | `src/discovery.rs` | running queries, number of peers to discover, the event stream | `set_peers_to_discover`, `find_peers`, `poll` |
| Event loop | `src/main.rs` | none of its own | dispatches the events of the behaviours to each other |
| ENR, chain data, configuration | `src/enr.rs`, `chain.rs`, `config.rs` | constants | construction at start |

**How they interact.** All behaviours run in one swarm, driven by the
`select!` loop of `main.rs`; handlers run in a task per connection and exchange
messages with the RPC behaviour. A request received on a substream becomes an
event of the handler, reaches the event loop through the behaviour, and the
answer travels back under the id of the substream. The peer manager asks for
discovery (`DiscoverPeers`), gets what was found (`add_peers`), asks for dials
(`DialPeers`, which the loop hands to gossipsub), and hears of their outcome from
the swarm.

**What is hard.** In the handler: a timer for every substream races its response,
its end and its close, and the timer's key is used again later; negotiations are
still under way when a shutdown clears the queue; a failed negotiation is retried;
one `poll` returns one event and must leave everything else for the next. In the
peer manager: a dial that was given up may still succeed or fail; the swarm may
hold several connections to a peer and reports each; peers connect on their own;
unsigned arithmetic on counts that others change; a process that may be killed
before or during the save. In discovery: a query is a future that only `poll`
drives, and `poll` gives no sign when one fails. Between connections and event
loop: bounded channels in both directions, and answers addressed by ids that were
read earlier. In the codec: what one call of `decode` consumed must be kept for the
next, at whatever point the bytes are cut. `PROJECT.json` lists each of these with its line and
the properties that watch it.

**What makes each part correct.**

- Handler: timers and substreams match; dial slots are accounted for; no request
  of the application is lost or duplicated; every accepted request is answered with
  its own answer and nothing else; a shutdown ends.
- Peer manager: every attempt has a history entry; the sets of connected, dialling
  and new peers agree with the swarm and the histories; a heartbeat dials what is
  missing and no more; a silent dial is given up; restarts start from a clean state.
- Discovery: one request at a time, and every request is answered.
- Codec: decode inverts encode however the bytes are cut into reads.
- Whole program: a request that comes in is answered on its connection, and a lack
  of peers is acted on.

## Modules

| Module | What it is |
| --- | --- |
| `RPCProtocol` | kinds of requests and responses, how many responses a request expects, the answer `main.rs` gives |
| `RPCHandler` | the handler of one connection |
| `MCRPCHandler` | its instance for TLC |
| `RPCHandlerProofs` | theorems about `RPCHandler` and their proofs: timers, dial slots, requests of the application |
| `RPCHandlerAnswers` | the same for the answers to inbound requests |
| `RPCHandlerRefinement` | the proof that `RPCHandler` implements `RPCConnection` |
| `RPCConnection` | abstract specification of one connection: what happens to requests and calls, without queues, timers and polls |
| `RPCNode` | several connections, the swarm's channels, the RPC behaviour and the event loop |
| `RPCNodeProofs` | theorems about `RPCNode` |
| `Codec` | encoding and decoding of messages, as operators |
| `RPCSubstream` | a substream whose bytes arrive in pieces, read through `Codec` by the upgrades of `protocol.rs` |
| `RPCSubstreamProofs` | theorems about `RPCSubstream` and the operators of `Codec` |
| `PeerManager` | the peer manager with the swarm around it, saving, crashes and restarts |
| `MCPeerManager` | its instance for TLC |
| `PeerManagerProofs` | theorems about `PeerManager` |
| `Discovery` | discovery: its queries and its `poll` |
| `PeerDiscovery` | `PeerManager` and `Discovery` joined by the event loop |
| `PeerDiscoveryProofs` | theorems about `PeerDiscovery` |

Definitions named `X_Something` directly before `X` are mutants: the variant of
`X` that a plausible mistake would produce. Each property is violated if the
mutant listed for it in `PROJECT.json` takes the place of the original, which shows
that the property depends on the code it is about.

### RPCHandler

Variables carry the names of the fields of `RPCHandler`. A substream info is a
record; a `DelayQueue` is the set of ids that have a live timer; `delay_key` in
an inbound info says whether it still holds its key. `negotiating`, `owed` and
`closed` stand for what surrounds the handler: the substreams libp2p negotiates
(it carries the request as `OutboundOpenInfo`), the requests the application has
not answered, and the end of the handler. `issued`, `outcomes` (how many times each
request was reported, as a response or as an error) and `leaked` record history for
the properties and influence nothing; `settled` is the set of requests with an outcome.

libp2p calls a handler from one task, so each call is one action:

| Code | Actions |
| --- | --- |
| `inject_event` | `SendRequest`, `SendResponse` |
| `inject_fully_negotiated_inbound` | `NegotiatedInbound`: `AcceptRequest`, `RejectRequest`, `ReceiveGoodbye` |
| `inject_fully_negotiated_outbound` | `NegotiatedOutbound` |
| `inject_dial_upgrade_error` | `RetryDial`, `FailDial` |
| `poll`, one action per return | `PollEvent`, `PollShutdownElapsed`, `PollTimerError`, `PollOutboundTimeout`, `PollResponse`, `PollStreamEnd`, `PollDial`, `PollTail` |

A `poll` does everything up to the point where it returns: a return after the
inbound loop includes that loop (`PollInbound`), one after the outbound loop the
removal of substreams that finished closing. Which timers have expired, which
sends are done and which streams have data is chosen nondeterministically, so the
remote peer is unconstrained. The event order within one poll is irrelevant where
all events are errors without content.

Left out because it cannot run: the arms for `Deactivated` (that state is entered
only in the poll that returns `Close`, after which libp2p drops the handler) and
the handling of several chunks (`remaining_chunks` is 1 for every request, so a
substream closes after its first response). Left out because it carries no state
of its own: the waker, logging, capacities.

What the model shows beyond its properties: the retry branch of
`inject_dial_upgrade_error` returns before `dial_negotiated` is decremented.
`NegotiationsAccounted` states the count with those slots (`leaked`), and
`RequestsSettle` promises an outcome only while fewer than all slots have leaked.
No comment or test says otherwise, so it is stated as what the code does. The timer
of an outbound substream runs on while the substream closes after its response
(`handler.rs:557-568`), and if it expires then, `poll` reports a timeout for a call
that has its response (`handler.rs:393-401`). `RequestsConserved` says that such a
substream belongs to a call with exactly one outcome, and `RPCConnection` allows this
one repetition and no other.

### PeerManager

`connected_peers`, `dialling_peers`, `new_peers`, `peer_data`, `peers_to_discover`
and `waiting` (`waiting_for_peer_discovery`) are the fields. A connection history
is abstracted to its length, the status of its last entry and whether that entry
was established, which is all the code reads. `conns` and `dials` are the swarm's
connections and dials per peer, `file` is the saved data, `phase` the process.

Time is abstract: any dial whose entry says `Connecting` may be late at a
heartbeat, and a closed connection lasted for any of `Durations`. A heartbeat
includes the dials that `main.rs` passes to gossipsub, which dials a peer only if
it is not connected. Averages are modelled exactly, the sort by its result: every
set of candidates that the ascending sort may put first. `u32` subtraction wraps at
`U32`, or panics if `OverflowChecks` (debug build).

External, modelled from how it is used: the swarm (late answers, inbound
connections, several connections to a peer), gossipsub's dialling, and the kill of
the process. Alone, `PeerManager` lets discovery answer with any set of peers at any
time after it was asked; `PeerDiscovery` puts the code of discovery in that place.
A kill during the save leaves a torn file, on which the next start panics
(`LoadPanic`). `SavedPeersKept` relates two saves: what one run has written to the end
a later run that loads it writes again, with at least the same attempts for each peer,
although discovery may find the peer anew in between.

### Discovery and PeerDiscovery

A future in `peers_future` is `new` until a `poll` has polled it, then `running`
until discv5 has ended it with `ok` or `err`. `poll` has three outcomes: `PollFind`
creates a query and returns, `PollPeers` returns the peers of a query, and
`PollPending` polls everything and finds nothing, which starts new queries and
drops failed ones. discv5 is external; which peers are found is chosen in
`PeerDiscovery`.

`PeerDiscovery` instantiates both components. The event loop handles an event before
it polls the swarm again, so `Ask` (`DiscoverPeers`, handed to
`set_peers_to_discover`) and `Answer` (the event of discovery, handed to `add_peers`)
are single steps of both. `lost` counts failed queries for the properties. The peer
manager in it implements `PeerManager` on its own (`ImplementsPeerManager`): `add_peers`
is called only while the manager waits for it, because there is one request at a time.
So the invariants that `pm_swarm` and `pm_restart` check of `PeerManager`, and the
theorems about it, hold with the code of discovery in place as well.

`OneRequestAtATime` says why two suspicious places are harmless:
`set_peers_to_discover` overwrites its field, and `get_peers` throws all futures away
when one is ready, but there is never a second request. It also shows what a failed
query does: the flag `waiting_for_peer_discovery` stays set with nothing on its way,
and no discovery is asked for until the program is restarted. The liveness
properties therefore end in `lost > 0`.

### RPCConnection and RPCNode

`RPCConnection` says what one connection does for its requests: an inbound request
waits, is answered with the answer to that request, is sent, and is over; a call of
the application is open, then over with one outcome, or responded while its substream
closes, from where it ends with that outcome or with one more, the late timeout; after
the close nothing happens. The outcomes of a call are counted, so a second report that
the specification does not allow is no step of it. `RPCHandler` implements it:
`InboundStage` and `CallStage` compute the stages from the handler's substreams, queues
and timers (`ImplementsConnection`).

`RPCNode` puts such connections into the program. `out` is the handler's `events_out`,
`events` the queue of `RPC`; `hand`, `cmds`, `up` and `pending` are libp2p's: an event
that a connection's task waits to send, the command channel of each connection, the
event channel of all, and a command that the swarm holds back. `Poll` is `RPC::poll`
with what its caller does: a command goes to the swarm, a message to the event loop,
which queues the answer before it polls again. The handler is reduced to what the
queues see of it (`Receive`, `Emit`, `Command`, `Transmit`), without timers and limits,
which `RPCHandler` has. The swarm is external and modelled after libp2p's: it polls
the behaviour before the connections, does not poll the behaviour while it holds back
a command, but goes on taking events then. This last point is what keeps the ring of
bounded channels from blocking: with a swarm that took events only when it holds back
nothing, TLC reports `AnswersArrive` violated. Each connection of `RPCNode`
implements `RPCConnection` as well (`ConnectionsImplemented`), so what a peer sees of
a connection does not depend on the others.

The arm of the event loop for responses, `todo!()` in `main.rs:189`, has no
counterpart: responses answer own requests, and `_send_request` is never called.

### Codec and RPCSubstream

A byte of the model is a record that says what it is part of: a code, a length (two
bytes if it is 128 or more, or is no valid varint) or half of a snappy frame, which is
enough for a cut at every place where the decoder behaves differently. A decoder is what
`decode` keeps between calls: the buffer, the length and the response code.
`handle_length`, `DecodeRequest` and `DecodeResponse` map a decoder to the next one and
a result; a length that is no varint (not minimal, or too large) is an error once its
last byte is there.

`RPCSubstream` starts with a message of a remote peer, any code, length and validity,
and delivers it in reads of any size; the peer may close in the middle, and the read
may time out. `reads` says whether this is a request (`upgrade_inbound`) or a response
(the outbound substream after `upgrade_outbound`).

A read that ends behind the length and inside the frame makes `decode` report an
error instead of waiting for the rest, because `read_exact` fails on the partial
frame; `WholeFramesDecode` states that this, and an early end of the stream, are the
only ways in which a valid response is refused. A MetaData response of the right
length with bits set beyond its bit vectors panics in `handle_response`; the model has
that outcome (`Panic`). It needs a MetaData request of this program, and none is sent.
Since requests other than MetaData are refused (`codec_requests`), MetaData is the only
request that reaches the handler today; the modules above it are checked for all
requests their code handles.

## Runs

| Run | Checks | Instance |
| --- | --- | --- |
| `handler_safety` | the seven invariants of the handler, and that it implements `RPCConnection` | 2 requests of 2 kinds, 3 inbound requests of 3 kinds, 2 inbound substreams, 2 dial slots, 2 attempts: 938 thousand states |
| `handler_liveness` | a shutdown ends, requests settle, answers are sent | 2 requests, 2 inbound, 1 inbound substream, 2 dial slots, 3 attempts: 43 thousand states |
| `node` | every request gets its own answer, once and in the end; each connection implements `RPCConnection` | 2 connections, 4 requests in all, channels of size 1: 107 thousand states |
| `codec` | responses are decoded as sent, refused only if cut or short, and own answers are understood | 4 protocols, 3 codes, right, wrong and malformed lengths, every cut: 76 thousand states |
| `pm_swarm` | types, histories, averages, the heartbeat's dials | 2 peers, target 1, 2 attempts, 2 connections per peer: 93 thousand states |
| `pm_restart` | connected peers are live, new peers are the undialled ones, a save keeps what an earlier one recorded | 2 peers, 1 connection per peer, 1 restart: 1.1 million states |
| `pm_liveness` | `PeerDiscovery`: one request at a time, it implements `PeerManager`, requests are answered, a lack of peers is acted on, silent dials are given up | 2 peers, 2 queries, 1 restart, debug build: 80 thousand states |
| `pm_established`, `pm_redial`, `pm_discover`, `pm_stuckdial`, `codec_requests` | see Findings | 2 peers; as `codec` |

**Bounds.** One more inbound request than there are substreams reaches the
rejection, also after a substream has been freed. With two dial slots and one
retry both slots can leak, and a negotiation can be under way beside a leaked slot
or a queued request. Two requests are enough for every pair of places they can be
in, and the theorems below do not depend on any of these numbers. Two peers and a
target of one give a surplus, a choice among candidates and two connections to a
peer; two attempts give a redial that meets the late outcome of the first dial.
`U32` is small because only the wrap matters. `pm_restart` bounds connections per
peer to one, `pm_swarm` has no restart; the two aspects are checked separately to
stay within memory. Two places for queries let `pm_liveness` see a second query, if
there were one. Four requests over channels of size one fill every place of the ring in
`node` (a command in its channel, one held back, an event in the channel and one that
a connection waits to send), with the other connection involved. The lengths in
`codec` are zero, those of all messages, the first that takes two bytes, the longest
error text, and one beyond it and beyond the greatest message. In `pm_liveness` no duration makes a peer a candidate for a
redial, so that the bound on attempts never holds back a heartbeat. Symmetry is
used only in runs without temporal leads-to properties.

Deadlock is not checked: a closed handler and a stopped or panicked program have
no further steps.

**Fairness.** Handler: libp2p polls again after every event and every call and
when a timer wakes it, so `PollEvent`, `PollDial`, the expiry of the shutdown
sleep and of each outbound timer, and a poll that finds an answer to send are
weakly fair; libp2p ends every negotiation, at the latest by its timeout; the
event loop answers every request. Nothing is assumed of the remote peer.
`PeerDiscovery`: the `select!` of `main.rs` polls the swarm at least once a second, so
the polls of both components and the ticks of the heartbeat go on (this also starts
the query for whose first poll `discovery.rs:177` arranges nothing); a dial that stays
under way is late at some tick; discv5 ends every query at its timeout. Nothing is
assumed of peers and connections. `RPCNode`: each task runs when it has something to
do, the swarm's and the connections'. Nothing is assumed of the remote peers, which
may never read an answer.

## Findings

- `pm_established`: a peer that was never dialled connects and
  `on_connection_established` panics (`peer_manager.rs:270-274`).
- `pm_redial`: `get_best_peers_for_redial` takes the worst candidates, its comment
  says the best (`peer_manager.rs:361`, `379-383`).
- `pm_discover`: with more peers alive than the target the `u32` subtraction in
  `poll` underflows (`peer_manager.rs:110`).
- `pm_stuckdial`: a dialling peer whose older second connection closes is marked
  `Disconnected`, stays in `dialling_peers` and is never timed out
  (`peer_manager.rs:194`, `282-293`).
- `codec_requests`: `SSZSnappyInboundCodec::decode` refuses every Status and Ping
  request after it has read it completely (`ssz_snappy.rs:107`), although
  `protocol.rs:93` does not count them as missing and `main.rs:169-176` answers them.
  It may be part of why peers disconnect soon, an open issue of the repository's
  README.

## Proofs

Every safety invariant, action property and refinement that a run checks is also
proved, for every value of the constants that satisfies the named assumptions.
These are no stronger than the code: kinds are requests, limits and buffer sizes are
natural numbers (at least one attempt, at least one place in a channel), lengths and
durations are natural numbers, sets of peers and of queries are finite, and neither
the target nor the number of peers exceeds `u32`.

| Module | Theorem | Property |
| --- | --- | --- |
| `RPCHandlerProofs` | `TypeCorrect` | `TypeOK` |
| | `TimersCorrect` | `TimersMatchSubstreams` |
| | `SlotsCorrect` | `NegotiationsAccounted` |
| | `ShutdownStopsDialling` | `NoDialAfterShutdown` |
| | `RequestsNeverLost` | `RequestsConserved` |
| `RPCHandlerAnswers` | `AnswersFindSubstreams` | `AnswersHaveSubstreams` |
| | `AnswersAreOwn` | `OnlyAnswersAreSent` |
| `RPCHandlerRefinement` | `ConnectionImplemented` | `ImplementsConnection` |
| `RPCNodeProofs` | `AnswersUnderWay` | `OneAnswerUnderWay` |
| | `NodeImplementsConnections` | `ConnectionsImplemented` |
| `RPCSubstreamProofs` | `ResponsesDecodedAsSent` | `DecodedAsSent` |
| | `WholeFramesAreDecoded` | `WholeFramesDecode` |
| | `OwnResponsesAreUnderstood` | `OwnResponsesUnderstood` |
| `PeerManagerProofs` | `TypesCorrect` | `TypeOK` |
| | `AttemptsHaveHistories` | `HistoryForEveryAttempt` |
| | `ConnectedPeersAreLive` | `ConnectedIsLive` |
| | `NewPeersCorrect` | `NewPeersUndialled` |
| | `AveragesBounded` | `AverageWithinDurations` |
| | `SavesAreKept` | `SavedPeersKept` |
| | `HeartbeatsDialAtMostMissing` | `HeartbeatDialsAtMostMissing` |
| `PeerDiscoveryProofs` | `RequestsOneAtATime` | `OneRequestAtATime` |
| | `PeerManagerImplemented` | `ImplementsPeerManager` |

Each proof of an invariant has a lemma for `Init`, one per action or group of actions,
and one that combines them; operators and counts have lemmas of their own.

**The handler: timers, slots, requests.** The inductive invariant is `HandlerInv /\
RequestsConserved`. `HandlerInv` regroups the first four properties by the part of the
state they concern (`InboundOK`, `OutboundOK`, `DialOK`, `AppOK`), so that an action is
shown to keep the parts it does not touch by the variables it leaves unchanged. It is
not inductive alone: `PollDial` raises the count of negotiations by one only if the
request it moves is not already under negotiation, which is `RequestsConserved`; and
that in turn needs the types. `RequestsConserved` itself needs its last conjuncts: a
timeout may hit a closing substream, whose request has its response, and must not settle
a request that waits elsewhere, so no two substreams share a request.

**The handler: answers.** `AnswersInv` adds `IdsOK` to the two properties. An answer is
delivered by its id, so it reaches the right substream only if no two requests under
way share an id (`DistinctIds`, and none in `events_out` is also `owed`), all ids are
below `inbound_id`, and the id of a Goodbye has no substream. The two properties need
each other: that the substream found has no answer yet follows from what the substreams
may carry.

**The handler: refinement.** A step of the handler is a step of `RPCConnection` or
leaves `inbound` and `calls` alone, given the invariants above. The stage of a request is
read off its substream (`StageOf`); what a well-formed substream may hold
(`OnlyAnswersAreSent`) makes the steps of one poll, which may start and end several
sends and expire several timers, add up to one step that moves each request by a stage.
For the calls the argument is about counts: an action reports each request at most once
(`Reported`), a request that is queued, under negotiation or waiting has no outcome yet,
and one on a closing substream has exactly one and leaves with it or with a second.

**The node.** `OneAnswerUnderWay` counts messages over all the queues. The proof counts
each queue by itself (`Count`) with lemmas about appending to a queue and taking its
head; an action then moves one message from one count to another. `NodeInv` adds that
the queues of a connection hold only what is about it, that the way back holds only
answers, that a slot holds at most one message, and that what is under way is about
requests received earlier (`IdsKnown`), so that a new request has a count of one. The
refinement `ConnectionsImplemented` follows for each connection: an answer that a
connection takes from its commands is, by the count, the only one and the right one.

**The codec.** `SubstreamInv` says that while a response has no outcome, fewer bytes
have arrived than code and length take, the decoder holds exactly what it must hold
after so many bytes (`WaitsAt`), and the wire holds the rest (`Waiting`). The lemma
`Decoded` says what a call of the decoder makes of any further piece (`Verdict`), and
`VerdictMeans` compares that with the meaning of the message. The lemmas about
`Varint`, `Snappy`, `handle_length` and the stream of a message hold for every length.
The theorems say nothing of requests: this program refuses all it reads (see Findings),
and a MetaData request it does not read.

**The peer manager.** `ManagerInv` is the properties with `TablesOK` (the file and the
table in memory have well-formed entries, the averages among it), `StoppedIsEmpty`
(nothing of a process remains when it has ended; without it a start would inherit
connections) and `LoadedAreKnown`: a running program knows the peers of the file with at
least their attempts. `NewPeersUndialled` needs it because it excepts the peers of the
file, and `SavesAreKept` is its consequence for the step that saves. `ConnectedIsLive` speaks of the file as well, since a restart takes
its histories from there. `HeartbeatsDialAtMostMissing` rests on two facts: the `u32` subtraction does not
wrap when no more than the target are alive, and redials and new dials together are no
more than its result (`DialledPeers`).

**Peer manager and discovery.** `DiscoveryInv` adds types to `OneRequestAtATime`, and
that nothing of a request survives the end of the program. The refinement maps every
step but `Answer` directly; `Answer` is a step of `PeerManager` because a query under
way implies, by the count, that the manager waits.

The proofs led to two changes of how the model is written, not of what it says: the
cases of `InboundStage` overlapped, which leaves the value of a `CASE` open (TLC takes
the first), and `OneAnswerUnderWay` counts positions in the queues.

**Only model-checked.** The liveness properties `ShutdownCompletes`, `RequestsSettle`,
`AnswersAreSent`, `AnswersArrive`, `DiscoveryAnswered`, `GapIsActedOn` and `DialsTimeOut`:
they rest on fairness, and the prover does not reason about `ENABLED`. That
`PeerDiscovery` has the invariants of `PeerManager` is a consequence of
`PeerManagerImplemented` and not stated as a theorem of its own. The
violated properties under Findings are shown by their counterexamples.

## Not modelled

Gossip and its snappy transform, which is a wrapper of two length checks around the
snap crate; transport, ENR, chain data and configuration, which keep no state that
changes; the identities of peers, which are recorded and logged; the negotiation of
protocol names inside libp2p. libp2p, discv5, snappy and varint are external and
modelled by how this code uses them.

## Plan

1. Proofs of what the findings leave true: what `on_connection_established`, the
   redials and `poll` do guarantee where the comments promise more.
2. Theorems about the composition that need both components, such as that discovery
   is asked only when peers are missing.
3. Properties of the handler's steps (a settled call stays settled, ids only grow) as
   consequences of `ConnectionImplemented`.
