----------------------------- MODULE Discovery -----------------------------
(***************************************************************************)
(* Discovery (src/discovery.rs): turns a number of peers to discover into  *)
(* a discv5 query and the end of the query into an event with the peers    *)
(* that were found.  The queries are futures that nobody but poll drives:  *)
(* poll creates one, a later poll starts it, and a poll after its end      *)
(* collects the result.                                                    *)
(*                                                                         *)
(* discv5 is external: a query it has been handed ends, with what it found *)
(* until its timeout or with an error when the service is gone.  What is   *)
(* found and how many are asked for is passed through and left out here.   *)
(***************************************************************************)
EXTENDS Naturals, FiniteSets

CONSTANTS
    Queries    \* bound: queries in peers_future at a time

VARIABLES
    peers_to_discover,
    peers_future,       \* the futures: Queries -> stage of its query, or NoQuery
    event_stream        \* "Awaiting", "Present" or "InActive"

vars == <<peers_to_discover, peers_future, event_stream>>

NoQuery == "none"
Live == {q \in Queries : peers_future[q] # NoQuery}
Failed == {q \in Queries : peers_future[q] = "err"}

\* new, with the event stream requested from discv5.
Init ==
    /\ peers_to_discover = 0
    /\ peers_future = [q \in Queries |-> NoQuery]
    /\ event_stream = "Awaiting"

-----------------------------------------------------------------------------
\* Called by the event loop for a DiscoverPeers event of the peer manager.
set_peers_to_discover(n) ==
    /\ peers_to_discover' = n
    /\ UNCHANGED <<peers_future, event_stream>>

\* Mutant of find_peers: the query is built but not kept.
find_peers_Dropped == UNCHANGED peers_future

\* The query becomes one more future in peers_future, not yet polled.
find_peers ==
    /\ Queries \ Live # {}
    /\ LET q == CHOOSE q \in Queries \ Live : TRUE
       IN  peers_future' = [peers_future EXCEPT ![q] = "new"]

\* Mutant of PollFind: the number is not reset.
PollFind_Again ==
    /\ peers_to_discover > 0
    /\ find_peers
    /\ UNCHANGED <<peers_to_discover, event_stream>>

\* poll with peers to discover: the query is created, and poll returns
\* without having polled anything.
PollFind ==
    /\ peers_to_discover > 0
    /\ find_peers
    /\ peers_to_discover' = 0
    /\ UNCHANGED event_stream

\* Mutant of PollPeers: the query stays, and its result is reported again.
PollPeers_Kept(q) ==
    /\ peers_to_discover = 0
    /\ peers_future[q] = "ok"
    /\ UNCHANGED <<peers_to_discover, peers_future, event_stream>>

\* poll when query q has a result: get_peers skips the failed queries it
\* meets first, drops all other futures, and the result becomes an event.
PollPeers(q) ==
    /\ peers_to_discover = 0
    /\ peers_future[q] = "ok"
    /\ peers_future' = [r \in Queries |-> NoQuery]
    /\ UNCHANGED <<peers_to_discover, event_stream>>

\* poll when no query has a result: failed queries are dropped without a
\* word, new ones are polled for the first time, which hands them to discv5,
\* and the event stream is looked at.
PollPending ==
    /\ peers_to_discover = 0
    /\ \A q \in Queries : peers_future[q] # "ok"
    /\ peers_future' = [q \in Queries |->
                           CASE peers_future[q] = "err" -> NoQuery
                             [] peers_future[q] = "new" -> "running"
                             [] OTHER -> peers_future[q]]
    /\ event_stream' \in IF event_stream = "Awaiting"
                         THEN {"Awaiting", "Present", "InActive"}
                         ELSE {event_stream}
    /\ UNCHANGED peers_to_discover

\* discv5 ends a query it was handed.
QueryEnds(q, result) ==
    /\ peers_future[q] = "running"
    /\ peers_future' = [peers_future EXCEPT ![q] = result]
    /\ UNCHANGED <<peers_to_discover, event_stream>>

\* The process is gone; the next one starts from Init.
Reset ==
    /\ peers_to_discover' = 0
    /\ peers_future' = [q \in Queries |-> NoQuery]
    /\ event_stream' = "Awaiting"
=============================================================================
