------------------------- MODULE PeerManagerProofs -------------------------
(***************************************************************************)
(* Proofs about PeerManager for any set of peers, any target and any       *)
(* number of attempts, connections and restarts.                           *)
(***************************************************************************)
EXTENDS PeerManager, FiniteSetTheorems, TLAPS

\* What is known of one peer is well formed: it has a status exactly when it
\* has a history, and its average does not exceed the longest connection.
GoodEntry(d) ==
    /\ d \in PeerData
    /\ (d.status = "None") <=> (d.attempts = 0)
    /\ d.avg # NoAverage => \E x \in Durations \cup {0} : d.avg <= x

\* A table of peers, in memory or in the file.
GoodTable(f) ==
    /\ DOMAIN f \subseteq Peers
    /\ f \in [DOMAIN f -> PeerData]
    /\ \A p \in DOMAIN f : GoodEntry(f[p])

FieldsOK ==
    /\ connected_peers \subseteq Peers
    /\ dialling_peers \subseteq Peers
    /\ new_peers \subseteq Peers
    /\ peers_to_discover \in 0..(U32 - 1)
    /\ waiting \in BOOLEAN
    /\ phase \in {"running", "stopped", "panicked"}
    /\ file.kind \in {"none", "ok", "torn"}
    /\ restarts \in Nat

SwarmOK == conns \in [Peers -> Nat] /\ dials \in [Peers -> Nat]

TablesOK == GoodTable(peer_data) /\ GoodTable(file.data)

\* Between two processes nothing of the peer manager or its swarm remains.
StoppedIsEmpty ==
    phase = "stopped" =>
        /\ connected_peers = {} /\ dialling_peers = {} /\ new_peers = {}
        /\ DOMAIN peer_data = {}
        /\ \A p \in Peers : conns[p] = 0 /\ dials[p] = 0

\* No peer and no attempt is forgotten once it was loaded.
LoadedAreKnown ==
    phase = "running" =>
        \A p \in LoadedPeers :
            p \in DOMAIN peer_data /\ peer_data[p].attempts >= file.data[p].attempts

\* The inductive invariant.
ManagerInv ==
    /\ FieldsOK
    /\ SwarmOK
    /\ TablesOK
    /\ StoppedIsEmpty
    /\ LoadedAreKnown
    /\ HistoryForEveryAttempt
    /\ ConnectedIsLive
    /\ NewPeersUndialled

\* ManagerInv contains the invariants that TLC checks.
LEMMA ManagerInvImplies ==
    ManagerInv => /\ TypeOK
                  /\ HistoryForEveryAttempt
                  /\ ConnectedIsLive
                  /\ NewPeersUndialled
                  /\ AverageWithinDurations
<1>1. ManagerInv => TypeOK
  BY DEF ManagerInv, TypeOK, FieldsOK, SwarmOK, TablesOK, GoodTable, GoodEntry
<1>2. ManagerInv => AverageWithinDurations
  BY DEF ManagerInv, AverageWithinDurations, TablesOK, GoodTable, GoodEntry
<1>. QED BY <1>1, <1>2 DEF ManagerInv

-----------------------------------------------------------------------------
(***************************************************************************)
(* The entries of a table.                                                 *)
(***************************************************************************)

\* The mean of n numbers, n - 1 of which have the mean a.
Mean(a, n, d) == (a * (n - 1) + d) \div n

\* The mean of numbers does not exceed a bound of them all.
LEMMA MeanBounded ==
    ASSUME NEW a \in Nat, NEW d \in Nat, NEW n \in Nat \ {0}, NEW m \in Nat,
           a <= m, d <= m
    PROVE  Mean(a, n, d) \in Nat /\ Mean(a, n, d) <= m
<1>. DEFINE k == n - 1
<1>1. k \in Nat /\ n = k + 1
  OBVIOUS
<1>2. a * k <= m * k /\ a * k \in Nat /\ m * k \in Nat
  OBVIOUS
<1>3. m * n = m * k + m
  OBVIOUS
<1>. DEFINE s == a * k + d
<1>4. s \in Nat /\ s <= m * n
  BY <1>2, <1>3
<1>5. ASSUME NEW t \in Nat, t <= m * n PROVE t \div n \in Nat /\ t \div n <= m
  BY <1>5
<1>. QED BY <1>4, <1>5 DEF Mean

\* The parts of a good entry.
LEMMA EntryParts ==
    ASSUME NEW d, GoodEntry(d)
    PROVE  /\ d \in PeerData
           /\ d.attempts \in Nat /\ d.status \in Statuses
           /\ d.avg \in Nat \cup {NoAverage}
<1>1. d \in PeerData
  BY DEF GoodEntry
<1>. QED BY <1>1 DEF PeerData

\* An entry that keeps the average of a good one is good if it has a status
\* and a history.
LEMMA SameAverageGood ==
    ASSUME NEW d, GoodEntry(d), NEW e \in PeerData,
           e.avg = d.avg, e.attempts > 0, e.status # "None"
    PROVE  GoodEntry(e)
<1>1. e.attempts # 0
  BY DEF PeerData
<1>. QED BY <1>1 DEF GoodEntry

\* What add_peers writes.
LEMMA NewPeerGood == GoodEntry(NewPeer) /\ NewPeer.attempts = 0 /\ NewPeer.status = "None"
  BY DEF GoodEntry, NewPeer, PeerData, Statuses, NoAverage

\* peer_connecting keeps an entry good and gives it a history.
LEMMA ConnectingGood ==
    ASSUME NEW d, GoodEntry(d)
    PROVE  /\ GoodEntry(Connecting(d))
           /\ Connecting(d).attempts > 0 /\ Connecting(d).attempts = d.attempts + 1
           /\ Connecting(d).status = "Connecting"
<1>. DEFINE e == Connecting(d)
<1>1. d \in PeerData
  BY EntryParts
<1>2. /\ e \in PeerData /\ e.attempts = d.attempts + 1
      /\ e.status = "Connecting" /\ e.avg = d.avg
  <2>. DEFINE n == d.attempts + 1
              c == [d EXCEPT !.attempts = n, !.status = "Connecting", !.est = FALSE]
  <2>1. n \in Nat
    BY EntryParts
  <2>2. e = c
    BY DEF Connecting
  <2>. HIDE DEF n
  <2>3. c \in PeerData /\ c.attempts = n /\ c.status = "Connecting" /\ c.avg = d.avg
    BY <1>1, <2>1 DEF PeerData, Statuses
  <2>. QED BY <2>2, <2>3 DEF n
<1>3. e.attempts > 0
  BY <1>1, <1>2 DEF PeerData
<1>. HIDE DEF e
<1>4. GoodEntry(e)
  BY <1>2, <1>3, SameAverageGood
<1>. QED BY <1>2, <1>3, <1>4 DEF e

\* So does the timeout of a dial.
LEMMA TimeoutGood ==
    ASSUME NEW d, GoodEntry(d), d.attempts > 0
    PROVE  LET e == [d EXCEPT !.status = "Timeout"]
           IN  GoodEntry(e) /\ e.attempts = d.attempts /\ e.status = "Timeout"
<1>. DEFINE e == [d EXCEPT !.status = "Timeout"]
<1>1. d \in PeerData
  BY EntryParts
<1>2. /\ e \in PeerData /\ e.attempts = d.attempts
      /\ e.status = "Timeout" /\ e.avg = d.avg
  BY <1>1 DEF PeerData, Statuses
<1>. HIDE DEF e
<1>3. GoodEntry(e)
  BY <1>2, SameAverageGood
<1>4. GoodEntry(e) /\ e.attempts = d.attempts /\ e.status = "Timeout"
  BY <1>2, <1>3
<1>. QED BY <1>4 DEF e

\* So does a connection that is established.
LEMMA EstablishedGood ==
    ASSUME NEW d, GoodEntry(d), d.attempts > 0
    PROVE  LET e == [d EXCEPT !.status = "Connected", !.est = TRUE]
           IN  GoodEntry(e) /\ e.attempts = d.attempts /\ e.status = "Connected"
<1>. DEFINE e == [d EXCEPT !.status = "Connected", !.est = TRUE]
<1>1. d \in PeerData
  BY EntryParts
<1>2. /\ e \in PeerData /\ e.attempts = d.attempts
      /\ e.status = "Connected" /\ e.avg = d.avg
  BY <1>1 DEF PeerData, Statuses
<1>. HIDE DEF e
<1>3. GoodEntry(e)
  BY <1>2, SameAverageGood
<1>4. GoodEntry(e) /\ e.attempts = d.attempts /\ e.status = "Connected"
  BY <1>2, <1>3
<1>. QED BY <1>4 DEF e

\* The running average stays within the durations.
LEMMA AverageGood ==
    ASSUME NEW d, GoodEntry(d), d.attempts > 0, NEW x \in Durations \cup {0}
    PROVE  LET a == update_average_connection_duration(d, x)
           IN  a \in Nat /\ \E y \in Durations \cup {0} : a <= y
<1>1. /\ x \in Nat /\ d.attempts \in Nat \ {0}
      /\ d.avg \in Nat \cup {NoAverage}
      /\ Durations \cup {0} \subseteq Nat
  BY NumbersAssumption, EntryParts
<1>2. CASE d.avg = NoAverage
  BY <1>1, <1>2 DEF update_average_connection_duration
<1>3. CASE d.avg # NoAverage
  <2>1. PICK y \in Durations \cup {0} : d.avg <= y
    BY <1>3 DEF GoodEntry
  <2>2. PICK m \in Durations \cup {0} : m \in Nat /\ d.avg <= m /\ x <= m
    <3>1. d.avg \in Nat /\ y \in Nat /\ x \in Nat
      BY <1>1, <1>3
    <3>2. CASE x <= y
      BY <2>1, <3>1, <3>2
    <3>3. CASE ~(x <= y)
      <4>1. d.avg <= x /\ x <= x
        BY <2>1, <3>1, <3>3
      <4>. QED BY <3>1, <4>1
    <3>. QED BY <3>2, <3>3
  <2>3. d.avg \in Nat
    BY <1>1, <1>3
  <2>4. update_average_connection_duration(d, x) = Mean(d.avg, d.attempts, x)
    BY <1>3 DEF update_average_connection_duration, Mean
  <2>. DEFINE n == d.attempts
              b == d.avg
  <2>5. n \in Nat \ {0} /\ b \in Nat /\ x \in Nat /\ m \in Nat /\ b <= m /\ x <= m
    BY <1>1, <2>2, <2>3
  <2>. HIDE DEF n, b
  <2>6. Mean(b, n, x) \in Nat /\ Mean(b, n, x) <= m
    BY <2>5, MeanBounded
  <2>. QED BY <2>4, <2>6 DEF n, b
<1>. QED BY <1>2, <1>3

\* on_connection_closed keeps an entry good.
LEMMA DisconnectedGood ==
    ASSUME NEW d, GoodEntry(d), d.attempts > 0, NEW x \in Durations
    PROVE  /\ GoodEntry(Disconnected(d, x))
           /\ Disconnected(d, x).attempts = d.attempts
           /\ Disconnected(d, x).status = "Disconnected"
<1>. DEFINE y == IF d.est THEN x ELSE 0
            a == update_average_connection_duration(d, y)
            e == [d EXCEPT !.status = "Disconnected", !.avg = a]
<1>1. d \in PeerData
  BY EntryParts
<1>2. y \in Durations \cup {0}
  OBVIOUS
<1>3. Disconnected(d, x) = e
  BY DEF Disconnected
<1>. HIDE DEF y
<1>4. a \in Nat /\ \E z \in Durations \cup {0} : a <= z
  BY <1>2, AverageGood
<1>. HIDE DEF a
<1>5. /\ e \in PeerData /\ e.attempts = d.attempts
      /\ e.status = "Disconnected" /\ e.avg = a
  BY <1>1, <1>4 DEF PeerData, Statuses
<1>. HIDE DEF e
<1>6. e.attempts # 0
  BY <1>1, <1>5 DEF PeerData
<1>7. GoodEntry(e)
  BY <1>4, <1>5, <1>6 DEF GoodEntry
<1>. QED BY <1>3, <1>5, <1>7

\* So does on_dial_failure.
LEMMA FailedGood ==
    ASSUME NEW d, GoodEntry(d), d.attempts > 0
    PROVE  /\ GoodEntry(Failed(d))
           /\ Failed(d).attempts = d.attempts
           /\ Failed(d).status = "Failed"
<1>. DEFINE y == 0
            a == update_average_connection_duration(d, y)
            e == [d EXCEPT !.status = "Failed", !.avg = a]
<1>1. d \in PeerData
  BY EntryParts
<1>2. y \in Durations \cup {0}
  OBVIOUS
<1>3. Failed(d) = e
  BY DEF Failed
<1>. HIDE DEF y
<1>4. a \in Nat /\ \E z \in Durations \cup {0} : a <= z
  BY <1>2, AverageGood
<1>. HIDE DEF a
<1>5. /\ e \in PeerData /\ e.attempts = d.attempts
      /\ e.status = "Failed" /\ e.avg = a
  BY <1>1, <1>4 DEF PeerData, Statuses
<1>. HIDE DEF e
<1>6. e.attempts # 0
  BY <1>1, <1>5 DEF PeerData
<1>7. GoodEntry(e)
  BY <1>4, <1>5, <1>6 DEF GoodEntry
<1>. QED BY <1>3, <1>5, <1>7

-----------------------------------------------------------------------------
(***************************************************************************)
(* Tables.                                                                 *)
(***************************************************************************)

\* The empty table is good.
LEMMA EmptyTable == GoodTable(<<>>) /\ DOMAIN <<>> = {}
  BY DEF GoodTable

\* A function with good entries for some peers is a good table.
LEMMA TableOfEntries ==
    ASSUME NEW S \in SUBSET Peers, NEW g, DOMAIN g = S, g = [p \in S |-> g[p]],
           \A p \in S : GoodEntry(g[p])
    PROVE  GoodTable(g)
<1>1. \A p \in S : g[p] \in PeerData
  BY DEF GoodEntry
<1>2. g \in [S -> PeerData]
  BY <1>1
<1>. QED BY <1>2 DEF GoodTable

\* A table remains good when one entry is replaced by a good one.
LEMMA TableExcept ==
    ASSUME NEW f, GoodTable(f), NEW p \in DOMAIN f, NEW e, GoodEntry(e),
           NEW g, g = [f EXCEPT ![p] = e]
    PROVE  /\ GoodTable(g) /\ DOMAIN g = DOMAIN f
           /\ g[p] = e
           /\ \A q \in DOMAIN f : q # p => g[q] = f[q]
<1>1. /\ DOMAIN g = DOMAIN f /\ g[p] = e
      /\ \A q \in DOMAIN f : q # p => g[q] = f[q]
      /\ g = [q \in DOMAIN f |-> g[q]]
  BY DEF GoodTable
<1>2. \A q \in DOMAIN f : GoodEntry(g[q])
  BY <1>1 DEF GoodTable
<1>3. \A q \in DOMAIN f : g[q] \in PeerData
  BY <1>2 DEF GoodEntry
<1>4. g \in [DOMAIN f -> PeerData]
  BY <1>1, <1>3
<1>. QED BY <1>1, <1>2, <1>4 DEF GoodTable

-----------------------------------------------------------------------------
(***************************************************************************)
(* The steps of a running program that leave the file alone.               *)
(***************************************************************************)

\* What such a step has to show.
LEMMA RunningStep ==
    ASSUME ManagerInv, phase = "running",
           phase' = phase, file' = file,
           FieldsOK', SwarmOK', GoodTable(peer_data'),
           \A p \in DOMAIN peer_data :
              /\ p \in DOMAIN peer_data'
              /\ peer_data'[p].attempts >= peer_data[p].attempts,
           HistoryForEveryAttempt',
           \A p \in connected_peers' : conns'[p] > 0,
           \A p \in DOMAIN peer_data' :
              peer_data'[p].status = "Connected" => p \in connected_peers',
           new_peers' = {p \in DOMAIN peer_data' : peer_data'[p].attempts = 0}
                            \ LoadedPeers
    PROVE  ManagerInv'
<1>1. TablesOK' /\ StoppedIsEmpty'
  BY DEF ManagerInv, TablesOK, GoodTable, StoppedIsEmpty
<1>2. LoadedPeers' = LoadedPeers
  BY DEF LoadedPeers
<1>3. LoadedAreKnown' /\ NewPeersUndialled'
  <2>1. ASSUME NEW p \in LoadedPeers
        PROVE  p \in DOMAIN peer_data' /\ peer_data'[p].attempts >= file'.data[p].attempts
    <3>1. /\ p \in DOMAIN peer_data /\ p \in DOMAIN file.data
          /\ peer_data[p].attempts >= file.data[p].attempts
      BY <2>1 DEF ManagerInv, LoadedAreKnown, LoadedPeers
    <3>2. GoodEntry(peer_data[p]) /\ GoodEntry(file.data[p]) /\ GoodEntry(peer_data'[p])
      BY <3>1 DEF ManagerInv, TablesOK, GoodTable
    <3>3. /\ peer_data[p].attempts \in Nat /\ file.data[p].attempts \in Nat
          /\ peer_data'[p].attempts \in Nat
      BY <3>2, EntryParts
    <3>4. p \in DOMAIN peer_data' /\ peer_data'[p].attempts >= peer_data[p].attempts
      BY <3>1
    <3>. QED BY <3>1, <3>3, <3>4
  <2>. QED BY <1>2, <2>1 DEF LoadedAreKnown, NewPeersUndialled
<1>4. ConnectedIsLive'
  BY DEF ManagerInv, ConnectedIsLive
<1>. QED BY <1>1, <1>3, <1>4 DEF ManagerInv

\* poll asks for discovery.
LEMMA PollDiscoverStep ==
    ASSUME ManagerInv, PollDiscover
    PROVE  ManagerInv'
<1>1. FieldsOK'
  BY NumbersAssumption DEF ManagerInv, FieldsOK, PollDiscover, swarm
<1>2. /\ SwarmOK' /\ GoodTable(peer_data') /\ HistoryForEveryAttempt'
      /\ phase = "running" /\ UNCHANGED <<phase, file, peer_data, connected_peers, conns,
                                          new_peers>>
  BY DEF ManagerInv, TablesOK, SwarmOK, HistoryForEveryAttempt, HasHistory,
         PollDiscover, swarm
<1>3. NewPeersUndialled /\ ConnectedIsLive
  BY DEF ManagerInv
<1>4. \A p \in DOMAIN peer_data : peer_data[p].attempts \in Nat
  BY EntryParts DEF ManagerInv, TablesOK, GoodTable
<1>. QED BY <1>1, <1>2, <1>3, <1>4, RunningStep DEF NewPeersUndialled, ConnectedIsLive

\* Discovery answers: the peers that are new to the manager become new_peers,
\* and none of them was loaded.
LEMMA add_peersStep ==
    ASSUME ManagerInv, NEW found \in SUBSET Peers, add_peers(found)
    PROVE  ManagerInv'
<1>. DEFINE fresh == found \ DOMAIN peer_data
            S     == DOMAIN peer_data \cup fresh
            E(p)  == IF p \in fresh THEN NewPeer ELSE peer_data[p]
<1>1. /\ phase = "running"
      /\ UNCHANGED <<phase, file, connected_peers, dialling_peers, peers_to_discover,
                     conns, dials, restarts>>
      /\ waiting' = FALSE /\ new_peers' = new_peers \cup fresh
      /\ peer_data' = [p \in S |-> E(p)]
  BY DEF add_peers, swarm
<1>2. S \in SUBSET Peers /\ \A p \in S : GoodEntry(E(p))
  BY NewPeerGood DEF ManagerInv, TablesOK, GoodTable
<1>3. /\ GoodTable(peer_data') /\ DOMAIN peer_data' = S
      /\ \A p \in S : peer_data'[p] = E(p)
  <2>1. /\ DOMAIN peer_data' = S /\ \A p \in S : peer_data'[p] = E(p)
        /\ peer_data' = [p \in S |-> peer_data'[p]]
    BY <1>1
  <2>2. \A p \in S : GoodEntry(peer_data'[p])
    BY <1>2, <2>1
  <2>. HIDE DEF S, E
  <2>. QED BY <1>2, <2>1, <2>2, TableOfEntries
<1>4. FieldsOK' /\ SwarmOK'
  BY <1>1 DEF ManagerInv, FieldsOK, SwarmOK
<1>5. HistoryForEveryAttempt'
  BY <1>1, <1>3 DEF ManagerInv, HistoryForEveryAttempt, HasHistory
<1>6. \A p \in connected_peers' : conns'[p] > 0
  BY <1>1 DEF ManagerInv, ConnectedIsLive
<1>7. \A p \in DOMAIN peer_data' :
         peer_data'[p].status = "Connected" => p \in connected_peers'
  BY <1>1, <1>3, NewPeerGood DEF ManagerInv, ConnectedIsLive
<1>8. new_peers' = {p \in DOMAIN peer_data' : peer_data'[p].attempts = 0} \ LoadedPeers
  BY <1>1, <1>3, NewPeerGood DEF ManagerInv, NewPeersUndialled, LoadedAreKnown
<1>9. \A p \in DOMAIN peer_data :
         p \in DOMAIN peer_data' /\ peer_data'[p].attempts >= peer_data[p].attempts
  <2>1. \A p \in DOMAIN peer_data : peer_data[p].attempts \in Nat
    BY EntryParts DEF ManagerInv, TablesOK, GoodTable
  <2>. QED BY <1>3, <2>1
<1>. QED BY <1>1, <1>3, <1>4, <1>5, <1>6, <1>7, <1>8, <1>9, RunningStep

\* A peer with a history gets a good entry with a history, and whatever the
\* swarm counts for it: the tables stay good and every attempt has a history.
LEMMA EntryStep ==
    ASSUME ManagerInv, NEW p \in Peers, HasHistory(p),
           NEW e, GoodEntry(e), e.attempts = peer_data[p].attempts,
           peer_data' = [peer_data EXCEPT ![p] = e],
           dialling_peers' \subseteq dialling_peers,
           connected_peers' \subseteq connected_peers \cup {p},
           \A q \in Peers : q # p => conns'[q] = conns[q] /\ dials'[q] = dials[q]
    PROVE  /\ GoodTable(peer_data') /\ DOMAIN peer_data' = DOMAIN peer_data
           /\ peer_data'[p] = e
           /\ \A q \in DOMAIN peer_data : q # p => peer_data'[q] = peer_data[q]
           /\ \A q \in DOMAIN peer_data : peer_data'[q].attempts = peer_data[q].attempts
           /\ \A q \in DOMAIN peer_data : peer_data'[q].attempts >= peer_data[q].attempts
           /\ HistoryForEveryAttempt'
<1>1. p \in DOMAIN peer_data /\ e.attempts > 0 /\ GoodTable(peer_data)
  BY DEF HasHistory, ManagerInv, TablesOK
<1>2. /\ GoodTable(peer_data') /\ DOMAIN peer_data' = DOMAIN peer_data
      /\ peer_data'[p] = e
      /\ \A q \in DOMAIN peer_data : q # p => peer_data'[q] = peer_data[q]
  BY <1>1, TableExcept
<1>3. \A q \in DOMAIN peer_data : peer_data'[q].attempts = peer_data[q].attempts
  BY <1>2
<1>4. \A q \in Peers : HasHistory(q) => HasHistory(q)'
  BY <1>2, <1>3 DEF HasHistory
<1>5. HistoryForEveryAttempt'
  BY <1>4 DEF ManagerInv, HistoryForEveryAttempt
<1>6. \A q \in DOMAIN peer_data : peer_data'[q].attempts >= peer_data[q].attempts
  <2>1. \A q \in DOMAIN peer_data : peer_data[q].attempts \in Nat
    BY <1>1, EntryParts DEF GoodTable
  <2>. QED BY <1>3, <2>1
<1>. QED BY <1>2, <1>3, <1>5, <1>6

\* The set of new peers does not change when no history gets an entry.
LEMMA SameNewPeers ==
    ASSUME ManagerInv, phase = "running", new_peers' = new_peers,
           DOMAIN peer_data' = DOMAIN peer_data,
           \A q \in DOMAIN peer_data : peer_data'[q].attempts = peer_data[q].attempts
    PROVE  new_peers' = {p \in DOMAIN peer_data' : peer_data'[p].attempts = 0}
                            \ LoadedPeers
  BY DEF ManagerInv, NewPeersUndialled

\* A connection to a peer with a history is established, by a dial or by the
\* peer.
LEMMA EstablishedStep ==
    ASSUME ManagerInv, phase = "running", NEW p \in Peers, on_connection_established(p),
           dials' = dials \/ (dials[p] > 0 /\ dials' = [dials EXCEPT ![p] = @ - 1])
    PROVE  ManagerInv'
<1>. DEFINE e == [peer_data[p] EXCEPT !.status = "Connected", !.est = TRUE]
<1>1. /\ p \in DOMAIN peer_data /\ HasHistory(p) /\ GoodTable(peer_data)
      /\ GoodEntry(peer_data[p]) /\ peer_data[p].attempts > 0
  BY DEF on_connection_established, HasHistory, ManagerInv, TablesOK, GoodTable
<1>2. GoodEntry(e) /\ e.attempts = peer_data[p].attempts /\ e.status = "Connected"
  BY <1>1, EstablishedGood
<1>3. peer_data' = [peer_data EXCEPT ![p] = e]
  BY DEF on_connection_established
<1>4. /\ connected_peers' = connected_peers \cup {p}
      /\ dialling_peers' = dialling_peers \ {p}
      /\ conns' = [conns EXCEPT ![p] = conns[p] + 1]
      /\ UNCHANGED <<new_peers, peers_to_discover, waiting, phase, file, restarts>>
  BY DEF on_connection_established
<1>5. /\ SwarmOK' /\ conns'[p] > 0
      /\ \A q \in Peers : q # p => conns'[q] = conns[q] /\ dials'[q] = dials[q]
  BY <1>4 DEF ManagerInv, SwarmOK
<1>. HIDE DEF e
<1>6. /\ GoodTable(peer_data') /\ DOMAIN peer_data' = DOMAIN peer_data
      /\ peer_data'[p] = e
      /\ \A q \in DOMAIN peer_data : q # p => peer_data'[q] = peer_data[q]
      /\ \A q \in DOMAIN peer_data : peer_data'[q].attempts = peer_data[q].attempts
      /\ \A q \in DOMAIN peer_data : peer_data'[q].attempts >= peer_data[q].attempts
      /\ HistoryForEveryAttempt'
  BY <1>1, <1>2, <1>3, <1>4, <1>5, EntryStep
<1>7. FieldsOK'
  BY <1>4 DEF ManagerInv, FieldsOK
<1>8. \A q \in connected_peers' : conns'[q] > 0
  BY <1>4, <1>5 DEF ManagerInv, ConnectedIsLive, FieldsOK
<1>9. \A q \in DOMAIN peer_data' :
         peer_data'[q].status = "Connected" => q \in connected_peers'
  BY <1>4, <1>6 DEF ManagerInv, ConnectedIsLive
<1>10. new_peers' = {q \in DOMAIN peer_data' : peer_data'[q].attempts = 0} \ LoadedPeers
  BY <1>4, <1>6, SameNewPeers
<1>. QED BY <1>4, <1>5, <1>6, <1>7, <1>8, <1>9, <1>10, RunningStep

\* Any connection to a peer is closed.
LEMMA on_connection_closedStep ==
    ASSUME ManagerInv, NEW p \in Peers, NEW d \in Durations, on_connection_closed(p, d)
    PROVE  ManagerInv'
<1>. DEFINE e == Disconnected(peer_data[p], d)
<1>1. /\ p \in DOMAIN peer_data /\ HasHistory(p) /\ GoodTable(peer_data)
      /\ GoodEntry(peer_data[p]) /\ peer_data[p].attempts > 0
  BY DEF on_connection_closed, HasHistory, ManagerInv, TablesOK, GoodTable
<1>2. GoodEntry(e) /\ e.attempts = peer_data[p].attempts /\ e.status = "Disconnected"
  BY <1>1, DisconnectedGood
<1>3. peer_data' = [peer_data EXCEPT ![p] = e]
  BY DEF on_connection_closed
<1>4. /\ connected_peers' = connected_peers \ {p}
      /\ phase = "running" /\ conns[p] > 0
      /\ conns' = [conns EXCEPT ![p] = conns[p] - 1]
      /\ UNCHANGED <<dialling_peers, new_peers, peers_to_discover, waiting, phase, file,
                     dials, restarts>>
  BY DEF on_connection_closed
<1>5. /\ SwarmOK'
      /\ \A q \in Peers : q # p => conns'[q] = conns[q] /\ dials'[q] = dials[q]
  BY <1>4 DEF ManagerInv, SwarmOK
<1>. HIDE DEF e
<1>6. /\ GoodTable(peer_data') /\ DOMAIN peer_data' = DOMAIN peer_data
      /\ peer_data'[p] = e
      /\ \A q \in DOMAIN peer_data : q # p => peer_data'[q] = peer_data[q]
      /\ \A q \in DOMAIN peer_data : peer_data'[q].attempts = peer_data[q].attempts
      /\ \A q \in DOMAIN peer_data : peer_data'[q].attempts >= peer_data[q].attempts
      /\ HistoryForEveryAttempt'
  BY <1>1, <1>2, <1>3, <1>4, <1>5, EntryStep
<1>7. FieldsOK'
  BY <1>4 DEF ManagerInv, FieldsOK
<1>8. \A q \in connected_peers' : conns'[q] > 0
  BY <1>4, <1>5 DEF ManagerInv, ConnectedIsLive, FieldsOK
<1>9. \A q \in DOMAIN peer_data' :
         peer_data'[q].status = "Connected" => q \in connected_peers'
  BY <1>2, <1>4, <1>6 DEF ManagerInv, ConnectedIsLive
<1>10. new_peers' = {q \in DOMAIN peer_data' : peer_data'[q].attempts = 0} \ LoadedPeers
  BY <1>4, <1>6, SameNewPeers
<1>. QED BY <1>4, <1>5, <1>6, <1>7, <1>8, <1>9, <1>10, RunningStep

\* A dial fails.
LEMMA on_dial_failureStep ==
    ASSUME ManagerInv, NEW p \in Peers, on_dial_failure(p)
    PROVE  ManagerInv'
<1>. DEFINE e == Failed(peer_data[p])
<1>1. /\ p \in DOMAIN peer_data /\ HasHistory(p) /\ GoodTable(peer_data)
      /\ GoodEntry(peer_data[p]) /\ peer_data[p].attempts > 0
  BY DEF on_dial_failure, HasHistory, ManagerInv, TablesOK, GoodTable
<1>2. GoodEntry(e) /\ e.attempts = peer_data[p].attempts /\ e.status = "Failed"
  BY <1>1, FailedGood
<1>3. peer_data' = [peer_data EXCEPT ![p] = e]
  BY DEF on_dial_failure
<1>4. /\ dialling_peers' = dialling_peers \ {p}
      /\ phase = "running" /\ dials[p] > 0
      /\ dials' = [dials EXCEPT ![p] = dials[p] - 1]
      /\ UNCHANGED <<connected_peers, new_peers, peers_to_discover, waiting, phase, file,
                     conns, restarts>>
  BY DEF on_dial_failure
<1>5. /\ SwarmOK'
      /\ \A q \in Peers : q # p => conns'[q] = conns[q] /\ dials'[q] = dials[q]
  BY <1>4 DEF ManagerInv, SwarmOK
<1>. HIDE DEF e
<1>6. /\ GoodTable(peer_data') /\ DOMAIN peer_data' = DOMAIN peer_data
      /\ peer_data'[p] = e
      /\ \A q \in DOMAIN peer_data : q # p => peer_data'[q] = peer_data[q]
      /\ \A q \in DOMAIN peer_data : peer_data'[q].attempts = peer_data[q].attempts
      /\ \A q \in DOMAIN peer_data : peer_data'[q].attempts >= peer_data[q].attempts
      /\ HistoryForEveryAttempt'
  BY <1>1, <1>2, <1>3, <1>4, <1>5, EntryStep
<1>7. FieldsOK'
  BY <1>4 DEF ManagerInv, FieldsOK
<1>8. \A q \in connected_peers' : conns'[q] > 0
  BY <1>4 DEF ManagerInv, ConnectedIsLive
<1>9. \A q \in DOMAIN peer_data' :
         peer_data'[q].status = "Connected" => q \in connected_peers'
  BY <1>2, <1>4, <1>6 DEF ManagerInv, ConnectedIsLive
<1>10. new_peers' = {q \in DOMAIN peer_data' : peer_data'[q].attempts = 0} \ LoadedPeers
  BY <1>4, <1>6, SameNewPeers
<1>. QED BY <1>4, <1>5, <1>6, <1>7, <1>8, <1>9, <1>10, RunningStep

-----------------------------------------------------------------------------
(***************************************************************************)
(* The heartbeat.                                                          *)
(***************************************************************************)

\* A tick that gives up the dials in late and dials known peers: each of them
\* gets a history before its dial is under way, and is no longer new.
LEMMA TimeoutAndDialStep ==
    ASSUME ManagerInv, phase = "running",
           NEW late \in SUBSET Overdue, NEW D \in SUBSET DOMAIN peer_data,
           TimeoutAndDial(late, D),
           UNCHANGED <<connected_peers, waiting, phase, file, conns, restarts>>,
           peers_to_discover' \in 0..(U32 - 1)
    PROVE  ManagerInv'
<1>. DEFINE S    == DOMAIN peer_data
            T(p) == TimeoutData(late)[p]
            E(p) == IF p \in D THEN Connecting(T(p)) ELSE T(p)
<1>1. /\ peer_data' = [p \in S |-> E(p)]
      /\ dialling_peers' \subseteq dialling_peers \cup D
      /\ new_peers' = new_peers \ D
      /\ dials' = [p \in Peers |-> IF p \in D /\ conns[p] = 0 THEN dials[p] + 1
                                                              ELSE dials[p]]
  BY DEF TimeoutAndDial
<1>2. GoodTable(peer_data) /\ S \in SUBSET Peers /\ \A p \in S : GoodEntry(peer_data[p])
  BY DEF ManagerInv, TablesOK, GoodTable
<1>3. ASSUME NEW p \in S
      PROVE  /\ GoodEntry(T(p)) /\ T(p).attempts = peer_data[p].attempts
             /\ T(p).status = "Connected" => peer_data[p].status = "Connected"
  <2>1. CASE p \in late
    <3>1. peer_data[p].attempts > 0 /\ GoodEntry(peer_data[p])
      BY <1>2, <2>1 DEF Overdue, HasHistory
    <3>2. T(p) = [peer_data[p] EXCEPT !.status = "Timeout"]
      BY <2>1 DEF TimeoutData
    <3>. QED BY <3>1, <3>2, TimeoutGood
  <2>2. CASE p \notin late
    BY <1>2, <2>2 DEF TimeoutData
  <2>. QED BY <2>1, <2>2
<1>. HIDE DEF T
<1>4. ASSUME NEW p \in S
      PROVE  /\ GoodEntry(E(p))
             /\ p \in D => E(p).attempts > 0 /\ E(p).status = "Connecting"
             /\ p \in D => E(p).attempts = peer_data[p].attempts + 1
             /\ p \notin D => E(p) = T(p)
  BY <1>3, ConnectingGood
<1>5. /\ DOMAIN peer_data' = S /\ \A p \in S : peer_data'[p] = E(p)
      /\ peer_data' = [p \in S |-> peer_data'[p]]
  BY <1>1
<1>. HIDE DEF E
<1>6. GoodTable(peer_data')
  <2>. HIDE DEF S
  <2>. QED BY <1>2, <1>4, <1>5, TableOfEntries
<1>7. \A p \in S : peer_data'[p].attempts = 0 <=> peer_data[p].attempts = 0 /\ p \notin D
  <2>. SUFFICES ASSUME NEW p \in S
                PROVE  peer_data'[p].attempts = 0
                           <=> peer_data[p].attempts = 0 /\ p \notin D
    OBVIOUS
  <2>1. CASE p \in D
    <3>1. E(p).attempts > 0 /\ E(p).attempts \in Nat
      BY <1>4, <2>1, EntryParts
    <3>. QED BY <1>5, <2>1, <3>1
  <2>2. CASE p \notin D
    BY <1>3, <1>4, <1>5, <2>2
  <2>. QED BY <2>1, <2>2
<1>8. FieldsOK'
  BY <1>1, <1>2 DEF ManagerInv, FieldsOK
<1>9. SwarmOK'
  BY <1>1 DEF ManagerInv, SwarmOK
<1>10. \A p \in Peers : p \in D \/ HasHistory(p) => HasHistory(p)'
  <2>. SUFFICES ASSUME NEW p \in Peers, p \in D \/ HasHistory(p) PROVE HasHistory(p)'
    OBVIOUS
  <2>1. CASE p \in D
    BY <1>4, <1>5, <2>1 DEF HasHistory
  <2>2. CASE p \notin D
    <3>1. p \in S /\ peer_data[p].attempts > 0
      BY <2>2 DEF HasHistory
    <3>. QED BY <1>3, <1>4, <1>5, <2>2, <3>1 DEF HasHistory
  <2>. QED BY <2>1, <2>2
<1>11. HistoryForEveryAttempt'
  <2>. SUFFICES ASSUME NEW p \in Peers,
                       conns'[p] > 0 \/ dials'[p] > 0
                           \/ p \in connected_peers' \cup dialling_peers'
                PROVE  HasHistory(p)'
    BY DEF HistoryForEveryAttempt
  <2>1. CASE p \in D
    BY <1>10, <2>1
  <2>2. CASE p \notin D
    <3>1. dials'[p] = dials[p]
      BY <1>1, <2>2
    <3>2. HasHistory(p)
      BY <1>1, <2>2, <3>1 DEF ManagerInv, HistoryForEveryAttempt
    <3>. QED BY <1>10, <3>2
  <2>. QED BY <2>1, <2>2
<1>12. \A p \in connected_peers' : conns'[p] > 0
  BY DEF ManagerInv, ConnectedIsLive
<1>13. \A p \in DOMAIN peer_data' :
          peer_data'[p].status = "Connected" => p \in connected_peers'
  <2>. SUFFICES ASSUME NEW p \in S, peer_data'[p].status = "Connected"
                PROVE  p \in connected_peers
    BY <1>5
  <2>1. p \notin D
    BY <1>4, <1>5
  <2>2. peer_data[p].status = "Connected"
    BY <1>3, <1>4, <1>5, <2>1
  <2>. QED BY <2>2 DEF ManagerInv, ConnectedIsLive
<1>14. new_peers' = {p \in DOMAIN peer_data' : peer_data'[p].attempts = 0} \ LoadedPeers
  BY <1>1, <1>5, <1>7 DEF ManagerInv, NewPeersUndialled
<1>15. \A p \in DOMAIN peer_data :
          p \in DOMAIN peer_data' /\ peer_data'[p].attempts >= peer_data[p].attempts
  <2>. SUFFICES ASSUME NEW p \in S PROVE peer_data'[p].attempts >= peer_data[p].attempts
    BY <1>5
  <2>1. peer_data[p].attempts \in Nat
    BY <1>2, EntryParts
  <2>2. peer_data'[p].attempts \in {peer_data[p].attempts, peer_data[p].attempts + 1}
    BY <1>3, <1>4, <1>5
  <2>. QED BY <2>1, <2>2
<1>. QED BY <1>5, <1>6, <1>8, <1>9, <1>11, <1>12, <1>13, <1>14, <1>15, RunningStep

\* u32 subtraction stays a u32, and is the difference when there is one.
LEMMA Sub32Type ==
    ASSUME NEW a \in Nat, NEW b \in Nat, a < U32
    PROVE  /\ Sub32(a, b) \in 0..(U32 - 1)
           /\ b <= a => Sub32(a, b) = a - b
<1>1. ASSUME NEW n \in Nat \ {0}, NEW x \in Int
      PROVE  x % n \in 0..(n - 1)
  OBVIOUS
<1>2. ASSUME NEW n \in Nat \ {0}, NEW x \in 0..(n - 1)
      PROVE  x % n = x
  OBVIOUS
<1>. DEFINE x == a - b
<1>3. U32 \in Nat \ {0} /\ x \in Int /\ (b <= a => x \in 0..(U32 - 1))
  BY NumbersAssumption
<1>. HIDE DEF x
<1>4. x % U32 \in 0..(U32 - 1)
  BY <1>1, <1>3
<1>5. b <= a => x % U32 = x
  BY <1>2, <1>3
<1>. QED BY <1>4, <1>5 DEF Sub32, x

\* The peers that a heartbeat dials are known, and are no more than missing.
LEMMA DialledPeers ==
    ASSUME ManagerInv, phase = "running", NEW late \in SUBSET Overdue,
           NEW missing \in Nat,
           NEW R \in get_best_peers_for_redial(TimeoutData(late), missing),
           NEW N \in get_new_peers_for_dialling(missing - Cardinality(R))
    PROVE  /\ R \cup N \in SUBSET DOMAIN peer_data
           /\ IsFiniteSet(R \cup N)
           /\ Cardinality(R \cup N) \in 0..missing
<1>1. R \subseteq DOMAIN peer_data /\ Cardinality(R) <= missing
  BY DEF get_best_peers_for_redial, Redialable, TimeoutData
<1>2. N \subseteq DOMAIN peer_data /\ Cardinality(N) <= missing - Cardinality(R)
  BY DEF get_new_peers_for_dialling, ManagerInv, NewPeersUndialled
<1>3. IsFiniteSet(R) /\ IsFiniteSet(N)
  <2>1. DOMAIN peer_data \subseteq Peers
    BY DEF ManagerInv, TablesOK, GoodTable
  <2>. QED BY <1>1, <1>2, <2>1, PeersAssumption, FS_Subset
<1>4. Cardinality(R) \in Nat /\ Cardinality(N) \in Nat /\ Cardinality(R \cap N) \in Nat
  BY <1>3, FS_CardinalityType, FS_Intersection
<1>5. /\ IsFiniteSet(R \cup N)
      /\ Cardinality(R \cup N) = Cardinality(R) + Cardinality(N) - Cardinality(R \cap N)
  BY <1>3, FS_Union
<1>6. Cardinality(R \cup N) \in Nat
  BY <1>5, FS_CardinalityType
<1>. QED BY <1>1, <1>2, <1>4, <1>5, <1>6

\* The peers that count as alive are finitely many.
LEMMA AliveFinite ==
    ASSUME ManagerInv, NEW late
    PROVE  /\ IsFiniteSet(Alive) /\ IsFiniteSet(connected_and_dialling_peers(late))
           /\ Cardinality(Alive) \in Nat
           /\ Cardinality(connected_and_dialling_peers(late)) \in Nat
           /\ Cardinality(connected_and_dialling_peers(late)) <= Cardinality(Alive)
<1>1. Alive \subseteq Peers /\ connected_and_dialling_peers(late) \subseteq Alive
  BY DEF ManagerInv, FieldsOK, Alive, connected_and_dialling_peers
<1>2. IsFiniteSet(Alive)
  BY <1>1, PeersAssumption, FS_Subset
<1>. QED BY <1>1, <1>2, FS_Subset, FS_CardinalityType

\* One tick of the heartbeat.
LEMMA HeartbeatStep ==
    ASSUME ManagerInv, NEW late \in SUBSET Overdue, Heartbeat(late)
    PROVE  ManagerInv'
<1>. DEFINE live    == Cardinality(connected_and_dialling_peers(late))
            missing == Sub32(target_peer_number, live)
<1>1. live \in Nat /\ target_peer_number \in Nat /\ target_peer_number < U32
  BY AliveFinite, NumbersAssumption
<1>2. missing \in 0..(U32 - 1) /\ missing \in Nat
  <2>. HIDE DEF live
  <2>. QED BY <1>1, Sub32Type, NumbersAssumption
<1>3. /\ phase = "running"
      /\ UNCHANGED <<connected_peers, waiting, phase, file, conns, restarts>>
      /\ \/ \E R \in get_best_peers_for_redial(TimeoutData(late), missing) :
            \E N \in get_new_peers_for_dialling(missing - Cardinality(R)) :
               /\ TimeoutAndDial(late, R \cup N)
               /\ peers_to_discover' = missing - Cardinality(R \cup N)
         \/ TimeoutAndDial(late, {}) /\ UNCHANGED peers_to_discover
  BY DEF Heartbeat
<1>. HIDE DEF missing
<1>4. ASSUME NEW R \in get_best_peers_for_redial(TimeoutData(late), missing),
             NEW N \in get_new_peers_for_dialling(missing - Cardinality(R)),
             TimeoutAndDial(late, R \cup N),
             peers_to_discover' = missing - Cardinality(R \cup N)
      PROVE  ManagerInv'
  <2>1. R \cup N \in SUBSET DOMAIN peer_data /\ Cardinality(R \cup N) \in 0..missing
    BY <1>2, <1>3, DialledPeers
  <2>2. peers_to_discover' \in 0..(U32 - 1)
    BY <1>2, <1>4, <2>1, NumbersAssumption
  <2>. QED BY <1>3, <1>4, <2>1, <2>2, TimeoutAndDialStep
<1>5. CASE TimeoutAndDial(late, {}) /\ UNCHANGED peers_to_discover
  <2>1. peers_to_discover' \in 0..(U32 - 1) /\ {} \in SUBSET DOMAIN peer_data
    BY <1>5 DEF ManagerInv, FieldsOK
  <2>. QED BY <1>3, <1>5, <2>1, TimeoutAndDialStep
<1>. QED BY <1>3, <1>4, <1>5

-----------------------------------------------------------------------------
(***************************************************************************)
(* The end of the program and its next start.                              *)
(***************************************************************************)

\* Whatever good file the program leaves behind, nothing else remains.
LEMMA GoneStep ==
    ASSUME ManagerInv, Gone,
           file'.kind \in {"none", "ok", "torn"}, GoodTable(file'.data),
           \A p \in DOMAIN file'.data : file'.data[p].status # "Connected"
    PROVE  ManagerInv'
<1>1. /\ phase' = "stopped" /\ connected_peers' = {} /\ dialling_peers' = {}
      /\ new_peers' = {} /\ peer_data' = <<>> /\ peers_to_discover' = 0
      /\ waiting' = FALSE /\ restarts' = restarts
      /\ conns' = [p \in Peers |-> 0] /\ dials' = [p \in Peers |-> 0]
  BY DEF Gone
<1>2. GoodTable(peer_data') /\ DOMAIN peer_data' = {}
  BY <1>1, EmptyTable
<1>3. FieldsOK' /\ SwarmOK'
  <2>1. 0 \in 0..(U32 - 1) /\ restarts \in Nat
    BY NumbersAssumption DEF ManagerInv, FieldsOK
  <2>2. FieldsOK'
    BY <1>1, <2>1 DEF FieldsOK
  <2>3. SwarmOK'
    BY <1>1 DEF SwarmOK
  <2>. QED BY <2>2, <2>3
<1>4. TablesOK' /\ StoppedIsEmpty'
  BY <1>1, <1>2 DEF TablesOK, StoppedIsEmpty
<1>5. HistoryForEveryAttempt'
  BY <1>1 DEF HistoryForEveryAttempt
<1>6. ConnectedIsLive'
  BY <1>1, <1>2 DEF ConnectedIsLive
<1>7. LoadedAreKnown' /\ NewPeersUndialled'
  BY <1>1 DEF LoadedAreKnown, NewPeersUndialled
<1>. QED BY <1>3, <1>4, <1>5, <1>6, <1>7 DEF ManagerInv

\* save_peer_data disconnects every connected peer, each of which has a
\* history, before it writes the file.
LEMMA save_peer_dataStep ==
    ASSUME ManagerInv, NEW lasted \in [connected_peers -> Durations],
           save_peer_data(lasted)
    PROVE  ManagerInv'
<1>. DEFINE S    == DOMAIN peer_data
            E(p) == IF p \in connected_peers THEN Disconnected(peer_data[p], lasted[p])
                                             ELSE peer_data[p]
            g    == [p \in S |-> E(p)]
<1>1. file' = [kind |-> "ok", data |-> g] /\ Gone
  BY DEF save_peer_data
<1>2. ASSUME NEW p \in S
      PROVE  GoodEntry(E(p)) /\ E(p).status # "Connected"
  <2>1. GoodEntry(peer_data[p])
    BY DEF ManagerInv, TablesOK, GoodTable
  <2>2. CASE p \in connected_peers
    <3>1. peer_data[p].attempts > 0 /\ lasted[p] \in Durations
      BY <2>2 DEF ManagerInv, HistoryForEveryAttempt, HasHistory, FieldsOK
    <3>. QED BY <2>1, <2>2, <3>1, DisconnectedGood
  <2>3. CASE p \notin connected_peers
    BY <2>1, <2>3 DEF ManagerInv, ConnectedIsLive
  <2>. QED BY <2>2, <2>3
<1>3. DOMAIN g = S /\ (\A p \in S : g[p] = E(p)) /\ g = [p \in S |-> g[p]]
  OBVIOUS
<1>4. S \in SUBSET Peers
  BY DEF ManagerInv, TablesOK, GoodTable
<1>. HIDE DEF E, g, S
<1>5. GoodTable(g)
  BY <1>2, <1>3, <1>4, TableOfEntries
<1>6. file'.kind = "ok" /\ file'.data = g
  BY <1>1
<1>. QED BY <1>1, <1>2, <1>3, <1>5, <1>6, GoneStep

\* The program is killed, in the middle of a save or not.
LEMMA KillStep ==
    ASSUME ManagerInv, Kill \/ KillDuringSave
    PROVE  ManagerInv'
<1>1. CASE Kill
  <2>1. file' = file /\ Gone
    BY <1>1 DEF Kill
  <2>. QED BY <2>1, GoneStep DEF ManagerInv, FieldsOK, TablesOK, ConnectedIsLive
<1>2. CASE KillDuringSave
  <2>1. file'.kind = "torn" /\ file'.data = <<>> /\ Gone
    BY <1>2 DEF KillDuringSave
  <2>. QED BY <2>1, EmptyTable, GoneStep
<1>. QED BY <1>1, <1>2

\* The next start takes over what the file says of the peers.
LEMMA load_peer_dataStep ==
    ASSUME ManagerInv, load_peer_data
    PROVE  ManagerInv'
<1>1. /\ phase = "stopped" /\ phase' = "running" /\ file.kind # "torn"
      /\ restarts' = restarts + 1
      /\ peer_data' = IF file.kind = "ok" THEN file.data ELSE <<>>
      /\ UNCHANGED <<connected_peers, dialling_peers, new_peers, peers_to_discover,
                     waiting, file, conns, dials>>
  BY DEF load_peer_data, swarm
<1>2. /\ connected_peers = {} /\ dialling_peers = {} /\ new_peers = {}
      /\ \A p \in Peers : conns[p] = 0 /\ dials[p] = 0
  BY <1>1 DEF ManagerInv, StoppedIsEmpty
<1>3. LoadedPeers' = DOMAIN peer_data'
  BY <1>1, EmptyTable DEF LoadedPeers
<1>4. GoodTable(peer_data') /\ TablesOK'
  BY <1>1, EmptyTable DEF ManagerInv, TablesOK
<1>5. FieldsOK' /\ SwarmOK' /\ StoppedIsEmpty'
  BY <1>1 DEF ManagerInv, FieldsOK, SwarmOK, StoppedIsEmpty
<1>6. HistoryForEveryAttempt'
  BY <1>1, <1>2 DEF HistoryForEveryAttempt
<1>7. ConnectedIsLive'
  BY <1>1, <1>2, EmptyTable DEF ManagerInv, ConnectedIsLive
<1>8. LoadedAreKnown' /\ NewPeersUndialled'
  <2>1. ASSUME NEW p \in LoadedPeers'
        PROVE  peer_data'[p].attempts >= file'.data[p].attempts
    <3>1. p \in DOMAIN file.data /\ peer_data' = file.data
      BY <1>1, <2>1 DEF LoadedPeers
    <3>2. file.data[p].attempts \in Nat
      BY <3>1, EntryParts DEF ManagerInv, TablesOK, GoodTable
    <3>. QED BY <1>1, <3>1, <3>2
  <2>. QED BY <1>1, <1>2, <1>3, <2>1 DEF LoadedAreKnown, NewPeersUndialled
<1>. QED BY <1>4, <1>5, <1>6, <1>7, <1>8 DEF ManagerInv

\* A panic leaves everything as it was and ends the run of the program.
LEMMA PanicStep ==
    ASSUME ManagerInv, Panic
    PROVE  ManagerInv'
<1>1. /\ phase' = "panicked"
      /\ UNCHANGED <<connected_peers, dialling_peers, new_peers, peer_data,
                     peers_to_discover, waiting, file, conns, dials, restarts>>
  BY DEF Panic, manager, swarm
<1>2. FieldsOK' /\ SwarmOK' /\ TablesOK' /\ StoppedIsEmpty' /\ LoadedAreKnown'
  BY <1>1 DEF ManagerInv, FieldsOK, SwarmOK, TablesOK, StoppedIsEmpty, LoadedAreKnown
<1>3. HistoryForEveryAttempt' /\ ConnectedIsLive' /\ NewPeersUndialled'
  BY <1>1 DEF ManagerInv, HistoryForEveryAttempt, HasHistory, ConnectedIsLive,
              NewPeersUndialled
<1>. QED BY <1>2, <1>3 DEF ManagerInv

-----------------------------------------------------------------------------
(***************************************************************************)
(* The invariant.                                                          *)
(***************************************************************************)

\* The first start of the program establishes it.
LEMMA ManagerInit == Init => ManagerInv
<1>. SUFFICES ASSUME Init PROVE ManagerInv
  OBVIOUS
<1>1. file.kind = "none" /\ file.data = <<>> /\ peer_data = <<>>
  BY DEF Init
<1>2. TablesOK /\ DOMAIN peer_data = {} /\ DOMAIN file.data = {}
  BY <1>1, EmptyTable DEF TablesOK
<1>3. FieldsOK /\ SwarmOK
  <2>1. 0 \in 0..(U32 - 1)
    BY NumbersAssumption
  <2>2. FieldsOK
    BY <1>1, <2>1 DEF Init, FieldsOK
  <2>3. SwarmOK
    BY DEF Init, SwarmOK
  <2>. QED BY <2>2, <2>3
<1>4. StoppedIsEmpty /\ LoadedAreKnown
  BY <1>1 DEF Init, StoppedIsEmpty, LoadedAreKnown, LoadedPeers
<1>5. HistoryForEveryAttempt /\ ConnectedIsLive /\ NewPeersUndialled
  BY <1>1, <1>2 DEF Init, HistoryForEveryAttempt, ConnectedIsLive, NewPeersUndialled
<1>. QED BY <1>2, <1>3, <1>4, <1>5 DEF ManagerInv

\* Every step keeps it.
LEMMA ManagerStep == ManagerInv /\ [Next]_vars => ManagerInv'
<1>. SUFFICES ASSUME ManagerInv, [Next]_vars PROVE ManagerInv'
  OBVIOUS
<1>1. CASE PollDiscover
  BY <1>1, PollDiscoverStep
<1>2. CASE HeartbeatTick
  <2>1. PICK late \in SUBSET Overdue : Heartbeat(late) \/ HeartbeatOverflow(late)
    BY <1>2 DEF HeartbeatTick
  <2>2. CASE Heartbeat(late)
    BY <2>2, HeartbeatStep
  <2>3. CASE HeartbeatOverflow(late)
    BY <2>3, PanicStep DEF HeartbeatOverflow
  <2>. QED BY <2>1, <2>2, <2>3
<1>3. CASE \E found \in SUBSET Peers : waiting /\ add_peers(found)
  BY <1>3, add_peersStep
<1>4. ASSUME NEW p \in Peers, OutboundEstablished(p) PROVE ManagerInv'
  BY <1>4, EstablishedStep DEF OutboundEstablished
<1>5. ASSUME NEW p \in Peers, InboundEstablished(p) PROVE ManagerInv'
  BY <1>5, EstablishedStep DEF InboundEstablished
<1>6. ASSUME NEW p \in Peers, InboundPanic(p) PROVE ManagerInv'
  BY <1>6, PanicStep DEF InboundPanic
<1>7. ASSUME NEW p \in Peers, NEW d \in Durations, on_connection_closed(p, d)
      PROVE  ManagerInv'
  BY <1>7, on_connection_closedStep
<1>8. ASSUME NEW p \in Peers, on_dial_failure(p) PROVE ManagerInv'
  BY <1>8, on_dial_failureStep
<1>9. CASE ProgramEnds
  BY <1>9, save_peer_dataStep, KillStep DEF ProgramEnds
<1>10. CASE ProgramStarts
  BY <1>10, load_peer_dataStep, PanicStep DEF ProgramStarts, LoadPanic
<1>11. CASE UNCHANGED vars
  <2>1. UNCHANGED <<connected_peers, dialling_peers, new_peers, peer_data,
                    peers_to_discover, waiting, phase, file, conns, dials, restarts>>
    BY <1>11 DEF vars, manager, swarm
  <2>. QED BY <2>1 DEF ManagerInv, FieldsOK, SwarmOK, TablesOK, StoppedIsEmpty,
                       LoadedAreKnown, LoadedPeers, HistoryForEveryAttempt, HasHistory,
                       ConnectedIsLive, NewPeersUndialled
<1>. QED BY <1>1, <1>2, <1>3, <1>4, <1>5, <1>6, <1>7, <1>8, <1>9, <1>10, <1>11
         DEF Next, SwarmEvent

\* ManagerInv is an invariant of the peer manager.
LEMMA ManagerInvariance == Spec => []ManagerInv
  BY ManagerInit, ManagerStep, PTL DEF Spec

-----------------------------------------------------------------------------
(***************************************************************************)
(* Theorems.                                                               *)
(***************************************************************************)

\* Every state has its type, and a peer has a status exactly when it has a
\* connection history.
THEOREM TypesCorrect == Spec => []TypeOK
  BY ManagerInvariance, ManagerInvImplies, PTL

\* No unwrap or expect about an attempt that was made can fail: every peer
\* that is connected, dialled or counted as either has a history.
THEOREM AttemptsHaveHistories == Spec => []HistoryForEveryAttempt
  BY ManagerInvariance, ManagerInvImplies, PTL

\* No peer is taken for connected without a live connection, nor saved as
\* connected: on_connection_closed and save_peer_data leave no such entry.
THEOREM ConnectedPeersAreLive == Spec => []ConnectedIsLive
  BY ManagerInvariance, ManagerInvImplies, PTL

\* new_peers and the connection histories never disagree: add_peers,
\* get_peers_to_dial and peer_connecting keep them in step.
THEOREM NewPeersCorrect == Spec => []NewPeersUndialled
  BY ManagerInvariance, ManagerInvImplies, PTL

\* No running average that update_average_connection_duration computes
\* exceeds the longest connection.
THEOREM AveragesBounded == Spec => []AverageWithinDurations
  BY ManagerInvariance, ManagerInvImplies, PTL

\* A program that starts from its file and saves again loses no peer and no
\* attempt that was in it, however often it restarts and whatever load_peer_data,
\* add_peers, the heartbeats and the swarm did in between.
THEOREM SavesAreKept == Spec => SavedPeersKept
<1>. DEFINE Kept == file.kind = "ok" /\ file'.kind = "ok" =>
                        \A p \in DOMAIN file.data :
                            /\ p \in DOMAIN file'.data
                            /\ file'.data[p].attempts >= file.data[p].attempts
<1>1. ManagerInv /\ [Next]_vars => [Kept]_vars
  <2>. SUFFICES ASSUME ManagerInv, Next, file.kind = "ok", file'.kind = "ok",
                       NEW p \in DOMAIN file.data
                PROVE  /\ p \in DOMAIN file'.data
                       /\ file'.data[p].attempts >= file.data[p].attempts
    OBVIOUS
  <2>1. file.data[p].attempts \in Nat
    BY EntryParts DEF ManagerInv, TablesOK, GoodTable
  <2>2. CASE file' = file
    BY <2>1, <2>2
  <2>3. ASSUME NEW lasted \in [connected_peers -> Durations], save_peer_data(lasted)
        PROVE  /\ p \in DOMAIN file'.data
               /\ file'.data[p].attempts >= file.data[p].attempts
    <3>. DEFINE E(q) == IF q \in connected_peers
                        THEN Disconnected(peer_data[q], lasted[q]) ELSE peer_data[q]
    <3>1. phase = "running" /\ file' = [kind |-> "ok", data |-> [q \in DOMAIN peer_data |-> E(q)]]
      BY <2>3 DEF save_peer_data
    <3>2. p \in DOMAIN peer_data /\ peer_data[p].attempts >= file.data[p].attempts
      BY <3>1 DEF ManagerInv, LoadedAreKnown, LoadedPeers
    <3>3. GoodEntry(peer_data[p])
      BY <3>2 DEF ManagerInv, TablesOK, GoodTable
    <3>4. E(p).attempts = peer_data[p].attempts
      <4>1. CASE p \in connected_peers
        <5>1. peer_data[p].attempts > 0 /\ lasted[p] \in Durations
          BY <4>1 DEF ManagerInv, HistoryForEveryAttempt, HasHistory, FieldsOK
        <5>. QED BY <3>3, <4>1, <5>1, DisconnectedGood
      <4>2. CASE p \notin connected_peers
        BY <4>2
      <4>. QED BY <4>1, <4>2
    <3>. HIDE DEF E
    <3>5. file'.data = [q \in DOMAIN peer_data |-> E(q)]
      BY <3>1
    <3>. QED BY <3>2, <3>4, <3>5
  <2>4. CASE PollDiscover \/ HeartbeatTick \/ SwarmEvent \/ ProgramStarts
             \/ \E found \in SUBSET Peers : waiting /\ add_peers(found)
    <3>1. file' = file
      BY <2>4 DEF PollDiscover, HeartbeatTick, Heartbeat, HeartbeatOverflow, SwarmEvent,
                  OutboundEstablished, InboundEstablished, InboundPanic, Panic,
                  on_connection_established, on_connection_closed, on_dial_failure,
                  ProgramStarts, load_peer_data, LoadPanic, add_peers
    <3>. QED BY <2>2, <3>1
  <2>5. CASE Kill \/ KillDuringSave
    BY <2>2, <2>5 DEF Kill, KillDuringSave
  <2>. QED BY <2>3, <2>4, <2>5 DEF Next, ProgramEnds
<1>. QED BY <1>1, ManagerInvariance, PTL DEF Spec, SavedPeersKept

\* No heartbeat of poll dials more peers than are missing: from the target or
\* below, only a connection being established can exceed it.
THEOREM HeartbeatsDialAtMostMissing == Spec => HeartbeatDialsAtMostMissing
<1>. DEFINE Gap == Cardinality(Alive) <= target_peer_number =>
                       \/ Cardinality(Alive') <= target_peer_number
                       \/ connected_peers' # connected_peers
<1>1. ManagerInv /\ ManagerInv' /\ [Next]_vars => [Gap]_vars
  <2>. SUFFICES ASSUME ManagerInv, ManagerInv', Next,
                       Cardinality(Alive) <= target_peer_number,
                       connected_peers' = connected_peers
                PROVE  Cardinality(Alive') <= target_peer_number
    OBVIOUS
  <2>1. /\ IsFiniteSet(Alive) /\ Cardinality(Alive) \in Nat
        /\ target_peer_number \in Nat /\ target_peer_number < U32
    BY AliveFinite, NumbersAssumption
  <2>2. ASSUME Alive' \subseteq Alive
        PROVE  Cardinality(Alive') <= target_peer_number
    <3>1. Cardinality(Alive') <= Cardinality(Alive) /\ Cardinality(Alive') \in Nat
      BY <2>1, <2>2, FS_Subset, FS_CardinalityType
    <3>. QED BY <2>1, <3>1
  <2>3. ASSUME NEW late \in SUBSET Overdue, Heartbeat(late)
        PROVE  Cardinality(Alive') <= target_peer_number
    <3>. DEFINE L       == connected_and_dialling_peers(late)
                live    == Cardinality(L)
                missing == Sub32(target_peer_number, live)
    <3>1. IsFiniteSet(L) /\ live \in Nat /\ live <= Cardinality(Alive)
      BY AliveFinite
    <3>2. missing = target_peer_number - live /\ missing \in Nat
      <4>1. live <= target_peer_number
        BY <2>1, <3>1
      <4>. HIDE DEF live
      <4>2. missing = target_peer_number - live
        BY <2>1, <3>1, <4>1, Sub32Type
      <4>. QED BY <2>1, <3>1, <4>1, <4>2
    <3>3. /\ phase = "running"
          /\ \/ \E R \in get_best_peers_for_redial(TimeoutData(late), missing) :
                \E N \in get_new_peers_for_dialling(missing - Cardinality(R)) :
                   TimeoutAndDial(late, R \cup N)
             \/ TimeoutAndDial(late, {})
      BY <2>3 DEF Heartbeat
    <3>. HIDE DEF missing, live
    <3>4. PICK D : /\ TimeoutAndDial(late, D)
                   /\ IsFiniteSet(D) /\ Cardinality(D) \in 0..missing
      <4>1. ASSUME NEW R \in get_best_peers_for_redial(TimeoutData(late), missing),
                   NEW N \in get_new_peers_for_dialling(missing - Cardinality(R))
            PROVE  IsFiniteSet(R \cup N) /\ Cardinality(R \cup N) \in 0..missing
        BY <3>2, <3>3, DialledPeers
      <4>2. IsFiniteSet({}) /\ Cardinality({}) \in 0..missing
        BY <3>2, FS_EmptySet
      <4>. QED BY <3>3, <4>1, <4>2
    <3>5. Alive' = L \cup D
      BY <3>4 DEF Alive, TimeoutAndDial, connected_and_dialling_peers
    <3>6. /\ Cardinality(L \cup D) = live + Cardinality(D) - Cardinality(L \cap D)
          /\ Cardinality(L \cap D) \in Nat
      BY <3>1, <3>4, FS_Union, FS_Intersection, FS_CardinalityType DEF live
    <3>. QED BY <2>1, <3>1, <3>2, <3>4, <3>5, <3>6
  <2>4. ASSUME UNCHANGED <<connected_peers, dialling_peers>>
        PROVE  Alive' \subseteq Alive
    BY <2>4 DEF Alive
  <2>5. CASE PollDiscover
    BY <2>2, <2>4, <2>5 DEF PollDiscover
  <2>6. CASE HeartbeatTick
    BY <2>2, <2>3, <2>4, <2>6 DEF HeartbeatTick, HeartbeatOverflow, Panic, manager
  <2>7. CASE \E found \in SUBSET Peers : waiting /\ add_peers(found)
    BY <2>2, <2>4, <2>7 DEF add_peers
  <2>8. CASE SwarmEvent
    <3>1. dialling_peers' \subseteq dialling_peers
      BY <2>8 DEF SwarmEvent, OutboundEstablished, InboundEstablished, InboundPanic,
                  on_connection_established, on_connection_closed, on_dial_failure,
                  Panic, manager
    <3>2. Alive' \subseteq Alive
      BY <3>1 DEF Alive
    <3>. QED BY <2>2, <3>2
  <2>9. CASE ProgramEnds
    <3>1. connected_peers' = {} /\ dialling_peers' = {}
      BY <2>9 DEF ProgramEnds, save_peer_data, Kill, KillDuringSave, Gone
    <3>2. Alive' \subseteq Alive
      BY <3>1 DEF Alive
    <3>. QED BY <2>2, <3>2
  <2>10. CASE ProgramStarts
    BY <2>2, <2>4, <2>10 DEF ProgramStarts, load_peer_data, LoadPanic, Panic, manager
  <2>. QED BY <2>5, <2>6, <2>7, <2>8, <2>9, <2>10 DEF Next
<1>. QED BY <1>1, ManagerInvariance, PTL DEF Spec, HeartbeatDialsAtMostMissing

=============================================================================
