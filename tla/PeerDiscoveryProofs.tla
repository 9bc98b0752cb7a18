------------------------ MODULE PeerDiscoveryProofs ------------------------
(***************************************************************************)
(* Proofs about PeerManager and Discovery together, for any number of      *)
(* peers and queries: one request for discovery is under way at a time,    *)
(* so the peer manager beside discovery behaves like the peer manager on   *)
(* its own, and what is proved of that one holds here too.                 *)
(***************************************************************************)
EXTENDS PeerDiscovery, FiniteSetTheorems, TLAPS

Stages == {D!NoQuery, "new", "running", "ok", "err"}

\* OneRequestAtATime is kept by a restart because nothing of a request
\* survives the end of the program.
DiscoveryInv ==
    /\ peers_future \in [Queries -> Stages]
    /\ lost \in Nat
    /\ waiting \in BOOLEAN
    /\ OneRequestAtATime
    /\ phase = "stopped" => ~waiting /\ InFlight = 0 /\ lost = 0

\* The queries under way can be counted.
LEMMA LiveFinite ==
    /\ IsFiniteSet(D!Live) /\ Cardinality(D!Live) \in Nat
    /\ Cardinality(D!Live) = 0 <=> D!Live = {}
<1>1. D!Live \subseteq Queries
  BY DEF D!Live
<1>2. IsFiniteSet(D!Live)
  BY <1>1, QueriesAssumption, FS_Subset
<1>. QED BY <1>2, FS_CardinalityType, FS_EmptySet

\* When at most one request is counted it is waited for, and it is either the
\* number that set_peers_to_discover left, or one query, or one failure.
LEMMA Counting ==
    ASSUME DiscoveryInv, phase = "running"
    PROVE  /\ ~waiting => ~(to_discover > 0) /\ D!Live = {} /\ lost = 0
           /\ to_discover > 0 => waiting /\ D!Live = {} /\ lost = 0
           /\ D!Live # {} => /\ waiting /\ ~(to_discover > 0) /\ lost = 0
                             /\ Cardinality(D!Live) = 1
<1>. DEFINE n == Cardinality(D!Live)
            t == IF to_discover > 0 THEN 1 ELSE 0
            w == IF waiting THEN 1 ELSE 0
<1>1. /\ t \in {0, 1} /\ (t = 1 <=> to_discover > 0)
      /\ w \in {0, 1} /\ (w = 1 <=> waiting)
  OBVIOUS
<1>2. n \in Nat /\ (n = 0 <=> D!Live = {}) /\ lost \in Nat
  BY LiveFinite DEF DiscoveryInv
<1>3. t + n + lost = w
  BY DEF DiscoveryInv, OneRequestAtATime, InFlight
<1>. HIDE DEF n, t, w
<1>4. /\ w = 0 => t = 0 /\ n = 0 /\ lost = 0
      /\ t = 1 => w = 1 /\ n = 0 /\ lost = 0
      /\ n # 0 => w = 1 /\ t = 0 /\ lost = 0 /\ n = 1
  BY <1>1, <1>2, <1>3
<1>. QED BY <1>1, <1>2, <1>4 DEF n

\* PollFind: the request becomes the only query.
LEMMA PollFindStep ==
    ASSUME peers_future \in [Queries -> Stages], D!Live = {}, D!PollFind
    PROVE  /\ peers_future' \in [Queries -> Stages]
           /\ to_discover' = 0 /\ Cardinality(D!Live') = 1
<1>. DEFINE q == CHOOSE q \in Queries \ D!Live : TRUE
<1>1. /\ q \in Queries /\ peers_future' = [peers_future EXCEPT ![q] = "new"]
      /\ to_discover' = 0
  BY DEF D!PollFind, D!find_peers
<1>. HIDE DEF q
<1>2. peers_future' \in [Queries -> Stages] /\ peers_future'[q] = "new"
      /\ \A r \in Queries : r # q => peers_future'[r] = peers_future[r]
  BY <1>1 DEF Stages
<1>3. D!Live' = {q}
  BY <1>1, <1>2 DEF D!Live, D!NoQuery
<1>. QED BY <1>1, <1>2, <1>3, FS_Singleton

\* PollPending drops the failed queries and keeps the others.
LEMMA PollPendingStep ==
    ASSUME peers_future \in [Queries -> Stages], D!PollPending
    PROVE  /\ peers_future' \in [Queries -> Stages]
           /\ to_discover = 0 /\ to_discover' = 0
           /\ Cardinality(D!Failed) \in Nat
           /\ Cardinality(D!Live') \in Nat
           /\ Cardinality(D!Live') + Cardinality(D!Failed) = Cardinality(D!Live)
<1>. DEFINE P(r) == CASE peers_future[r] = "err" -> D!NoQuery
                      [] peers_future[r] = "new" -> "running"
                      [] OTHER -> peers_future[r]
<1>1. peers_future' = [r \in Queries |-> P(r)] /\ to_discover = 0 /\ to_discover' = 0
  BY DEF D!PollPending
<1>2. ASSUME NEW r \in Queries
      PROVE  /\ P(r) \in Stages
             /\ P(r) # D!NoQuery <=> peers_future[r] # D!NoQuery /\ peers_future[r] # "err"
  BY DEF Stages, D!NoQuery
<1>. HIDE DEF P
<1>3. peers_future' \in [Queries -> Stages]
  BY <1>1, <1>2
<1>4. D!Live' = D!Live \ D!Failed /\ D!Failed \subseteq D!Live
  BY <1>1, <1>2 DEF D!Live, D!Failed, D!NoQuery
<1>5. /\ IsFiniteSet(D!Live') /\ IsFiniteSet(D!Failed)
      /\ Cardinality(D!Live') = Cardinality(D!Live) - Cardinality(D!Live \cap D!Failed)
  BY <1>4, LiveFinite, FS_Difference, FS_Subset
<1>6. D!Live \cap D!Failed = D!Failed
  BY <1>4
<1>7. Cardinality(D!Live') \in Nat /\ Cardinality(D!Failed) \in Nat
  BY <1>5, FS_CardinalityType
<1>8. Cardinality(D!Live') + Cardinality(D!Failed) = Cardinality(D!Live)
  <2>. DEFINE l == Cardinality(D!Live)
              m == Cardinality(D!Live')
              f == Cardinality(D!Failed)
  <2>1. l \in Nat /\ m \in Nat /\ f \in Nat /\ m = l - f
    BY <1>5, <1>6, <1>7, LiveFinite
  <2>. HIDE DEF l, m, f
  <2>2. m + f = l
    BY <2>1
  <2>. QED BY <2>2 DEF l, m, f
<1>. QED BY <1>1, <1>3, <1>7, <1>8

\* What a step that touches neither discovery nor waiting has to show.
LEMMA DiscoveryUntouched ==
    ASSUME DiscoveryInv, UNCHANGED <<to_discover, peers_future, lost, waiting>>,
           phase' \in {phase, "panicked"}
    PROVE  DiscoveryInv'
<1>1. InFlight' = InFlight
  BY DEF InFlight, D!Live
<1>. QED BY <1>1 DEF DiscoveryInv, OneRequestAtATime

\* The invariant holds initially.
LEMMA DiscoveryInit == Init => DiscoveryInv
<1>. SUFFICES ASSUME Init PROVE DiscoveryInv
  OBVIOUS
<1>1. /\ peers_future = [q \in Queries |-> D!NoQuery] /\ to_discover = 0 /\ lost = 0
      /\ waiting = FALSE /\ phase = "running"
  BY DEF Init, PM!Init, D!Init
<1>2. D!Live = {} /\ Cardinality(D!Live) = 0
  BY <1>1, FS_EmptySet DEF D!Live
<1>3. InFlight = 0
  BY <1>1, <1>2 DEF InFlight
<1>4. peers_future \in [Queries -> Stages]
  BY <1>1 DEF Stages
<1>5. waiting \in BOOLEAN /\ ~waiting
  BY <1>1
<1>6. OneRequestAtATime
  BY <1>1, <1>3, <1>5 DEF OneRequestAtATime
<1>. QED BY <1>1, <1>4, <1>5, <1>6 DEF DiscoveryInv

\* Every step keeps it.
LEMMA DiscoveryStep == DiscoveryInv /\ [Next]_vars => DiscoveryInv'
<1>. SUFFICES ASSUME DiscoveryInv, [Next]_vars PROVE DiscoveryInv'
  OBVIOUS
<1>. USE DEF DiscoveryInv
<1>1. CASE Ask
  <2>1. /\ phase = "running" /\ phase' = phase /\ ~waiting /\ waiting' = TRUE
        /\ to_discover' > 0 /\ UNCHANGED <<peers_future, lost>>
    BY <1>1 DEF Ask, PM!PollDiscover, PM!DiscoverReady, D!set_peers_to_discover
  <2>2. D!Live' = {} /\ lost' = 0
    BY <2>1, Counting DEF D!Live
  <2>3. InFlight' = 1
    BY <2>1, <2>2, FS_EmptySet DEF InFlight
  <2>. QED BY <2>1, <2>2, <2>3 DEF OneRequestAtATime
<1>2. ASSUME NEW q \in Queries, NEW found \in SUBSET Peers, Answer(q, found)
      PROVE  DiscoveryInv'
  <2>1. /\ phase = "running" /\ phase' = phase /\ waiting' = FALSE /\ lost' = lost
        /\ to_discover = 0 /\ to_discover' = 0 /\ peers_future[q] = "ok"
        /\ peers_future' = [r \in Queries |-> D!NoQuery]
    BY <1>2 DEF Answer, PM!add_peers, D!PollPeers
  <2>2. q \in D!Live
    BY <2>1 DEF D!Live, D!NoQuery
  <2>3. D!Live' = {} /\ lost' = 0
    BY <2>1, <2>2, Counting DEF D!Live
  <2>4. InFlight' = 0
    BY <2>1, <2>3, FS_EmptySet DEF InFlight
  <2>5. peers_future' \in [Queries -> Stages]
    BY <2>1 DEF Stages
  <2>6. waiting' \in BOOLEAN /\ ~waiting'
    BY <2>1
  <2>7. OneRequestAtATime'
    BY <2>3, <2>4, <2>6 DEF OneRequestAtATime
  <2>. QED BY <2>1, <2>3, <2>5, <2>6, <2>7
<1>3. CASE Find
  <2>1. /\ phase = "running" /\ D!PollFind /\ to_discover > 0
        /\ UNCHANGED <<phase, waiting, lost>>
    BY <1>3 DEF Find, D!PollFind, managerVars
  <2>2. waiting /\ D!Live = {} /\ lost = 0
    BY <2>1, Counting
  <2>3. /\ peers_future' \in [Queries -> Stages]
        /\ to_discover' = 0 /\ Cardinality(D!Live') = 1
    BY <2>1, <2>2, PollFindStep
  <2>4. InFlight' = 1
    BY <2>3 DEF InFlight
  <2>. QED BY <2>1, <2>2, <2>3, <2>4 DEF OneRequestAtATime
<1>4. CASE Pending
  <2>1. /\ phase = "running" /\ D!PollPending /\ lost' = lost + Cardinality(D!Failed)
        /\ UNCHANGED <<phase, waiting>>
    BY <1>4 DEF Pending, managerVars
  <2>2. /\ peers_future' \in [Queries -> Stages]
        /\ to_discover = 0 /\ to_discover' = 0
        /\ Cardinality(D!Failed) \in Nat
        /\ Cardinality(D!Live') \in Nat
        /\ Cardinality(D!Live') + Cardinality(D!Failed) = Cardinality(D!Live)
    BY <2>1, PollPendingStep
  <2>3. InFlight = Cardinality(D!Live) /\ InFlight' = Cardinality(D!Live')
    BY <2>2, LiveFinite DEF InFlight
  <2>4. InFlight' + lost' = InFlight + lost /\ lost' \in Nat
    BY <2>1, <2>2, <2>3, LiveFinite
  <2>. QED BY <2>1, <2>2, <2>4 DEF OneRequestAtATime
<1>5. ASSUME NEW q \in Queries, NEW result \in {"ok", "err"}, QueryEnds(q, result)
      PROVE  DiscoveryInv'
  <2>1. /\ phase = "running" /\ UNCHANGED <<phase, waiting, lost, to_discover>>
        /\ peers_future[q] = "running"
        /\ peers_future' = [peers_future EXCEPT ![q] = result]
    BY <1>5 DEF QueryEnds, D!QueryEnds, managerVars
  <2>2. peers_future' \in [Queries -> Stages] /\ D!Live' = D!Live
    BY <2>1 DEF Stages, D!Live, D!NoQuery
  <2>3. InFlight' = InFlight
    BY <2>1, <2>2 DEF InFlight
  <2>. QED BY <2>1, <2>2, <2>3 DEF OneRequestAtATime
<1>6. CASE ManagerStep
  <2>1. UNCHANGED <<to_discover, peers_future, lost>>
    BY <1>6 DEF ManagerStep, discoveryVars
  <2>2. ASSUME PM!HeartbeatTick PROVE waiting' = waiting /\ phase' \in {phase, "panicked"}
    BY <2>2 DEF PM!HeartbeatTick, PM!Heartbeat, PM!HeartbeatOverflow, PM!Panic,
                PM!manager
  <2>3. ASSUME PM!SwarmEvent PROVE waiting' = waiting /\ phase' \in {phase, "panicked"}
    BY <2>3 DEF PM!SwarmEvent, PM!OutboundEstablished, PM!InboundEstablished,
                PM!InboundPanic, PM!on_connection_established,
                PM!on_connection_closed, PM!on_dial_failure, PM!Panic, PM!manager
  <2>. QED BY <1>6, <2>1, <2>2, <2>3, DiscoveryUntouched DEF ManagerStep
<1>7. CASE End
  <2>1. /\ phase' = "stopped" /\ waiting' = FALSE
        /\ peers_future' = [r \in Queries |-> D!NoQuery]
        /\ to_discover' = 0 /\ lost' = 0
    BY <1>7 DEF End, D!Reset, PM!ProgramEnds, PM!save_peer_data, PM!Kill,
                PM!KillDuringSave, PM!Gone
  <2>2. D!Live' = {}
    BY <2>1 DEF D!Live
  <2>3. InFlight' = 0
    BY <2>1, <2>2, FS_EmptySet DEF InFlight
  <2>4. peers_future' \in [Queries -> Stages]
    BY <2>1 DEF Stages
  <2>. QED BY <2>1, <2>3, <2>4 DEF OneRequestAtATime
<1>8. CASE Start
  <2>1. /\ phase = "stopped" /\ phase' \in {"running", "panicked"}
        /\ UNCHANGED <<to_discover, peers_future, lost, waiting>>
    BY <1>8 DEF Start, PM!ProgramStarts, PM!load_peer_data, PM!LoadPanic, PM!Panic,
                PM!manager, discoveryVars
  <2>2. InFlight' = InFlight
    BY <2>1 DEF InFlight, D!Live
  <2>. QED BY <2>1, <2>2 DEF OneRequestAtATime
<1>9. CASE UNCHANGED vars
  <2>1. UNCHANGED <<to_discover, peers_future, lost, waiting, phase>>
    BY <1>9 DEF vars, managerVars, discoveryVars
  <2>. QED BY <2>1, DiscoveryUntouched
<1>. QED BY <1>1, <1>2, <1>3, <1>4, <1>5, <1>6, <1>7, <1>8, <1>9 DEF Next

\* DiscoveryInv is an invariant.
LEMMA DiscoveryInvariance == Spec => []DiscoveryInv
  BY DiscoveryInit, DiscoveryStep, PTL DEF Spec

-----------------------------------------------------------------------------
(***************************************************************************)
(* Theorems.                                                               *)
(***************************************************************************)

\* waiting_for_peer_discovery is set exactly while one request is on its way
\* through discovery or its query has failed.
THEOREM RequestsOneAtATime == Spec => []OneRequestAtATime
<1>1. DiscoveryInv => OneRequestAtATime
  BY DEF DiscoveryInv
<1>. QED BY <1>1, DiscoveryInvariance, PTL

\* Every step is one of the peer manager or leaves it alone; in particular
\* add_peers is called only when the manager waits for it.
LEMMA StepIsPeerManagers == DiscoveryInv /\ [Next]_vars => [PM!Next]_(PM!vars)
<1>. SUFFICES ASSUME DiscoveryInv, [Next]_vars PROVE PM!Next \/ UNCHANGED PM!vars
  OBVIOUS
<1>1. CASE Ask
  BY <1>1 DEF Ask, PM!Next
<1>2. ASSUME NEW q \in Queries, NEW found \in SUBSET Peers, Answer(q, found)
      PROVE  PM!Next
  <2>1. phase = "running" /\ peers_future[q] = "ok" /\ PM!add_peers(found)
    BY <1>2 DEF Answer, PM!add_peers, D!PollPeers
  <2>2. q \in D!Live
    BY <2>1 DEF D!Live, D!NoQuery
  <2>3. waiting
    BY <2>1, <2>2, Counting
  <2>. QED BY <2>1, <2>3 DEF PM!Next
<1>3. ASSUME UNCHANGED managerVars PROVE UNCHANGED PM!vars
  BY <1>3 DEF managerVars, PM!vars, PM!manager, PM!swarm
<1>4. CASE Find
  BY <1>3, <1>4 DEF Find
<1>5. CASE Pending
  BY <1>3, <1>5 DEF Pending
<1>6. ASSUME NEW q \in Queries, NEW result \in {"ok", "err"}, QueryEnds(q, result)
      PROVE  UNCHANGED PM!vars
  BY <1>3, <1>6 DEF QueryEnds
<1>7. CASE ManagerStep
  BY <1>7 DEF ManagerStep, PM!Next
<1>8. CASE End
  BY <1>8 DEF End, PM!Next
<1>9. CASE Start
  BY <1>9 DEF Start, PM!Next
<1>10. CASE UNCHANGED vars
  BY <1>3, <1>10 DEF vars
<1>. QED BY <1>1, <1>2, <1>4, <1>5, <1>6, <1>7, <1>8, <1>9, <1>10 DEF Next

\* The peer manager beside discovery implements the peer manager that takes
\* any answer whenever it waits for one.
THEOREM PeerManagerImplemented == Spec => ImplementsPeerManager
<1>1. Init => PM!Init
  BY DEF Init
<1>. QED BY <1>1, DiscoveryInvariance, StepIsPeerManagers, PTL
         DEF Spec, ImplementsPeerManager, PM!Spec

=============================================================================
