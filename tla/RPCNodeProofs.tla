--------------------------- MODULE RPCNodeProofs ---------------------------
(***************************************************************************)
(* Proofs about RPCNode for any number of connections and requests and any *)
(* size of the channels.                                                   *)
(***************************************************************************)
EXTENDS RPCNode, FiniteSetTheorems, FunctionTheorems, SequenceTheorems, TLAPS

\* Everything that goes through the queues.
Messages ==
    [type : {"Request", "Response"}, conn : Conns, id : Nat,
     what : Requests \cup Responses]
    \cup [type : {"Err"}, conn : Conns]

\* How often a queue holds something about request i of connection c, and
\* what the queue holds.
Positions(q, c, i) == {k \in DOMAIN q : IsAbout(q[k], c, i)}
Count(q, c, i) == Cardinality(Positions(q, c, i))
One(m, c, i) == IF IsAbout(m, c, i) THEN 1 ELSE 0
Items(q) == {q[k] : k \in DOMAIN q}

\* The queues of connection c, and those that all connections share.
OwnCount(c, i) == Count(out[c], c, i) + Count(hand[c], c, i) + Count(cmds[c], c, i)
OwnItems(c) == Items(out[c]) \cup Items(hand[c]) \cup Items(cmds[c])
SharedCount(c, i) == Count(up, c, i) + Count(events, c, i) + Count(pending, c, i)
SharedItems == Items(up) \cup Items(events) \cup Items(pending)
Total(c, i) == OwnCount(c, i) + SharedCount(c, i)
Everything(c) == OwnItems(c) \cup SharedItems

Stages ==
    [stage : {"waiting"}, what : Kinds] \cup [stage : {"answered"}, what : Responses]
    \cup [stage : {"over"}]
Histories == UNION {[0..(n - 1) -> Stages] : n \in Nat}

TypesOK ==
    /\ conn \in [Conns -> {"new", "open", "closing", "closed"}]
    /\ inbound \in [Conns -> Histories]
    /\ out \in [Conns -> Seq(Messages)]
    /\ hand \in [Conns -> Seq(Messages)]
    /\ cmds \in [Conns -> Seq(Messages)]
    /\ up \in Seq(Messages) /\ events \in Seq(Messages) /\ pending \in Seq(Messages)

\* The slots hold one element, a connection's queues hold what is about that
\* connection, and the way back holds answers only.
HandsOK(c) ==
    /\ Len(hand[c]) <= 1
    /\ \A m \in OwnItems(c) : m.conn = c
    /\ \A m \in Items(cmds[c]) : m.type = "Response"
PendingOK == Len(pending) <= 1 /\ \A m \in Items(pending) : m.type = "Response"

\* What is under way for connection c is about requests it has received, so
\* that a new one has an id of its own.
IdsKnown(c) ==
    \A m \in Everything(c) : m.conn = c /\ m.type # "Err" => m.id \in DOMAIN inbound[c]

\* OneAnswerUnderWay for request i in stage s, when n messages about it are
\* under way and all messages are those in M.
Answering(s, n, M, c, i) ==
    /\ s.stage = "waiting" =>
          /\ n = 1
          /\ \A m \in M : IsAbout(m, c, i) =>
                m.what = IF m.type = "Request" THEN s.what ELSE AppResponse(s.what)
    /\ s.stage = "answered" => n = 0
    /\ s.stage = "over" =>
          \A m \in M : IsAbout(m, c, i) => m.what \in {"Goodbye", AppResponse("Goodbye")}

TaskOK(c) ==
    conn[c] # "closed" =>
        /\ IdsKnown(c)
        /\ \A i \in DOMAIN inbound[c] :
              Answering(inbound[c][i], Total(c, i), Everything(c), c, i)

\* The inductive invariant.
NodeInv == TypesOK /\ PendingOK /\ \A c \in Conns : HandsOK(c) /\ TaskOK(c)

-----------------------------------------------------------------------------
(***************************************************************************)
(* Counting.                                                               *)
(***************************************************************************)

\* A count is a number, and zero if nothing in the queue is about the request.
LEMMA CountType ==
    ASSUME NEW q \in Seq(Messages), NEW c, NEW i
    PROVE  /\ IsFiniteSet(Positions(q, c, i))
           /\ Count(q, c, i) \in Nat
           /\ Count(q, c, i) = 0 <=> \A m \in Items(q) : ~IsAbout(m, c, i)
<1>0. Len(q) \in Nat /\ DOMAIN q = 1..Len(q)
  BY LenProperties
<1>1. IsFiniteSet(1..Len(q)) /\ Positions(q, c, i) \in SUBSET (1..Len(q))
  BY <1>0, FS_Interval DEF Positions
<1>2. IsFiniteSet(Positions(q, c, i))
  BY <1>1, FS_Subset
<1>3. Positions(q, c, i) = {} <=> \A m \in Items(q) : ~IsAbout(m, c, i)
  BY DEF Positions, Items
<1>. QED BY <1>2, <1>3, FS_CardinalityType, FS_EmptySet DEF Count

\* An empty queue.
LEMMA CountEmpty ==
    ASSUME NEW c, NEW i
    PROVE  Count(<<>>, c, i) = 0 /\ Items(<<>>) = {}
<1>1. Items(<<>>) = {} /\ <<>> \in Seq(Messages)
  BY DEF Items
<1>. QED BY <1>1, CountType

\* Two queues, one behind the other.
LEMMA CountConcat ==
    ASSUME NEW s \in Seq(Messages), NEW t \in Seq(Messages), NEW c, NEW i
    PROVE  /\ Count(s \o t, c, i) = Count(s, c, i) + Count(t, c, i)
           /\ Items(s \o t) = Items(s) \cup Items(t)
<1>. DEFINE u == s \o t
            n == Len(s)
            S == Positions(s, c, i)
            T == Positions(t, c, i)
            U == {k \in Positions(u, c, i) : k > n}
            f == [k \in T |-> n + k]
<1>1. /\ n \in Nat /\ Len(t) \in Nat /\ Len(u) = n + Len(t)
      /\ DOMAIN s = 1..n /\ DOMAIN t = 1..Len(t) /\ DOMAIN u = 1..(n + Len(t))
      /\ \A k \in 1..(n + Len(t)) : u[k] = IF k <= n THEN s[k] ELSE t[k - n]
  BY ConcatProperties, LenProperties
<1>. HIDE DEF u, n
<1>2. \A k \in DOMAIN s : k \in DOMAIN u /\ u[k] = s[k] /\ ~(k > n)
  BY <1>1
<1>3. \A k \in DOMAIN t : n + k \in DOMAIN u /\ u[n + k] = t[k] /\ n + k > n
  <2>. SUFFICES ASSUME NEW k \in DOMAIN t
                PROVE  n + k \in DOMAIN u /\ u[n + k] = t[k] /\ n + k > n
    OBVIOUS
  <2>1. n + k \in 1..(n + Len(t)) /\ ~(n + k <= n) /\ (n + k) - n = k
    BY <1>1
  <2>2. u[n + k] = t[(n + k) - n]
    BY <1>1, <2>1
  <2>. QED BY <1>1, <2>1, <2>2
<1>4. \A k \in DOMAIN u : \/ ~(k > n) /\ k \in DOMAIN s
                          \/ k > n /\ k - n \in DOMAIN t /\ n + (k - n) = k
  BY <1>1
<1>5. Items(u) = Items(s) \cup Items(t)
  <2>1. ASSUME NEW m \in Items(u) PROVE m \in Items(s) \cup Items(t)
    <3>1. PICK k \in DOMAIN u : m = u[k]
      BY <2>1 DEF Items
    <3>2. CASE k \in DOMAIN s
      BY <1>2, <3>1, <3>2 DEF Items
    <3>3. CASE k - n \in DOMAIN t /\ n + (k - n) = k
      <4>1. m = t[k - n]
        BY <1>3, <3>1, <3>3
      <4>. QED BY <3>3, <4>1 DEF Items
    <3>. QED BY <1>4, <3>2, <3>3
  <2>2. ASSUME NEW m \in Items(s) PROVE m \in Items(u)
    BY <1>2, <2>2 DEF Items
  <2>3. ASSUME NEW m \in Items(t) PROVE m \in Items(u)
    <3>1. PICK k \in DOMAIN t : m = t[k]
      BY <2>3 DEF Items
    <3>. QED BY <1>3, <3>1 DEF Items
  <2>. QED BY <2>1, <2>2, <2>3
<1>6. Positions(u, c, i) = S \cup U
  BY <1>2, <1>4 DEF Positions
<1>7. IsFiniteSet(S) /\ IsFiniteSet(T) /\ Cardinality(S) \in Nat /\ Cardinality(T) \in Nat
  BY CountType DEF Count
<1>8. ExistsBijection(T, U)
  <2>1. f \in [T -> U]
    BY <1>3 DEF Positions
  <2>2. \A a, b \in T : f[a] = f[b] => a = b
    BY <1>1 DEF Positions
  <2>3. ASSUME NEW k \in U PROVE \E a \in T : f[a] = k
    <3>1. k - n \in DOMAIN t /\ n + (k - n) = k /\ IsAbout(u[k], c, i)
      BY <1>4 DEF Positions
    <3>2. k - n \in T
      BY <1>3, <3>1 DEF Positions
    <3>. QED BY <3>1, <3>2
  <2>. HIDE DEF f, T, U
  <2>4. f \in Bijection(T, U)
    BY <2>1, <2>2, <2>3 DEF Bijection, Injection, Surjection, IsInjective
  <2>. QED BY <2>4 DEF ExistsBijection
<1>9. IsFiniteSet(U) /\ Cardinality(U) = Cardinality(T)
  BY <1>7, <1>8, FS_Bijection
<1>10. S \cap U = {}
  BY <1>2 DEF Positions
<1>11. Cardinality(S \cup U) = Cardinality(S) + Cardinality(U)
  <2>. HIDE DEF S, U, T
  <2>1. Cardinality(S \cup U) = Cardinality(S) + Cardinality(U) - Cardinality(S \cap U)
    BY <1>7, <1>9, FS_Union
  <2>2. Cardinality(S \cap U) = 0
    BY <1>10, FS_EmptySet
  <2>. QED BY <1>7, <1>9, <2>1, <2>2
<1>. QED BY <1>5, <1>6, <1>9, <1>11 DEF Count, u

\* A queue with one element.
LEMMA CountSingle ==
    ASSUME NEW m, NEW c, NEW i
    PROVE  Count(<<m>>, c, i) = One(m, c, i) /\ Items(<<m>>) = {m}
<1>1. DOMAIN <<m>> = {1} /\ <<m>>[1] = m
  OBVIOUS
<1>2. Items(<<m>>) = {m}
  BY <1>1 DEF Items
<1>3. Positions(<<m>>, c, i) = IF IsAbout(m, c, i) THEN {1} ELSE {}
  BY <1>1 DEF Positions
<1>. QED BY <1>2, <1>3, FS_EmptySet, FS_Singleton DEF Count, One

\* An element is queued.
LEMMA CountAppend ==
    ASSUME NEW q \in Seq(Messages), NEW m \in Messages, NEW c, NEW i
    PROVE  /\ Append(q, m) \in Seq(Messages)
           /\ Count(Append(q, m), c, i) = Count(q, c, i) + One(m, c, i)
           /\ Items(Append(q, m)) = Items(q) \cup {m}
<1>1. Append(q, m) = q \o <<m>> /\ <<m>> \in Seq(Messages) /\ Append(q, m) \in Seq(Messages)
  BY AppendIsConcat, AppendProperties
<1>. DEFINE t == <<m>>
<1>2. Count(t, c, i) = One(m, c, i) /\ Items(t) = {m} /\ t \in Seq(Messages)
  BY <1>1, CountSingle
<1>. HIDE DEF t
<1>3. /\ Count(q \o t, c, i) = Count(q, c, i) + Count(t, c, i)
      /\ Items(q \o t) = Items(q) \cup Items(t)
  BY <1>2, CountConcat
<1>. QED BY <1>1, <1>2, <1>3 DEF t

\* The oldest element is taken.
LEMMA CountTail ==
    ASSUME NEW q \in Seq(Messages), q # <<>>, NEW c, NEW i
    PROVE  /\ Tail(q) \in Seq(Messages) /\ Head(q) \in Messages
           /\ Count(q, c, i) = One(Head(q), c, i) + Count(Tail(q), c, i)
           /\ Items(q) = {Head(q)} \cup Items(Tail(q))
<1>1. Tail(q) \in Seq(Messages) /\ Head(q) \in Messages /\ <<Head(q)>> \in Seq(Messages)
  BY HeadTailProperties
<1>2. q = <<Head(q)>> \o Tail(q)
  <2>1. 1 \in 1..Len(q) /\ Len(q) \in 1..Len(q) /\ Len(q) \in Nat /\ Head(q) = q[1]
    BY LenProperties, EmptySeq
  <2>2. SubSeq(q, 1, Len(q)) = <<q[1]>> \o SubSeq(q, 1 + 1, Len(q))
    BY <2>1, SubSeqRecursiveFirst
  <2>3. SubSeq(q, 1, Len(q)) = q /\ Tail(q) = SubSeq(q, 2, Len(q)) /\ 1 + 1 = 2
    BY SubSeqFull, TailIsSubSeq
  <2>. QED BY <2>1, <2>2, <2>3
<1>3. /\ Count(<<Head(q)>> \o Tail(q), c, i) = Count(<<Head(q)>>, c, i) + Count(Tail(q), c, i)
      /\ Items(<<Head(q)>> \o Tail(q)) = Items(<<Head(q)>>) \cup Items(Tail(q))
  <2>. DEFINE h == <<Head(q)>>
              r == Tail(q)
  <2>1. h \in Seq(Messages) /\ r \in Seq(Messages)
    BY <1>1
  <2>. HIDE DEF h, r
  <2>2. /\ Count(h \o r, c, i) = Count(h, c, i) + Count(r, c, i)
        /\ Items(h \o r) = Items(h) \cup Items(r)
    BY <2>1, CountConcat
  <2>. QED BY <2>2 DEF h, r
<1>. QED BY <1>1, <1>2, <1>3, CountSingle

\* An element of at most one.
LEMMA CountHand ==
    ASSUME NEW q \in Seq(Messages), q # <<>>, Len(q) <= 1
    PROVE  q = <<Head(q)>> /\ Head(q) \in Messages
<1>1. Len(q) \in Nat \ {0}
  BY EmptySeq
<1>2. Len(q) = 1
  BY <1>1
<1>3. q = <<q[1]>> /\ Head(q) = q[1]
  BY <1>2
<1>4. Head(q) \in Messages
  BY HeadTailProperties
<1>. QED BY <1>3, <1>4

-----------------------------------------------------------------------------
(***************************************************************************)
(* What the steps have in common.                                          *)
(***************************************************************************)

\* The messages of the handlers and of the behaviour.
LEMMA Constructed ==
    ASSUME NEW c \in Conns
    PROVE  /\ Err(c) \in Messages /\ Err(c).conn = c /\ Err(c).type = "Err"
           /\ \A i \in Nat, req \in Requests :
                 LET m == Request(c, i, req)
                 IN  /\ m \in Messages /\ m.conn = c /\ m.type = "Request"
                     /\ m.id = i /\ m.what = req
           /\ \A i \in Nat, rsp \in Responses :
                 LET m == Response(c, i, rsp)
                 IN  /\ m \in Messages /\ m.conn = c /\ m.type = "Response"
                     /\ m.id = i /\ m.what = rsp
  BY DEF Messages, Err, Request, Response

\* Messages are about a connection of the node.
LEMMA MessageType ==
    ASSUME NEW m \in Messages
    PROVE  /\ m.conn \in Conns /\ m.type \in {"Request", "Response", "Err"}
           /\ m.type # "Err" => m.id \in Nat /\ m.what \in Requests \cup Responses
  BY DEF Messages

\* The response the application gives is a response.
LEMMA AppResponseType == ASSUME NEW req PROVE AppResponse(req) \in Responses
  BY DEF AppResponse, Responses

\* Sums of three counts.
LEMMA ThreeCounts ==
    ASSUME NEW q \in Seq(Messages), NEW s \in Seq(Messages), NEW t \in Seq(Messages),
           NEW c, NEW i
    PROVE  LET n == Count(q, c, i) + Count(s, c, i) + Count(t, c, i)
               M == Items(q) \cup Items(s) \cup Items(t)
           IN  n \in Nat /\ (n = 0 <=> \A m \in M : ~IsAbout(m, c, i))
<1>. DEFINE a == Count(q, c, i)
            b == Count(s, c, i)
            d == Count(t, c, i)
            M == Items(q) \cup Items(s) \cup Items(t)
<1>1. a \in Nat /\ (a = 0 <=> \A m \in Items(q) : ~IsAbout(m, c, i))
  BY CountType
<1>2. b \in Nat /\ (b = 0 <=> \A m \in Items(s) : ~IsAbout(m, c, i))
  BY CountType
<1>3. d \in Nat /\ (d = 0 <=> \A m \in Items(t) : ~IsAbout(m, c, i))
  BY CountType
<1>. HIDE DEF a, b, d
<1>4. a + b + d \in Nat /\ (a + b + d = 0 <=> a = 0 /\ b = 0 /\ d = 0)
  BY <1>1, <1>2, <1>3
<1>5. a + b + d = 0 <=> \A m \in M : ~IsAbout(m, c, i)
  BY <1>1, <1>2, <1>3, <1>4
<1>. QED BY <1>4, <1>5 DEF a, b, d

\* Totals are numbers, and zero if nothing is under way for the request.
LEMMA TotalType ==
    ASSUME TypesOK, NEW c \in Conns, NEW i
    PROVE  /\ OwnCount(c, i) \in Nat /\ SharedCount(c, i) \in Nat /\ Total(c, i) \in Nat
           /\ Total(c, i) = 0 <=> \A m \in Everything(c) : ~IsAbout(m, c, i)
<1>1. /\ OwnCount(c, i) \in Nat
      /\ OwnCount(c, i) = 0 <=> \A m \in OwnItems(c) : ~IsAbout(m, c, i)
  <2>1. out[c] \in Seq(Messages) /\ hand[c] \in Seq(Messages) /\ cmds[c] \in Seq(Messages)
    BY DEF TypesOK
  <2>. QED BY <2>1, ThreeCounts DEF OwnCount, OwnItems
<1>2. /\ SharedCount(c, i) \in Nat
      /\ SharedCount(c, i) = 0 <=> \A m \in SharedItems : ~IsAbout(m, c, i)
  <2>1. up \in Seq(Messages) /\ events \in Seq(Messages) /\ pending \in Seq(Messages)
    BY DEF TypesOK
  <2>. QED BY <2>1, ThreeCounts DEF SharedCount, SharedItems
<1>3. Total(c, i) = 0 <=> OwnCount(c, i) = 0 /\ SharedCount(c, i) = 0
  BY <1>1, <1>2 DEF Total
<1>4. Total(c, i) \in Nat
  BY <1>1, <1>2 DEF Total
<1>. QED BY <1>1, <1>2, <1>3, <1>4 DEF Everything

\* The same definitions in the next state.
LEMMA NextOwn ==
    ASSUME NEW c, NEW i
    PROVE  /\ OwnCount(c, i)' = Count(out'[c], c, i) + Count(hand'[c], c, i)
                                + Count(cmds'[c], c, i)
           /\ OwnItems(c)' = Items(out'[c]) \cup Items(hand'[c]) \cup Items(cmds'[c])
  BY DEF OwnCount, OwnItems, Count, Positions, Items

LEMMA NextShared ==
    ASSUME NEW c, NEW i
    PROVE  /\ SharedCount(c, i)' =
                 Count(up', c, i) + Count(events', c, i) + Count(pending', c, i)
           /\ SharedItems' = Items(up') \cup Items(events') \cup Items(pending')
  BY DEF SharedCount, SharedItems, Count, Positions, Items

LEMMA NextTotal ==
    ASSUME NEW c, NEW i
    PROVE  /\ Total(c, i)' = OwnCount(c, i)' + SharedCount(c, i)'
           /\ Everything(c)' = OwnItems(c)' \cup SharedItems'
  BY DEF Total, Everything

\* Queues that a step leaves alone.
LEMMA OwnUnchanged ==
    ASSUME NEW c, out'[c] = out[c], hand'[c] = hand[c], cmds'[c] = cmds[c]
    PROVE  /\ OwnItems(c)' = OwnItems(c)
           /\ \A i : OwnCount(c, i)' = OwnCount(c, i)
           /\ HandsOK(c) => HandsOK(c)'
<1>1. OwnItems(c)' = OwnItems(c) /\ \A i : OwnCount(c, i)' = OwnCount(c, i)
  BY NextOwn DEF OwnCount, OwnItems
<1>2. HandsOK(c) => HandsOK(c)'
  BY <1>1 DEF HandsOK, Items
<1>. QED BY <1>1, <1>2

LEMMA SharedUnchanged ==
    ASSUME up' = up, events' = events, pending' = pending
    PROVE  /\ SharedItems' = SharedItems
           /\ \A c, i : SharedCount(c, i)' = SharedCount(c, i)
           /\ PendingOK => PendingOK'
<1>1. SharedItems' = SharedItems /\ \A c, i : SharedCount(c, i)' = SharedCount(c, i)
  BY NextShared DEF SharedCount, SharedItems
<1>2. PendingOK => PendingOK'
  BY DEF PendingOK, Items
<1>. QED BY <1>1, <1>2

\* Message m is o, or the answer that the event loop has given to o.
Follows(m, o) ==
    \/ m = o
    \/ /\ o.type = "Request" /\ m.type = "Response"
       /\ m.conn = o.conn /\ m.id = o.id /\ m.what = AppResponse(o.what)

LEMMA FollowsSelf == \A m : Follows(m, m)
  BY DEF Follows

\* A connection for which things only move between queues and requests are
\* replaced by their answers.
LEMMA Moved ==
    ASSUME NEW d \in Conns, TaskOK(d),
           conn[d] = "closed" => conn'[d] = "closed",
           inbound'[d] = inbound[d],
           \A i : Total(d, i)' = Total(d, i),
           \A m \in Everything(d)' :
              m.conn = d /\ m.type # "Err" => \E o \in Everything(d) : Follows(m, o)
    PROVE  TaskOK(d)'
<1>. SUFFICES ASSUME conn[d] # "closed", conn'[d] # "closed"
              PROVE  /\ IdsKnown(d)'
                     /\ \A i \in DOMAIN inbound'[d] :
                           Answering(inbound'[d][i], Total(d, i)', Everything(d)', d, i)
  BY DEF TaskOK
<1>1. IdsKnown(d)'
  <2>1. \A m, o : Follows(m, o) /\ m.conn = d /\ m.type # "Err" =>
                     o.conn = d /\ o.type # "Err" /\ o.id = m.id
    BY DEF Follows
  <2>. QED BY <2>1 DEF IdsKnown, TaskOK
<1>2. ASSUME NEW i \in DOMAIN inbound'[d]
      PROVE  Answering(inbound'[d][i], Total(d, i)', Everything(d)', d, i)
  <2>1. Answering(inbound[d][i], Total(d, i), Everything(d), d, i)
    BY DEF TaskOK
  <2>2. Total(d, i)' = Total(d, i)
    OBVIOUS
  <2>3. ASSUME NEW m \in Everything(d)', IsAbout(m, d, i)
        PROVE  \E o \in Everything(d) : IsAbout(o, d, i) /\ Follows(m, o)
    BY <2>3 DEF IsAbout, Follows
  <2>4. AppResponse(AppResponse("Goodbye")) = AppResponse("Goodbye")
    BY DEF AppResponse
  <2>5. ASSUME NEW m \in Everything(d)', IsAbout(m, d, i), NEW s,
               \A o \in Everything(d) : IsAbout(o, d, i) =>
                  o.what = IF o.type = "Request" THEN s ELSE AppResponse(s)
        PROVE  m.what = IF m.type = "Request" THEN s ELSE AppResponse(s)
    BY <2>3, <2>5 DEF Follows
  <2>6. ASSUME NEW m \in Everything(d)', IsAbout(m, d, i),
               \A o \in Everything(d) : IsAbout(o, d, i) =>
                  o.what \in {"Goodbye", AppResponse("Goodbye")}
        PROVE  m.what \in {"Goodbye", AppResponse("Goodbye")}
    BY <2>3, <2>4, <2>6 DEF Follows
  <2>. QED BY <2>1, <2>2, <2>5, <2>6 DEF Answering
<1>. QED BY <1>1, <1>2

\* Another connection than the one that takes a step: what the shared queues
\* gain or lose is not about it.
LEMMA Elsewhere ==
    ASSUME NodeInv, NEW d \in Conns,
           conn'[d] = conn[d], inbound'[d] = inbound[d],
           out'[d] = out[d], hand'[d] = hand[d], cmds'[d] = cmds[d],
           \A i : SharedCount(d, i)' = SharedCount(d, i),
           \A m \in SharedItems' :
              m.conn = d /\ m.type # "Err" => \E o \in SharedItems : Follows(m, o)
    PROVE  HandsOK(d)' /\ TaskOK(d)'
<1>1. HandsOK(d) /\ TaskOK(d)
  BY DEF NodeInv
<1>2. OwnItems(d)' = OwnItems(d) /\ (\A i : OwnCount(d, i)' = OwnCount(d, i)) /\ HandsOK(d)'
  BY <1>1, OwnUnchanged
<1>3. \A i : Total(d, i)' = Total(d, i)
  BY <1>2, NextTotal DEF Total
<1>4. \A m \in Everything(d)' :
         m.conn = d /\ m.type # "Err" => \E o \in Everything(d) : Follows(m, o)
  BY <1>2, FollowsSelf, NextTotal DEF Everything
<1>5. TaskOK(d)'
  BY <1>1, <1>3, <1>4, Moved
<1>. QED BY <1>2, <1>5

\* The types of the parts of the state.
LEMMA TypesOfTask ==
    ASSUME TypesOK, NEW c \in Conns
    PROVE  /\ out[c] \in Seq(Messages) /\ hand[c] \in Seq(Messages)
           /\ cmds[c] \in Seq(Messages)
           /\ conn[c] \in {"new", "open", "closing", "closed"}
           /\ inbound[c] \in Histories
  BY DEF TypesOK

-----------------------------------------------------------------------------
(***************************************************************************)
(* The steps.                                                              *)
(***************************************************************************)

\* A handler hands an event to its task.
LEMMA EmitStep == ASSUME NodeInv, NEW c \in Conns, Emit(c) PROVE NodeInv'
<1>. DEFINE h == Head(out[c])
            t == Tail(out[c])
<1>1. /\ hand[c] = <<>> /\ out[c] # <<>>
      /\ hand' = [hand EXCEPT ![c] = <<h>>] /\ out' = [out EXCEPT ![c] = t]
      /\ UNCHANGED <<conn, inbound, cmds, up, pending, events>>
  BY DEF Emit, Running
<1>2. TypesOK /\ PendingOK /\ HandsOK(c) /\ TaskOK(c) /\ out[c] \in Seq(Messages)
  BY TypesOfTask DEF NodeInv
<1>3. t \in Seq(Messages) /\ h \in Messages /\ Items(out[c]) = {h} \cup Items(t)
  BY <1>1, <1>2, CountTail
<1>4. <<h>> \in Seq(Messages) /\ Len(<<h>>) = 1 /\ Items(<<h>>) = {h}
  BY <1>3, CountSingle
<1>5. \A i : Count(out[c], c, i) = One(h, c, i) + Count(t, c, i)
  BY <1>1, <1>2, CountTail
<1>6. \A i : /\ Count(<<h>>, c, i) = One(h, c, i) /\ Count(<<>>, c, i) = 0
             /\ Count(t, c, i) \in Nat
  BY <1>3, CountSingle, CountEmpty, CountType
<1>7. Items(<<>>) = {}
  BY CountEmpty
<1>. HIDE DEF h, t
<1>8. TypesOK'
  BY <1>1, <1>2, <1>3, <1>4 DEF TypesOK
<1>9. hand'[c] = <<h>> /\ out'[c] = t /\ cmds'[c] = cmds[c]
  BY <1>1, <1>2 DEF TypesOK
<1>10. /\ SharedItems' = SharedItems /\ (\A d, i : SharedCount(d, i)' = SharedCount(d, i))
       /\ PendingOK'
  BY <1>1, <1>2, SharedUnchanged
<1>11. OwnItems(c)' = OwnItems(c)
  BY <1>1, <1>3, <1>4, <1>7, <1>9, NextOwn DEF OwnItems
<1>12. \A i : OwnCount(c, i)' = OwnCount(c, i)
  <2>. SUFFICES ASSUME NEW i PROVE OwnCount(c, i)' = OwnCount(c, i)
    OBVIOUS
  <2>. DEFINE k == Count(cmds[c], c, i)
              o == One(h, c, i)
              n == Count(t, c, i)
  <2>1. k \in Nat /\ o \in Nat /\ n \in Nat
    BY <1>2, <1>6, TypesOfTask, CountType DEF One
  <2>2. OwnCount(c, i) = (o + n) + 0 + k
    BY <1>1, <1>5, <1>6 DEF OwnCount
  <2>3. OwnCount(c, i)' = n + o + k
    BY <1>6, <1>9, NextOwn
  <2>. HIDE DEF k, o, n
  <2>. QED BY <2>1, <2>2, <2>3
<1>13. HandsOK(c)'
  BY <1>2, <1>4, <1>9, <1>11 DEF HandsOK
<1>14. TaskOK(c)'
  <2>1. \A i : Total(c, i)' = Total(c, i)
    BY <1>10, <1>12, NextTotal DEF Total
  <2>2. Everything(c)' = Everything(c)
    BY <1>10, <1>11, NextTotal DEF Everything
  <2>. QED BY <1>1, <1>2, <2>1, <2>2, FollowsSelf, Moved
<1>15. ASSUME NEW d \in Conns, d # c PROVE HandsOK(d)' /\ TaskOK(d)'
  <2>1. out'[d] = out[d] /\ hand'[d] = hand[d] /\ cmds'[d] = cmds[d]
    BY <1>1, <1>2, <1>15 DEF TypesOK
  <2>2. conn'[d] = conn[d] /\ inbound'[d] = inbound[d]
    BY <1>1
  <2>3. \A m \in SharedItems' : \E o \in SharedItems : Follows(m, o)
    BY <1>10, FollowsSelf
  <2>. QED BY <1>10, <2>1, <2>2, <2>3, Elsewhere
<1>. QED BY <1>8, <1>10, <1>13, <1>14, <1>15 DEF NodeInv

\* The task sends the event to the swarm.
LEMMA DeliverStep == ASSUME NodeInv, NEW c \in Conns, Deliver(c) PROVE NodeInv'
<1>. DEFINE h == Head(hand[c])
<1>1. /\ hand[c] # <<>>
      /\ hand' = [hand EXCEPT ![c] = <<>>] /\ up' = Append(up, h)
      /\ UNCHANGED <<conn, inbound, out, cmds, pending, events>>
  BY DEF Deliver
<1>2. /\ TypesOK /\ PendingOK /\ HandsOK(c) /\ TaskOK(c) /\ hand[c] \in Seq(Messages)
      /\ Len(hand[c]) <= 1 /\ up \in Seq(Messages)
  BY TypesOfTask DEF NodeInv, HandsOK, TypesOK
<1>3. hand[c] = <<h>> /\ h \in Messages
  BY <1>1, <1>2, CountHand
<1>4. /\ Items(hand[c]) = {h} /\ Items(<<>>) = {}
      /\ \A i : Count(hand[c], c, i) = One(h, c, i) /\ Count(<<>>, c, i) = 0
  BY <1>3, CountSingle, CountEmpty
<1>5. h.conn = c
  BY <1>2, <1>4 DEF HandsOK, OwnItems
<1>. HIDE DEF h
<1>6. /\ up' \in Seq(Messages) /\ Items(up') = Items(up) \cup {h}
      /\ \A d, i : Count(up', d, i) = Count(up, d, i) + One(h, d, i)
  BY <1>1, <1>2, <1>3, CountAppend
<1>7. TypesOK'
  BY <1>1, <1>2, <1>6, EmptySeq DEF TypesOK
<1>8. hand'[c] = <<>> /\ out'[c] = out[c] /\ cmds'[c] = cmds[c]
  BY <1>1, <1>2 DEF TypesOK
<1>9. PendingOK'
  BY <1>1, <1>2 DEF PendingOK, Items
<1>10. SharedItems' = SharedItems \cup {h}
  BY <1>1, <1>6, NextShared DEF SharedItems
<1>11. \A d \in Conns : \A i : SharedCount(d, i)' = SharedCount(d, i) + One(h, d, i)
  <2>. SUFFICES ASSUME NEW d \in Conns, NEW i
                PROVE  SharedCount(d, i)' = SharedCount(d, i) + One(h, d, i)
    OBVIOUS
  <2>. DEFINE u == Count(up, d, i)
              e == Count(events, d, i)
              p == Count(pending, d, i)
              o == One(h, d, i)
  <2>1. u \in Nat /\ e \in Nat /\ p \in Nat /\ o \in Nat
    BY <1>2, CountType DEF One, TypesOK
  <2>2. SharedCount(d, i)' = (u + o) + e + p
    BY <1>1, <1>6, NextShared
  <2>3. SharedCount(d, i) = u + e + p
    BY DEF SharedCount
  <2>. HIDE DEF u, e, p, o
  <2>4. (u + o) + e + p = (u + e + p) + o
    BY <2>1
  <2>. QED BY <2>2, <2>3, <2>4 DEF o
<1>12. OwnItems(c) = OwnItems(c)' \cup {h}
  BY <1>4, <1>8, NextOwn DEF OwnItems
<1>13. \A i : Total(c, i)' = Total(c, i)
  <2>. SUFFICES ASSUME NEW i PROVE Total(c, i)' = Total(c, i)
    OBVIOUS
  <2>. DEFINE n == Count(out[c], c, i)
              k == Count(cmds[c], c, i)
              o == One(h, c, i)
              r == SharedCount(c, i)
  <2>1. n \in Nat /\ k \in Nat /\ o \in Nat /\ r \in Nat
    BY <1>2, TypesOfTask, TotalType, CountType DEF One
  <2>2. Total(c, i) = (n + o + k) + r
    BY <1>4 DEF Total, OwnCount
  <2>3. Total(c, i)' = (n + 0 + k) + (r + o)
    BY <1>4, <1>8, <1>11, NextTotal, NextOwn
  <2>. HIDE DEF n, k, o, r
  <2>. QED BY <2>1, <2>2, <2>3
<1>14. TaskOK(c)'
  <2>1. Everything(c)' = Everything(c)
    BY <1>10, <1>12, NextTotal DEF Everything
  <2>. QED BY <1>1, <1>2, <1>13, <2>1, FollowsSelf, Moved
<1>15. HandsOK(c)'
  <2>1. Len(hand'[c]) <= 1
    BY <1>8, EmptySeq
  <2>2. \A m \in OwnItems(c)' : m.conn = c
    BY <1>2, <1>12 DEF HandsOK
  <2>. QED BY <1>2, <1>8, <2>1, <2>2 DEF HandsOK
<1>16. ASSUME NEW d \in Conns, d # c PROVE HandsOK(d)' /\ TaskOK(d)'
  <2>1. out'[d] = out[d] /\ hand'[d] = hand[d] /\ cmds'[d] = cmds[d]
    BY <1>1, <1>2, <1>16 DEF TypesOK
  <2>2. \A i : One(h, d, i) = 0
    BY <1>5, <1>16 DEF One, IsAbout
  <2>3. \A i : SharedCount(d, i)' = SharedCount(d, i)
    BY <1>2, <1>11, <2>2, TotalType
  <2>4. \A m \in SharedItems' : m.conn = d /\ m.type # "Err" => m \in SharedItems
    BY <1>5, <1>10, <1>16
  <2>. QED BY <1>1, <2>1, <2>3, <2>4, FollowsSelf, Elsewhere
<1>. QED BY <1>7, <1>9, <1>14, <1>15, <1>16 DEF NodeInv

\* A step of the swarm's task that only moves things about each connection
\* between the shared queues.
LEMMA SharedMove ==
    ASSUME NodeInv, TypesOK', PendingOK', UNCHANGED connVars,
           \A d \in Conns : \A i : SharedCount(d, i)' = SharedCount(d, i),
           \A m \in SharedItems' : m.type # "Err" => \E o \in SharedItems : Follows(m, o)
    PROVE  NodeInv'
<1>1. ASSUME NEW d \in Conns PROVE HandsOK(d)' /\ TaskOK(d)'
  <2>1. UNCHANGED <<conn, inbound, out, hand, cmds>>
    BY DEF connVars
  <2>. QED BY <2>1, Elsewhere
<1>. QED BY <1>1 DEF NodeInv

\* The behaviour is given an event.
LEMMA SwarmTakesStep == ASSUME NodeInv, SwarmTakes PROVE NodeInv'
<1>. DEFINE h == Head(up)
            t == Tail(up)
<1>1. /\ up # <<>> /\ up' = t /\ events' = Append(events, h) /\ pending' = pending
      /\ UNCHANGED connVars
  BY DEF SwarmTakes, inject_event
<1>2. /\ TypesOK /\ PendingOK /\ up \in Seq(Messages) /\ events \in Seq(Messages)
      /\ pending \in Seq(Messages)
  BY DEF NodeInv, TypesOK
<1>3. /\ t \in Seq(Messages) /\ h \in Messages /\ Items(up) = {h} \cup Items(t)
  BY <1>1, <1>2, CountTail
<1>4. \A d, i : Count(up, d, i) = One(h, d, i) + Count(t, d, i)
  BY <1>1, <1>2, CountTail
<1>. HIDE DEF h, t
<1>5. /\ events' \in Seq(Messages) /\ Items(events') = Items(events) \cup {h}
      /\ \A d, i : Count(events', d, i) = Count(events, d, i) + One(h, d, i)
  <2>1. events' \in Seq(Messages) /\ Items(events') = Items(events) \cup {h}
    BY <1>1, <1>2, <1>3, CountAppend
  <2>2. \A d, i : Count(events', d, i) = Count(events, d, i) + One(h, d, i)
    BY <1>1, <1>2, <1>3, CountAppend
  <2>. QED BY <2>1, <2>2
<1>6. TypesOK'
  BY <1>1, <1>2, <1>3, <1>5 DEF TypesOK, connVars
<1>7. PendingOK'
  BY <1>1, <1>2 DEF PendingOK, Items
<1>8. SharedItems' = SharedItems
  BY <1>1, <1>3, <1>5, NextShared DEF SharedItems
<1>9. ASSUME NEW d \in Conns, NEW i PROVE SharedCount(d, i)' = SharedCount(d, i)
  <2>. DEFINE n == Count(t, d, i)
              e == Count(events, d, i)
              p == Count(pending, d, i)
              o == One(h, d, i)
  <2>1. n \in Nat /\ e \in Nat /\ p \in Nat /\ o \in Nat
    BY <1>2, <1>3, CountType DEF One
  <2>2. SharedCount(d, i) = (o + n) + e + p
    BY <1>4 DEF SharedCount
  <2>3. SharedCount(d, i)' = n + (e + o) + p
    BY <1>1, <1>5, NextShared
  <2>. HIDE DEF n, e, p, o
  <2>. QED BY <2>1, <2>2, <2>3
<1>. QED BY <1>1, <1>6, <1>7, <1>8, <1>9, FollowsSelf, SharedMove

\* The behaviour returns its oldest event, and the event loop answers a
\* request.
LEMMA PollStep == ASSUME NodeInv, Poll PROVE NodeInv'
<1>. DEFINE h == Head(events)
            t == Tail(events)
<1>1. /\ events # <<>> /\ pending = <<>> /\ up' = up /\ UNCHANGED connVars
      /\ h.type = "Response" => pending' = <<h>> /\ events' = t
      /\ h.type # "Response" => pending' = pending /\ events' = t \o EventLoop(h)
  BY DEF Poll
<1>2. TypesOK /\ up \in Seq(Messages) /\ events \in Seq(Messages)
  BY DEF NodeInv, TypesOK
<1>3. t \in Seq(Messages) /\ h \in Messages /\ Items(events) = {h} \cup Items(t)
  BY <1>1, <1>2, CountTail
<1>4. \A d, i : Count(events, d, i) = One(h, d, i) + Count(t, d, i)
  BY <1>1, <1>2, CountTail
<1>. HIDE DEF h, t
<1>5. Items(<<>>) = {} /\ (\A d, i : Count(<<>>, d, i) = 0) /\ <<>> \in Seq(Messages)
  BY CountEmpty, EmptySeq
<1>6. \A d, i : /\ Count(up, d, i) \in Nat /\ Count(t, d, i) \in Nat
                /\ One(h, d, i) \in Nat
  BY <1>2, <1>3, CountType DEF One
<1>7. CASE h.type = "Response"
  <2>1. pending' = <<h>> /\ events' = t
    BY <1>1, <1>7
  <2>2. <<h>> \in Seq(Messages) /\ Len(<<h>>) = 1 /\ Items(<<h>>) = {h}
    BY <1>3, CountSingle
  <2>3. \A d, i : Count(<<h>>, d, i) = One(h, d, i)
    BY CountSingle
  <2>4. TypesOK'
    BY <1>1, <1>2, <1>3, <2>1, <2>2 DEF TypesOK, connVars
  <2>5. PendingOK'
    BY <1>7, <2>1, <2>2 DEF PendingOK
  <2>6. SharedItems' = SharedItems
    BY <1>1, <1>3, <1>5, <2>1, <2>2, NextShared DEF SharedItems
  <2>7. ASSUME NEW d \in Conns, NEW i PROVE SharedCount(d, i)' = SharedCount(d, i)
    <3>. DEFINE u == Count(up, d, i)
                n == Count(t, d, i)
                o == One(h, d, i)
    <3>1. u \in Nat /\ n \in Nat /\ o \in Nat
      BY <1>6
    <3>2. SharedCount(d, i) = u + (o + n) + 0
      BY <1>1, <1>4, <1>5 DEF SharedCount
    <3>3. SharedCount(d, i)' = u + n + o
      BY <1>1, <2>1, <2>3, NextShared
    <3>. HIDE DEF u, n, o
    <3>. QED BY <3>1, <3>2, <3>3
  <2>. QED BY <1>1, <2>4, <2>5, <2>6, <2>7, FollowsSelf, SharedMove
<1>8. CASE h.type = "Err"
  <2>1. EventLoop(h) = <<>> /\ t \o <<>> = t
    BY <1>3, <1>8, ConcatEmptySeq DEF EventLoop
  <2>2. pending' = pending /\ events' = t
    BY <1>1, <1>8, <2>1
  <2>3. TypesOK'
    BY <1>1, <1>2, <1>3, <2>2 DEF TypesOK, connVars
  <2>4. PendingOK'
    BY <2>2 DEF NodeInv, PendingOK, Items
  <2>5. SharedItems' \subseteq SharedItems
    BY <1>1, <1>3, <2>2, NextShared DEF SharedItems
  <2>6. ASSUME NEW d \in Conns, NEW i PROVE SharedCount(d, i)' = SharedCount(d, i)
    <3>. DEFINE u == Count(up, d, i)
                n == Count(t, d, i)
    <3>1. u \in Nat /\ n \in Nat /\ One(h, d, i) = 0
      BY <1>6, <1>8 DEF One, IsAbout
    <3>2. SharedCount(d, i) = u + (0 + n) + 0
      BY <1>1, <1>4, <1>5, <3>1 DEF SharedCount
    <3>3. SharedCount(d, i)' = u + n + 0
      BY <1>1, <1>5, <2>2, NextShared
    <3>. HIDE DEF u, n
    <3>. QED BY <3>1, <3>2, <3>3
  <2>. QED BY <1>1, <2>3, <2>4, <2>5, <2>6, FollowsSelf, SharedMove
<1>9. CASE h.type = "Request"
  <2>. DEFINE r == Response(h.conn, h.id, AppResponse(h.what))
  <2>1. h.conn \in Conns /\ h.id \in Nat /\ AppResponse(h.what) \in Responses
    BY <1>3, <1>9, MessageType, AppResponseType
  <2>2. /\ r \in Messages /\ r.conn = h.conn /\ r.type = "Response" /\ r.id = h.id
        /\ r.what = AppResponse(h.what)
    BY <2>1, Constructed
  <2>3. EventLoop(h) = <<r>>
    BY <1>9 DEF EventLoop, send_response
  <2>. HIDE DEF r
  <2>4. t \o <<r>> = Append(t, r)
    BY <1>3, <2>2, AppendIsConcat
  <2>5. pending' = pending /\ events' = Append(t, r)
    BY <1>1, <1>9, <2>3, <2>4
  <2>6. events' \in Seq(Messages) /\ Items(events') = Items(t) \cup {r}
    BY <1>3, <2>2, <2>5, CountAppend
  <2>7. \A d, i : Count(events', d, i) = Count(t, d, i) + One(r, d, i)
    BY <1>3, <2>2, <2>5, CountAppend
  <2>8. \A d, i : One(r, d, i) = One(h, d, i)
    BY <1>9, <2>2 DEF One, IsAbout
  <2>9. TypesOK'
    BY <1>1, <1>2, <2>5, <2>6 DEF TypesOK, connVars
  <2>10. PendingOK'
    BY <2>5 DEF NodeInv, PendingOK, Items
  <2>11. Follows(r, h)
    BY <1>9, <2>2 DEF Follows
  <2>12. \A m \in SharedItems' : \E o \in SharedItems : Follows(m, o)
    <3>1. SharedItems' \subseteq SharedItems \cup {r} /\ h \in SharedItems
      BY <1>1, <1>3, <2>5, <2>6, NextShared DEF SharedItems
    <3>. QED BY <2>11, <3>1, FollowsSelf
  <2>13. ASSUME NEW d \in Conns, NEW i PROVE SharedCount(d, i)' = SharedCount(d, i)
    <3>. DEFINE u == Count(up, d, i)
                n == Count(t, d, i)
                o == One(h, d, i)
    <3>1. u \in Nat /\ n \in Nat /\ o \in Nat
      BY <1>6
    <3>2. SharedCount(d, i) = u + (o + n) + 0
      BY <1>1, <1>4, <1>5 DEF SharedCount
    <3>3. SharedCount(d, i)' = u + (n + o) + 0
      BY <1>1, <1>5, <2>5, <2>7, <2>8, NextShared
    <3>. HIDE DEF u, n, o
    <3>. QED BY <3>1, <3>2, <3>3
  <2>. QED BY <1>1, <2>9, <2>10, <2>12, <2>13, SharedMove
<1>. QED BY <1>3, <1>7, <1>8, <1>9, MessageType

\* The swarm gives the command to its connection or drops it.
LEMMA SwarmNotifyStep == ASSUME NodeInv, SwarmNotify PROVE NodeInv'
<1>. DEFINE h == Head(pending)
<1>2. /\ TypesOK /\ PendingOK /\ pending \in Seq(Messages) /\ Len(pending) <= 1
      /\ up \in Seq(Messages) /\ events \in Seq(Messages) /\ pending # <<>>
  BY DEF NodeInv, PendingOK, TypesOK, SwarmNotify
<1>3. pending = <<h>> /\ h \in Messages
  BY <1>2, CountHand
<1>4. /\ Items(pending) = {h} /\ Items(<<>>) = {}
      /\ \A d, i : Count(pending, d, i) = One(h, d, i) /\ Count(<<>>, d, i) = 0
  BY <1>3, CountSingle, CountEmpty
<1>5. PICK c \in Conns : c = h.conn /\ h.type = "Response"
  BY <1>2, <1>3, <1>4, MessageType DEF PendingOK
<1>. DEFINE q == IF conn[c] = "closed" THEN cmds[c] ELSE Append(cmds[c], h)
<1>1. /\ pending' = <<>> /\ cmds' = [cmds EXCEPT ![c] = q]
      /\ UNCHANGED <<conn, inbound, out, hand, up, events>>
  BY <1>5 DEF SwarmNotify
<1>6. HandsOK(c) /\ TaskOK(c) /\ cmds[c] \in Seq(Messages)
  BY <1>2, <1>5, TypesOfTask DEF NodeInv
<1>. HIDE DEF h
<1>7. /\ q \in Seq(Messages) /\ Items(q) \subseteq Items(cmds[c]) \cup {h}
      /\ conn[c] # "closed" => Items(q) = Items(cmds[c]) \cup {h}
  BY <1>3, <1>6, CountAppend
<1>8. conn[c] # "closed" =>
         \A i : Count(q, c, i) = Count(cmds[c], c, i) + One(h, c, i)
  BY <1>3, <1>6, CountAppend
<1>. HIDE DEF q
<1>9. TypesOK'
  BY <1>1, <1>2, <1>5, <1>7, EmptySeq DEF TypesOK
<1>10. PendingOK'
  BY <1>1, <1>4, EmptySeq DEF PendingOK
<1>11. cmds'[c] = q /\ out'[c] = out[c] /\ hand'[c] = hand[c]
  BY <1>1, <1>2, <1>5 DEF TypesOK
<1>12. SharedItems = SharedItems' \cup {h}
  BY <1>1, <1>4, NextShared DEF SharedItems
<1>13. \A d \in Conns : \A i : SharedCount(d, i) = SharedCount(d, i)' + One(h, d, i)
                               /\ SharedCount(d, i)' \in Nat
  <2>. SUFFICES ASSUME NEW d \in Conns, NEW i
                PROVE  SharedCount(d, i) = SharedCount(d, i)' + One(h, d, i)
                       /\ SharedCount(d, i)' \in Nat
    OBVIOUS
  <2>. DEFINE u == Count(up, d, i)
              e == Count(events, d, i)
              o == One(h, d, i)
  <2>1. u \in Nat /\ e \in Nat /\ o \in Nat
    BY <1>2, CountType DEF One
  <2>2. SharedCount(d, i)' = u + e + 0
    BY <1>1, <1>4, NextShared
  <2>3. SharedCount(d, i) = u + e + o
    BY <1>4 DEF SharedCount
  <2>. HIDE DEF u, e, o
  <2>4. u + e + o = (u + e + 0) + o /\ u + e + 0 \in Nat
    BY <2>1
  <2>. QED BY <2>2, <2>3, <2>4 DEF o
<1>14. OwnItems(c)' \subseteq OwnItems(c) \cup {h}
  BY <1>7, <1>11, NextOwn DEF OwnItems
<1>15. HandsOK(c)'
  <2>1. \A m \in OwnItems(c)' : m.conn = c
    BY <1>5, <1>6, <1>14 DEF HandsOK
  <2>2. \A m \in Items(cmds'[c]) : m.type = "Response"
    BY <1>5, <1>6, <1>7, <1>11 DEF HandsOK
  <2>. QED BY <1>6, <1>11, <2>1, <2>2 DEF HandsOK
<1>16. TaskOK(c)'
  <2>1. CASE conn[c] = "closed"
    BY <1>1, <2>1 DEF TaskOK
  <2>2. CASE conn[c] # "closed"
    <3>1. ASSUME NEW i PROVE Total(c, i)' = Total(c, i)
      <4>. DEFINE n == Count(out[c], c, i)
                  g == Count(hand[c], c, i)
                  k == Count(cmds[c], c, i)
                  o == One(h, c, i)
                  r == SharedCount(c, i)'
      <4>1. n \in Nat /\ g \in Nat /\ k \in Nat /\ o \in Nat /\ r \in Nat
        <5>1. n \in Nat /\ g \in Nat /\ k \in Nat
          BY <1>2, <1>5, TypesOfTask, CountType
        <5>2. o \in Nat
          BY DEF One
        <5>. QED BY <1>5, <1>13, <5>1, <5>2
      <4>2. Total(c, i) = (n + g + k) + (r + o)
        BY <1>5, <1>13 DEF Total, OwnCount
      <4>3. Total(c, i)' = (n + g + (k + o)) + r
        BY <1>8, <1>11, <2>2, NextTotal, NextOwn
      <4>. HIDE DEF n, g, k, o, r
      <4>. QED BY <4>1, <4>2, <4>3
    <3>2. Everything(c)' \subseteq Everything(c)
      BY <1>12, <1>14, NextTotal DEF Everything
    <3>. QED BY <1>1, <1>5, <1>6, <3>1, <3>2, FollowsSelf, Moved
  <2>. QED BY <2>1, <2>2
<1>17. ASSUME NEW d \in Conns, d # c PROVE HandsOK(d)' /\ TaskOK(d)'
  <2>1. /\ out'[d] = out[d] /\ hand'[d] = hand[d] /\ cmds'[d] = cmds[d]
        /\ conn'[d] = conn[d] /\ inbound'[d] = inbound[d]
    BY <1>1, <1>2, <1>17 DEF TypesOK
  <2>2. \A i : One(h, d, i) = 0
    BY <1>5, <1>17 DEF One, IsAbout
  <2>3. \A i : SharedCount(d, i)' = SharedCount(d, i)
    BY <1>13, <2>2
  <2>4. \A m \in SharedItems' : \E o \in SharedItems : Follows(m, o)
    BY <1>12, FollowsSelf
  <2>. QED BY <2>1, <2>3, <2>4, Elsewhere
<1>. QED BY <1>9, <1>10, <1>15, <1>16, <1>17 DEF NodeInv

\* A connection that has received n requests.
LEMMA HistoryType ==
    ASSUME NEW f \in Histories
    PROVE  LET n == Cardinality(DOMAIN f)
           IN  /\ n \in Nat /\ DOMAIN f = 0..(n - 1)
               /\ f \in [0..(n - 1) -> Stages]
<1>1. PICK k \in Nat : f \in [0..(k - 1) -> Stages]
  BY DEF Histories
<1>2. Cardinality(0..(k - 1)) = IF 0 > k - 1 THEN 0 ELSE k - 1 - 0 + 1
  BY <1>1, FS_Interval
<1>3. Cardinality(DOMAIN f) = k
  BY <1>1, <1>2
<1>. QED BY <1>1, <1>3

\* The stages of a request.
LEMMA StageType ==
    ASSUME NEW s \in Stages
    PROVE  /\ s.stage \in {"waiting", "answered", "over"}
           /\ s.stage = "waiting" => s.what \in Kinds
  BY DEF Stages

\* A command is the answer to a request that the connection has received; if
\* the request waits, it is the one answer under way, and the right one, and
\* otherwise the request needs none.
LEMMA CommandFinds ==
    ASSUME NodeInv, NEW c \in Conns, Command(c)
    PROVE  LET m == Head(cmds[c])
               s == inbound[c][m.id]
           IN  /\ m \in Messages /\ m.conn = c /\ m.type = "Response"
               /\ m.id \in DOMAIN inbound[c] /\ s \in Stages
               /\ s.stage # "answered"
               /\ s.stage = "waiting" =>
                     Total(c, m.id) = 1 /\ m.what = AppResponse(s.what)
<1>. DEFINE m == Head(cmds[c])
            s == inbound[c][m.id]
<1>1. conn[c] # "closed" /\ cmds[c] # <<>>
  BY DEF Command, Running
<1>2. TypesOK /\ HandsOK(c) /\ TaskOK(c) /\ cmds[c] \in Seq(Messages)
  BY TypesOfTask DEF NodeInv
<1>3. m \in Messages /\ m \in Items(cmds[c])
  BY <1>1, <1>2, CountTail
<1>4. m.type = "Response" /\ m.conn = c /\ m \in Everything(c)
  BY <1>2, <1>3 DEF HandsOK, OwnItems, Everything
<1>. HIDE DEF m
<1>5. m.id \in DOMAIN inbound[c] /\ IsAbout(m, c, m.id)
  BY <1>1, <1>2, <1>4 DEF TaskOK, IdsKnown, IsAbout
<1>6. inbound[c] \in Histories
  BY <1>2, TypesOfTask
<1>7. s \in Stages
  BY <1>5, <1>6 DEF Histories
<1>8. Answering(s, Total(c, m.id), Everything(c), c, m.id)
  BY <1>1, <1>2, <1>5 DEF TaskOK
<1>9. Total(c, m.id) # 0
  BY <1>2, <1>4, <1>5, TotalType
<1>. HIDE DEF s
<1>10. s.stage # "answered"
  BY <1>8, <1>9 DEF Answering
<1>11. s.stage = "waiting" => Total(c, m.id) = 1 /\ m.what = AppResponse(s.what)
  BY <1>4, <1>5, <1>8 DEF Answering
<1>. QED BY <1>3, <1>4, <1>5, <1>7, <1>10, <1>11 DEF m, s

\* A step of the task of connection c that leaves the shared queues alone.
LEMMA TaskStep ==
    ASSUME NodeInv, NEW c \in Conns, TypesOK', HandsOK(c)', TaskOK(c)',
           up' = up, events' = events, pending' = pending,
           \A d \in Conns : d # c =>
              /\ conn'[d] = conn[d] /\ inbound'[d] = inbound[d]
              /\ out'[d] = out[d] /\ hand'[d] = hand[d] /\ cmds'[d] = cmds[d]
    PROVE  NodeInv'
<1>1. PendingOK /\ SharedItems' = SharedItems
  BY SharedUnchanged DEF NodeInv
<1>2. PendingOK'
  BY <1>1, SharedUnchanged
<1>3. \A d, i : SharedCount(d, i)' = SharedCount(d, i)
  BY SharedUnchanged
<1>4. ASSUME NEW d \in Conns, d # c PROVE HandsOK(d)' /\ TaskOK(d)'
  <2>1. \A m \in SharedItems' : \E o \in SharedItems : Follows(m, o)
    BY <1>1, FollowsSelf
  <2>. QED BY <1>3, <1>4, <2>1, Elsewhere
<1>. QED BY <1>2, <1>4 DEF NodeInv

\* A request for which no other things are under way than before.
LEMMA StillAnswering ==
    ASSUME NEW s, NEW n, NEW M, NEW N, NEW c, NEW i, Answering(s, n, M, c, i),
           \A m \in N : IsAbout(m, c, i) => m \in M
    PROVE  Answering(s, n, N, c, i)
  BY DEF Answering

\* The handler is given an answer.
LEMMA CommandStep == ASSUME NodeInv, NEW c \in Conns, Command(c) PROVE NodeInv'
<1>. DEFINE t == Tail(cmds[c])
<1>1. PICK m : m = Head(cmds[c])
  OBVIOUS
<1>2. PICK id : id = m.id
  OBVIOUS
<1>3. PICK s : s = inbound[c][id]
  OBVIOUS
<1>4. /\ m \in Messages /\ m.conn = c /\ m.type = "Response" /\ id \in DOMAIN inbound[c]
      /\ s \in Stages /\ s.stage # "answered"
      /\ s.stage = "waiting" => Total(c, id) = 1 /\ m.what = AppResponse(s.what)
  BY <1>1, <1>2, <1>3, CommandFinds
<1>. DEFINE a == [stage |-> "answered", what |-> m.what]
            f == IF s.stage = "over" THEN inbound[c] ELSE [inbound[c] EXCEPT ![id] = a]
<1>5. /\ conn[c] # "closed" /\ cmds[c] # <<>> /\ cmds' = [cmds EXCEPT ![c] = t]
      /\ UNCHANGED <<conn, out, hand, up, pending, events>>
  BY DEF Command, Running
<1>6. TypesOK /\ HandsOK(c) /\ TaskOK(c) /\ cmds[c] \in Seq(Messages) /\ inbound[c] \in Histories
  BY TypesOfTask DEF NodeInv
<1>7. inbound' = [inbound EXCEPT ![c] = f]
  <2>1. inbound' = IF id \in DOMAIN inbound[c] /\ inbound[c][id].stage # "over"
                   THEN [inbound EXCEPT ![c][id] = a] ELSE inbound
    BY <1>1, <1>2 DEF Command
  <2>2. [inbound EXCEPT ![c] = inbound[c]] = inbound
    BY <1>6 DEF TypesOK
  <2>. HIDE DEF a
  <2>. QED BY <1>3, <1>4, <2>1, <2>2
<1>8. a.stage = "answered" /\ (s.stage # "over" => a \in Stages)
  <2>1. s.stage = "waiting" \/ s.stage = "over"
    BY <1>4, StageType
  <2>2. s.stage # "over" => m.what \in Responses
    BY <1>4, <2>1, AppResponseType
  <2>3. m.what \in Responses => a \in Stages
    BY DEF Stages
  <2>. QED BY <2>2, <2>3
<1>. HIDE DEF a
<1>9. f \in Histories /\ DOMAIN f = DOMAIN inbound[c]
  BY <1>6, <1>8 DEF Histories
<1>10. /\ s.stage = "over" => f[id] = s
       /\ s.stage # "over" => f[id] = a
       /\ \A i \in DOMAIN f : i # id => f[i] = inbound[c][i]
  BY <1>3, <1>4
<1>. HIDE DEF f
<1>11. t \in Seq(Messages) /\ Items(cmds[c]) = {m} \cup Items(t)
  BY <1>1, <1>5, <1>6, CountTail
<1>12. \A i : Count(cmds[c], c, i) = One(m, c, i) + Count(t, c, i)
  BY <1>1, <1>5, <1>6, CountTail
<1>. HIDE DEF t
<1>13. TypesOK'
  BY <1>5, <1>6, <1>7, <1>9, <1>11 DEF TypesOK
<1>14. /\ cmds'[c] = t /\ inbound'[c] = f /\ out'[c] = out[c] /\ hand'[c] = hand[c]
  BY <1>5, <1>6, <1>7 DEF TypesOK
<1>15. OwnItems(c)' \subseteq OwnItems(c) /\ Items(cmds'[c]) \subseteq Items(cmds[c])
  BY <1>11, <1>14, NextOwn DEF OwnItems
<1>16. HandsOK(c)'
  BY <1>6, <1>14, <1>15 DEF HandsOK
<1>17. Everything(c)' \subseteq Everything(c)
  BY <1>5, <1>15, SharedUnchanged, NextTotal DEF Everything
<1>18. ASSUME NEW i
       PROVE  Total(c, i)' \in Nat /\ Total(c, i) = Total(c, i)' + One(m, c, i)
  <2>. DEFINE n == Count(out[c], c, i)
              g == Count(hand[c], c, i)
              k == Count(t, c, i)
              o == One(m, c, i)
              r == SharedCount(c, i)
  <2>1. n \in Nat /\ g \in Nat /\ k \in Nat /\ o \in Nat /\ r \in Nat
    <3>1. n \in Nat /\ g \in Nat /\ k \in Nat
      BY <1>6, <1>11, TypesOfTask, CountType
    <3>2. o \in Nat
      BY DEF One
    <3>. QED BY <1>6, <3>1, <3>2, TotalType
  <2>2. Total(c, i) = (n + g + (o + k)) + r
    BY <1>12 DEF Total, OwnCount
  <2>3. SharedCount(c, i)' = r
    BY <1>5, SharedUnchanged
  <2>4. Total(c, i)' = (n + g + k) + r
    BY <1>14, <2>3, NextTotal, NextOwn
  <2>. HIDE DEF n, g, k, o, r
  <2>5. (n + g + (o + k)) + r = ((n + g + k) + r) + o /\ (n + g + k) + r \in Nat
    BY <2>1
  <2>. QED BY <2>2, <2>4, <2>5 DEF o
<1>19. IdsKnown(c)'
  <2>1. IdsKnown(c)
    BY <1>5, <1>6 DEF TaskOK
  <2>. QED BY <1>9, <1>14, <1>17, <2>1 DEF IdsKnown
<1>20. ASSUME NEW i \in DOMAIN f
       PROVE  Answering(f[i], Total(c, i)', Everything(c)', c, i)
  <2>1. Answering(inbound[c][i], Total(c, i), Everything(c), c, i)
    BY <1>5, <1>6, <1>9 DEF TaskOK
  <2>2. CASE i # id
    <3>1. One(m, c, i) = 0
      BY <1>2, <2>2 DEF One, IsAbout
    <3>2. Total(c, i)' = Total(c, i)
      BY <1>18, <3>1
    <3>. QED BY <1>10, <1>17, <2>1, <2>2, <3>2, StillAnswering
  <2>3. CASE i = id /\ s.stage = "over"
    <3>1. f[i] = s /\ inbound[c][i] = s
      BY <1>3, <1>10, <2>3
    <3>. QED BY <1>17, <2>1, <2>3, <3>1 DEF Answering
  <2>4. CASE i = id /\ s.stage # "over"
    <3>1. Total(c, i) = 1 /\ f[i] = a
      BY <1>4, <1>10, <2>4, StageType
    <3>2. One(m, c, i) = 1
      BY <1>2, <1>4, <2>4 DEF One, IsAbout
    <3>3. Total(c, i)' = 0
      BY <1>18, <3>1, <3>2
    <3>. QED BY <1>8, <3>1, <3>3 DEF Answering
  <2>. QED BY <2>2, <2>3, <2>4
<1>21. TaskOK(c)'
  BY <1>14, <1>19, <1>20 DEF TaskOK
<1>22. \A d \in Conns : d # c => cmds'[d] = cmds[d] /\ inbound'[d] = inbound[d]
  BY <1>5, <1>6, <1>7 DEF TypesOK
<1>. QED BY <1>5, <1>13, <1>16, <1>21, <1>22, TaskStep

\* The handler accepts a request, whose id nothing bears that is under way.
LEMMA ReceiveStep ==
    ASSUME NodeInv, NEW c \in Conns, NEW req \in Kinds, Receive(c, req)
    PROVE  NodeInv'
<1>1. TypesOK /\ HandsOK(c) /\ TaskOK(c) /\ out[c] \in Seq(Messages) /\ inbound[c] \in Histories
  BY TypesOfTask DEF NodeInv
<1>2. PICK n \in Nat : /\ n = Cardinality(DOMAIN inbound[c]) /\ DOMAIN inbound[c] = 0..(n - 1)
                       /\ inbound[c] \in [0..(n - 1) -> Stages]
  BY <1>1, HistoryType
<1>3. PICK m : m = Request(c, n, req)
  OBVIOUS
<1>4. PICK s : s = IF expected_responses(req) > 0 THEN [stage |-> "waiting", what |-> req]
                   ELSE [stage |-> "over"]
  OBVIOUS
<1>5. /\ m \in Messages /\ m.conn = c /\ m.type = "Request" /\ m.id = n /\ m.what = req
      /\ IsAbout(m, c, n)
  <2>1. req \in Requests
    BY NodeAssumption
  <2>2. /\ m \in Messages /\ m.conn = c /\ m.type = "Request" /\ m.id = n /\ m.what = req
    BY <1>2, <1>3, <2>1, Constructed
  <2>. QED BY <2>2 DEF IsAbout
<1>6. /\ s \in Stages /\ s.stage # "answered" /\ (s.stage = "waiting" => s.what = req)
      /\ s.stage = "over" => req = "Goodbye"
  BY <1>4 DEF Stages, expected_responses
<1>. DEFINE f == [j \in 0..n |-> IF j < n THEN inbound[c][j] ELSE s]
            q == Append(out[c], m)
            k == IF expected_responses(req) > 0 THEN conn[c] ELSE "closing"
<1>7. /\ conn[c] = "open" /\ inbound' = [inbound EXCEPT ![c] = f] /\ out' = [out EXCEPT ![c] = q]
      /\ conn' = [conn EXCEPT ![c] = k]
      /\ UNCHANGED <<hand, cmds, up, pending, events>>
  BY <1>2, <1>3, <1>4 DEF Receive
<1>8. /\ f \in Histories /\ DOMAIN f = 0..n /\ f[n] = s
      /\ \A i \in 0..n : i # n => i \in DOMAIN inbound[c] /\ f[i] = inbound[c][i]
  <2>1. f \in [0..((n + 1) - 1) -> Stages]
    BY <1>2, <1>6
  <2>2. f \in Histories
    BY <1>2, <2>1 DEF Histories
  <2>. QED BY <1>2, <2>2
<1>. HIDE DEF f
<1>9. q \in Seq(Messages) /\ Items(q) = Items(out[c]) \cup {m}
  BY <1>1, <1>5, CountAppend
<1>10. \A i : Count(q, c, i) = Count(out[c], c, i) + One(m, c, i)
  BY <1>1, <1>5, CountAppend
<1>. HIDE DEF q
<1>11. k \in {"open", "closing"}
  BY <1>7
<1>. HIDE DEF k
<1>12. TypesOK'
  BY <1>1, <1>7, <1>8, <1>9, <1>11 DEF TypesOK
<1>13. /\ out'[c] = q /\ inbound'[c] = f /\ conn'[c] = k
       /\ cmds'[c] = cmds[c] /\ hand'[c] = hand[c]
  BY <1>1, <1>7 DEF TypesOK
<1>14. OwnItems(c)' = OwnItems(c) \cup {m}
  BY <1>9, <1>13, NextOwn DEF OwnItems
<1>15. HandsOK(c)'
  BY <1>1, <1>5, <1>13, <1>14 DEF HandsOK
<1>16. Everything(c)' = Everything(c) \cup {m}
  BY <1>7, <1>14, SharedUnchanged, NextTotal DEF Everything
<1>17. ASSUME NEW i
       PROVE  Total(c, i) \in Nat /\ Total(c, i)' = Total(c, i) + One(m, c, i)
  <2>. DEFINE l == Count(out[c], c, i)
              g == Count(hand[c], c, i)
              b == Count(cmds[c], c, i)
              o == One(m, c, i)
              r == SharedCount(c, i)
  <2>1. l \in Nat /\ g \in Nat /\ b \in Nat /\ o \in Nat /\ r \in Nat
    <3>1. l \in Nat /\ g \in Nat /\ b \in Nat
      BY <1>1, TypesOfTask, CountType
    <3>2. o \in Nat
      BY DEF One
    <3>. QED BY <1>1, <3>1, <3>2, TotalType
  <2>2. Total(c, i) = (l + g + b) + r
    BY DEF Total, OwnCount
  <2>3. SharedCount(c, i)' = r
    BY <1>7, SharedUnchanged
  <2>4. Total(c, i)' = ((l + o) + g + b) + r
    BY <1>10, <1>13, <2>3, NextTotal, NextOwn
  <2>. HIDE DEF l, g, b, o, r
  <2>5. ((l + o) + g + b) + r = ((l + g + b) + r) + o /\ (l + g + b) + r \in Nat
    BY <2>1
  <2>. QED BY <2>2, <2>4, <2>5 DEF o
<1>18. IdsKnown(c)
  BY <1>1, <1>7 DEF TaskOK
<1>19. IdsKnown(c)'
  <2>1. DOMAIN inbound[c] \subseteq DOMAIN f /\ n \in DOMAIN f
    BY <1>2, <1>8
  <2>. QED BY <1>5, <1>13, <1>16, <1>18, <2>1 DEF IdsKnown
<1>20. ASSUME NEW i \in DOMAIN f
       PROVE  Answering(f[i], Total(c, i)', Everything(c)', c, i)
  <2>1. CASE i # n
    <3>1. i \in DOMAIN inbound[c] /\ f[i] = inbound[c][i]
      BY <1>8, <2>1
    <3>2. Answering(inbound[c][i], Total(c, i), Everything(c), c, i)
      BY <1>1, <1>7, <3>1 DEF TaskOK
    <3>3. One(m, c, i) = 0 /\ ~IsAbout(m, c, i)
      BY <1>5, <2>1 DEF One, IsAbout
    <3>4. Total(c, i)' = Total(c, i)
      BY <1>17, <3>3
    <3>. QED BY <1>16, <3>1, <3>2, <3>3, <3>4, StillAnswering
  <2>2. CASE i = n
    <3>1. \A x \in Everything(c) : ~IsAbout(x, c, n)
      <4>1. n \notin DOMAIN inbound[c]
        BY <1>2
      <4>. QED BY <1>18, <4>1 DEF IdsKnown, IsAbout
    <3>2. Total(c, n) = 0
      BY <1>1, <3>1, TotalType
    <3>3. One(m, c, n) = 1
      BY <1>5 DEF One
    <3>4. Total(c, n)' = 1
      BY <1>17, <3>2, <3>3
    <3>5. \A x \in Everything(c)' : IsAbout(x, c, n) => x = m
      BY <1>16, <3>1
    <3>. QED BY <1>5, <1>6, <1>8, <2>2, <3>4, <3>5 DEF Answering
  <2>. QED BY <2>1, <2>2
<1>21. TaskOK(c)'
  BY <1>13, <1>19, <1>20 DEF TaskOK
<1>22. \A d \in Conns : d # c =>
          out'[d] = out[d] /\ inbound'[d] = inbound[d] /\ conn'[d] = conn[d]
  BY <1>1, <1>7 DEF TypesOK
<1>. QED BY <1>7, <1>12, <1>15, <1>21, <1>22, TaskStep

\* An answer has been sent or has failed: nothing is under way for its request.
LEMMA TransmitStep ==
    ASSUME NodeInv, NEW c \in Conns, NEW id \in DOMAIN inbound[c],
           NEW report \in {<<>>, <<Err(c)>>}, Transmit(c, id, report)
    PROVE  NodeInv'
<1>1. TypesOK /\ HandsOK(c) /\ TaskOK(c) /\ inbound[c] \in Histories
  BY TypesOfTask DEF NodeInv
<1>2. PICK s : s = [stage |-> "over"]
  OBVIOUS
<1>3. s \in Stages /\ s.stage = "over"
  BY <1>2 DEF Stages
<1>. DEFINE f == [inbound[c] EXCEPT ![id] = s]
<1>4. /\ conn[c] # "closed" /\ out[c] = <<>> /\ inbound[c][id].stage = "answered"
      /\ inbound' = [inbound EXCEPT ![c] = f] /\ out' = [out EXCEPT ![c] = report]
      /\ UNCHANGED <<conn, hand, cmds, up, pending, events>>
  BY <1>2 DEF Transmit, Running
<1>5. /\ f \in Histories /\ DOMAIN f = DOMAIN inbound[c] /\ f[id] = s
      /\ \A i \in DOMAIN f : i # id => f[i] = inbound[c][i]
  BY <1>1, <1>3 DEF Histories
<1>. HIDE DEF f
<1>6. /\ report \in Seq(Messages)
      /\ \A m \in Items(report) : m.conn = c /\ m.type = "Err"
      /\ \A i : Count(report, c, i) = 0
  <2>1. CASE report = <<>>
    BY <2>1, CountEmpty, EmptySeq
  <2>2. CASE report = <<Err(c)>>
    <3>. DEFINE e == Err(c)
    <3>1. e \in Messages /\ e.conn = c /\ e.type = "Err"
      BY Constructed
    <3>. HIDE DEF e
    <3>2. Items(<<e>>) = {e} /\ \A i : Count(<<e>>, c, i) = One(e, c, i)
      BY CountSingle
    <3>3. \A i : One(e, c, i) = 0
      BY <3>1 DEF One, IsAbout
    <3>4. report = <<e>>
      BY <2>2 DEF e
    <3>. QED BY <3>1, <3>2, <3>3, <3>4
  <2>. QED BY <2>1, <2>2
<1>7. TypesOK'
  BY <1>1, <1>4, <1>5, <1>6 DEF TypesOK
<1>8. /\ out'[c] = report /\ inbound'[c] = f /\ cmds'[c] = cmds[c] /\ hand'[c] = hand[c]
  BY <1>1, <1>4 DEF TypesOK
<1>9. OwnItems(c)' = Items(report) \cup OwnItems(c)
  BY <1>4, <1>8, CountEmpty, NextOwn DEF OwnItems
<1>10. HandsOK(c)'
  BY <1>1, <1>6, <1>8, <1>9 DEF HandsOK
<1>11. Everything(c)' = Items(report) \cup Everything(c)
  BY <1>4, <1>9, SharedUnchanged, NextTotal DEF Everything
<1>12. ASSUME NEW i PROVE Total(c, i)' = Total(c, i)
  <2>1. SharedCount(c, i)' = SharedCount(c, i)
    BY <1>4, SharedUnchanged
  <2>2. OwnCount(c, i)' = OwnCount(c, i)
    BY <1>4, <1>6, <1>8, CountEmpty, NextOwn DEF OwnCount
  <2>. QED BY <2>1, <2>2, NextTotal DEF Total
<1>13. IdsKnown(c)'
  <2>1. IdsKnown(c)
    BY <1>1, <1>4 DEF TaskOK
  <2>. QED BY <1>5, <1>6, <1>8, <1>11, <2>1 DEF IdsKnown
<1>14. ASSUME NEW i \in DOMAIN f
       PROVE  Answering(f[i], Total(c, i)', Everything(c)', c, i)
  <2>1. Answering(inbound[c][i], Total(c, i), Everything(c), c, i)
    BY <1>1, <1>4, <1>5 DEF TaskOK
  <2>2. \A m \in Everything(c)' : IsAbout(m, c, i) => m \in Everything(c)
    BY <1>6, <1>11 DEF IsAbout
  <2>3. CASE i # id
    BY <1>5, <1>12, <2>1, <2>2, <2>3, StillAnswering
  <2>4. CASE i = id
    <3>1. Total(c, i) = 0
      BY <1>4, <2>1, <2>4 DEF Answering
    <3>2. \A m \in Everything(c)' : ~IsAbout(m, c, i)
      BY <1>1, <2>2, <3>1, TotalType
    <3>. QED BY <1>3, <1>5, <2>4, <3>2 DEF Answering
  <2>. QED BY <2>3, <2>4
<1>15. TaskOK(c)'
  BY <1>8, <1>13, <1>14 DEF TaskOK
<1>16. \A d \in Conns : d # c => out'[d] = out[d] /\ inbound'[d] = inbound[d]
  BY <1>1, <1>4 DEF TypesOK
<1>. QED BY <1>4, <1>7, <1>10, <1>15, <1>16, TaskStep

\* A connection is lost with what its task holds.
LEMMA CloseStep == ASSUME NodeInv, NEW c \in Conns, Close(c) PROVE NodeInv'
<1>1. /\ conn' = [conn EXCEPT ![c] = "closed"] /\ out' = [out EXCEPT ![c] = <<>>]
      /\ hand' = [hand EXCEPT ![c] = <<>>] /\ cmds' = [cmds EXCEPT ![c] = <<>>]
      /\ UNCHANGED <<inbound, up, pending, events>>
  BY DEF Close
<1>2. TypesOK
  BY DEF NodeInv
<1>3. TypesOK'
  BY <1>1, <1>2, EmptySeq DEF TypesOK
<1>4. conn'[c] = "closed" /\ out'[c] = <<>> /\ hand'[c] = <<>> /\ cmds'[c] = <<>>
  BY <1>1, <1>2 DEF TypesOK
<1>5. OwnItems(c)' = {} /\ Items(cmds'[c]) = {}
  BY <1>4, CountEmpty, NextOwn
<1>6. HandsOK(c)'
  <2>1. Len(hand'[c]) <= 1
    BY <1>4, EmptySeq
  <2>. QED BY <1>5, <2>1 DEF HandsOK
<1>7. TaskOK(c)'
  BY <1>4 DEF TaskOK
<1>8. \A d \in Conns : d # c => /\ conn'[d] = conn[d] /\ out'[d] = out[d]
                                /\ hand'[d] = hand[d] /\ cmds'[d] = cmds[d]
  BY <1>1, <1>2 DEF TypesOK
<1>. QED BY <1>1, <1>3, <1>6, <1>7, <1>8, TaskStep

\* A connection is established.
LEMMA OpenStep == ASSUME NodeInv, NEW c \in Conns, Open(c) PROVE NodeInv'
<1>1. /\ conn[c] = "new" /\ conn' = [conn EXCEPT ![c] = "open"]
      /\ UNCHANGED <<inbound, out, hand, cmds, up, pending, events>>
  BY DEF Open
<1>2. TypesOK /\ HandsOK(c) /\ TaskOK(c)
  BY DEF NodeInv
<1>3. TypesOK'
  BY <1>1, <1>2 DEF TypesOK
<1>4. HandsOK(c)' /\ OwnItems(c)' = OwnItems(c)
  BY <1>1, <1>2, OwnUnchanged
<1>5. TaskOK(c)'
  <2>1. \A i : Total(c, i)' = Total(c, i)
    BY <1>1, OwnUnchanged, SharedUnchanged, NextTotal DEF Total
  <2>2. Everything(c)' = Everything(c)
    BY <1>1, <1>4, SharedUnchanged, NextTotal DEF Everything
  <2>. QED BY <1>1, <1>2, <2>1, <2>2, FollowsSelf, Moved
<1>6. \A d \in Conns : d # c => conn'[d] = conn[d]
  BY <1>1, <1>2 DEF TypesOK
<1>. QED BY <1>1, <1>3, <1>4, <1>5, <1>6, TaskStep

\* At the start.
LEMMA NodeInit == Init => NodeInv
<1>. SUFFICES ASSUME Init PROVE NodeInv
  OBVIOUS
<1>1. <<>> \in Histories /\ <<>> \in Seq(Messages) /\ Len(<<>>) <= 1 /\ Items(<<>>) = {}
  <2>1. <<>> \in [0..(0 - 1) -> Stages]
    OBVIOUS
  <2>. QED BY <2>1, EmptySeq, CountEmpty DEF Histories
<1>2. TypesOK
  BY <1>1 DEF Init, TypesOK
<1>3. PendingOK
  BY <1>1 DEF Init, PendingOK
<1>4. ASSUME NEW c \in Conns PROVE HandsOK(c) /\ TaskOK(c)
  <2>1. /\ out[c] = <<>> /\ hand[c] = <<>> /\ cmds[c] = <<>> /\ inbound[c] = <<>>
        /\ up = <<>> /\ events = <<>> /\ pending = <<>>
    BY DEF Init
  <2>2. OwnItems(c) = {} /\ SharedItems = {} /\ DOMAIN inbound[c] = {}
    BY <1>1, <2>1 DEF OwnItems, SharedItems
  <2>3. HandsOK(c)
    BY <1>1, <2>1, <2>2 DEF HandsOK
  <2>4. TaskOK(c)
    BY <2>2 DEF TaskOK, IdsKnown, Everything
  <2>. QED BY <2>3, <2>4
<1>. QED BY <1>2, <1>3, <1>4 DEF NodeInv

\* No step breaks the invariant.
LEMMA NodeStep == NodeInv /\ [Next]_vars => NodeInv'
<1>. SUFFICES ASSUME NodeInv, [Next]_vars PROVE NodeInv'
  OBVIOUS
<1>1. CASE UNCHANGED vars
  <2>1. UNCHANGED <<conn, inbound, out, hand, cmds, up, pending, events>>
    BY <1>1 DEF vars, connVars
  <2>2. TypesOK'
    BY <2>1 DEF NodeInv, TypesOK
  <2>4. PendingOK' /\ SharedItems' = SharedItems
    BY <2>1, SharedUnchanged DEF NodeInv
  <2>5. \A d \in Conns : \A i : SharedCount(d, i)' = SharedCount(d, i)
    BY <2>1, SharedUnchanged
  <2>. QED BY <2>1, <2>2, <2>4, <2>5, FollowsSelf, SharedMove DEF connVars
<1>2. ASSUME NEW c \in Conns, Open(c) PROVE NodeInv'
  BY <1>2, OpenStep
<1>3. ASSUME NEW c \in Conns, NEW req \in Kinds, Receive(c, req) PROVE NodeInv'
  BY <1>3, ReceiveStep
<1>4. ASSUME NEW c \in Conns, Emit(c) PROVE NodeInv'
  BY <1>4, EmitStep
<1>5. ASSUME NEW c \in Conns, Deliver(c) PROVE NodeInv'
  BY <1>5, DeliverStep
<1>6. ASSUME NEW c \in Conns, Command(c) PROVE NodeInv'
  BY <1>6, CommandStep
<1>7. ASSUME NEW c \in Conns, NEW i \in DOMAIN inbound[c],
             NEW report \in {<<>>, <<Err(c)>>}, Transmit(c, i, report)
      PROVE  NodeInv'
  BY <1>7, TransmitStep
<1>8. ASSUME NEW c \in Conns, Close(c) PROVE NodeInv'
  BY <1>8, CloseStep
<1>9. CASE SwarmNotify
  BY <1>9, SwarmNotifyStep
<1>10. CASE SwarmTakes
  BY <1>10, SwarmTakesStep
<1>11. CASE Poll
  BY <1>11, PollStep
<1>. QED BY <1>1, <1>2, <1>3, <1>4, <1>5, <1>6, <1>7, <1>8, <1>9, <1>10, <1>11 DEF Next

\* The invariant holds throughout.
LEMMA NodeInvariant == Spec => []NodeInv
  BY NodeInit, NodeStep, PTL DEF Spec

-----------------------------------------------------------------------------
(***************************************************************************)
(* What follows.                                                           *)
(***************************************************************************)

\* Flow(c) holds what Total and Everything speak of.
LEMMA FlowCounts ==
    ASSUME TypesOK, NEW c \in Conns, NEW i
    PROVE  /\ Flow(c) \in Seq(Messages)
           /\ Count(Flow(c), c, i) = Total(c, i)
           /\ Items(Flow(c)) = Everything(c)
<1>1. PICK s1, s2, s3, s4, s5, s6 :
         s1 = out[c] /\ s2 = hand[c] /\ s3 = up /\ s4 = events /\ s5 = pending /\ s6 = cmds[c]
  OBVIOUS
<1>2. /\ s1 \in Seq(Messages) /\ s2 \in Seq(Messages) /\ s3 \in Seq(Messages)
      /\ s4 \in Seq(Messages) /\ s5 \in Seq(Messages) /\ s6 \in Seq(Messages)
  BY <1>1 DEF TypesOK
<1>3. \A s \in Seq(Messages), t \in Seq(Messages) :
         /\ s \o t \in Seq(Messages) /\ Items(s \o t) = Items(s) \cup Items(t)
         /\ Count(s \o t, c, i) = Count(s, c, i) + Count(t, c, i)
  <2>. SUFFICES ASSUME NEW s \in Seq(Messages), NEW t \in Seq(Messages)
                PROVE  /\ s \o t \in Seq(Messages) /\ Items(s \o t) = Items(s) \cup Items(t)
                       /\ Count(s \o t, c, i) = Count(s, c, i) + Count(t, c, i)
    OBVIOUS
  <2>1. s \o t \in Seq(Messages)
    BY ConcatProperties
  <2>2. /\ Items(s \o t) = Items(s) \cup Items(t)
        /\ Count(s \o t, c, i) = Count(s, c, i) + Count(t, c, i)
    BY CountConcat
  <2>. QED BY <2>1, <2>2
<1>4. PICK t2 : /\ t2 = s1 \o s2 /\ t2 \in Seq(Messages) /\ Items(t2) = Items(s1) \cup Items(s2)
                /\ Count(t2, c, i) = Count(s1, c, i) + Count(s2, c, i)
  BY <1>2, <1>3
<1>5. PICK t3 : /\ t3 = t2 \o s3 /\ t3 \in Seq(Messages) /\ Items(t3) = Items(t2) \cup Items(s3)
                /\ Count(t3, c, i) = Count(t2, c, i) + Count(s3, c, i)
  BY <1>2, <1>3, <1>4
<1>6. PICK t4 : /\ t4 = t3 \o s4 /\ t4 \in Seq(Messages) /\ Items(t4) = Items(t3) \cup Items(s4)
                /\ Count(t4, c, i) = Count(t3, c, i) + Count(s4, c, i)
  BY <1>2, <1>3, <1>5
<1>7. PICK t5 : /\ t5 = t4 \o s5 /\ t5 \in Seq(Messages) /\ Items(t5) = Items(t4) \cup Items(s5)
                /\ Count(t5, c, i) = Count(t4, c, i) + Count(s5, c, i)
  BY <1>2, <1>3, <1>6
<1>8. PICK t6 : /\ t6 = t5 \o s6 /\ t6 \in Seq(Messages) /\ Items(t6) = Items(t5) \cup Items(s6)
                /\ Count(t6, c, i) = Count(t5, c, i) + Count(s6, c, i)
  BY <1>2, <1>3, <1>7
<1>9. Items(t6) = Everything(c)
  BY <1>1, <1>4, <1>5, <1>6, <1>7, <1>8 DEF Everything, OwnItems, SharedItems
<1>10. Count(t6, c, i) = Total(c, i)
  <2>. DEFINE n1 == Count(s1, c, i)
              n2 == Count(s2, c, i)
              n3 == Count(s3, c, i)
              n4 == Count(s4, c, i)
              n5 == Count(s5, c, i)
              n6 == Count(s6, c, i)
  <2>1. /\ n1 \in Nat /\ n2 \in Nat /\ n3 \in Nat /\ n4 \in Nat /\ n5 \in Nat /\ n6 \in Nat
    BY <1>2, CountType
  <2>2. Total(c, i) = (n1 + n2 + n6) + (n3 + n4 + n5)
    BY <1>1 DEF Total, OwnCount, SharedCount
  <2>3. Count(t6, c, i) = n1 + n2 + n3 + n4 + n5 + n6
    BY <1>4, <1>5, <1>6, <1>7, <1>8
  <2>. HIDE DEF n1, n2, n3, n4, n5, n6
  <2>. QED BY <2>1, <2>2, <2>3
<1>11. Flow(c) = t6
  BY <1>1, <1>4, <1>5, <1>6, <1>7, <1>8 DEF Flow
<1>. QED BY <1>8, <1>9, <1>10, <1>11

\* Every request that waits on a connection of the node has exactly one thing
\* under way between its handler, RPC::inject_event, RPC::poll, the event loop
\* and RPC::send_response: itself or its own answer.  None is lost, none is
\* given twice or to another substream or connection, however many
\* connections come and go and however small the channels are.
THEOREM AnswersUnderWay == Spec => []OneAnswerUnderWay
<1>1. NodeInv => OneAnswerUnderWay
  <2>. SUFFICES ASSUME NodeInv, NEW c \in Conns, conn[c] # "closed",
                       NEW i \in DOMAIN inbound[c]
                PROVE  LET about == {k \in DOMAIN Flow(c) : IsAbout(Flow(c)[k], c, i)}
                       IN  CASE inbound[c][i].stage = "waiting" ->
                                  /\ Cardinality(about) = 1
                                  /\ \A k \in about :
                                        Flow(c)[k].what =
                                           IF Flow(c)[k].type = "Request"
                                           THEN inbound[c][i].what
                                           ELSE AppResponse(inbound[c][i].what)
                             [] inbound[c][i].stage = "answered" -> about = {}
                             [] OTHER -> \A k \in about :
                                            Flow(c)[k].what \in
                                               {"Goodbye", AppResponse("Goodbye")}
    BY DEF OneAnswerUnderWay
  <2>. DEFINE F == Flow(c)
              about == {k \in DOMAIN F : IsAbout(F[k], c, i)}
              s == inbound[c][i]
              n == Total(c, i)
  <2>1. TypesOK /\ inbound[c] \in Histories
    BY TypesOfTask DEF NodeInv
  <2>2. s \in Stages
    BY <2>1 DEF Histories
  <2>3. s.stage \in {"waiting", "answered", "over"}
    BY <2>2, StageType
  <2>4. F \in Seq(Messages) /\ Count(F, c, i) = n /\ Items(F) = Everything(c)
    BY <2>1, FlowCounts
  <2>5. Cardinality(about) = n /\ \A k \in about : F[k] \in Everything(c) /\ IsAbout(F[k], c, i)
    BY <2>4 DEF Count, Positions, Items
  <2>6. n = 0 => about = {}
    <3>1. n = 0 => \A m \in Everything(c) : ~IsAbout(m, c, i)
      BY <2>1, TotalType
    <3>. QED BY <2>5, <3>1
  <2>7. Answering(s, n, Everything(c), c, i)
    BY DEF NodeInv, TaskOK
  <2>. HIDE DEF s, n, F, about
  <2>8. CASE s.stage = "waiting"
    <3>1. /\ Cardinality(about) = 1
          /\ \A k \in about : F[k].what = IF F[k].type = "Request" THEN s.what
                                          ELSE AppResponse(s.what)
      BY <2>5, <2>7, <2>8 DEF Answering
    <3>. QED BY <2>8, <3>1 DEF s, F, about
  <2>9. CASE s.stage = "answered"
    <3>1. about = {}
      BY <2>6, <2>7, <2>9 DEF Answering
    <3>. QED BY <2>9, <3>1 DEF s, F, about
  <2>10. CASE s.stage = "over"
    <3>1. \A k \in about : F[k].what \in {"Goodbye", AppResponse("Goodbye")}
      BY <2>5, <2>7, <2>10 DEF Answering
    <3>. QED BY <2>10, <3>1 DEF s, F, about
  <2>. QED BY <2>3, <2>8, <2>9, <2>10
<1>. QED BY <1>1, NodeInvariant, PTL

-----------------------------------------------------------------------------
(***************************************************************************)
(* Every connection does what RPCConnection promises.                      *)
(***************************************************************************)

\* RPCConnection speaks of the same protocol.
LEMMA SameProtocol ==
    ASSUME NEW c
    PROVE  /\ \A req : Connection(c)!AppResponse(req) = AppResponse(req)
           /\ \A req : Connection(c)!expected_responses(req) = expected_responses(req)
           /\ \A S : Connection(c)!Cardinality(S) = Cardinality(S)
<1>1. \A req : Connection(c)!AppResponse(req) = AppResponse(req)
  BY Zenon DEF Connection!AppResponse, AppResponse
<1>2. \A req : Connection(c)!expected_responses(req) = expected_responses(req)
  BY Zenon DEF Connection!expected_responses, expected_responses
<1>3. \A S : Connection(c)!Cardinality(S) = Cardinality(S)
  BY Zenon DEF Connection!Cardinality, Cardinality
<1>. QED BY <1>1, <1>2, <1>3

\* A request is received.
LEMMA ReceiveImplemented ==
    ASSUME NodeInv, NEW c \in Conns, NEW req \in Kinds, Receive(c, req)
    PROVE  Connection(c)!Next
<1>1. TypesOK /\ inbound[c] \in Histories
  BY TypesOfTask DEF NodeInv
<1>2. PICK n \in Nat : n = Cardinality(DOMAIN inbound[c]) /\ DOMAIN inbound[c] = 0..(n - 1)
  BY <1>1, HistoryType
<1>3. PICK s : s = IF expected_responses(req) > 0 THEN [stage |-> "waiting", what |-> req]
                   ELSE [stage |-> "over"]
  OBVIOUS
<1>4. /\ conn[c] = "open"
      /\ inbound' = [inbound EXCEPT ![c] = [j \in 0..n |-> IF j < n THEN inbound[c][j] ELSE s]]
      /\ conn' = [conn EXCEPT ![c] =
                     IF expected_responses(req) > 0 THEN conn[c] ELSE "closing"]
  BY <1>2, <1>3 DEF Receive
<1>5. conn'[c] # "closed"
  BY <1>1, <1>4 DEF TypesOK
<1>6. inbound'[c] = [j \in 0..n |-> IF j < n THEN inbound[c][j] ELSE s]
  BY <1>1, <1>4 DEF TypesOK
<1>7. /\ 0..n = DOMAIN inbound[c] \cup {n}
      /\ \A j \in 0..n : j < n <=> j \in DOMAIN inbound[c]
  <2>1. 0..n = (0..(n - 1)) \cup {n} /\ \A j \in 0..n : j < n <=> j \in 0..(n - 1)
    OBVIOUS
  <2>. QED BY <1>2, <2>1
<1>8. inbound'[c] = [j \in DOMAIN inbound[c] \cup {n} |->
                        IF j \in DOMAIN inbound[c] THEN inbound[c][j] ELSE s]
  BY <1>6, <1>7
<1>9. s = IF Connection(c)!expected_responses(req) > 0 THEN Connection(c)!Waits(req)
          ELSE Connection(c)!Over
  BY <1>3, SameProtocol DEF Connection!Waits, Connection!Over
<1>10. n = Connection(c)!Cardinality(DOMAIN inbound[c])
  BY <1>2, SameProtocol
<1>11. Connection(c)!Receive(req)
  BY <1>4, <1>5, <1>8, <1>9, <1>10 DEF Connection!Receive, Connection!Settle
<1>. QED BY <1>4, <1>11 DEF Connection!Next

\* The handler is given the answer to a request, which is the right one, or to
\* a Goodbye, which changes nothing.
LEMMA CommandImplemented ==
    ASSUME NodeInv, NEW c \in Conns, Command(c)
    PROVE  Connection(c)!Next \/ UNCHANGED <<inbound[c], conn[c]>>
<1>1. TypesOK /\ conn[c] # "closed" /\ conn' = conn
  BY DEF NodeInv, Command, Running
<1>2. PICK m : m = Head(cmds[c])
  OBVIOUS
<1>3. PICK id : id = m.id
  OBVIOUS
<1>4. PICK s : s = inbound[c][id]
  OBVIOUS
<1>5. /\ id \in DOMAIN inbound[c] /\ s \in Stages /\ s.stage # "answered"
      /\ s.stage = "waiting" => m.what = AppResponse(s.what)
  BY <1>2, <1>3, <1>4, CommandFinds
<1>6. inbound' = IF id \in DOMAIN inbound[c] /\ inbound[c][id].stage # "over"
                 THEN [inbound EXCEPT ![c][id] = [stage |-> "answered", what |-> m.what]]
                 ELSE inbound
  BY <1>2, <1>3 DEF Command
<1>7. CASE s.stage = "over"
  BY <1>1, <1>4, <1>6, <1>7
<1>8. CASE s.stage = "waiting"
  <2>1. PICK a : a = [stage |-> "answered", what |-> m.what]
    OBVIOUS
  <2>2. inbound' = [inbound EXCEPT ![c] = [inbound[c] EXCEPT ![id] = a]]
    BY <1>4, <1>5, <1>6, <1>8, <2>1
  <2>3. inbound'[c] = [inbound[c] EXCEPT ![id] = a]
    BY <1>1, <2>2 DEF TypesOK
  <2>4. a = Connection(c)!Answered(Connection(c)!AppResponse(inbound[c][id].what))
    BY <1>4, <1>5, <1>8, <2>1, SameProtocol DEF Connection!Answered
  <2>5. inbound[c][id].stage = "waiting"
    BY <1>4, <1>8
  <2>6. Connection(c)!Answer(id)
    BY <1>1, <2>3, <2>4, <2>5 DEF Connection!Answer
  <2>. QED BY <1>1, <1>5, <2>6 DEF Connection!Next
<1>. QED BY <1>5, <1>7, <1>8, StageType

\* The connection works on its requests, or closes.
LEMMA WorkImplemented ==
    ASSUME NEW c \in Conns, conn[c] # "closed",
           DOMAIN inbound'[c] = DOMAIN inbound[c],
           \A i \in DOMAIN inbound[c] :
              \/ inbound'[c][i] = inbound[c][i]
              \/ inbound[c][i].stage = "answered" /\ inbound'[c][i] = [stage |-> "over"]
    PROVE  Connection(c)!Next
<1>1. ASSUME NEW i \in DOMAIN inbound[c]
      PROVE  inbound'[c][i] \in Connection(c)!After(inbound[c][i])
  <2>. DEFINE s == inbound[c][i]
              r == inbound'[c][i]
  <2>1. r = s \/ (s.stage = "answered" /\ r = Connection(c)!Over)
    BY DEF Connection!Over
  <2>. HIDE DEF s, r
  <2>2. CASE s.stage = "answered"
    <3>1. Connection(c)!After(s) = {s, Connection(c)!Sends(s.what), Connection(c)!Over}
      BY <2>2 DEF Connection!After
    <3>. QED BY <2>1, <3>1 DEF r, s
  <2>3. CASE s.stage = "sending"
    <3>1. Connection(c)!After(s) = {s, Connection(c)!Over}
      BY <2>3 DEF Connection!After
    <3>. QED BY <2>1, <2>3, <3>1 DEF r, s
  <2>4. CASE s.stage # "answered" /\ s.stage # "sending"
    <3>1. Connection(c)!After(s) = {s}
      BY <2>4 DEF Connection!After
    <3>. QED BY <2>1, <2>4, <3>1 DEF r, s
  <2>. QED BY <2>2, <2>3, <2>4
<1>2. Connection(c)!Work
  BY <1>1 DEF Connection!Work, Connection!Settle
<1>. QED BY <1>2 DEF Connection!Next

\* An answer has been sent or has failed.
LEMMA TransmitImplemented ==
    ASSUME NodeInv, NEW c \in Conns, NEW id \in DOMAIN inbound[c], NEW report,
           Transmit(c, id, report)
    PROVE  Connection(c)!Next
<1>1. /\ TypesOK /\ conn[c] # "closed" /\ inbound[c][id].stage = "answered"
      /\ inbound' = [inbound EXCEPT ![c] = [inbound[c] EXCEPT ![id] = [stage |-> "over"]]]
  BY DEF NodeInv, Transmit, Running
<1>2. inbound'[c] = [inbound[c] EXCEPT ![id] = [stage |-> "over"]]
  BY <1>1 DEF TypesOK
<1>3. /\ DOMAIN inbound'[c] = DOMAIN inbound[c] /\ inbound'[c][id] = [stage |-> "over"]
      /\ \A i \in DOMAIN inbound[c] : i # id => inbound'[c][i] = inbound[c][i]
  BY <1>2
<1>. QED BY <1>1, <1>3, WorkImplemented

\* One connection when the node takes a step.
LEMMA ConnectionStep ==
    ASSUME NodeInv, [Next]_vars, NEW d \in Conns
    PROVE  Connection(d)!Next \/ UNCHANGED <<inbound[d], conn[d] = "closed">>
<1>. DEFINE G == Connection(d)!Next \/ UNCHANGED <<inbound[d], conn[d] = "closed">>
<1>1. TypesOK
  BY DEF NodeInv
<1>2. ASSUME inbound'[d] = inbound[d], conn'[d] = conn[d] PROVE G
  BY <1>2
<1>3. ASSUME UNCHANGED <<inbound, conn>> PROVE G
  BY <1>2, <1>3
<1>. HIDE DEF G
<1>4. ASSUME UNCHANGED vars PROVE G
  BY <1>3, <1>4 DEF vars, connVars
<1>5. ASSUME NEW c \in Conns, Open(c) PROVE G
  <2>1. /\ inbound'[d] = inbound[d]
        /\ conn'[d] = conn[d] \/ (conn[d] = "new" /\ conn'[d] = "open")
    BY <1>1, <1>5 DEF Open, TypesOK
  <2>. QED BY <2>1 DEF G
<1>6. ASSUME NEW c \in Conns, NEW req \in Kinds, Receive(c, req) PROVE G
  <2>1. CASE c = d
    BY <1>6, <2>1, ReceiveImplemented DEF G
  <2>2. CASE c # d
    <3>1. inbound'[d] = inbound[d] /\ conn'[d] = conn[d]
      BY <1>1, <1>6, <2>2 DEF Receive, TypesOK
    <3>. QED BY <1>2, <3>1
  <2>. QED BY <2>1, <2>2
<1>7. ASSUME NEW c \in Conns, Emit(c) \/ Deliver(c) PROVE G
  BY <1>3, <1>7 DEF Emit, Deliver
<1>8. ASSUME NEW c \in Conns, Command(c) PROVE G
  <2>1. CASE c = d
    <3>1. Connection(d)!Next \/ UNCHANGED <<inbound[d], conn[d]>>
      BY <1>8, <2>1, CommandImplemented
    <3>. QED BY <1>2, <3>1 DEF G
  <2>2. CASE c # d
    <3>1. inbound'[d] = inbound[d] /\ conn'[d] = conn[d]
      BY <1>1, <1>8, <2>2 DEF Command, TypesOK
    <3>. QED BY <1>2, <3>1
  <2>. QED BY <2>1, <2>2
<1>9. ASSUME NEW c \in Conns, NEW i \in DOMAIN inbound[c],
             NEW report \in {<<>>, <<Err(c)>>}, Transmit(c, i, report)
      PROVE  G
  <2>1. CASE c = d
    BY <1>9, <2>1, TransmitImplemented DEF G
  <2>2. CASE c # d
    <3>1. inbound'[d] = inbound[d] /\ conn'[d] = conn[d]
      BY <1>1, <1>9, <2>2 DEF Transmit, TypesOK
    <3>. QED BY <1>2, <3>1
  <2>. QED BY <2>1, <2>2
<1>10. ASSUME NEW c \in Conns, Close(c) PROVE G
  <2>1. CASE c = d
    <3>1. conn[d] # "closed" /\ inbound' = inbound
      BY <1>10, <2>1 DEF Close
    <3>2. Connection(d)!Next
      BY <3>1, WorkImplemented
    <3>. QED BY <3>2 DEF G
  <2>2. CASE c # d
    <3>1. inbound'[d] = inbound[d] /\ conn'[d] = conn[d]
      BY <1>1, <1>10, <2>2 DEF Close, TypesOK
    <3>. QED BY <1>2, <3>1
  <2>. QED BY <2>1, <2>2
<1>11. ASSUME SwarmNotify \/ SwarmTakes \/ Poll PROVE G
  BY <1>3, <1>11 DEF SwarmNotify, SwarmTakes, Poll, connVars
<1>12. G
  BY <1>4, <1>5, <1>6, <1>7, <1>8, <1>9, <1>10, <1>11 DEF Next
<1>. QED BY <1>12 DEF G

\* On every connection the node, with its queues, its swarm and its event loop,
\* does what RPCConnection promises of a handler alone: a request is answered
\* once and with its own answer, whatever happens on the other connections.
THEOREM NodeImplementsConnections == Spec => ConnectionsImplemented
<1>1. Init => \A c \in Conns : Connection(c)!Init
  BY DEF Init, Connection!Init
<1>2. NodeInv /\ [Next]_vars =>
         [\A c \in Conns : \/ Connection(c)!Next
                           \/ UNCHANGED <<inbound[c], conn[c] = "closed">>]_vars
  BY ConnectionStep
<1>. QED BY <1>1, <1>2, NodeInvariant, PTL DEF Spec, ConnectionsImplemented

=============================================================================
