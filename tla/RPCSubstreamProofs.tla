------------------------- MODULE RPCSubstreamProofs -------------------------
(***************************************************************************)
(* Proofs about RPCSubstream and the codec, for every length a remote peer *)
(* announces and every way the bytes of a response are cut into reads.     *)
(***************************************************************************)
EXTENDS RPCSubstream, SequenceTheorems, TLAPS

Octets ==
    [part : {"code"}, value : Nat]
    \cup [part : {"len"}, value : Nat, good : BOOLEAN, last : BOOLEAN]
    \cup [part : {"body"}, size : Nat, valid : BOOLEAN, last : BOOLEAN]

\* A response on the wire: how long code and length are, and the whole.
Header(m) == IF m.length < 128 /\ m.varint THEN 2 ELSE 3
Total(m)  == IF Size(m) = 0 THEN Header(m) ELSE Header(m) + 2
Stream(m) == Bytes("response", m)

Options  == [type : {"none"}] \cup [type : {"some"}, value : Nat]
Decoders == [buf : Seq(Octets), len : Options, code : Options]

\* Decoder d when the first p bytes of response m have not told its length.
WaitsAt(d, m, p) ==
    /\ d \in Decoders
    /\ d.buf = SubSeq(Stream(m), IF p < 2 THEN 1 ELSE 2, p)
    /\ d.len = None
    /\ d.code = IF p < 2 THEN None ELSE Some(m.code)

\* What is made of response m to a request of pr when a read ends after p of
\* its bytes and none ended between its length and p.
FrameRead(m, p) == m.length = 0 \/ (p >= Header(m) + 2 /\ Size(m) >= m.length)
Verdict(m, pr, p) ==
    IF p < Header(m) THEN None
    ELSE IF ~m.varint THEN Err
    ELSE IF m.code = 0
    THEN IF is_out_of_bounds(rpc_response_limits(pr), m.length) \/ ~FrameRead(m, p)
         THEN Err ELSE handle_response(pr, m.length = 0 \/ m.valid)
    ELSE IF m.length > MAX_RPC_SIZE_POST_MERGE \/ ~FrameRead(m, p)
         THEN Err ELSE IF m.length > MaxErrorLen THEN Err ELSE Item("Error")

\* While a response is read it has not told its length, the decoder has what
\* has arrived, and the wire has the rest, or less if the peer has closed.
Waiting ==
    /\ Arrived < Header(sent)
    /\ WaitsAt(decoder, sent, Arrived)
    /\ \E e \in Arrived..Total(sent) :
          /\ wire = SubSeq(Stream(sent), Arrived + 1, e)
          /\ ~eof => e = Total(sent)

CutsOK ==
    /\ cuts \subseteq Nat
    /\ \E a \in cuts \cup {0} : \A y \in cuts \cup {0} : y <= a

\* The inductive invariant.
SubstreamInv ==
    /\ reads \in {"request", "response"} /\ proto \in Requests /\ sent \in Messages
    /\ CutsOK
    /\ reads = "response" /\ result = None => Waiting
    /\ DecodedAsSent /\ WholeFramesDecode /\ OwnResponsesUnderstood

-----------------------------------------------------------------------------
(***************************************************************************)
(* The bytes of a response.                                                *)
(***************************************************************************)

LEMMA MessageFields ==
    ASSUME NEW m \in Messages
    PROVE  /\ m.code \in {0, 1, 4} /\ m.length \in Nat /\ m.complete \in BOOLEAN
           /\ m.valid \in BOOLEAN /\ m.varint \in BOOLEAN /\ Size(m) \in Nat
           /\ Size(m) <= m.length /\ (m.length = 0 => Size(m) = 0)
           /\ Header(m) \in {2, 3} /\ Total(m) \in Nat
           /\ Header(m) <= Total(m) /\ (Total(m) # Header(m) => Total(m) = Header(m) + 2)
<1>1. /\ m.code \in {0, 1, 4} /\ m.length \in Nat /\ m.complete \in BOOLEAN
      /\ m.valid \in BOOLEAN /\ m.varint \in BOOLEAN
  BY LengthsAssumption DEF Messages
<1>2. Size(m) \in Nat /\ Size(m) <= m.length /\ (m.length = 0 => Size(m) = 0)
  BY <1>1 DEF Size
<1>. QED BY <1>1, <1>2 DEF Header, Total

\* The bytes u are length n, in k bytes, and a varint or not.
IsLength(u, n, good, k) ==
    /\ u \in Seq(Octets) /\ Len(u) = k
    /\ \A j \in 1..k : u[j].value = n /\ (u[j].last <=> j = k)
    /\ \A j \in 1..k : u[j].good <=> good

LEMMA VarintBytes ==
    ASSUME NEW n \in Nat, NEW good \in BOOLEAN
    PROVE  IsLength(Varint(n, good), n, good, IF n < 128 /\ good THEN 1 ELSE 2)
<1>. DEFINE x == [part |-> "len", value |-> n, good |-> good, last |-> FALSE]
            y == [part |-> "len", value |-> n, good |-> good, last |-> TRUE]
<1>1. /\ x \in Octets /\ x.value = n /\ (x.good <=> good) /\ ~x.last
      /\ y \in Octets /\ y.value = n /\ (y.good <=> good) /\ y.last
  BY DEF Octets
<1>2. Varint(n, good) = IF n < 128 /\ good THEN <<y>> ELSE <<x, y>>
  BY DEF Varint
<1>. HIDE DEF x, y
<1>. QED BY <1>1, <1>2 DEF IsLength

\* The frame.
LEMMA SnappyBytes ==
    ASSUME NEW z \in Nat, NEW v \in BOOLEAN
    PROVE  LET f == Snappy(z, v)
           IN  /\ f \in Seq(Octets) /\ Len(f) = IF z = 0 THEN 0 ELSE 2
               /\ z # 0 => f[1].part = "body" /\ f[1].size = z /\ f[1].valid = v
<1>1. CASE z = 0
  BY <1>1 DEF Snappy
<1>2. CASE z # 0
  <2>. DEFINE g == [k \in 1..2 |-> [part |-> "body", size |-> z, valid |-> v, last |-> k = 2]]
  <2>1. Snappy(z, v) = g
    BY <1>2 DEF Snappy
  <2>2. \A k \in 1..2 : g[k] \in Octets
    BY DEF Octets
  <2>3. g[1].part = "body" /\ g[1].size = z /\ g[1].valid = v
    OBVIOUS
  <2>4. g \in [1..2 -> Octets]
    BY <2>2
  <2>. HIDE DEF g
  <2>5. g \in Seq(Octets) /\ Len(g) = 2
    <3>1. g \in Seq(Octets)
      <4>1. [1..2 -> Octets] \in {[1..n -> Octets] : n \in Nat}
        OBVIOUS
      <4>. QED BY <2>4, <4>1, SeqDef
    <3>2. DOMAIN g = 1..2 /\ DOMAIN g = 1..Len(g) /\ Len(g) \in Nat
      BY <2>4, <3>1, LenProperties
    <3>3. 2 \in 1..Len(g) /\ 3 \notin 1..Len(g)
      BY <3>2
    <3>. QED BY <3>1, <3>2, <3>3
  <2>. QED BY <1>2, <2>1, <2>3, <2>5
<1>. QED BY <1>1, <1>2

\* The bytes b are code x, length n and the frame of a payload of z bytes.
IsStream(b, x, n, y, z, v) ==
    LET h == IF n < 128 /\ y THEN 2 ELSE 3
        t == IF z = 0 THEN h ELSE h + 2
    IN  /\ b \in Seq(Octets) /\ Len(b) = t
        /\ b[1].value = x
        /\ \A j \in 2..h : b[j].value = n /\ (b[j].last <=> j = h)
        /\ \A j \in 2..h : b[j].good <=> y
        /\ z # 0 => b[h + 1].part = "body" /\ b[h + 1].size = z /\ b[h + 1].valid = v

LEMMA ThreeParts ==
    ASSUME NEW x \in Nat, NEW n \in Nat, NEW good \in BOOLEAN,
           NEW z \in Nat, NEW v \in BOOLEAN
    PROVE  IsStream(Code(x) \o (Varint(n, good) \o Snappy(z, v)), x, n, good, z, v)
<1>1. PICK u : u = Varint(n, good)
  OBVIOUS
<1>2. PICK f : f = Snappy(z, v)
  OBVIOUS
<1>3. PICK g : g = Code(x)
  OBVIOUS
<1>4. PICK k : k = IF n < 128 /\ good THEN 1 ELSE 2
  OBVIOUS
<1>5. /\ u \in Seq(Octets) /\ Len(u) = k
      /\ \A j \in 1..k : u[j].value = n /\ (u[j].last <=> j = k)
      /\ \A j \in 1..k : u[j].good <=> good
  <2>1. IsLength(u, n, good, k)
    BY <1>1, <1>4, VarintBytes, Zenon
  <2>. QED BY <2>1 DEF IsLength
<1>6. /\ f \in Seq(Octets) /\ Len(f) = IF z = 0 THEN 0 ELSE 2
      /\ z # 0 => f[1].part = "body" /\ f[1].size = z /\ f[1].valid = v
  BY <1>2, SnappyBytes
<1>7. g \in Seq(Octets) /\ Len(g) = 1 /\ g[1].value = x
  <2>1. PICK y : y = [part |-> "code", value |-> x]
    OBVIOUS
  <2>2. y \in Octets /\ y.value = x
    BY <2>1 DEF Octets
  <2>3. g = <<y>>
    BY <1>3, <2>1 DEF Code
  <2>. QED BY <2>2, <2>3
<1>8. PICK r : r = u \o f
  OBVIOUS
<1>9. PICK b : b = g \o r
  OBVIOUS
<1>10. /\ r \in Seq(Octets) /\ Len(r) = k + Len(f)
       /\ \A j \in 1..(k + Len(f)) : r[j] = IF j <= k THEN u[j] ELSE f[j - k]
  <2>0. u \in Seq(Octets) /\ f \in Seq(Octets)
    BY <1>5, <1>6
  <2>1. r \in Seq(Octets) /\ Len(r) = Len(u) + Len(f)
    BY <1>8, <2>0, ConcatProperties
  <2>2. \A j \in 1..(Len(u) + Len(f)) : r[j] = IF j <= Len(u) THEN u[j] ELSE f[j - Len(u)]
    BY <1>8, <2>0, ConcatProperties
  <2>. QED BY <1>5, <2>1, <2>2
<1>11. /\ b \in Seq(Octets) /\ Len(b) = 1 + Len(r)
       /\ \A j \in 1..(1 + Len(r)) : b[j] = IF j <= 1 THEN g[j] ELSE r[j - 1]
  <2>1. b \in Seq(Octets) /\ Len(b) = Len(g) + Len(r)
    BY <1>7, <1>9, <1>10, ConcatProperties
  <2>2. \A j \in 1..(Len(g) + Len(r)) : b[j] = IF j <= Len(g) THEN g[j] ELSE r[j - Len(g)]
    BY <1>7, <1>9, <1>10, ConcatProperties
  <2>. QED BY <1>7, <2>1, <2>2
<1>12. b[1].value = x
  BY <1>6, <1>7, <1>10, <1>11, <1>4
<1>13. /\ \A j \in 2..(k + 1) : b[j].value = n /\ (b[j].last <=> j = k + 1)
       /\ \A j \in 2..(k + 1) : b[j].good <=> good
  <2>. SUFFICES ASSUME NEW j \in 2..(k + 1)
                PROVE  /\ b[j].value = n /\ (b[j].last <=> j = k + 1)
                       /\ b[j].good <=> good
    OBVIOUS
  <2>1. b[j] = r[j - 1] /\ r[j - 1] = u[j - 1] /\ j - 1 \in 1..k
    BY <1>4, <1>6, <1>10, <1>11
  <2>2. j - 1 = k <=> j = k + 1
    BY <1>4
  <2>. QED BY <1>5, <2>1, <2>2
<1>14. z # 0 => /\ b[k + 2].part = "body" /\ b[k + 2].size = z /\ b[k + 2].valid = v
  <2>. SUFFICES ASSUME z # 0 PROVE b[k + 2] = f[1]
    BY <1>6
  <2>1. b[k + 2] = r[(k + 2) - 1] /\ (k + 2) - 1 = k + 1
    BY <1>4, <1>6, <1>10, <1>11
  <2>2. r[k + 1] = f[(k + 1) - k] /\ (k + 1) - k = 1
    BY <1>4, <1>6, <1>10
  <2>. QED BY <2>1, <2>2
<1>15. b = Code(x) \o (Varint(n, good) \o Snappy(z, v))
  BY <1>1, <1>2, <1>3, <1>8, <1>9
<1>16. Len(b) = IF z = 0 THEN k + 1 ELSE (k + 1) + 2
  BY <1>4, <1>6, <1>10, <1>11
<1>17. (IF n < 128 /\ good THEN 2 ELSE 3) = k + 1 /\ (k + 1) + 1 = k + 2
  BY <1>4
<1>. QED BY <1>11, <1>12, <1>13, <1>14, <1>15, <1>16, <1>17 DEF IsStream

\* The stream of a response.
LEMMA StreamBytes ==
    ASSUME NEW m \in Messages
    PROVE  LET b == Stream(m)
               h == Header(m)
           IN  /\ b \in Seq(Octets) /\ Len(b) = Total(m)
               /\ b[1].value = m.code
               /\ \A j \in 2..h : b[j].value = m.length /\ (b[j].last <=> j = h)
               /\ \A j \in 2..h : b[j].good <=> m.varint
               /\ Size(m) # 0 => /\ b[h + 1].part = "body" /\ b[h + 1].size = Size(m)
                                 /\ b[h + 1].valid = m.valid
<1>1. /\ m.code \in Nat /\ m.length \in Nat /\ Size(m) \in Nat
      /\ m.valid \in BOOLEAN /\ m.varint \in BOOLEAN
  BY MessageFields
<1>2. Stream(m) = Code(m.code) \o (Varint(m.length, m.varint) \o Snappy(Size(m), m.valid))
  BY DEF Stream, Bytes, Body
<1>3. IsStream(Stream(m), m.code, m.length, m.varint, Size(m), m.valid)
  BY <1>1, <1>2, ThreeParts
<1>. QED BY <1>3 DEF IsStream, Header, Total

-----------------------------------------------------------------------------
(***************************************************************************)
(* Decoding.                                                               *)
(***************************************************************************)

LEMMA MaxOf ==
    ASSUME NEW S \in SUBSET Nat, NEW a \in S, \A y \in S : y <= a
    PROVE  Max(S) = a
<1>1. \A y \in S : a >= y
  OBVIOUS
<1>2. Max(S) \in S /\ \A y \in S : Max(S) >= y
  BY <1>1, Zenon DEF Max
<1>3. PICK x : x = Max(S)
  OBVIOUS
<1>4. x \in Nat /\ a \in Nat /\ x >= a /\ x <= a
  BY <1>2, <1>3
<1>. QED BY <1>3, <1>4

LEMMA MinOf ==
    ASSUME NEW S \in SUBSET Nat, NEW a \in S, \A y \in S : a <= y
    PROVE  Min(S) = a
<1>1. Min(S) \in S /\ \A y \in S : Min(S) =< y
  BY Zenon DEF Min
<1>2. PICK x : x = Min(S)
  OBVIOUS
<1>3. x \in Nat /\ a \in Nat /\ x <= a /\ a <= x
  BY <1>1, <1>2
<1>. QED BY <1>2, <1>3

\* A piece of a piece of the stream.
LEMMA Piece ==
    ASSUME NEW b \in Seq(Octets), NEW i \in 1..(Len(b) + 1), NEW e \in (i - 1)..Len(b)
    PROVE  LET s == SubSeq(b, i, e)
           IN  /\ s \in Seq(Octets) /\ Len(s) = e - i + 1
               /\ \A k \in 1..(e - i + 1) : s[k] = b[i + k - 1]
               /\ \A x \in 1..(e - i + 2), y \in 0..(e - i + 1) :
                     SubSeq(s, x, y) = SubSeq(b, i + x - 1, i + y - 1)
<1>. DEFINE s == SubSeq(b, i, e)
<1>1. Len(b) \in Nat /\ i \in Int /\ e \in Int /\ \A k \in i..e : b[k] \in Octets
  BY LenProperties, ElementOfSeq
<1>2. /\ s \in Seq(Octets) /\ Len(s) = (IF i <= e THEN e - i + 1 ELSE 0)
      /\ \A k \in 1..(e - i + 1) : s[k] = b[i + k - 1]
  BY <1>1, SubSeqProperties
<1>3. Len(s) = e - i + 1
  BY <1>1, <1>2
<1>4. ASSUME NEW x \in 1..(e - i + 2), NEW y \in 0..(e - i + 1)
      PROVE  SubSeq(s, x, y) = SubSeq(b, i + x - 1, i + y - 1)
  <2>1. x \in Int /\ y \in Int /\ i + x - 1 \in Int /\ i + y - 1 \in Int
    BY <1>1
  <2>2. CASE y < x
    <3>1. i + y - 1 < i + x - 1
      BY <1>1, <2>2
    <3>2. SubSeq(s, x, y) = <<>>
      BY <2>1, <2>2, SubSeqEmpty
    <3>3. SubSeq(b, i + x - 1, i + y - 1) = <<>>
      BY <2>1, <3>1, SubSeqEmpty
    <3>. QED BY <3>2, <3>3
  <2>3. CASE x <= y
    <3>1. i \in 1..Len(b) /\ e \in 1..Len(b) /\ x \in 1..(e - i + 1) /\ y \in 1..(e - i + 1)
      BY <1>1, <2>3
    <3>. QED BY <3>1, SubSeqOfSubSeq
  <2>. QED BY <2>1, <2>2, <2>3
<1>. QED BY <1>2, <1>3, <1>4

\* handle_length takes the length when all of it has arrived, refuses it if it
\* is no varint, and else leaves the bytes for the next call.
LEMMA LengthTaken ==
    ASSUME NEW m \in Messages, NEW p \in 2..Total(m), NEW d, WaitsAt(d, m, p)
    PROVE  /\ p < Header(m) => handle_length(d) = Outcome(d, None)
           /\ p >= Header(m) /\ ~m.varint => handle_length(d) = Outcome(d, Err)
           /\ p >= Header(m) /\ m.varint =>
                 \E e : /\ handle_length(d) = Outcome(e, Some(m.length))
                        /\ e.buf = SubSeq(Stream(m), Header(m) + 1, p)
                        /\ e.len = Some(m.length)
<1>1. PICK b : b = Stream(m)
  OBVIOUS
<1>2. PICK h : h = Header(m)
  OBVIOUS
<1>3. PICK s : s = SubSeq(b, 2, p)
  OBVIOUS
<1>4. /\ b \in Seq(Octets) /\ Len(b) = Total(m) /\ Total(m) \in Nat /\ h \in {2, 3}
      /\ h <= Total(m)
      /\ \A j \in 2..h : b[j].value = m.length /\ (b[j].last <=> j = h)
      /\ \A j \in 2..h : b[j].good <=> m.varint
  BY <1>1, <1>2, StreamBytes, MessageFields
<1>5. /\ s \in Seq(Octets) /\ Len(s) = p - 1 /\ DOMAIN s = 1..(p - 1)
      /\ \A k \in 1..(p - 1) : s[k] = b[k + 1]
      /\ \A x \in 1..p, y \in 0..(p - 1) : SubSeq(s, x, y) = SubSeq(b, x + 1, y + 1)
  <2>1. 2 \in 1..(Len(b) + 1) /\ p \in (2 - 1)..Len(b)
    BY <1>4
  <2>2. /\ s \in Seq(Octets) /\ Len(s) = p - 2 + 1
        /\ \A k \in 1..(p - 2 + 1) : s[k] = b[2 + k - 1]
        /\ \A x \in 1..(p - 2 + 2), y \in 0..(p - 2 + 1) :
              SubSeq(s, x, y) = SubSeq(b, 2 + x - 1, 2 + y - 1)
    BY <1>3, <1>4, <2>1, Piece
  <2>3. /\ p \in Int /\ p - 2 + 1 = p - 1 /\ p - 2 + 2 = p
        /\ \A k \in Int : 2 + k - 1 = k + 1
    OBVIOUS
  <2>4. DOMAIN s = 1..Len(s)
    BY <2>2, LenProperties
  <2>. QED BY <2>2, <2>3, <2>4
<1>6. d.buf = s /\ d.len = None /\ d.code = Some(m.code) /\ d \in Decoders
  <2>1. ~(p < 2)
    OBVIOUS
  <2>. QED BY <1>1, <1>3, <2>1 DEF WaitsAt
<1>. DEFINE ends == {k \in DOMAIN d.buf : d.buf[k].last}
<1>7. handle_length(d) =
         IF ends = {} THEN Outcome(d, None)
         ELSE IF ~d.buf[Min(ends)].good THEN Outcome(d, Err)
         ELSE Outcome([d EXCEPT !.len = Some(d.buf[Min(ends)].value),
                                !.buf = SubSeq(@, Min(ends) + 1, Len(@))],
                      Some(d.buf[Min(ends)].value))
  BY <1>6 DEF handle_length
<1>8. \A k \in 1..(p - 1) : k + 1 <= h => (s[k].last <=> k + 1 = h)
  <2>. SUFFICES ASSUME NEW k \in 1..(p - 1), k + 1 <= h PROVE s[k].last <=> k + 1 = h
    OBVIOUS
  <2>1. k + 1 \in 2..h
    BY <1>4
  <2>2. s[k] = b[k + 1]
    BY <1>5
  <2>3. b[k + 1].last <=> k + 1 = h
    BY <1>4, <2>1
  <2>. QED BY <2>2, <2>3
<1>9. CASE p < h
  <2>1. \A k \in 1..(p - 1) : k + 1 <= h /\ k + 1 # h
    BY <1>4, <1>9
  <2>2. ends = {}
    BY <1>5, <1>6, <1>8, <2>1
  <2>. QED BY <1>2, <1>4, <1>7, <1>9, <2>2
<1>10. CASE p >= h
  <2>1. ends \in SUBSET Nat
    BY <1>5, <1>6
  <2>2. h - 1 \in 1..(p - 1) /\ (h - 1) + 1 = h
    BY <1>4, <1>10
  <2>3. h - 1 \in ends
    BY <1>4, <1>5, <1>6, <1>8, <2>2
  <2>4. \A k \in ends : h - 1 <= k
    <3>. SUFFICES ASSUME NEW k \in ends, k < h - 1 PROVE FALSE
      BY <1>4, <2>1
    <3>1. k \in 1..(p - 1) /\ s[k].last
      BY <1>5, <1>6
    <3>2. k + 1 <= h /\ k + 1 # h
      BY <1>4, <3>1
    <3>. QED BY <1>8, <3>1, <3>2
  <2>5. Min(ends) = h - 1
    BY <2>1, <2>3, <2>4, MinOf
  <2>6. d.buf[h - 1].value = m.length /\ (d.buf[h - 1].good <=> m.varint)
    <3>1. s[h - 1] = b[h] /\ h \in 2..h
      BY <1>4, <1>5, <2>2
    <3>. QED BY <1>4, <1>6, <3>1
  <2>7. SubSeq(s, (h - 1) + 1, Len(s)) = SubSeq(b, h + 1, p)
    <3>1. h \in 1..p /\ p - 1 \in 0..(p - 1) /\ (p - 1) + 1 = p
      BY <1>4, <1>10
    <3>2. SubSeq(s, h, p - 1) = SubSeq(b, h + 1, (p - 1) + 1)
      BY <1>5, <3>1
    <3>. QED BY <1>5, <2>2, <3>1, <3>2
  <2>8. ends # {}
    BY <2>3
  <2>. HIDE DEF ends
  <2>9. PICK q \in Seq(Octets) : q = SubSeq(b, h + 1, p)
    <3>1. h + 1 \in 1..(Len(b) + 1) /\ p \in ((h + 1) - 1)..Len(b)
      BY <1>4, <1>10
    <3>. QED BY <1>4, <3>1, Piece
  <2>10. PICK l \in Options : l = Some(m.length)
    BY MessageFields DEF Some, Options
  <2>11. PICK e : e = [d EXCEPT !.len = l, !.buf = q]
    OBVIOUS
  <2>12. m.varint => handle_length(d) = Outcome(e, l)
    BY <1>6, <1>7, <2>5, <2>6, <2>7, <2>8, <2>9, <2>10, <2>11
  <2>13. ~m.varint => handle_length(d) = Outcome(d, Err)
    BY <1>7, <2>5, <2>6, <2>8
  <2>14. e.buf = q /\ e.len = l
    BY <1>6, <2>11 DEF Decoders
  <2>. QED BY <1>1, <1>2, <1>4, <1>10, <2>9, <2>10, <2>12, <2>13, <2>14
<1>. QED BY <1>2, <1>4, <1>9, <1>10

\* Results and options are told apart by their type.
LEMMA Results ==
    /\ None.type = "none" /\ Err.type = "err" /\ Panic.type = "panic"
    /\ \A w : Item(w).type = "item" /\ Item(w).what = w
    /\ \A n : Some(n).type = "some" /\ Some(n).value = n /\ Some(n) # None
    /\ \A d, r : Outcome(d, r).decoder = d /\ Outcome(d, r).result = r
<1>1. /\ None.type = "none" /\ Err.type = "err" /\ Panic.type = "panic"
      /\ \A w : Item(w).type = "item" /\ Item(w).what = w
  BY DEF None, Err, Panic, Item
<1>2. \A n : Some(n).type = "some" /\ Some(n).value = n
  BY DEF Some
<1>3. \A d, r : Outcome(d, r).decoder = d /\ Outcome(d, r).result = r
  BY DEF Outcome
<1>. QED BY <1>1, <1>2, <1>3

\* What is left behind the length, when p bytes have arrived.
LEMMA FrameLeft ==
    ASSUME NEW m \in Messages, NEW p \in Header(m)..Total(m),
           NEW s, s = SubSeq(Stream(m), Header(m) + 1, p)
    PROVE  /\ ReadExact(s, m.length) <=> FrameRead(m, p)
           /\ FrameRead(m, p) =>
                 ((m.length = 0 \/ s[1].valid) <=> (m.length = 0 \/ m.valid))
<1>1. PICK b : b = Stream(m)
  OBVIOUS
<1>2. PICK h : h = Header(m)
  OBVIOUS
<1>3. PICK z : z = Size(m)
  OBVIOUS
<1>4. /\ b \in Seq(Octets) /\ Len(b) = Total(m) /\ Total(m) \in Nat /\ h \in {2, 3}
      /\ z \in Nat /\ m.length \in Nat /\ (Total(m) = IF z = 0 THEN h ELSE h + 2)
      /\ z # 0 => b[h + 1].part = "body" /\ b[h + 1].size = z /\ b[h + 1].valid = m.valid
  BY <1>1, <1>2, <1>3, StreamBytes, MessageFields DEF Total
<1>5. /\ Len(s) = p - h
      /\ p >= h + 2 => z # 0 /\ s[1] = b[h + 1]
  <2>1. h + 1 \in 1..(Len(b) + 1) /\ p \in ((h + 1) - 1)..Len(b) /\ p \in Int
    BY <1>2, <1>4
  <2>2. /\ Len(s) = p - (h + 1) + 1
        /\ \A k \in 1..(p - (h + 1) + 1) : s[k] = b[(h + 1) + k - 1]
    BY <1>1, <1>2, <1>4, <2>1, Piece
  <2>3. p >= h + 2 => 1 \in 1..(p - (h + 1) + 1) /\ (h + 1) + 1 - 1 = h + 1 /\ z # 0
    BY <1>4, <2>1
  <2>4. p - (h + 1) + 1 = p - h
    BY <1>4, <2>1
  <2>5. p >= h + 2 => s[1] = b[(h + 1) + 1 - 1]
    BY <2>2, <2>3
  <2>. QED BY <2>2, <2>3, <2>4, <2>5
<1>6. Len(s) >= 2 <=> p >= h + 2
  BY <1>2, <1>4, <1>5
<1>7. ReadExact(s, m.length) <=> FrameRead(m, p)
  BY <1>2, <1>3, <1>4, <1>5, <1>6 DEF ReadExact, FrameRead
<1>8. FrameRead(m, p) /\ m.length # 0 => s[1].valid = m.valid
  BY <1>2, <1>4, <1>5 DEF FrameRead
<1>. QED BY <1>7, <1>8

\* The inner decoders, for a response whose code has been taken.
LEMMA InnerDecoded ==
    ASSUME NEW m \in Messages, NEW pr, NEW p \in 2..Total(m), NEW d, WaitsAt(d, m, p)
    PROVE  /\ m.code = 0 =>
                 \E x : /\ DecodeSuccess(pr, d) = Outcome(x, Verdict(m, pr, p))
                        /\ p < Header(m) => x = d
           /\ m.code # 0 =>
                 \E x : /\ decode_error(d) = Outcome(x, Verdict(m, pr, p))
                        /\ p < Header(m) => x = d
<1>1. PICK l : l = handle_length(d)
  OBVIOUS
<1>2. PICK h : h = Header(m)
  OBVIOUS
<1>3. ASSUME NEW r, l = Outcome(d, r), r.type # "some", Verdict(m, pr, p) = r
      PROVE  /\ DecodeSuccess(pr, d) = Outcome(d, Verdict(m, pr, p))
             /\ decode_error(d) = Outcome(d, Verdict(m, pr, p))
  <2>1. l.result.type # "some"
    BY <1>3, Results
  <2>2. DecodeSuccess(pr, d) = l
    BY <1>1, <2>1 DEF DecodeSuccess
  <2>3. decode_error(d) = l
    BY <1>1, <2>1 DEF decode_error
  <2>. QED BY <1>3, <2>2, <2>3
<1>4. h \in {2, 3} /\ p \in Int
  BY <1>2, MessageFields
<1>5. CASE p < h
  <2>1. l = Outcome(d, None)
    BY <1>1, <1>2, <1>5, LengthTaken
  <2>2. Verdict(m, pr, p) = None
    BY <1>2, <1>5 DEF Verdict
  <2>3. None.type # "some"
    BY Results
  <2>. QED BY <1>3, <2>1, <2>2, <2>3
<1>6. CASE ~(p < h) /\ ~m.varint
  <2>1. l = Outcome(d, Err)
    <3>1. p >= Header(m)
      BY <1>2, <1>4, <1>6
    <3>. QED BY <1>1, <1>6, <3>1, LengthTaken
  <2>2. Verdict(m, pr, p) = Err
    BY <1>2, <1>6 DEF Verdict
  <2>3. Err.type # "some"
    BY Results
  <2>. QED BY <1>3, <2>1, <2>2, <2>3
<1>7. CASE ~(p < h) /\ m.varint
  <2>1. h \in {2, 3} /\ p \in h..Total(m) /\ p >= h
    BY <1>2, <1>4, <1>7, MessageFields
  <2>2. PICK e : /\ l = Outcome(e, Some(m.length))
                 /\ e.buf = SubSeq(Stream(m), h + 1, p) /\ e.len = Some(m.length)
    BY <1>1, <1>2, <1>7, <2>1, LengthTaken
  <2>3. l.result.type = "some" /\ l.decoder = e /\ e.len.value = m.length
    BY <2>2, Results
  <2>4. ReadExact(e.buf, m.length) <=> FrameRead(m, p)
    BY <1>2, <2>1, <2>2, FrameLeft
  <2>5. FrameRead(m, p) => ((m.length = 0 \/ e.buf[1].valid) <=> (m.length = 0 \/ m.valid))
    BY <1>2, <2>1, <2>2, FrameLeft
  <2>6. PICK out : out <=> is_out_of_bounds(rpc_response_limits(pr), m.length)
    OBVIOUS
  <2>7. ASSUME m.code = 0
        PROVE  \E x : DecodeSuccess(pr, d) = Outcome(x, Verdict(m, pr, p))
    <3>1. DecodeSuccess(pr, d) =
             IF out \/ ~FrameRead(m, p) THEN Outcome(e, Err)
             ELSE Outcome(Consume(e), handle_response(pr, m.length = 0 \/ e.buf[1].valid))
      BY <1>1, <2>3, <2>4, <2>6 DEF DecodeSuccess
    <3>2. Verdict(m, pr, p) =
             IF out \/ ~FrameRead(m, p) THEN Err
             ELSE handle_response(pr, m.length = 0 \/ m.valid)
      BY <1>2, <1>7, <2>6, <2>7 DEF Verdict
    <3>3. FrameRead(m, p) => handle_response(pr, m.length = 0 \/ e.buf[1].valid)
                             = handle_response(pr, m.length = 0 \/ m.valid)
      BY <2>5 DEF handle_response
    <3>. QED BY <3>1, <3>2, <3>3
  <2>8. ASSUME m.code # 0
        PROVE  \E x : decode_error(d) = Outcome(x, Verdict(m, pr, p))
    <3>1. decode_error(d) =
             IF m.length > MAX_RPC_SIZE_POST_MERGE \/ ~FrameRead(m, p) THEN Outcome(e, Err)
             ELSE Outcome(Consume(e), IF m.length > MaxErrorLen THEN Err ELSE Item("Error"))
      BY <1>1, <2>3, <2>4 DEF decode_error
    <3>2. Verdict(m, pr, p) =
             IF m.length > MAX_RPC_SIZE_POST_MERGE \/ ~FrameRead(m, p) THEN Err
             ELSE IF m.length > MaxErrorLen THEN Err ELSE Item("Error")
      BY <1>2, <1>7, <2>8 DEF Verdict
    <3>. QED BY <3>1, <3>2
  <2>. QED BY <1>2, <1>7, <2>7, <2>8
<1>. QED BY <1>5, <1>6, <1>7

\* The decoder with the bytes up to p, when those up to a were not enough.
LEMMA Decoded ==
    ASSUME NEW m \in Messages, NEW pr, NEW a \in 0..(Header(m) - 1),
           NEW p \in (a + 1)..Total(m), NEW d0 \in Decoders,
           d0.buf = SubSeq(Stream(m), IF a < 2 THEN 1 ELSE 2, p),
           d0.len = None, d0.code = IF a < 2 THEN None ELSE Some(m.code)
    PROVE  LET o == DecodeResponse(pr, d0)
           IN  /\ o.result = Verdict(m, pr, p)
               /\ p < Header(m) => WaitsAt(o.decoder, m, p)
<1>1. PICK b : b = Stream(m)
  OBVIOUS
<1>2. PICK h : h = Header(m)
  OBVIOUS
<1>3. /\ b \in Seq(Octets) /\ Len(b) = Total(m) /\ Total(m) \in Nat /\ h \in {2, 3}
      /\ h <= Total(m) /\ b[1].value = m.code /\ m.code \in Nat
  <2>1. b \in Seq(Octets) /\ Len(b) = Total(m) /\ b[1].value = m.code
    BY <1>1, StreamBytes
  <2>. QED BY <1>2, <2>1, MessageFields
<1>4. PICK k : k = IF a < 2 THEN 1 ELSE 2
  OBVIOUS
<1>5. a \in Int /\ p \in Int /\ a < h /\ 0 <= a /\ a < p /\ p <= Total(m)
  BY <1>2, <1>3
<1>6. d0.buf \in Seq(Octets) /\ Len(d0.buf) = p - k + 1 /\ d0.buf = SubSeq(b, k, p)
  <2>1. k \in 1..(Len(b) + 1) /\ p \in (k - 1)..Len(b)
    BY <1>3, <1>4, <1>5
  <2>. QED BY <1>1, <1>3, <1>4, <2>1, Piece
<1>7. CASE p < 2
  <2>1. p = 1 /\ a = 0 /\ k = 1 /\ Len(d0.buf) <= 1
    BY <1>4, <1>5, <1>6, <1>7
  <2>2. DecodeResponse(pr, d0) = Outcome(d0, None)
    BY <2>1 DEF DecodeResponse
  <2>3. Verdict(m, pr, p) = None
    BY <1>2, <1>3, <2>1 DEF Verdict
  <2>4. WaitsAt(d0, m, p)
    BY <1>7, <2>1 DEF WaitsAt
  <2>. QED BY <2>2, <2>3, <2>4, Results
<1>8. CASE p >= 2
  <2>1. ~(Len(d0.buf) <= 1) /\ p \in 2..Total(m)
    BY <1>3, <1>4, <1>5, <1>6, <1>8
  <2>2. PICK d : d = TakeCode(d0)
    OBVIOUS
  <2>3. WaitsAt(d, m, p)
    <3>1. CASE a < 2
      <4>1. k = 1 /\ 1 \in 1..Len(b) /\ p \in 1..Len(b)
        BY <1>3, <1>4, <1>5, <3>1
      <4>2. Head(d0.buf) = b[1] /\ Tail(d0.buf) = SubSeq(b, 1 + 1, p)
        <5>1. PICK c \in Seq(Octets) : c = b
          BY <1>3
        <5>2. 1 \in 1..Len(c) /\ p \in 1..Len(c) /\ d0.buf = SubSeq(c, 1, p)
          BY <1>6, <4>1, <5>1
        <5>3. Head(SubSeq(c, 1, p)) = c[1] /\ Tail(SubSeq(c, 1, p)) = SubSeq(c, 1 + 1, p)
          BY <5>2, HeadTailOfSubSeq
        <5>. QED BY <5>1, <5>2, <5>3
      <4>3. PICK q \in Seq(Octets) : q = SubSeq(b, 2, p) /\ q = Tail(d0.buf)
        <5>1. 2 \in 1..(Len(b) + 1) /\ p \in (2 - 1)..Len(b)
          BY <1>3, <1>5, <1>8
        <5>2. SubSeq(b, 2, p) \in Seq(Octets)
          BY <1>3, <5>1, Piece
        <5>3. 1 + 1 = 2
          OBVIOUS
        <5>. QED BY <4>2, <5>2, <5>3
      <4>4. PICK x \in Options : x = Some(m.code) /\ x = Some(Head(d0.buf).value)
        BY <1>3, <4>2 DEF Some, Options
      <4>5. d = [d0 EXCEPT !.code = x, !.buf = q]
        BY <2>2, <3>1, <4>3, <4>4 DEF TakeCode
      <4>6. d \in Decoders /\ d.buf = q /\ d.len = d0.len /\ d.code = x
        BY <4>5 DEF Decoders
      <4>7. ~(p < 2)
        BY <1>5, <1>8
      <4>. QED BY <1>1, <4>3, <4>4, <4>6, <4>7 DEF WaitsAt
    <3>2. CASE ~(a < 2)
      <4>1. d0.code = Some(m.code) /\ d0.code # None
        BY <3>2, Results
      <4>2. d = d0 /\ d.buf = SubSeq(b, 2, p)
        BY <1>4, <1>6, <2>2, <3>2, <4>1 DEF TakeCode
      <4>. QED BY <1>1, <1>8, <4>1, <4>2 DEF WaitsAt
    <3>. QED BY <3>1, <3>2
  <2>4. d.code.value = m.code
    BY <1>8, <2>3, Results DEF WaitsAt
  <2>5. PICK inner : inner = IF m.code = 0 THEN DecodeSuccess(pr, d) ELSE decode_error(d)
    OBVIOUS
  <2>6. PICK x : inner = Outcome(x, Verdict(m, pr, p)) /\ (p < h => x = d)
    <3>1. CASE m.code = 0
      <4>1. \E x : /\ DecodeSuccess(pr, d) = Outcome(x, Verdict(m, pr, p))
                   /\ p < Header(m) => x = d
        BY <2>1, <2>3, <3>1, InnerDecoded
      <4>. QED BY <1>2, <2>5, <3>1, <4>1
    <3>2. CASE m.code # 0
      <4>1. \E x : /\ decode_error(d) = Outcome(x, Verdict(m, pr, p))
                   /\ p < Header(m) => x = d
        BY <2>1, <2>3, <3>2, InnerDecoded
      <4>. QED BY <1>2, <2>5, <3>2, <4>1
    <3>. QED BY <3>1, <3>2
  <2>7. inner.result = Verdict(m, pr, p) /\ inner.decoder = x
    BY <2>6, Results
  <2>8. DecodeResponse(pr, d0) = IF inner.result.type = "item"
                                 THEN [inner EXCEPT !.decoder.code = None] ELSE inner
    BY <2>1, <2>2, <2>4, <2>5 DEF DecodeResponse, is_response
  <2>9. DecodeResponse(pr, d0).result = Verdict(m, pr, p)
    <3>1. [inner EXCEPT !.decoder.code = None].result = Verdict(m, pr, p)
      BY <2>6 DEF Outcome
    <3>. QED BY <2>7, <2>8, <3>1
  <2>10. p < h => DecodeResponse(pr, d0) = inner
    <3>1. p < h => Verdict(m, pr, p) = None
      BY <1>2 DEF Verdict
    <3>. QED BY <2>7, <2>8, <3>1, Results
  <2>. QED BY <1>2, <2>3, <2>6, <2>7, <2>9, <2>10
<1>. QED BY <1>5, <1>7, <1>8

-----------------------------------------------------------------------------
(***************************************************************************)
(* What a response stands for.                                             *)
(***************************************************************************)

\* Meaning, of response m to a request of pr.
MeaningOf(m, pr) ==
    IF Size(m) # m.length \/ ~m.varint THEN None
    ELSE IF m.code # 0
    THEN IF m.length <= MaxErrorLen THEN Item("Error") ELSE None
    ELSE IF /\ pr # "Goodbye"
            /\ m.length = ssz_fixed_len(pr)
            /\ pr = "MetaData" => m.valid
    THEN Item(ResponseTo(pr))
    ELSE None

\* The limits of the protocols, none of which reaches the limit on all.
LEMMA Limits ==
    ASSUME NEW pr \in Requests, NEW n \in Nat
    PROVE  /\ ssz_fixed_len(pr) \in Nat \ {0}
           /\ ~is_out_of_bounds(rpc_response_limits(pr), n) <=>
                 n = IF pr = "Goodbye" THEN 0 ELSE ssz_fixed_len(pr)
<1>1. ssz_fixed_len(pr) \in {84, 17, 8}
  BY DEF ssz_fixed_len
<1>2. PICK x : x = IF pr = "Goodbye" THEN 0 ELSE ssz_fixed_len(pr)
  OBVIOUS
<1>3. rpc_response_limits(pr).min = x /\ rpc_response_limits(pr).max = x
  BY <1>2 DEF rpc_response_limits, Requests
<1>4. x \in Nat /\ MAX_RPC_SIZE_POST_MERGE \in Nat /\ x <= MAX_RPC_SIZE_POST_MERGE
  BY <1>1, <1>2 DEF MAX_RPC_SIZE_POST_MERGE
<1>5. Min({x, MAX_RPC_SIZE_POST_MERGE}) = x
  BY <1>4, MinOf
<1>6. is_out_of_bounds(rpc_response_limits(pr), n) <=> n > x \/ n < x
  BY <1>3, <1>5 DEF is_out_of_bounds
<1>. QED BY <1>1, <1>2, <1>4, <1>6

\* What the inner decoder makes of a payload of the right length.
LEMMA Handled ==
    ASSUME NEW pr, NEW v \in BOOLEAN
    PROVE  /\ pr = "Goodbye" => handle_response(pr, v) = Err
           /\ pr = "MetaData" /\ ~v => handle_response(pr, v) = Panic
           /\ pr # "Goodbye" /\ (pr = "MetaData" => v) =>
                 handle_response(pr, v) = Item(ResponseTo(pr))
<1>1. pr = "Goodbye" => handle_response(pr, v) = Err
  BY DEF handle_response
<1>2. pr = "MetaData" /\ ~v => handle_response(pr, v) = Panic
  BY DEF handle_response
<1>3. pr # "Goodbye" /\ (pr = "MetaData" => v) => handle_response(pr, v) = Item(ResponseTo(pr))
  BY DEF handle_response
<1>. QED BY <1>1, <1>2, <1>3

\* The verdict on a response, once its length is known: its meaning, or none
\* if a read ended inside its frame.
LEMMA VerdictMeans ==
    ASSUME NEW m \in Messages, NEW pr \in Requests, NEW p \in Header(m)..Total(m)
    PROVE  /\ Verdict(m, pr, p) # None
           /\ Verdict(m, pr, p).type = "item" => Verdict(m, pr, p) = MeaningOf(m, pr)
           /\ MeaningOf(m, pr) # None /\ p = Total(m) => Verdict(m, pr, p) = MeaningOf(m, pr)
<1>1. PICK n, z, h : n = m.length /\ z = Size(m) /\ h = Header(m)
  OBVIOUS
<1>2. /\ n \in Nat /\ z \in Nat /\ z <= n /\ (n = 0 => z = 0) /\ m.valid \in BOOLEAN
      /\ h \in {2, 3} /\ p \in Int /\ p >= h
      /\ Total(m) = IF z = 0 THEN h ELSE h + 2
  BY <1>1, MessageFields DEF Total
<1>3. PICK good : good <=> FrameRead(m, p)
  OBVIOUS
<1>4. good <=> n = 0 \/ (p >= h + 2 /\ z >= n)
  BY <1>1, <1>3 DEF FrameRead
<1>5. good => z = n
  BY <1>2, <1>4
<1>6. p = Total(m) /\ z = n => good
  BY <1>2, <1>4
<1>7. PICK v \in BOOLEAN : v <=> n = 0 \/ m.valid
  OBVIOUS
<1>8. CASE m.varint /\ m.code = 0
  <2>1. Verdict(m, pr, p) =
           IF is_out_of_bounds(rpc_response_limits(pr), n) \/ ~good
           THEN Err ELSE handle_response(pr, n = 0 \/ m.valid)
    BY <1>1, <1>2, <1>3, <1>8 DEF Verdict
  <2>2. handle_response(pr, n = 0 \/ m.valid) = handle_response(pr, v)
    BY <1>7 DEF handle_response
  <2>3. PICK x : x = ssz_fixed_len(pr)
    OBVIOUS
  <2>4. x \in Nat \ {0}
    BY <2>3, Limits
  <2>5. ~is_out_of_bounds(rpc_response_limits(pr), n) <=> n = IF pr = "Goodbye" THEN 0 ELSE x
    BY <1>2, <2>3, Limits
  <2>6. PICK r : r = Verdict(m, pr, p)
    OBVIOUS
  <2>7. r = IF n = (IF pr = "Goodbye" THEN 0 ELSE x) /\ good
            THEN handle_response(pr, v) ELSE Err
    BY <2>1, <2>2, <2>5, <2>6
  <2>8. MeaningOf(m, pr) =
           IF z = n /\ pr # "Goodbye" /\ n = x /\ (pr = "MetaData" => m.valid)
           THEN Item(ResponseTo(pr)) ELSE None
    BY <1>1, <1>8, <2>3 DEF MeaningOf
  <2>9. CASE pr = "Goodbye"
    <3>1. r = Err
      BY <2>7, <2>9, Handled
    <3>2. MeaningOf(m, pr) = None
      BY <2>8, <2>9
    <3>. QED BY <2>6, <3>1, <3>2, Results
  <2>10. CASE pr # "Goodbye" /\ ~(n = x /\ good)
    <3>1. r = Err
      BY <2>7, <2>10
    <3>2. p = Total(m) => MeaningOf(m, pr) = None
      BY <1>6, <2>8, <2>10
    <3>. QED BY <2>6, <3>1, <3>2, Results
  <2>11. CASE pr # "Goodbye" /\ n = x /\ good
    <3>1. r = handle_response(pr, v) /\ z = n /\ (v <=> m.valid)
      BY <1>5, <1>7, <2>4, <2>7, <2>11
    <3>2. CASE pr = "MetaData" /\ ~v
      <4>1. r = Panic
        BY <3>1, <3>2, Handled
      <4>2. MeaningOf(m, pr) = None
        BY <2>8, <3>1, <3>2
      <4>. QED BY <2>6, <4>1, <4>2, Results
    <3>3. CASE pr = "MetaData" => v
      <4>1. r = Item(ResponseTo(pr))
        BY <2>11, <3>1, <3>3, Handled
      <4>2. MeaningOf(m, pr) = Item(ResponseTo(pr))
        BY <2>8, <2>11, <3>1, <3>3
      <4>. QED BY <2>6, <4>1, <4>2, Results
    <3>. QED BY <3>2, <3>3
  <2>. QED BY <2>9, <2>10, <2>11
<1>9. CASE m.varint /\ m.code # 0
  <2>1. PICK r : r = Verdict(m, pr, p)
    OBVIOUS
  <2>2. MaxErrorLen = 256 /\ MAX_RPC_SIZE_POST_MERGE \in Nat /\ 256 < MAX_RPC_SIZE_POST_MERGE
    BY DEF MaxErrorLen, MAX_RPC_SIZE_POST_MERGE
  <2>3. r = IF n > MAX_RPC_SIZE_POST_MERGE \/ ~good THEN Err
            ELSE IF n > 256 THEN Err ELSE Item("Error")
    BY <1>1, <1>2, <1>3, <1>9, <2>1, <2>2 DEF Verdict
  <2>4. MeaningOf(m, pr) = IF z = n /\ n <= 256 THEN Item("Error") ELSE None
    BY <1>1, <1>9, <2>2 DEF MeaningOf
  <2>5. CASE good /\ n <= 256
    <3>1. r = Item("Error") /\ MeaningOf(m, pr) = Item("Error")
      BY <1>2, <1>5, <2>2, <2>3, <2>4, <2>5
    <3>. QED BY <2>1, <3>1, Results
  <2>6. CASE ~(good /\ n <= 256)
    <3>1. r = Err
      BY <1>2, <2>3, <2>6
    <3>2. p = Total(m) => MeaningOf(m, pr) = None
      BY <1>6, <2>4, <2>6
    <3>. QED BY <2>1, <3>1, <3>2, Results
  <2>. QED BY <2>5, <2>6
<1>10. CASE ~m.varint
  <2>1. Verdict(m, pr, p) = Err
    BY <1>1, <1>2, <1>10 DEF Verdict
  <2>2. MeaningOf(m, pr) = None
    BY <1>10 DEF MeaningOf
  <2>. QED BY <2>1, <2>2, Results
<1>. QED BY <1>8, <1>9, <1>10

\* The responses this program encodes mean what they are.
LEMMA OwnMeaning ==
    ASSUME NEW m \in Messages, NEW pr \in Requests \ {"Goodbye"},
           NEW response \in {ResponseTo(pr), "Error"}, Stream(m) = EncodeResponse(response)
    PROVE  MeaningOf(m, pr) = Item(response)
<1>1. PICK x : x = as_u8(response)
  OBVIOUS
<1>2. PICK n : n = ResponseLen(response)
  OBVIOUS
<1>3. /\ response = "Error" => x = 4 /\ n = 0
      /\ response # "Error" => /\ x = 0 /\ response = ResponseTo(pr)
                               /\ n = ssz_fixed_len(pr) /\ n \in {84, 17, 8}
  <2>1. response = "Error" => x = 4 /\ n = 0
    BY <1>1, <1>2 DEF as_u8, ResponseLen
  <2>2. response # "Error" => x = 0 /\ response = ResponseTo(pr)
    BY <1>1 DEF as_u8
  <2>3. ssz_fixed_len(pr) \in {84, 17, 8}
    BY DEF ssz_fixed_len
  <2>4. pr \in {"Status", "Ping", "MetaData"}
    BY DEF Requests
  <2>5. ResponseLen(ResponseTo(pr)) = ssz_fixed_len(pr)
    <3>1. CASE pr = "Ping"
      BY <3>1 DEF ResponseLen, ResponseTo
    <3>2. CASE pr # "Ping"
      BY <2>4, <3>2 DEF ResponseLen, ResponseTo
    <3>. QED BY <3>1, <3>2
  <2>. QED BY <1>2, <2>1, <2>2, <2>3, <2>5
<1>4. x \in Nat /\ n \in Nat
  BY <1>3
<1>5. PICK b : b = Stream(m)
  OBVIOUS
<1>6. IsStream(b, x, n, TRUE, n, TRUE)
  <2>1. b = (Code(x) \o Varint(n, TRUE)) \o Snappy(n, TRUE)
    BY <1>1, <1>2, <1>5 DEF EncodeResponse, Uvi
  <2>2. Code(x) \in Seq(Octets) /\ Varint(n, TRUE) \in Seq(Octets) /\ Snappy(n, TRUE) \in Seq(Octets)
    <3>1. PICK y : y = [part |-> "code", value |-> x]
      OBVIOUS
    <3>2. y \in Octets
      BY <1>4, <3>1 DEF Octets
    <3>3. Code(x) = <<y>>
      BY <3>1 DEF Code
    <3>4. Code(x) \in Seq(Octets)
      BY <3>2, <3>3
    <3>5. Varint(n, TRUE) \in Seq(Octets)
      BY <1>4, VarintBytes DEF IsLength
    <3>6. Snappy(n, TRUE) \in Seq(Octets)
      BY <1>4, SnappyBytes
    <3>. QED BY <3>4, <3>5, <3>6
  <2>3. b = Code(x) \o (Varint(n, TRUE) \o Snappy(n, TRUE))
    <3>1. PICK c1 \in Seq(Octets), c2 \in Seq(Octets), c3 \in Seq(Octets) :
             c1 = Code(x) /\ c2 = Varint(n, TRUE) /\ c3 = Snappy(n, TRUE)
      BY <2>2, Zenon
    <3>2. (c1 \o c2) \o c3 = c1 \o (c2 \o c3)
      BY ConcatAssociative
    <3>. QED BY <2>1, <3>1, <3>2
  <2>. QED BY <1>4, <2>3, ThreeParts
<1>7. PICK l, z, h : l = m.length /\ z = Size(m) /\ h = Header(m)
  OBVIOUS
<1>8. /\ l \in Nat /\ z \in Nat /\ h \in {2, 3} /\ (h = IF l < 128 /\ m.varint THEN 2 ELSE 3)
      /\ Len(b) = (IF z = 0 THEN h ELSE h + 2)
      /\ b[1].value = m.code /\ b[2].value = l /\ (b[2].good <=> m.varint)
      /\ z # 0 => b[h + 1].size = z /\ b[h + 1].valid = m.valid
  <2>1. /\ Len(b) = Total(m) /\ b[1].value = m.code /\ l \in Nat /\ z \in Nat /\ h \in {2, 3}
    BY <1>5, <1>7, StreamBytes, MessageFields
  <2>2. /\ \A j \in 2..h : b[j].value = l
        /\ \A j \in 2..h : b[j].good <=> m.varint
    BY <1>5, <1>7, StreamBytes
  <2>3. z # 0 => b[h + 1].size = z /\ b[h + 1].valid = m.valid
    BY <1>5, <1>7, StreamBytes
  <2>. QED BY <1>7, <2>1, <2>2, <2>3 DEF Total, Header
<1>9. PICK g : g = IF n < 128 THEN 2 ELSE 3
  OBVIOUS
<1>10. /\ Len(b) = (IF n = 0 THEN g ELSE g + 2)
       /\ b[1].value = x /\ b[2].value = n /\ b[2].good
       /\ n # 0 => b[g + 1].size = n /\ b[g + 1].valid = TRUE
  <2>1. \A j \in 2..g : b[j].value = n /\ b[j].good
    BY <1>6, <1>9 DEF IsStream
  <2>2. 2 \in 2..g
    BY <1>9
  <2>3. /\ Len(b) = (IF n = 0 THEN g ELSE g + 2) /\ b[1].value = x
        /\ n # 0 => b[g + 1].size = n /\ b[g + 1].valid = TRUE
    BY <1>6, <1>9 DEF IsStream
  <2>. QED BY <2>1, <2>2, <2>3
<1>11. m.code = x /\ l = n /\ h = g /\ m.varint
  BY <1>8, <1>9, <1>10
<1>12. z = n /\ (n # 0 => m.valid = TRUE)
  BY <1>4, <1>8, <1>10, <1>11
<1>13. CASE response = "Error"
  BY <1>3, <1>7, <1>11, <1>12, <1>13 DEF MeaningOf, MaxErrorLen
<1>14. CASE response # "Error"
  <2>1. /\ m.code = 0 /\ Size(m) = m.length /\ m.length = ssz_fixed_len(pr) /\ m.valid
        /\ m.varint /\ response = ResponseTo(pr) /\ pr # "Goodbye"
    BY <1>3, <1>7, <1>11, <1>12, <1>14
  <2>. QED BY <2>1 DEF MeaningOf
<1>. QED BY <1>13, <1>14

-----------------------------------------------------------------------------
(***************************************************************************)
(* The steps.                                                              *)
(***************************************************************************)

\* The last cut is as far as the bytes have arrived.
LEMMA LastCut ==
    ASSUME CutsOK
    PROVE  /\ Arrived \in Nat /\ Arrived \in cuts \cup {0} /\ cuts \cup {0} \subseteq Nat
           /\ \A y \in cuts \cup {0} : y <= Arrived
<1>1. PICK a \in cuts \cup {0} : \A y \in cuts \cup {0} : y <= a
  BY DEF CutsOK
<1>2. cuts \cup {0} \in SUBSET Nat
  BY DEF CutsOK
<1>3. Arrived = a
  BY <1>1, <1>2, MaxOf DEF Arrived
<1>. QED BY <1>1, <1>2, <1>3

\* After a read of n bytes.
LEMMA NextCut ==
    ASSUME CutsOK, NEW n \in Nat, cuts' = cuts \cup {Arrived + n}
    PROVE  CutsOK' /\ Arrived' = Arrived + n
<1>1. PICK a : a = Arrived
  OBVIOUS
<1>2. PICK S : S = cuts \cup {0}
  OBVIOUS
<1>3. a \in Nat /\ S \in SUBSET Nat /\ \A y \in S : y <= a
  BY <1>1, <1>2, LastCut
<1>4. PICK T : T = cuts' \cup {0}
  OBVIOUS
<1>5. T = S \cup {a + n}
  BY <1>1, <1>2, <1>4
<1>6. T \in SUBSET Nat /\ a + n \in T /\ \A y \in T : y <= a + n
  BY <1>3, <1>5
<1>7. Max(T) = a + n
  BY <1>6, MaxOf
<1>8. Arrived' = Max(T)
  BY <1>4 DEF Arrived
<1>9. CutsOK'
  <2>1. cuts' \subseteq Nat
    BY <1>4, <1>6
  <2>2. \E c \in cuts' \cup {0} : \A y \in cuts' \cup {0} : y <= c
    BY <1>4, <1>6
  <2>. QED BY <2>1, <2>2 DEF CutsOK
<1>. QED BY <1>1, <1>7, <1>8, <1>9

\* The names that the properties use.
LEMMA PropertyNames ==
    ASSUME sent \in Messages, reads = "response"
    PROVE  /\ HeaderLen = Header(sent) /\ AllBytes = Total(sent)
           /\ Meaning = MeaningOf(sent, proto)
<1>1. sent.code \in Nat /\ sent.length \in Nat /\ sent.varint \in BOOLEAN
  BY MessageFields
<1>2. HeaderLen = Header(sent)
  <2>1. PICK y : y = [part |-> "code", value |-> sent.code]
    OBVIOUS
  <2>2. y \in Octets
    BY <1>1, <2>1 DEF Octets
  <2>3. PICK g \in Seq(Octets) : g = Code(sent.code) /\ Len(g) = 1
    <3>1. Code(sent.code) = <<y>> /\ <<y>> \in Seq(Octets) /\ Len(<<y>>) = 1
      BY <2>1, <2>2 DEF Code
    <3>. QED BY <3>1
  <2>4. PICK u \in Seq(Octets) :
           /\ u = Varint(sent.length, sent.varint)
           /\ Len(u) = IF sent.length < 128 /\ sent.varint THEN 1 ELSE 2
    <3>1. IsLength(Varint(sent.length, sent.varint), sent.length, sent.varint,
                   IF sent.length < 128 /\ sent.varint THEN 1 ELSE 2)
      BY <1>1, VarintBytes, Zenon
    <3>. QED BY <3>1, Zenon DEF IsLength
  <2>5. Len(g \o u) = Len(g) + Len(u)
    BY ConcatProperties
  <2>. QED BY <2>3, <2>4, <2>5 DEF HeaderLen, Header
<1>3. AllBytes = Total(sent)
  BY StreamBytes DEF AllBytes, Stream
<1>4. Meaning = MeaningOf(sent, proto)
  BY DEF Meaning, MeaningOf
<1>. QED BY <1>2, <1>3, <1>4

\* The invariant of a substream on which a response is read, when sent, proto
\* and reads stay as they are.
LEMMA ResponseInv ==
    ASSUME SubstreamInv, reads = "response", UNCHANGED <<reads, proto, sent>>, CutsOK',
           result' = None => Waiting',
           result'.type = "item" => result' = MeaningOf(sent, proto),
           MeaningOf(sent, proto) # None /\ result' = Err =>
              \/ \E p \in cuts' : Header(sent) <= p /\ p < Total(sent)
              \/ eof' /\ Arrived' < Total(sent),
           \A response \in Responses :
              (/\ proto # "Goodbye" /\ response \in {ResponseTo(proto), "Error"}
               /\ Stream(sent) = EncodeResponse(response) /\ cuts' = {Total(sent)})
                 => result' = Item(response)
    PROVE  SubstreamInv'
<1>1. sent \in Messages /\ proto \in Requests
  BY DEF SubstreamInv
<1>2. /\ HeaderLen' = HeaderLen /\ AllBytes' = AllBytes /\ Meaning' = Meaning
  BY DEF HeaderLen, AllBytes, Meaning
<1>3. /\ HeaderLen' = Header(sent) /\ AllBytes' = Total(sent)
      /\ Meaning' = MeaningOf(sent, proto)
  BY <1>1, <1>2, PropertyNames
<1>4. DecodedAsSent'
  BY <1>3 DEF DecodedAsSent
<1>5. WholeFramesDecode'
  BY <1>3 DEF WholeFramesDecode
<1>6. OwnResponsesUnderstood'
  <2>1. Bytes(reads, sent)' = Stream(sent)
    BY DEF Stream, Bytes, Body, Size
  <2>. QED BY <1>3, <2>1 DEF OwnResponsesUnderstood
<1>. QED BY <1>1, <1>4, <1>5, <1>6 DEF SubstreamInv

\* When a request is read the invariant says little.
LEMMA RequestInv ==
    ASSUME SubstreamInv, reads # "response", UNCHANGED <<reads, proto, sent>>, CutsOK'
    PROVE  SubstreamInv'
<1>1. reads' # "response" /\ reads' \in {"request", "response"}
      /\ sent' \in Messages /\ proto' \in Requests
  BY DEF SubstreamInv
<1>2. DecodedAsSent' /\ WholeFramesDecode' /\ OwnResponsesUnderstood'
  BY <1>1 DEF DecodedAsSent, WholeFramesDecode, OwnResponsesUnderstood
<1>. QED BY <1>1, <1>2 DEF SubstreamInv

\* While the decoder waits, not all bytes have arrived.
LEMMA NotAllArrived ==
    ASSUME SubstreamInv, reads = "response", result = None
    PROVE  /\ Waiting /\ CutsOK /\ sent \in Messages
           /\ Arrived < Total(sent) /\ Total(sent) \notin cuts
<1>1. Waiting /\ CutsOK /\ sent \in Messages
  BY DEF SubstreamInv
<1>2. PICK a, h, t : a = Arrived /\ h = Header(sent) /\ t = Total(sent)
  OBVIOUS
<1>3. a \in Nat /\ h \in {2, 3} /\ t \in Nat /\ h <= t /\ a < h
  BY <1>1, <1>2, LastCut, MessageFields DEF Waiting
<1>4. a < t
  BY <1>3
<1>5. t \notin cuts
  <2>1. t \in cuts => t <= a
    BY <1>1, <1>2, LastCut
  <2>. QED BY <1>3, <1>4, <2>1
<1>. QED BY <1>1, <1>2, <1>4, <1>5

\* A read of n bytes of a response.
LEMMA ReadStep ==
    ASSUME SubstreamInv, reads = "response", NEW n \in 1..Len(wire), Read(n)
    PROVE  SubstreamInv'
<1>1. /\ result = None /\ cuts' = cuts \cup {Arrived + n}
      /\ wire' = SubSeq(wire, n + 1, Len(wire)) /\ UNCHANGED <<reads, proto, sent, eof>>
  BY DEF Read
<1>2. /\ Waiting /\ CutsOK /\ sent \in Messages /\ proto \in Requests
  BY <1>1 DEF SubstreamInv
<1>3. PICK m, pr : m = sent /\ pr = proto
  OBVIOUS
<1>4. PICK b, h, t : b = Stream(m) /\ h = Header(m) /\ t = Total(m)
  OBVIOUS
<1>5. PICK a : a = Arrived
  OBVIOUS
<1>6. /\ m \in Messages /\ pr \in Requests /\ b \in Seq(Octets) /\ Len(b) = t /\ t \in Nat
      /\ h \in {2, 3} /\ h <= t /\ a \in Nat /\ a < h
  BY <1>2, <1>3, <1>4, <1>5, StreamBytes, MessageFields, LastCut DEF Waiting
<1>7. PICK e \in a..t : wire = SubSeq(b, a + 1, e) /\ (~eof => e = t)
  BY <1>2, <1>3, <1>4, <1>5 DEF Waiting
<1>8. /\ Len(wire) = e - a /\ n \in Int /\ 1 <= n /\ n <= e - a
      /\ \A x \in 1..(e - a + 1), y \in 0..(e - a) :
            SubSeq(wire, x, y) = SubSeq(b, a + x, a + y)
  <2>1. a + 1 \in 1..(Len(b) + 1) /\ e \in ((a + 1) - 1)..Len(b)
    BY <1>6, <1>7
  <2>2. /\ Len(wire) = e - (a + 1) + 1
        /\ \A x \in 1..(e - (a + 1) + 2), y \in 0..(e - (a + 1) + 1) :
              SubSeq(wire, x, y) = SubSeq(b, (a + 1) + x - 1, (a + 1) + y - 1)
    BY <1>6, <1>7, <2>1, Piece
  <2>3. e - (a + 1) + 1 = e - a
    BY <1>6, <1>7
  <2>4. Len(wire) = e - a
    BY <2>2, <2>3
  <2>5. n \in Int /\ 1 <= n /\ n <= e - a
    BY <1>6, <1>7, <2>4
  <2>6. ASSUME NEW x \in 1..(e - a + 1), NEW y \in 0..(e - a)
        PROVE  SubSeq(wire, x, y) = SubSeq(b, a + x, a + y)
    <3>1. /\ x \in 1..(e - (a + 1) + 2) /\ y \in 0..(e - (a + 1) + 1)
          /\ (a + 1) + x - 1 = a + x /\ (a + 1) + y - 1 = a + y
      BY <1>6, <1>7
    <3>2. SubSeq(wire, x, y) = SubSeq(b, (a + 1) + x - 1, (a + 1) + y - 1)
      BY <2>2, <3>1
    <3>. QED BY <3>1, <3>2
  <2>. QED BY <2>4, <2>5, <2>6
<1>9. PICK p \in (a + 1)..t : p = a + n /\ p <= e
  BY <1>6, <1>7, <1>8
<1>10. CutsOK' /\ Arrived' = p
  <2>1. n \in Nat
    BY <1>8
  <2>. QED BY <1>1, <1>2, <1>5, <1>9, <2>1, NextCut
<1>11. wire' = SubSeq(b, p + 1, e)
  <2>1. n + 1 \in 1..(e - a + 1) /\ e - a \in 0..(e - a) /\ a + (n + 1) = p + 1 /\ a + (e - a) = e
    BY <1>6, <1>7, <1>8, <1>9
  <2>2. SubSeq(wire, n + 1, e - a) = SubSeq(b, a + (n + 1), a + (e - a))
    BY <1>8, <2>1
  <2>. QED BY <1>1, <1>8, <2>1, <2>2
<1>12. PICK d0 : d0 = [decoder EXCEPT !.buf = @ \o SubSeq(wire, 1, n)]
  OBVIOUS
<1>13. PICK k : k = IF a < 2 THEN 1 ELSE 2
  OBVIOUS
<1>14. /\ d0 \in Decoders /\ d0.buf = SubSeq(b, k, p) /\ d0.len = None
       /\ d0.code = IF a < 2 THEN None ELSE Some(m.code)
  <2>1. /\ decoder \in Decoders /\ decoder.buf = SubSeq(b, k, a) /\ decoder.len = None
        /\ decoder.code = IF a < 2 THEN None ELSE Some(m.code)
    BY <1>2, <1>3, <1>4, <1>5, <1>13 DEF Waiting, WaitsAt
  <2>2. SubSeq(wire, 1, n) = SubSeq(b, a + 1, p)
    <3>1. 1 \in 1..(e - a + 1) /\ n \in 0..(e - a)
      BY <1>6, <1>7, <1>8
    <3>2. SubSeq(wire, 1, n) = SubSeq(b, a + 1, a + n)
      BY <1>8, <3>1
    <3>. QED BY <1>9, <3>2
  <2>3. k \in 1..(Len(b) + 1) /\ a \in (k - 1)..Len(b) /\ p \in a..Len(b) /\ p \in (k - 1)..Len(b)
    BY <1>6, <1>9, <1>13
  <2>4. SubSeq(b, k, a) \o SubSeq(b, a + 1, p) = SubSeq(b, k, p)
    BY <1>6, <2>3, ConcatAdjacentSubSeq
  <2>5. PICK q \in Seq(Octets) : q = SubSeq(b, k, p)
    BY <1>6, <2>3, Piece
  <2>6. d0 = [decoder EXCEPT !.buf = q]
    BY <1>12, <2>1, <2>2, <2>4, <2>5
  <2>7. d0 \in Decoders /\ d0.buf = q /\ d0.len = decoder.len /\ d0.code = decoder.code
    BY <2>1, <2>6 DEF Decoders
  <2>. QED BY <2>1, <2>5, <2>7
<1>15. decoder' = DecodeResponse(pr, d0).decoder /\ result' = DecodeResponse(pr, d0).result
  BY <1>3, <1>12 DEF Read, Decode
<1>16. result' = Verdict(m, pr, p) /\ (p < h => WaitsAt(decoder', m, p))
  <2>1. a \in 0..(Header(m) - 1) /\ p \in (a + 1)..Total(m)
    BY <1>4, <1>6
  <2>. QED BY <1>4, <1>6, <1>13, <1>14, <1>15, <2>1, Decoded
<1>17. p \in cuts' /\ p \in Int
  BY <1>1, <1>5, <1>9
<1>18. CASE p < h
  <2>1. result' = None
    BY <1>4, <1>16, <1>18 DEF Verdict
  <2>2. Waiting'
    <3>1. Arrived' < Header(sent)' /\ WaitsAt(decoder, sent, Arrived)'
      <4>1. p < Header(sent') /\ WaitsAt(decoder', sent', p)
        BY <1>1, <1>3, <1>4, <1>16, <1>18
      <4>2. Header(sent)' = Header(sent')
        BY DEF Header
      <4>3. WaitsAt(decoder, sent, Arrived)' <=> WaitsAt(decoder', sent', Arrived')
        BY DEF WaitsAt, Stream, Bytes, Body, Size
      <4>. QED BY <1>10, <4>1, <4>2, <4>3
    <3>2. e \in Arrived'..Total(sent')
      BY <1>1, <1>3, <1>4, <1>6, <1>7, <1>9, <1>10
    <3>3. wire' = SubSeq(Stream(sent'), Arrived' + 1, e) /\ (~eof' => e = Total(sent'))
      BY <1>1, <1>3, <1>4, <1>7, <1>10, <1>11
    <3>4. Total(sent)' = Total(sent') /\ Stream(sent)' = Stream(sent')
      BY DEF Total, Header, Stream, Bytes, Body, Size
    <3>. QED BY <3>1, <3>2, <3>3, <3>4 DEF Waiting
  <2>3. cuts' # {Total(sent)}
    BY <1>3, <1>4, <1>6, <1>17, <1>18
  <2>4. result'.type # "item" /\ result' # Err
    BY <2>1, Results
  <2>. QED BY <1>1, <1>10, <2>2, <2>3, <2>4, ResponseInv
<1>19. CASE ~(p < h)
  <2>1. p \in Header(m)..Total(m)
    BY <1>4, <1>6, <1>9, <1>17, <1>19
  <2>2. result' # None
    BY <1>6, <1>16, <2>1, VerdictMeans
  <2>3. result'.type = "item" => result' = MeaningOf(m, pr)
    BY <1>6, <1>16, <2>1, VerdictMeans
  <2>4. MeaningOf(m, pr) # None /\ p = t => result' = MeaningOf(m, pr)
    BY <1>4, <1>6, <1>16, <2>1, VerdictMeans
  <2>5. MeaningOf(m, pr) = None \/ MeaningOf(m, pr).type = "item"
    BY Results DEF MeaningOf
  <2>6. MeaningOf(m, pr) # None /\ result' = Err => h <= p /\ p < t
    <3>1. MeaningOf(m, pr) # None /\ result' = Err => p # t
      BY <2>4, <2>5, Results
    <3>. QED BY <1>6, <1>9, <1>17, <1>19, <3>1
  <2>7. ASSUME NEW response \in Responses, pr # "Goodbye",
               response \in {ResponseTo(pr), "Error"},
               b = EncodeResponse(response), cuts' = {t}
        PROVE  result' = Item(response)
    <3>1. MeaningOf(m, pr) = Item(response)
      BY <1>4, <1>6, <2>7, OwnMeaning
    <3>2. p = t /\ Item(response) # None
      BY <1>17, <2>7, Results
    <3>. QED BY <2>4, <3>1, <3>2
  <2>. QED BY <1>1, <1>3, <1>4, <1>10, <1>17, <2>2, <2>3, <2>6, <2>7, ResponseInv
<1>. QED BY <1>18, <1>19

\* The remote peer closes its side, while a response is read.
LEMMA ClosesStep ==
    ASSUME SubstreamInv, reads = "response", NEW n \in 0..Len(wire), PeerCloses(n)
    PROVE  SubstreamInv'
<1>1. /\ result = None /\ eof' = TRUE /\ wire' = SubSeq(wire, 1, n)
      /\ UNCHANGED <<reads, proto, sent, decoder, result, cuts>>
  BY DEF PeerCloses
<1>2. Waiting /\ CutsOK /\ sent \in Messages /\ Total(sent) \notin cuts
  BY <1>1, NotAllArrived
<1>3. PICK b, t, a : b = Stream(sent) /\ t = Total(sent) /\ a = Arrived
  OBVIOUS
<1>4. b \in Seq(Octets) /\ Len(b) = t /\ t \in Nat /\ a \in Nat
  BY <1>2, <1>3, StreamBytes, MessageFields, LastCut
<1>5. PICK e \in a..t : wire = SubSeq(b, a + 1, e)
  BY <1>2, <1>3 DEF Waiting
<1>6. wire' = SubSeq(b, a + 1, a + n) /\ a + n \in a..t
  <2>1. a + 1 \in 1..(Len(b) + 1) /\ e \in ((a + 1) - 1)..Len(b)
    BY <1>4, <1>5
  <2>2. /\ Len(wire) = e - (a + 1) + 1
        /\ \A x \in 1..(e - (a + 1) + 2), y \in 0..(e - (a + 1) + 1) :
              SubSeq(wire, x, y) = SubSeq(b, (a + 1) + x - 1, (a + 1) + y - 1)
    BY <1>4, <1>5, <2>1, Piece
  <2>3. /\ 1 \in 1..(e - (a + 1) + 2) /\ n \in 0..(e - (a + 1) + 1)
        /\ (a + 1) + 1 - 1 = a + 1 /\ (a + 1) + n - 1 = a + n /\ a + n \in a..t
    BY <1>4, <1>5, <2>2
  <2>4. SubSeq(wire, 1, n) = SubSeq(b, (a + 1) + 1 - 1, (a + 1) + n - 1)
    BY <2>2, <2>3
  <2>. QED BY <1>1, <2>3, <2>4
<1>7. Arrived' = a /\ CutsOK'
  BY <1>1, <1>2, <1>3 DEF Arrived, CutsOK
<1>8. Waiting'
  <2>1. Arrived' < Header(sent)' /\ WaitsAt(decoder, sent, Arrived)'
    BY <1>1, <1>2, <1>3, <1>7 DEF Waiting, Header, WaitsAt, Stream, Bytes, Body, Size
  <2>2. Total(sent)' = t /\ Stream(sent)' = b
    BY <1>1, <1>3 DEF Total, Header, Stream, Bytes, Body, Size
  <2>. QED BY <1>1, <1>6, <1>7, <2>1, <2>2 DEF Waiting
<1>9. result'.type # "item" /\ result' # Err /\ cuts' # {Total(sent)}
  BY <1>1, <1>2, Results
<1>. QED BY <1>1, <1>7, <1>8, <1>9, ResponseInv

\* A response is given up: the end of the stream or a timeout.
LEMMA EndStep ==
    ASSUME SubstreamInv, reads = "response", ReadEof \/ Timeout
    PROVE  SubstreamInv'
<1>1. /\ result = None /\ UNCHANGED <<reads, proto, sent, eof, cuts>>
      /\ (result' = Err /\ eof) \/ result' = [type |-> "timeout"]
  BY DEF ReadEof, Timeout
<1>2. CutsOK /\ Arrived < Total(sent) /\ Total(sent) \notin cuts
  BY <1>1, NotAllArrived
<1>3. CutsOK' /\ Arrived' = Arrived
  BY <1>1, <1>2 DEF CutsOK, Arrived
<1>4. result'.type \in {"err", "timeout"}
  BY <1>1, Results
<1>5. result' # None /\ result'.type # "item"
  BY <1>4, Results
<1>6. result' = Err => eof'
  <2>1. result' = Err => result' # [type |-> "timeout"]
    <3>1. PICK r : r = [type |-> "timeout"]
      OBVIOUS
    <3>2. r.type = "timeout"
      BY <3>1
    <3>. QED BY <3>1, <3>2, Results
  <2>. QED BY <1>1, <2>1
<1>7. cuts' # {Total(sent)}
  BY <1>1, <1>2
<1>. QED BY <1>1, <1>2, <1>3, <1>5, <1>6, <1>7, ResponseInv

-----------------------------------------------------------------------------
(***************************************************************************)
(* The theorems.                                                           *)
(***************************************************************************)

LEMMA SubstreamStarts == Init => SubstreamInv
<1>. SUFFICES ASSUME Init PROVE SubstreamInv
  OBVIOUS
<1>1. /\ reads \in {"request", "response"} /\ proto \in Requests /\ sent \in Messages
      /\ wire = Bytes(reads, sent) /\ ~eof /\ decoder = NewDecoder
      /\ result = None /\ cuts = {}
  BY DEF Init
<1>2. CutsOK
  BY <1>1 DEF CutsOK
<1>3. Arrived = 0
  <2>1. cuts \cup {0} = {0}
    BY <1>1
  <2>2. Arrived \in {0}
    BY <1>2, <2>1, LastCut
  <2>. QED BY <2>2
<1>4. reads = "response" => Waiting
  <2>. SUFFICES ASSUME reads = "response" PROVE Waiting
    OBVIOUS
  <2>1. PICK b, t : b = Stream(sent) /\ t = Total(sent)
    OBVIOUS
  <2>2. b \in Seq(Octets) /\ Len(b) = t /\ t \in Nat /\ Header(sent) \in {2, 3}
    BY <1>1, <2>1, StreamBytes, MessageFields
  <2>3. wire = SubSeq(b, 0 + 1, t)
    <3>1. SubSeq(b, 1, Len(b)) = b
      BY <2>2, SubSeqFull
    <3>2. wire = b /\ 0 + 1 = 1
      BY <1>1, <2>1 DEF Stream
    <3>. QED BY <2>2, <3>1, <3>2
  <2>4. WaitsAt(decoder, sent, 0)
    <3>1. SubSeq(b, 1, 0) = <<>>
      BY SubSeqEmpty
    <3>2. /\ decoder \in Decoders /\ decoder.buf = <<>> /\ decoder.len = None
          /\ decoder.code = None
      BY <1>1 DEF NewDecoder, Decoders, Options, None
    <3>. QED BY <2>1, <3>1, <3>2 DEF WaitsAt
  <2>5. 0 < Header(sent) /\ t \in 0..t
    BY <2>2
  <2>. QED BY <1>3, <2>1, <2>3, <2>4, <2>5 DEF Waiting
<1>5. result.type # "item" /\ result # Err
  BY <1>1, Results
<1>6. OwnResponsesUnderstood
  BY <1>1 DEF OwnResponsesUnderstood
<1>. QED BY <1>1, <1>2, <1>4, <1>5, <1>6 DEF SubstreamInv, DecodedAsSent, WholeFramesDecode

LEMMA SubstreamSteps == SubstreamInv /\ [Next]_vars => SubstreamInv'
<1>. SUFFICES ASSUME SubstreamInv, [Next]_vars PROVE SubstreamInv'
  OBVIOUS
<1>1. CASE UNCHANGED vars
  <2>1. UNCHANGED <<reads, proto, sent, wire, eof, decoder, result, cuts>>
    BY <1>1 DEF vars
  <2>. QED BY <2>1 DEF SubstreamInv, CutsOK, Waiting, DecodedAsSent, WholeFramesDecode,
                       OwnResponsesUnderstood, Arrived, WaitsAt, Meaning, HeaderLen,
                       AllBytes, Stream, Total, Header, Bytes, Body, Size
<1>2. ASSUME Next, reads = "response" PROVE SubstreamInv'
  <2>1. ~UpgradeMetaData
    BY <1>2 DEF UpgradeMetaData, Immediate
  <2>2. CASE \E n \in 1..Len(wire) : Read(n)
    BY <1>2, <2>2, ReadStep
  <2>3. CASE \E n \in 0..Len(wire) : PeerCloses(n)
    BY <1>2, <2>3, ClosesStep
  <2>4. CASE ReadEof \/ Timeout
    BY <1>2, <2>4, EndStep
  <2>. QED BY <1>2, <2>1, <2>2, <2>3, <2>4 DEF Next
<1>3. ASSUME Next, reads # "response" PROVE SubstreamInv'
  <2>1. UNCHANGED <<reads, proto, sent>>
    BY <1>3 DEF Next, UpgradeMetaData, Read, PeerCloses, ReadEof, Timeout
  <2>2. CutsOK
    BY DEF SubstreamInv
  <2>3. CutsOK'
    <3>1. ASSUME NEW n \in 1..Len(wire), Read(n) PROVE CutsOK'
      <4>1. cuts' = cuts \cup {Arrived + n} /\ n \in Nat
        BY <3>1 DEF Read
      <4>. QED BY <2>2, <4>1, NextCut
    <3>2. CASE UNCHANGED cuts
      BY <2>2, <3>2 DEF CutsOK
    <3>. QED BY <1>3, <3>1, <3>2 DEF Next, UpgradeMetaData, PeerCloses, ReadEof, Timeout
  <2>. QED BY <1>3, <2>1, <2>3, RequestInv
<1>. QED BY <1>1, <1>2, <1>3

LEMMA SubstreamInvariant == Spec => []SubstreamInv
BY SubstreamStarts, SubstreamSteps, PTL DEF Spec

\* However the bytes of a response are cut into reads, what the outbound
\* codec decodes is the response that was sent: the code and the length that
\* one call of decode has consumed are kept for the next and used once.
THEOREM ResponsesDecodedAsSent == Spec => []DecodedAsSent
<1>1. SubstreamInv => DecodedAsSent
  BY DEF SubstreamInv
<1>. QED BY <1>1, SubstreamInvariant, PTL

\* A valid response is refused only when a read ended behind its length and
\* inside its frame, where handle_length has taken the length and read_exact
\* fails, or when the peer closed before all of it was sent.
THEOREM WholeFramesAreDecoded == Spec => []WholeFramesDecode
<1>1. SubstreamInv => WholeFramesDecode
  BY DEF SubstreamInv
<1>. QED BY <1>1, SubstreamInvariant, PTL

\* Every response that the inbound codec encodes, an empty error included, is
\* decoded by the outbound codec as that response when it arrives in one read.
THEOREM OwnResponsesAreUnderstood == Spec => []OwnResponsesUnderstood
<1>1. SubstreamInv => OwnResponsesUnderstood
  BY DEF SubstreamInv
<1>. QED BY <1>1, SubstreamInvariant, PTL
=============================================================================
