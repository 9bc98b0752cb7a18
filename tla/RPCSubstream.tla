---------------------------- MODULE RPCSubstream ----------------------------
(***************************************************************************)
(* One substream being read: the request of a remote peer, read by         *)
(* upgrade_inbound (src/rpc/protocol.rs), or the response to a request of  *)
(* this program, read by the handler after upgrade_outbound has sent it    *)
(* and closed its side.                                                    *)
(*                                                                         *)
(* The bytes arrive in any number of pieces.  The Framed of tokio_util is  *)
(* external: it appends what it has read to a buffer, calls the decoder,   *)
(* and reads again while the decoder needs more; at the end of the stream  *)
(* it reports an error if bytes are left over.                             *)
(***************************************************************************)
EXTENDS Codec

CONSTANTS
    Lengths    \* lengths a remote peer announces, the right ones among them

ASSUME LengthsAssumption == Lengths \subseteq Nat

VARIABLES
    reads,     \* what is read: "request" or "response"
    proto,     \* the protocol negotiated for the substream
    sent,      \* what the remote peer sends
    wire,      \* the part of its bytes that has not arrived
    eof,       \* the remote peer sends no more
    decoder,
    result,    \* the outcome, None while there is none
    cuts       \* history: after how many bytes a read ended

vars == <<reads, proto, sent, wire, eof, decoder, result, cuts>>

\* A message of a remote peer: this program's encoding if length, size and
\* code are right.  The announced length may exceed what the frame holds, and
\* may be no varint.
Messages ==
    [code : {0, 1, 4}, length : Lengths, varint : BOOLEAN,
     complete : BOOLEAN, valid : BOOLEAN]

\* How much the frame holds: all that was announced, or less.
Size(m) == IF m.complete \/ m.length = 0 THEN m.length ELSE m.length - 1

Body(m) == Varint(m.length, m.varint) \o Snappy(Size(m), m.valid)

Bytes(what, m) == IF what = "response" THEN Code(m.code) \o Body(m) ELSE Body(m)

Init ==
    /\ reads \in {"request", "response"}
    /\ proto \in Requests
    /\ sent \in Messages
    /\ wire = Bytes(reads, sent)
    /\ eof = FALSE
    /\ decoder = NewDecoder
    /\ result = None
    /\ cuts = {}

-----------------------------------------------------------------------------
Decode(d) == IF reads = "request" THEN DecodeRequest(proto, d) ELSE DecodeResponse(proto, d)

\* upgrade_inbound returns a MetaData request without reading.
Immediate == reads = "request" /\ proto = "MetaData"

UpgradeMetaData ==
    /\ Immediate
    /\ result = None
    /\ result' = Item("MetaData")
    /\ UNCHANGED <<reads, proto, sent, wire, eof, decoder, cuts>>

\* Bytes that have arrived.
Arrived == Max(cuts \cup {0})

\* A read returns the next n bytes, and the decoder is called.
Read(n) ==
    /\ result = None /\ ~Immediate
    /\ n \in 1..Len(wire)
    /\ LET o == Decode([decoder EXCEPT !.buf = @ \o SubSeq(wire, 1, n)]) IN
       decoder' = o.decoder /\ result' = o.result
    /\ wire' = SubSeq(wire, n + 1, Len(wire))
    /\ cuts' = cuts \cup {Arrived + n}
    /\ UNCHANGED <<reads, proto, sent, eof>>

\* The remote peer closes its side, perhaps in the middle of its message.
PeerCloses(n) ==
    /\ ~eof /\ result = None
    /\ n \in 0..Len(wire)
    /\ eof' = TRUE
    /\ wire' = SubSeq(wire, 1, n)
    /\ UNCHANGED <<reads, proto, sent, decoder, result, cuts>>

\* The end of the stream is read: upgrade_inbound and the handler take it
\* for an error.
ReadEof ==
    /\ result = None /\ ~Immediate
    /\ eof /\ wire = <<>>
    /\ result' = Err
    /\ UNCHANGED <<reads, proto, sent, wire, eof, decoder, cuts>>

\* The read timeout or the request timeout of upgrade_inbound, or the timer
\* that the handler keeps for an outbound substream.
Timeout ==
    /\ result = None /\ ~Immediate
    /\ result' = [type |-> "timeout"]
    /\ UNCHANGED <<reads, proto, sent, wire, eof, decoder, cuts>>

Next ==
    \/ UpgradeMetaData
    \/ \E n \in 1..Len(wire) : Read(n)
    \/ \E n \in 0..Len(wire) : PeerCloses(n)
    \/ ReadEof
    \/ Timeout

Spec == Init /\ [][Next]_vars

-----------------------------------------------------------------------------
(***************************************************************************)
(* Properties.                                                             *)
(***************************************************************************)

\* The response that a message stands for by itself, None if it is not one.
Meaning ==
    IF Size(sent) # sent.length \/ ~sent.varint THEN None
    ELSE IF sent.code # 0
    THEN IF sent.length <= MaxErrorLen THEN Item("Error") ELSE None
    ELSE IF /\ proto # "Goodbye"
            /\ sent.length = ssz_fixed_len(proto)
            /\ proto = "MetaData" => sent.valid
    THEN Item(ResponseTo(proto))
    ELSE None

\* Decoding inverts encoding, however the bytes are cut into reads: a
\* response that is decoded is the one that was sent, by its code, its length
\* and its protocol.  The code and the length that a call of decode has
\* consumed and kept for the next one are never taken twice or forgotten.
DecodedAsSent ==
    (reads = "response" /\ result.type = "item") => result = Meaning

HeaderLen == Len(Code(sent.code) \o Varint(sent.length, sent.varint))

AllBytes == Len(Bytes(reads, sent))

\* A valid response is refused only when a read ended behind its length and
\* inside its snappy frame, or the peer did not send all of it: reads that end
\* within code and length only make the decoder wait.
WholeFramesDecode ==
    (reads = "response" /\ Meaning # None /\ result = Err) =>
        \/ \E p \in cuts : HeaderLen <= p /\ p < AllBytes
        \/ eof /\ Arrived < AllBytes

\* What this program writes as its answer another instance of it reads as
\* that answer, when it arrives in one read: the codes, lengths and limits of
\* the two codecs fit together for every message, an empty Error included.
OwnResponsesUnderstood ==
    \A response \in Responses :
        (/\ reads = "response" /\ proto # "Goodbye"
         /\ response \in {ResponseTo(proto), "Error"}
         /\ Bytes(reads, sent) = EncodeResponse(response)
         /\ cuts = {AllBytes})
            => result = Item(response)

(***************************************************************************)
(* What the code says of itself, and does not do.                          *)
(***************************************************************************)

\* protocol.rs:93: of the requests "BlocksByRange, BlocksByRoot, Goodbye not
\* impl"; Status and Ping have limits there and answers in the event loop of
\* main.rs.  A Status or Ping request that this program encodes and that
\* arrives in one read is accepted.
StatusAndPingAccepted ==
    (/\ reads = "request" /\ proto \in {"Status", "Ping"}
     /\ Bytes(reads, sent) = EncodeRequest(proto)
     /\ cuts = {AllBytes})
        => result = Item(proto)
=============================================================================
