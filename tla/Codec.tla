------------------------------- MODULE Codec -------------------------------
(***************************************************************************)
(* The SSZ-snappy codec (src/rpc/codec/): what is written for a message    *)
(* and what is made of the bytes that have arrived.                        *)
(*                                                                         *)
(* A message is a code byte (responses only), its length as a varint, and  *)
(* its snappy frame.  Bytes are records that know what they are part of: a *)
(* length below 128 is one byte, a greater one two, and so is one that is  *)
(* no varint (not minimal, or too large); a snappy frame is cut in two     *)
(* parts, head and rest, and knows the size it decompresses to and whether *)
(* that is valid SSZ.  The limit on the compressed size is left out: it is *)
(* above the size of every legal frame.                                    *)
(***************************************************************************)
EXTENDS Naturals, Sequences, FiniteSetsExt, RPCProtocol

MAX_RPC_SIZE_POST_MERGE == 10 * 1048576
MaxErrorLen == 256

None == [type |-> "none"]

\* ssz_fixed_len of the message of a protocol, either way.
ssz_fixed_len(proto) ==
    CASE proto = "Status" -> 84 [] proto = "MetaData" -> 17 [] OTHER -> 8

rpc_response_limits(proto) ==
    IF proto \in {"Status", "Ping", "MetaData"}
    THEN [min |-> ssz_fixed_len(proto), max |-> ssz_fixed_len(proto)]
    ELSE [min |-> 0, max |-> 0]

\* Mutant of is_out_of_bounds: the upper limit itself is refused.
is_out_of_bounds_Strict(limits, length) ==
    length >= Min({limits.max, MAX_RPC_SIZE_POST_MERGE}) \/ length < limits.min

is_out_of_bounds(limits, length) ==
    length > Min({limits.max, MAX_RPC_SIZE_POST_MERGE}) \/ length < limits.min

-----------------------------------------------------------------------------
(***************************************************************************)
(* Encoding.                                                               *)
(***************************************************************************)

\* A length on the wire, good if it is a varint as Uvi reads it.
Varint(n, good) ==
    LET byte(last) == [part |-> "len", value |-> n, good |-> good, last |-> last]
    IN  IF n < 128 /\ good THEN <<byte(TRUE)>> ELSE <<byte(FALSE), byte(TRUE)>>

\* The length as Uvi writes it.
Uvi(n) == Varint(n, TRUE)

\* The snappy frame of a payload; FrameEncoder writes nothing for an empty one.
Snappy(size, valid) ==
    IF size = 0 THEN <<>>
    ELSE [k \in 1..2 |-> [part |-> "body", size |-> size, valid |-> valid, last |-> k = 2]]

Code(n) == <<[part |-> "code", value |-> n]>>

\* Mutant of as_u8: an error has the code of a success.
as_u8_Zero(response) == 0

as_u8(response) == IF response = "Error" THEN 4 ELSE 0

\* The response message for a protocol, and its length.
ResponseTo(proto) == IF proto = "Ping" THEN "Pong" ELSE proto
ResponseLen(response) ==
    CASE response = "Error" -> 0
      [] response = "Pong"  -> ssz_fixed_len("Ping")
      [] OTHER              -> ssz_fixed_len(response)

\* A response: BaseInboundCodec and SSZSnappyInboundCodec encode.
EncodeResponse(response) ==
    Code(as_u8(response)) \o Uvi(ResponseLen(response))
                          \o Snappy(ResponseLen(response), TRUE)

\* A request: OutboundCodec encode, which writes nothing for MetaData.
EncodeRequest(req) ==
    IF req = "MetaData" THEN <<>>
    ELSE Uvi(ssz_fixed_len(req)) \o Snappy(ssz_fixed_len(req), TRUE)

-----------------------------------------------------------------------------
(***************************************************************************)
(* Decoding.  A decoder d has the bytes read and not consumed (buf), and   *)
(* the length and the code it has consumed ahead of the rest, if any.      *)
(* Decoding gives the new decoder and None (more bytes are needed), an     *)
(* item, Err, or Panic.                                                    *)
(***************************************************************************)
NewDecoder == [buf |-> <<>>, len |-> None, code |-> None]
Some(n) == [type |-> "some", value |-> n]
Item(what) == [type |-> "item", what |-> what]
Err == [type |-> "err"]
Panic == [type |-> "panic"]
Outcome(d, r) == [decoder |-> d, result |-> r]

\* handle_length: the length in len, or else the one that the bytes begin
\* with, None if not all of it is there, Err if it is no varint.
handle_length(d) ==
    LET ends == {k \in DOMAIN d.buf : d.buf[k].last}
        n    == Min(ends)
        len  == Some(d.buf[n].value)
    IN  IF d.len # None THEN Outcome(d, d.len)
        ELSE IF ends = {} THEN Outcome(d, None)
        ELSE IF ~d.buf[n].good THEN Outcome(d, Err)
        ELSE Outcome([d EXCEPT !.len = len, !.buf = SubSeq(@, n + 1, Len(@))], len)

\* FrameDecoder and read_exact: the whole frame is there and holds at least
\* that many bytes.  Nothing is read for an empty message.
ReadExact(buf, length) ==
    \/ length = 0
    \/ Len(buf) >= 2 /\ buf[1].part = "body" /\ buf[1].size >= length

\* The decoder after a frame has been read: len is None again.
Consume(d) ==
    [d EXCEPT !.len = None,
              !.buf = IF d.len.value = 0 THEN @ ELSE SubSeq(@, 3, Len(@))]

\* handle_response.  Of the messages only MetaData has invalid encodings of
\* the right length; unwrap panics on them.
handle_response(proto, valid) ==
    CASE proto = "Goodbye"              -> Err
      [] proto = "MetaData" /\ ~valid   -> Panic
      [] OTHER                          -> Item(ResponseTo(proto))

\* SSZSnappyOutboundCodec::decode.
DecodeSuccess(proto, d0) ==
    LET h == handle_length(d0)
        d == h.decoder
    IN
    IF h.result.type # "some" THEN h
    ELSE IF \/ is_out_of_bounds(rpc_response_limits(proto), d.len.value)
            \/ ~ReadExact(d.buf, d.len.value)
    THEN Outcome(d, Err)
    ELSE Outcome(Consume(d), handle_response(proto, d.len.value = 0 \/ d.buf[1].valid))

\* decode_error, which takes any text of up to MaxErrorLen bytes.
decode_error(d0) ==
    LET h == handle_length(d0)
        d == h.decoder
    IN
    IF h.result.type # "some" THEN h
    ELSE IF d.len.value > MAX_RPC_SIZE_POST_MERGE \/ ~ReadExact(d.buf, d.len.value)
    THEN Outcome(d, Err)
    ELSE Outcome(Consume(d), IF d.len.value > MaxErrorLen THEN Err ELSE Item("Error"))

\* Mutant of TakeCode: a code read by an earlier call is forgotten.
TakeCode_Forgets(d) == [d EXCEPT !.code = Some(Head(d.buf).value), !.buf = Tail(@)]

\* current_response_code, or else the next byte.
TakeCode(d) ==
    IF d.code # None THEN d
    ELSE [d EXCEPT !.code = Some(Head(d.buf).value), !.buf = Tail(@)]

is_response(code) == code = 0

\* BaseOutboundCodec::decode, for the response to a request of proto.
DecodeResponse(proto, d0) ==
    IF Len(d0.buf) <= 1 THEN Outcome(d0, None)
    ELSE LET d     == TakeCode(d0)
             inner == IF is_response(d.code.value) THEN DecodeSuccess(proto, d)
                                                   ELSE decode_error(d)
         IN  IF inner.result.type = "item"
             THEN [inner EXCEPT !.decoder.code = None]
             ELSE inner

\* SSZSnappyInboundCodec::decode.  After all its tests it returns an error
\* for every request but MetaData, for which it needs no bytes.
DecodeRequest(proto, d0) ==
    LET h == handle_length(d0)
        d == h.decoder
    IN
    IF proto = "MetaData" THEN Outcome(d0, Item("MetaData"))
    ELSE IF h.result.type # "some" THEN h
    ELSE IF \/ is_out_of_bounds(rpc_response_limits(proto), d.len.value)
            \/ ~ReadExact(d.buf, d.len.value)
    THEN Outcome(d, Err)
    ELSE Outcome(Consume(d), Err)
=============================================================================
