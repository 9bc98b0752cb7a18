---------------------------- MODULE RPCProtocol ----------------------------
(***************************************************************************)
(* The request/response vocabulary of the Ethereum consensus-layer RPC     *)
(* protocol as this program implements it (src/rpc/protocol.rs,            *)
(* src/rpc/methods.rs) and the answer the main loop gives to each request  *)
(* (src/main.rs).  Payloads are abstracted away: a message is its kind.    *)
(***************************************************************************)
EXTENDS Naturals

\* InboundRequest and OutboundRequest have the same four variants.
Requests == {"Status", "Goodbye", "Ping", "MetaData"}

\* RPCCodedResponse: Success(RPCResponse) for the first three, or Error.
Responses == {"Status", "Pong", "MetaData", "Error"}

\* How many response chunks a request is answered with.  No request of this
\* program expects more than one, so a substream carries one answer at most.
expected_responses(req) == IF req = "Goodbye" THEN 0 ELSE 1

\* RPCCodedResponse::close_after: everything but a success ends the stream.
close_after(response) == response = "Error"

\* What the event loop of main.rs answers a request with.
AppResponse(req) ==
    CASE req = "Status"   -> "Status"
      [] req = "Ping"     -> "Pong"
      [] req = "MetaData" -> "MetaData"
      [] OTHER            -> "Error"
=============================================================================
