--------------------------- MODULE BasecampMessages ---------------------------
(***************************************************************************)
(* The message classes protoc has generated into basecamp.pb.* and         *)
(* topology.pb.*: for every field its kind (what its accessors do), its    *)
(* number on the wire (the parse table and the serializer) and its has-bit *)
(* (the masks of the sizer, of the merge and of the swap).                 *)
(***************************************************************************)
EXTENDS Integers

Class(kind, num, bit) == [kind |-> kind, num |-> num, bit |-> bit]

RequestKinds ==
    [request_id |-> "string", payload |-> "string", target |-> "scalar",
     path |-> "repeated"]
RequestNumbers == [request_id |-> 1, payload |-> 2, target |-> 3, path |-> 4]
RequestBits == [request_id |-> 1, payload |-> 2, target |-> 3, path |-> 0]
Request == Class(RequestKinds, RequestNumbers, RequestBits)

ResultKinds ==
    [request_id |-> "string", compute_ms |-> "scalar", data |-> "string"]
ResultNumbers == [request_id |-> 1, compute_ms |-> 2, data |-> 3]
ResultBits == [request_id |-> 0, compute_ms |-> 2, data |-> 1]
Result == Class(ResultKinds, ResultNumbers, ResultBits)

InitRequestKinds ==
    [request_id |-> "string", target |-> "scalar", key_min |-> "scalar",
     key_max |-> "scalar", cancellation_token |-> "string"]
InitRequestNumbers ==
    [request_id |-> 1, target |-> 2, key_min |-> 3, key_max |-> 4,
     cancellation_token |-> 5]
InitRequestBits ==
    [request_id |-> 0, target |-> 2, key_min |-> 3, key_max |-> 4,
     cancellation_token |-> 1]
InitRequest == Class(InitRequestKinds, InitRequestNumbers, InitRequestBits)

ChunkRequestKinds ==
    [request_id |-> "string", chunk_index |-> "scalar",
     cancellation_token |-> "string"]
ChunkRequestNumbers ==
    [request_id |-> 1, chunk_index |-> 2, cancellation_token |-> 3]
ChunkRequestBits ==
    [request_id |-> 0, chunk_index |-> 2, cancellation_token |-> 1]
ChunkRequest == Class(ChunkRequestKinds, ChunkRequestNumbers, ChunkRequestBits)

ChunkKinds ==
    [request_id |-> "string", chunk_index |-> "scalar",
     is_final |-> "scalar", total_chunks |-> "scalar", data |-> "string",
     compute_ms |-> "scalar"]
ChunkNumbers ==
    [request_id |-> 1, chunk_index |-> 2, is_final |-> 3, total_chunks |-> 4,
     data |-> 5, compute_ms |-> 6]

\* Fault: two fields share a has-bit.
ChunkBitsShared ==
    [request_id |-> 0, chunk_index |-> 2, is_final |-> 3, total_chunks |-> 4,
     data |-> 1, compute_ms |-> 4]

ChunkBits ==
    [request_id |-> 0, chunk_index |-> 2, is_final |-> 3, total_chunks |-> 5,
     data |-> 1, compute_ms |-> 4]
Chunk == Class(ChunkKinds, ChunkNumbers, ChunkBits)

KVPairKinds == [key |-> "scalar", value |-> "scalar"]
KVPairNumbers == [key |-> 1, value |-> 2]
KVPairBits == [key |-> 1, value |-> 0]
KVPair == Class(KVPairKinds, KVPairNumbers, KVPairBits)

KVResultKinds == [pairs |-> "repeated", partial_sum |-> "scalar"]
KVResultNumbers == [pairs |-> 1, partial_sum |-> 2]
KVResultBits == [pairs |-> 0, partial_sum |-> 1]
KVResult == Class(KVResultKinds, KVResultNumbers, KVResultBits)

CancelRequestKinds ==
    [request_id |-> "string", cancellation_token |-> "string",
     path |-> "repeated"]
CancelRequestNumbers ==
    [request_id |-> 1, cancellation_token |-> 2, path |-> 3]
CancelRequestBits == [request_id |-> 1, cancellation_token |-> 2, path |-> 0]
CancelRequest == Class(CancelRequestKinds, CancelRequestNumbers, CancelRequestBits)

CancelReplyKinds == [cancelled |-> "scalar", message |-> "string"]
CancelReplyNumbers == [cancelled |-> 1, message |-> 2]
CancelReplyBits == [cancelled |-> 1, message |-> 0]
CancelReply == Class(CancelReplyKinds, CancelReplyNumbers, CancelReplyBits)

HealthReplyKinds == [node |-> "string"]
HealthReplyNumbers == [node |-> 1]
HealthReplyBits == [node |-> 0]
HealthReply == Class(HealthReplyKinds, HealthReplyNumbers, HealthReplyBits)

NodeKinds ==
    [name |-> "string", host |-> "string", port |-> "scalar",
     is_leader |-> "scalar", is_team_leader |-> "scalar", team |-> "string",
     neighbors |-> "repeated", max_inflight |-> "scalar",
     max_retries |-> "scalar", initial_backoff_ms |-> "scalar"]
NodeNumbers ==
    [name |-> 1, host |-> 2, port |-> 3, is_leader |-> 4,
     is_team_leader |-> 5, team |-> 6, neighbors |-> 7, max_inflight |-> 8,
     max_retries |-> 9, initial_backoff_ms |-> 10]
NodeBits ==
    [name |-> 1, host |-> 2, port |-> 4, is_leader |-> 5,
     is_team_leader |-> 6, team |-> 3, neighbors |-> 0, max_inflight |-> 7,
     max_retries |-> 8, initial_backoff_ms |-> 9]
Node == Class(NodeKinds, NodeNumbers, NodeBits)

TopologyKinds == [nodes |-> "repeated"]
TopologyNumbers == [nodes |-> 1]
TopologyBits == [nodes |-> 0]
Topology == Class(TopologyKinds, TopologyNumbers, TopologyBits)

\* HealthRequest has no fields.
AllClasses ==
    {Request, Result, InitRequest, ChunkRequest, Chunk, KVPair, KVResult,
     CancelRequest, CancelReply, HealthReply, Node, Topology}
=============================================================================
