-------------------------- MODULE MCChunkTransfer --------------------------
(* Payloads for ChunkTransfer with ChunkSize 2: one short chunk, and two    *)
(* equal full chunks (an exact multiple).  The receivers are alike, and     *)
(* every property is a safety property, so they are interchangeable.        *)
EXTENDS ChunkTransfer, TLC

MCPayload == {<<1>>, <<1, 2, 1, 2>>}

ReceiversAlike == Permutations(Receiver)
=============================================================================
