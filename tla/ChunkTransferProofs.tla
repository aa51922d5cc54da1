------------------------ MODULE ChunkTransferProofs ------------------------
(***************************************************************************)
(* Theorems about ChunkTransfer, for any receivers, payloads, chunk size,  *)
(* number of retries and faults.                                           *)
(***************************************************************************)
EXTENDS ChunkTransfer, SequenceTheorems, TLAPS

USE TransferAssumption

-----------------------------------------------------------------------------
(* The inductive invariant.                                                *)

IsSeq(s) == s \in Seq({s[i] : i \in 1 .. Len(s)})

Transfer == 1 .. Len(payload)

(* The offset of chunk k, and the first k chunks of d *)
Offset(k) == k * ChunkSize
Prefix(d, k) == SubSeq(d, 1, IF Offset(k) < Len(d) THEN Offset(k) ELSE Len(d))

Byte == UNION {{p[i] : i \in DOMAIN p} : p \in Payload}

(* What receive_once keeps, when n transfers were started *)
Rx(n) == [tid : 0 .. n, size : Nat, checksum : {<< >>} \cup [sha256 : Payload],
          buf : Seq(Byte), seen : SUBSET Nat]

Rpc == {"request", "receive", "received", "failed", "raised"}

Typed ==
    /\ IsSeq(events) /\ payload \in Seq(Payload)
    /\ complete \subseteq Transfer /\ lossy \subseteq Transfer
    /\ sender \in [tid : 0 .. Len(payload), offset : Nat, seq : Nat]
    /\ rpc \in [Receiver -> Rpc]
    /\ lastId \in [Receiver -> Nat]
    /\ rx \in [Receiver -> Rx(Len(payload))]
    /\ data \in [Receiver -> SUBSET Seq(Byte)]
    /\ discarded \in [Receiver -> SUBSET (0 .. Len(payload))]

IsStart(i, t) == events[i].type = "DATA_START" /\ events[i].tid = t
IsChunk(i, t) == events[i].type = "DATA_CHUNK" /\ events[i].tid = t
IsEnd(i, t)   == events[i].type = "DATA_END" /\ events[i].tid = t

(* What is on the stream is of a transfer, and of its payload; a DATA_END  *)
(* is there only if the transfer was sent to the end.                      *)
OfPayload(m) ==
    /\ m.type \in {"DATA_REQUEST", "DATA_START", "DATA_CHUNK", "DATA_END"}
    /\ m.type # "DATA_REQUEST" => m.tid \in Transfer
    /\ m.type = "DATA_START" =>
          /\ m.total_size = Len(payload[m.tid])
          /\ m.checksum = sha256_bytes(payload[m.tid])
    /\ m.type = "DATA_CHUNK" =>
          /\ m.sequence_no \in Nat
          /\ Offset(m.sequence_no) < Len(payload[m.tid])
          /\ m.chunk = Slice(payload[m.tid], Offset(m.sequence_no))
    /\ m.type = "DATA_END" => m.tid \in complete

EventsOfTransfers == \A i \in 1 .. Len(events) : OfPayload(events[i])

(* A receiver compares with the payload of the transfer it is in. *)
OfTransfer(w) ==
    /\ lastId[w] <= Len(events)
    /\ rpc[w] = "received" => rx[w].tid # 0
    /\ rpc[w] = "request" => rx[w].tid = 0
    /\ rx[w].tid # 0 =>
          /\ rx[w].size = Len(payload[rx[w].tid])
          /\ rx[w].checksum = sha256_bytes(payload[rx[w].tid])

(* A transfer is started once ... *)
OneStart(t) == \A i, j \in 1 .. Len(events) : IsStart(i, t) /\ IsStart(j, t) => i = j
StartedOnce == \A t \in Transfer : OneStart(t)

(* ... and a receiver that is in it, or was, is past its DATA_START.       *)
PastStart(w) ==
    /\ rx[w].tid # 0 => rx[w].tid \notin discarded[w]
    /\ \A t \in (discarded[w] \cup {rx[w].tid}) \ {0} :
          \A i \in lastId[w] + 1 .. Len(events) : ~IsStart(i, t)

(* Chunks 0 .. n - 1 of t are among the first e messages. *)
AllBelow(t, n, e) ==
    \A k \in 0 .. (n - 1) : \E i \in 1 .. e : IsChunk(i, t) /\ events[i].sequence_no = k

(* The messages of a transfer that no restart of Redis has cut: DATA_START *)
(* first, then every chunk in the order of its number, then DATA_END.      *)
FromStart(t) ==
    \A i \in 1 .. Len(events) : IsChunk(i, t) \/ IsEnd(i, t) => \E j \in 1 .. (i - 1) : IsStart(j, t)

NoGap(t) ==
    \A i \in 1 .. Len(events) : IsChunk(i, t) => AllBelow(t, events[i].sequence_no, i - 1)

WholeAt(t, n, e) ==
    /\ n \in Nat /\ Offset(n) >= Len(payload[t])
    /\ AllBelow(t, n, e)
    /\ \A j \in 1 .. Len(events) : IsChunk(j, t) => events[j].sequence_no < n

ToTheEnd(t) ==
    \A i \in 1 .. Len(events) : IsEnd(i, t) => WholeAt(t, events[i].total_chunks, i - 1)

Ordered(t) == FromStart(t) /\ NoGap(t) /\ ToTheEnd(t)

StreamInOrder == \A t \in Transfer \ lossy : Ordered(t)

(* The sender is where its transfer ends on the stream. *)
SenderInOrder ==
    /\ sender.offset = Offset(sender.seq)
    /\ sender.tid \in Transfer \ lossy =>
          /\ \E i \in 1 .. Len(events) : IsStart(i, sender.tid)
          /\ \A i \in 1 .. Len(events) : IsChunk(i, sender.tid) => events[i].sequence_no < sender.seq
          /\ AllBelow(sender.tid, sender.seq, Len(events))
          /\ sender.tid \notin complete

(* A receiver in such a transfer, whose DATA_START is on the stream, has   *)
(* the chunks up to where it is, and their bytes.                          *)
Started(w) == \E i \in 1 .. lastId[w] : IsStart(i, rx[w].tid)

InOrder(w) ==
    rpc[w] = "receive" /\ rx[w].tid \in Transfer \ lossy /\ Started(w) =>
        /\ \A k \in Nat : k \in rx[w].seen <=>
              \E i \in 1 .. lastId[w] : IsChunk(i, rx[w].tid) /\ events[i].sequence_no = k
        /\ \E n \in Nat : rx[w].seen = 0 .. (n - 1) /\ rx[w].buf = Prefix(payload[rx[w].tid], n)

ReceiverInv == \A w \in Receiver : OfTransfer(w) /\ PastStart(w) /\ InOrder(w)

IInv == Typed /\ EventsOfTransfers /\ StartedOnce /\ SenderInOrder /\ StreamInOrder /\ ReceiverInv

-----------------------------------------------------------------------------
(* Chunks and payloads.                                                    *)

(* Offsets are multiples of the chunk size. *)
LEMMA OffsetFacts ==
    /\ Offset(0) = 0
    /\ \A k \in Nat : Offset(k) \in Nat /\ Offset(k + 1) = Offset(k) + ChunkSize
BY DEF Offset

(* A payload is a sequence of bytes. *)
LEMMA PayloadSeq == \A p \in Payload : p \in Seq(Byte) /\ Len(p) \in Nat
<1> SUFFICES ASSUME NEW p \in Payload PROVE p \in Seq(Byte) /\ Len(p) \in Nat
    OBVIOUS
<1>1. {p[i] : i \in DOMAIN p} \subseteq Byte
    BY DEF Byte
<1>2. p \in Seq({p[i] : i \in DOMAIN p})
    OBVIOUS
<1>3. p \in Seq(Byte)
    BY <1>1, <1>2, SeqMonotonic
<1> QED
    BY <1>3, LenProperties

(* The chunk at offset k, put behind the first k chunks, makes the first   *)
(* k + 1: nothing is missing and nothing twice, the short last chunk       *)
(* included.                                                               *)
LEMMA ChunkExtendsPrefix ==
    ASSUME NEW d \in Seq(Byte), NEW k \in Nat, Offset(k) < Len(d)
    PROVE  /\ Slice(d, Offset(k)) \in Seq(Byte)
           /\ Prefix(d, k) \o Slice(d, Offset(k)) = Prefix(d, k + 1)
<1> DEFINE o == Offset(k)
           n == IF o + ChunkSize < Len(d) THEN o + ChunkSize ELSE Len(d)
<1>1. o \in Nat /\ Len(d) \in Nat /\ Offset(k + 1) = o + ChunkSize
    BY OffsetFacts, LenProperties
<1>2. o \in 0 .. Len(d) /\ n \in o .. Len(d) /\ n \in Int
    BY <1>1
<1>3. Prefix(d, k) = SubSeq(d, 1, o)
    BY <1>1 DEF Prefix
<1>4. Slice(d, o) = SubSeq(d, o + 1, n)
    BY DEF Slice
<1>5. Prefix(d, k + 1) = SubSeq(d, 1, n)
    BY <1>1 DEF Prefix
<1> HIDE DEF o, n
<1>6. SubSeq(d, 1, o) \o SubSeq(d, o + 1, n) = SubSeq(d, 1, n)
    BY <1>1, <1>2, ConcatAdjacentSubSeq
<1>7. \A i \in o + 1 .. n : d[i] \in Byte
    BY <1>1, <1>2, ElementOfSeq
<1>8. SubSeq(d, o + 1, n) \in Seq(Byte)
    BY <1>1, <1>2, <1>7, SubSeqProperties
<1> QED
    BY <1>3, <1>4, <1>5, <1>6, <1>8 DEF o

(* No chunk is nothing, and the chunks up to the end are everything. *)
LEMMA PrefixEnds ==
    ASSUME NEW d \in Seq(Byte)
    PROVE  /\ Prefix(d, 0) = << >>
           /\ \A k \in Nat : Offset(k) >= Len(d) => Prefix(d, k) = d
<1>1. Len(d) \in Nat
    BY LenProperties
<1>2. Prefix(d, 0) = SubSeq(d, 1, 0)
  <2>1. (IF Offset(0) < Len(d) THEN Offset(0) ELSE Len(d)) = 0
      BY <1>1, OffsetFacts
  <2> QED
      BY <2>1 DEF Prefix
<1>3. SubSeq(d, 1, 0) = << >>
    BY SubSeqEmpty
<1>4. ASSUME NEW k \in Nat, Offset(k) >= Len(d) PROVE Prefix(d, k) = d
  <2>1. (IF Offset(k) < Len(d) THEN Offset(k) ELSE Len(d)) = Len(d)
      BY <1>1, <1>4, OffsetFacts
  <2>2. Prefix(d, k) = SubSeq(d, 1, Len(d))
      BY <2>1 DEF Prefix
  <2> QED
      BY <2>2, SubSeqFull
<1> QED
    BY <1>2, <1>3, <1>4

-----------------------------------------------------------------------------
(* What a step does to the stream.                                         *)

(* One or two copies of m come at its end. *)
Added(m) ==
    /\ IsSeq(events') /\ Len(events) \in Nat /\ Len(events') \in Nat /\ Len(events') > Len(events)
    /\ \A i \in 1 .. Len(events) : events'[i] = events[i]
    /\ \A i \in Len(events) + 1 .. Len(events') : events'[i] = m

(* XADD *)
LEMMA AppendAdds ==
    ASSUME NEW m, IsSeq(events), events' = Append(events, m)
    PROVE  Added(m) /\ Len(events') = Len(events) + 1
<1> DEFINE S == {events[i] : i \in 1 .. Len(events)} \cup {m}
<1>1. events \in Seq(S)
    BY SeqMonotonic DEF IsSeq
<1>2. /\ events' \in Seq(S) /\ Len(events') = Len(events) + 1 /\ Len(events) \in Nat
      /\ \A i \in 1 .. Len(events) : events'[i] = events[i]
      /\ events'[Len(events) + 1] = m
    BY <1>1, AppendProperties, LenProperties
<1>3. S \subseteq {events'[i] : i \in 1 .. Len(events')}
  <2> SUFFICES ASSUME NEW x \in S PROVE \E i \in 1 .. Len(events') : x = events'[i]
      OBVIOUS
  <2>1. CASE x = m
      BY <1>2, <2>1
  <2>2. CASE x \in {events[i] : i \in 1 .. Len(events)}
    <3> HIDE DEF S
    <3>1. PICK i \in 1 .. Len(events) : x = events[i]
        BY <2>2
    <3> QED
        BY <1>2, <3>1
  <2> QED
      BY <2>1, <2>2
<1> HIDE DEF S
<1>4. IsSeq(events')
    BY <1>2, <1>3, SeqMonotonic, SMTT(60) DEF IsSeq
<1> QED
    BY <1>2, <1>4 DEF Added

(* XADD, sent again *)
LEMMA TwiceAdds ==
    ASSUME NEW m, IsSeq(events), events' = events \o <<m, m>>
    PROVE  Added(m)
<1> DEFINE S == {events[i] : i \in 1 .. Len(events)} \cup {m}
<1>1. events \in Seq(S) /\ <<m, m>> \in Seq(S) /\ Len(<<m, m>>) = 2
    BY SeqMonotonic DEF IsSeq
<1>2. /\ events' \in Seq(S) /\ Len(events') = Len(events) + 2 /\ Len(events) \in Nat
      /\ \A i \in 1 .. Len(events) : events'[i] = events[i]
      /\ events'[Len(events) + 1] = m /\ events'[Len(events) + 2] = m
  <2> HIDE DEF S
  <2>1. /\ events' \in Seq(S) /\ Len(events') = Len(events) + 2 /\ Len(events) \in Nat
        /\ \A i \in 1 .. Len(events) + 2 : events'[i] = IF i <= Len(events) THEN events[i]
                                                        ELSE <<m, m>>[i - Len(events)]
      BY <1>1, ConcatProperties, LenProperties
  <2> QED
      BY <2>1
<1>3. S \subseteq {events'[i] : i \in 1 .. Len(events')}
  <2> SUFFICES ASSUME NEW x \in S PROVE \E i \in 1 .. Len(events') : x = events'[i]
      OBVIOUS
  <2>1. CASE x = m
      BY <1>2, <2>1
  <2>2. CASE x \in {events[i] : i \in 1 .. Len(events)}
    <3> HIDE DEF S
    <3>1. PICK i \in 1 .. Len(events) : x = events[i]
        BY <2>2
    <3> QED
        BY <1>2, <3>1
  <2> QED
      BY <2>1, <2>2
<1> HIDE DEF S
<1>4. IsSeq(events')
  <2> DEFINE T == {events'[i] : i \in 1 .. Len(events')}
  <2>1. S \subseteq T /\ events' \in Seq(S)
      BY <1>2, <1>3
  <2> HIDE DEF T
  <2>2. events' \in Seq(T)
      BY <2>1, SeqMonotonic
  <2> QED
      BY <2>2 DEF IsSeq, T
<1>5. \A i \in Len(events) + 1 .. Len(events') : i = Len(events) + 1 \/ i = Len(events) + 2
    BY <1>2
<1> QED
    BY <1>2, <1>4, <1>5 DEF Added

-----------------------------------------------------------------------------
(* What each action does, in the terms of the invariant.                   *)

Header(p) == [type |-> "DATA_START", tid |-> Len(payload) + 1, total_size |-> Len(p),
              checksum |-> sha256_bytes(p)]
Chunk     == [type |-> "DATA_CHUNK", tid |-> sender.tid, sequence_no |-> sender.seq,
              chunk |-> Slice(payload[sender.tid], sender.offset)]
Trailer   == [type |-> "DATA_END", tid |-> sender.tid, total_chunks |-> sender.seq]

(* The length of payload, and what is in it. *)
LEMMA PayloadFacts ==
    ASSUME Typed
    PROVE  /\ Len(payload) \in Nat
           /\ \A t \in Transfer : t \in Nat /\ t # 0 /\ payload[t] \in Payload
                                  /\ payload[t] \in Seq(Byte) /\ Len(payload[t]) \in Nat
<1>1. payload \in Seq(Payload)
    BY DEF Typed
<1>2. Len(payload) \in Nat
    BY <1>1, LenProperties
<1>3. \A t \in Transfer : payload[t] \in Payload
    BY <1>1, ElementOfSeq DEF Transfer
<1> QED
    BY <1>2, <1>3, PayloadSeq DEF Transfer

(* DATA_START of a new transfer *)
LEMMA StartDoes ==
    ASSUME Typed, NEW p \in Payload, SendStart(p)
    PROVE  /\ Added(Header(p)) /\ Len(events') = Len(events) + 1 /\ sender.tid = 0
           /\ sender' = [tid |-> Len(payload) + 1, offset |-> 0, seq |-> 0]
           /\ payload' \in Seq(Payload) /\ Len(payload') = Len(payload) + 1
           /\ payload'[Len(payload) + 1] = p /\ \A t \in Transfer : payload'[t] = payload[t]
           /\ UNCHANGED <<recvVars, complete, lossy>>
<1>1. payload' = Append(payload, p) /\ payload \in Seq(Payload) /\ IsSeq(events)
    BY DEF SendStart, Typed
<1>2. /\ payload' \in Seq(Payload) /\ Len(payload') = Len(payload) + 1
      /\ payload'[Len(payload) + 1] = p /\ \A t \in Transfer : payload'[t] = payload[t]
    BY <1>1, AppendProperties DEF Transfer
<1>3. Added(Header(p)) /\ Len(events') = Len(events) + 1
    BY <1>1, AppendAdds DEF SendStart, Header
<1> QED
    BY <1>2, <1>3 DEF SendStart, Serving

(* One DATA_CHUNK, perhaps twice *)
LEMMA ChunkDoes ==
    ASSUME Typed, SendChunk
    PROVE  /\ Added(Chunk) /\ sender.tid \in Transfer /\ sender.offset < Len(payload[sender.tid])
           /\ sender' = [tid |-> sender.tid, offset |-> sender.offset + ChunkSize, seq |-> sender.seq + 1]
           /\ UNCHANGED <<recvVars, payload, complete, lossy>>
<1>1. IsSeq(events)
    BY DEF Typed
<1>2. Added(Chunk)
  <2>1. CASE events' = Append(events, Chunk)
      BY <1>1, <2>1, AppendAdds
  <2>2. CASE events' = events \o <<Chunk, Chunk>>
      BY <1>1, <2>2, TwiceAdds
  <2> QED
      BY <2>1, <2>2 DEF SendChunk, Chunk
<1>3. sender.tid \in Transfer
    BY PayloadFacts DEF SendChunk, Serving, Typed, Transfer
<1>4. sender' = [tid |-> sender.tid, offset |-> sender.offset + ChunkSize, seq |-> sender.seq + 1]
    BY DEF SendChunk, Typed
<1> QED
    BY <1>2, <1>3, <1>4 DEF SendChunk

(* DATA_END *)
LEMMA EndDoes ==
    ASSUME Typed, SendEnd
    PROVE  /\ Added(Trailer) /\ sender.tid \in Transfer /\ sender.offset >= Len(payload[sender.tid])
           /\ complete' = complete \cup {sender.tid} /\ sender' = Idle
           /\ UNCHANGED <<recvVars, payload, lossy>>
<1>1. Added(Trailer)
    BY AppendAdds DEF SendEnd, Trailer, Typed
<1>2. sender.tid \in Transfer
    BY PayloadFacts DEF SendEnd, Serving, Typed, Transfer
<1> QED
    BY <1>1, <1>2 DEF SendEnd

(* DATA_REQUEST *)
LEMMA RequestDoes ==
    ASSUME Typed, NEW w \in Receiver, SendDataRequest(w)
    PROVE  /\ Added([type |-> "DATA_REQUEST"]) /\ rpc[w] = "request"
           /\ rpc' = [rpc EXCEPT ![w] = "receive"]
           /\ UNCHANGED <<lastId, rx, data, discarded, payload, sender, complete, lossy>>
<1>1. Added([type |-> "DATA_REQUEST"])
    BY AppendAdds DEF SendDataRequest, Typed
<1> QED
    BY <1>1 DEF SendDataRequest, sendVars

(* The receiver takes the next message, or its deadline passes. *)
Others(w) ==
    /\ UNCHANGED <<events, payload, sender, complete, lossy>>
    /\ \A v \in Receiver \ {w} : /\ rpc'[v] = rpc[v] /\ lastId'[v] = lastId[v] /\ rx'[v] = rx[v]
                                 /\ data'[v] = data[v] /\ discarded'[v] = discarded[v]

(* The receivers' variables stay functions. *)
Functions ==
    /\ rpc' = [v \in Receiver |-> rpc'[v]] /\ lastId' = [v \in Receiver |-> lastId'[v]]
    /\ rx' = [v \in Receiver |-> rx'[v]] /\ data' = [v \in Receiver |-> data'[v]]
    /\ discarded' = [v \in Receiver |-> discarded'[v]]

Begins(w, m) ==
    /\ m.type = "DATA_START"
    /\ rx'[w] = [tid |-> m.tid, size |-> m.total_size, checksum |-> m.checksum, buf |-> << >>, seen |-> {}]
    /\ discarded'[w] = discarded[w] \cup {rx[w].tid}
    /\ rpc'[w] = "receive" /\ data'[w] = data[w] /\ lastId'[w] = lastId[w] + 1

Keeps(w, m) ==
    /\ m.type = "DATA_CHUNK" /\ m.tid = rx[w].tid /\ m.sequence_no \notin rx[w].seen
    /\ rx'[w] = [tid |-> rx[w].tid, size |-> rx[w].size, checksum |-> rx[w].checksum,
                 buf |-> rx[w].buf \o m.chunk, seen |-> rx[w].seen \cup {m.sequence_no}]
    /\ discarded'[w] = discarded[w]
    /\ rpc'[w] = "receive" /\ data'[w] = data[w] /\ lastId'[w] = lastId[w] + 1

Skips(w, m) ==
    /\ \/ m.type = "DATA_CHUNK" /\ m.tid = rx[w].tid /\ m.sequence_no \in rx[w].seen
       \/ m.type \in {"DATA_CHUNK", "DATA_END"} /\ m.tid # rx[w].tid
       \/ m.type = "DATA_REQUEST"
    /\ rx'[w] = rx[w] /\ discarded'[w] = discarded[w]
    /\ rpc'[w] = "receive" /\ data'[w] = data[w] /\ lastId'[w] = lastId[w] + 1

Accepts(w, m) ==
    /\ m.type = "DATA_END" /\ m.tid = rx[w].tid /\ Valid(w)
    /\ rx'[w] = rx[w] /\ discarded'[w] = discarded[w]
    /\ rpc'[w] = "received" /\ data' = [data EXCEPT ![w] = {rx[w].buf}] /\ lastId'[w] = lastId[w] + 1

GivesUp(w) ==
    /\ rx'[w] = NotStarted /\ discarded'[w] = discarded[w] \cup {rx[w].tid}
    /\ rpc'[w] \in {"request", "failed"} /\ data' = data /\ lastId'[w] \in {lastId[w], lastId[w] + 1}

(* Every step of a receiver that waits is one of these. *)
LEMMA ReceiveDoes ==
    ASSUME Typed, EventsOfTransfers, NEW w \in Receiver, lastId[w] <= Len(events),
           Receive(w) \/ ReceiveTimeout(w)
    PROVE  /\ Others(w) /\ rpc[w] = "receive"
           /\ LET m == events[lastId[w] + 1]
              IN  \/ /\ lastId[w] + 1 \in 1 .. Len(events)
                     /\ Begins(w, m) \/ Keeps(w, m) \/ Skips(w, m) \/ Accepts(w, m)
                  \/ GivesUp(w) /\ lastId'[w] <= Len(events)
<1> DEFINE m == events[lastId[w] + 1]
<1> USE DEF Typed
<1>1. DOMAIN rx = Receiver /\ DOMAIN rpc = Receiver /\ DOMAIN lastId = Receiver
      /\ DOMAIN data = Receiver /\ DOMAIN discarded = Receiver /\ lastId[w] \in Nat
    OBVIOUS
<1>2. rx[w] = [tid |-> rx[w].tid, size |-> rx[w].size, checksum |-> rx[w].checksum,
               buf |-> rx[w].buf, seen |-> rx[w].seen]
    BY DEF Rx
<1>3. Len(events) \in Nat
    BY LenProperties DEF IsSeq
<1> HIDE DEF Typed
<1>4. ASSUME Retry(w)
      PROVE  /\ rx'[w] = NotStarted /\ discarded'[w] = discarded[w] \cup {rx[w].tid}
             /\ rpc'[w] \in {"request", "failed"} /\ data' = data
             /\ \A v \in Receiver \ {w} : rpc'[v] = rpc[v] /\ rx'[v] = rx[v] /\ discarded'[v] = discarded[v]
    BY <1>1, <1>4 DEF Retry
<1>5. CASE ReceiveTimeout(w)
    BY <1>1, <1>3, <1>4, <1>5 DEF ReceiveTimeout, Others, GivesUp, sendVars
<1>6. CASE Receive(w)
  <2>1. /\ rpc[w] = "receive" /\ lastId[w] + 1 \in 1 .. Len(events)
        /\ lastId'[w] = lastId[w] + 1 /\ \A v \in Receiver \ {w} : lastId'[v] = lastId[v]
        /\ UNCHANGED <<events, payload, sender, complete, lossy>>
      BY <1>1, <1>3, <1>6 DEF Receive, sendVars
  <2>2. CASE OnStart(w, m)
      BY <1>1, <2>1, <2>2 DEF OnStart, Others, Begins
  <2>3. CASE OnChunk(w, m)
    <3>1. CASE m.sequence_no \in rx[w].seen
        BY <1>1, <2>1, <2>3, <3>1 DEF OnChunk, Others, Skips
    <3>2. CASE m.sequence_no \notin rx[w].seen
      <4>1. rx' = [rx EXCEPT ![w].seen = @ \cup {m.sequence_no}, ![w].buf = @ \o m.chunk]
          BY <2>3, <3>2 DEF OnChunk
      <4>2. rx'[w] = [rx[w] EXCEPT !.seen = @ \cup {m.sequence_no}, !.buf = @ \o m.chunk]
          BY <1>1, <4>1
      <4>3. rx'[w] = [tid |-> rx[w].tid, size |-> rx[w].size, checksum |-> rx[w].checksum,
                      buf |-> rx[w].buf \o m.chunk, seen |-> rx[w].seen \cup {m.sequence_no}]
          BY <1>2, <4>2
      <4>4. \A v \in Receiver \ {w} : rx'[v] = rx[v]
          BY <1>1, <4>1
      <4> QED
          BY <1>1, <2>1, <2>3, <3>2, <4>3, <4>4 DEF OnChunk, Others, Keeps
    <3> QED
        BY <3>1, <3>2
  <2>4. CASE OnEnd(w, m)
    <3>1. CASE Valid(w) /\ data' = [data EXCEPT ![w] = {rx[w].buf}]
               /\ rpc' = [rpc EXCEPT ![w] = "received"] /\ UNCHANGED <<attempt, rx, discarded>>
        BY <1>1, <2>1, <2>4, <3>1 DEF OnEnd, Others, Accepts
    <3>2. CASE Retry(w)
        BY <1>1, <1>3, <1>4, <2>1, <2>4, <3>2 DEF Others, GivesUp
    <3> QED
        BY <2>4, <3>1, <3>2 DEF OnEnd
  <2>5. CASE Ignored(w, m)
    <3>1. m.type \in {"DATA_REQUEST", "DATA_START", "DATA_CHUNK", "DATA_END"}
        BY <2>1 DEF EventsOfTransfers, OfPayload
    <3>2. \/ m.type \in {"DATA_CHUNK", "DATA_END"} /\ m.tid # rx[w].tid
          \/ m.type = "DATA_REQUEST"
        BY <2>5, <3>1 DEF Ignored
    <3> QED
        BY <1>1, <2>1, <2>5, <3>2 DEF Ignored, Others, Skips
  <2> QED
      BY <1>6, <2>2, <2>3, <2>4, <2>5 DEF Receive
<1> QED
    BY <1>5, <1>6

(* The receivers' variables stay functions. *)
LEMMA ReceiveFunctions ==
    ASSUME Typed, NEW w \in Receiver, Receive(w) \/ ReceiveTimeout(w)
    PROVE  Functions
<1>1. /\ rpc = [v \in Receiver |-> rpc[v]] /\ lastId = [v \in Receiver |-> lastId[v]]
      /\ rx = [v \in Receiver |-> rx[v]] /\ data = [v \in Receiver |-> data[v]]
      /\ discarded = [v \in Receiver |-> discarded[v]]
    BY DEF Typed
<1>2. lastId' = [v \in Receiver |-> lastId'[v]]
    BY <1>1 DEF Receive, ReceiveTimeout
<1>3. ASSUME Retry(w)
      PROVE  /\ rpc' = [v \in Receiver |-> rpc'[v]] /\ rx' = [v \in Receiver |-> rx'[v]]
             /\ data' = [v \in Receiver |-> data'[v]] /\ discarded' = [v \in Receiver |-> discarded'[v]]
    BY <1>1, <1>3 DEF Retry
<1>4. ASSUME NEW m, OnStart(w, m) \/ OnChunk(w, m) \/ OnEnd(w, m) \/ Ignored(w, m)
      PROVE  /\ rpc' = [v \in Receiver |-> rpc'[v]] /\ rx' = [v \in Receiver |-> rx'[v]]
             /\ data' = [v \in Receiver |-> data'[v]] /\ discarded' = [v \in Receiver |-> discarded'[v]]
  <2>1. CASE OnStart(w, m) \/ Ignored(w, m)
      BY <1>1, <2>1 DEF OnStart, Ignored
  <2>2. CASE OnChunk(w, m)
      BY <1>1, <2>2 DEF OnChunk
  <2>3. CASE OnEnd(w, m)
      BY <1>1, <1>3, <2>3 DEF OnEnd
  <2> QED
      BY <1>4, <2>1, <2>2, <2>3
<1>5. CASE Receive(w)
    BY <1>2, <1>4, <1>5 DEF Receive, Functions
<1>6. CASE ReceiveTimeout(w)
    BY <1>2, <1>3, <1>6 DEF ReceiveTimeout, Functions
<1> QED
    BY <1>5, <1>6

(* The watcher dies, or another takes its place, or a receiver's call      *)
(* raises: that ends what they are at, and changes nothing else.           *)
Breaks ==
    /\ UNCHANGED <<events, payload, complete, lossy, lastId, rx, data, discarded>>
    /\ sender' \in {sender, Idle}
    /\ rpc' \in [Receiver -> Rpc]
    /\ \A w \in Receiver : rpc'[w] = rpc[w] \/ (rpc[w] \in {"request", "receive"} /\ rpc'[w] = "raised")

LEMMA BreakDoes ==
    ASSUME Typed,
           \/ SenderRestart \/ SenderError \/ NewWatcher \/ UNCHANGED vars
           \/ \E w \in Receiver : ReceiverError(w)
    PROVE  Breaks
<1>1. rpc \in [Receiver -> Rpc]
    BY DEF Typed
<1>2. CASE SenderRestart \/ SenderError \/ NewWatcher
    BY <1>1, <1>2 DEF SenderRestart, SenderError, NewWatcher, Breaks, recvVars
<1>3. CASE UNCHANGED vars
    BY <1>1, <1>3 DEF vars, recvVars, sendVars, Breaks
<1>4. ASSUME NEW w \in Receiver, ReceiverError(w) PROVE Breaks
    BY <1>1, <1>4 DEF ReceiverError, Waiting, sendVars, Breaks, Rpc
<1> QED
    BY <1>2, <1>3, <1>4

(* A restart of Redis leaves nothing on the stream. *)
LEMMA RestartDoes ==
    ASSUME Typed, RedisRestart
    PROVE  /\ events' = << >> /\ lastId' = [w \in Receiver |-> 0]
           /\ sender' \in {sender, Idle} /\ lossy' = lossy \cup ({sender.tid} \ {0})
           /\ UNCHANGED <<rx, data, discarded, payload, complete>>
           /\ rpc' \in [Receiver -> Rpc]
           /\ \A w \in Receiver : rpc'[w] = rpc[w] \/ (rpc[w] \in {"request", "receive"} /\ rpc'[w] = "raised")
<1>1. rpc \in [Receiver -> Rpc]
    BY DEF Typed
<1>2. PICK W \in SUBSET Receiver :
          /\ \A w \in W : Waiting(w)
          /\ rpc' = [w \in Receiver |-> IF w \in W THEN "raised" ELSE rpc[w]]
    BY DEF RedisRestart
<1>3. /\ rpc' \in [Receiver -> Rpc]
      /\ \A w \in Receiver : rpc'[w] = rpc[w] \/ (rpc[w] \in {"request", "receive"} /\ rpc'[w] = "raised")
    BY <1>1, <1>2 DEF Waiting, Rpc
<1> QED
    BY <1>3 DEF RedisRestart

-----------------------------------------------------------------------------
(* The invariant holds at first.                                           *)

(* Nothing was asked for. *)
LEMMA InitInv ==
    ASSUME Init
    PROVE  IInv
<1> USE DEF Init
<1>1. Len(events) = 0 /\ Len(payload) = 0 /\ events = << >> /\ payload = << >>
    OBVIOUS
<1>2. IsSeq(events)
    BY <1>1 DEF IsSeq
<1>3. Transfer = {}
    BY <1>1 DEF Transfer
<1>4. NotStarted \in Rx(0)
    BY DEF NotStarted, Rx
<1>5. rx \in [Receiver -> Rx(Len(payload))]
    BY <1>1, <1>4
<1>6. Typed
    BY <1>1, <1>2, <1>3, <1>5 DEF Typed, Idle, Rpc
<1>7. EventsOfTransfers /\ StartedOnce /\ StreamInOrder
    BY <1>1, <1>3 DEF EventsOfTransfers, StartedOnce, StreamInOrder
<1>8. SenderInOrder
    BY <1>1, <1>3, OffsetFacts DEF SenderInOrder, Idle
<1>9. ReceiverInv
  <2> SUFFICES ASSUME NEW w \in Receiver PROVE OfTransfer(w) /\ PastStart(w) /\ InOrder(w)
      BY DEF ReceiverInv
  <2>1. rx[w].tid = 0 /\ lastId[w] = 0 /\ rpc[w] = "request" /\ discarded[w] = {}
      BY DEF NotStarted
  <2> QED
      BY <1>1, <2>1 DEF OfTransfer, PastStart, InOrder
<1> QED
    BY <1>6, <1>7, <1>8, <1>9 DEF IInv

-----------------------------------------------------------------------------
(* Types.                                                                  *)

(* Whatever is known of n transfers is a state of n + 1, too. *)
LEMMA MoreTransfers ==
    ASSUME NEW n \in Nat, NEW k \in Nat, n <= k
    PROVE  Rx(n) \subseteq Rx(k) /\ 0 .. n \subseteq 0 .. k /\ 1 .. n \subseteq 1 .. k
BY DEF Rx

(* A step that leaves the receivers alone, and starts a transfer or not *)
LEMMA TypedFrame ==
    ASSUME Typed, IsSeq(events'), payload' \in Seq(Payload), Len(payload) <= Len(payload'),
           sender' \in [tid : 0 .. Len(payload'), offset : Nat, seq : Nat],
           complete' \subseteq Transfer', lossy' \subseteq Transfer',
           rpc' \in [Receiver -> Rpc],
           lastId' \in [Receiver -> Nat], UNCHANGED <<rx, data, discarded>>
    PROVE  Typed'
<1>1. Len(payload) \in Nat /\ Len(payload') \in Nat
    BY LenProperties DEF Typed
<1>2. Rx(Len(payload)) \subseteq Rx(Len(payload')) /\ 0 .. Len(payload) \subseteq 0 .. Len(payload')
    BY <1>1, MoreTransfers
<1>3. rx' \in [Receiver -> Rx(Len(payload'))]
    BY <1>2 DEF Typed
<1>4. discarded' \in [Receiver -> SUBSET (0 .. Len(payload'))]
    BY <1>2 DEF Typed
<1> QED
    BY <1>3, <1>4 DEF Typed, Rx

(* Every step keeps the types. *)
LEMMA TypedStep ==
    ASSUME Typed, EventsOfTransfers, ReceiverInv, [Next]_vars
    PROVE  Typed'
<1>1. /\ Len(payload) \in Nat /\ payload \in Seq(Payload) /\ IsSeq(events)
      /\ sender \in [tid : 0 .. Len(payload), offset : Nat, seq : Nat]
      /\ complete \subseteq Transfer /\ lossy \subseteq Transfer
      /\ rpc \in [Receiver -> Rpc]
      /\ lastId \in [Receiver -> Nat]
    BY PayloadFacts DEF Typed
<1>2. ASSUME NEW p \in Payload, SendStart(p) PROVE Typed'
  <2>1. Transfer \subseteq Transfer'
      BY <1>1, <1>2, StartDoes DEF Transfer
  <2> QED
      BY <1>1, <1>2, <2>1, StartDoes, TypedFrame DEF recvVars, Added
<1>3. CASE SendChunk
  <2>1. /\ IsSeq(events') /\ UNCHANGED <<recvVars, payload, complete, lossy>>
        /\ sender' = [tid |-> sender.tid, offset |-> sender.offset + ChunkSize, seq |-> sender.seq + 1]
      BY <1>3, ChunkDoes DEF Added
  <2>2. sender' \in [tid : 0 .. Len(payload), offset : Nat, seq : Nat]
      BY <1>1, <2>1
  <2> QED
      BY <1>1, <2>1, <2>2, TypedFrame DEF recvVars, Transfer
<1>4. CASE SendEnd
  <2>1. /\ IsSeq(events') /\ UNCHANGED <<recvVars, payload, lossy>> /\ sender' = Idle
        /\ complete' = complete \cup {sender.tid} /\ sender.tid \in Transfer
      BY <1>4, EndDoes DEF Added
  <2>2. sender' \in [tid : 0 .. Len(payload), offset : Nat, seq : Nat] /\ complete' \subseteq Transfer
      BY <1>1, <2>1 DEF Idle
  <2> QED
      BY <1>1, <2>1, <2>2, TypedFrame DEF recvVars, Transfer
<1>5. CASE Breaks
  <2>1. sender' \in [tid : 0 .. Len(payload), offset : Nat, seq : Nat]
      BY <1>1, <1>5 DEF Breaks, Idle
  <2> QED
      BY <1>1, <1>5, <2>1, TypedFrame DEF Breaks, Transfer, IsSeq
<1>6. CASE RedisRestart
  <2>1. events' = << >> /\ IsSeq(events')
      BY <1>6 DEF RedisRestart, IsSeq
  <2>3. payload' = payload /\ sender' \in [tid : 0 .. Len(payload), offset : Nat, seq : Nat]
      BY <1>1, <1>6, RestartDoes DEF Idle
  <2>4. rpc' \in [Receiver -> Rpc] /\ complete' = complete /\ UNCHANGED <<rx, data, discarded>>
      BY <1>6, RestartDoes
  <2>5. lastId' \in [Receiver -> Nat]
      BY <1>6 DEF RedisRestart
  <2>6. complete' \subseteq Transfer'
      BY <1>1, <2>3, <2>4 DEF Transfer
  <2>2. lossy' \subseteq Transfer'
    <3>1. {sender.tid} \ {0} \subseteq Transfer
        BY <1>1 DEF Transfer
    <3> QED
        BY <1>1, <1>6, <3>1 DEF RedisRestart, Transfer
  <2> QED
      BY <1>1, <2>1, <2>2, <2>3, <2>4, <2>5, <2>6, TypedFrame
<1>7. ASSUME NEW w \in Receiver, SendDataRequest(w) PROVE Typed'
  <2>1. IsSeq(events') /\ rpc' = [rpc EXCEPT ![w] = "receive"]
        /\ UNCHANGED <<lastId, rx, data, discarded, payload, sender, complete, lossy>>
      BY <1>7, RequestDoes DEF Added
  <2>2. rpc' \in [Receiver -> Rpc]
      BY <1>1, <2>1 DEF Rpc
  <2> QED
      BY <1>1, <2>1, <2>2, TypedFrame DEF Transfer
<1>8. ASSUME NEW w \in Receiver, Receive(w) \/ ReceiveTimeout(w) PROVE Typed'
  <2> DEFINE m == events[lastId[w] + 1]
             n == Len(payload)
  <2>1. lastId[w] <= Len(events)
      BY DEF ReceiverInv, OfTransfer
  <2>2. Others(w) /\ (GivesUp(w) \/
          /\ lastId[w] + 1 \in 1 .. Len(events)
          /\ Begins(w, m) \/ Keeps(w, m) \/ Skips(w, m) \/ Accepts(w, m))
      BY <1>8, <2>1, ReceiveDoes
  <2>3. /\ rx[w] \in Rx(n) /\ discarded[w] \in SUBSET (0 .. n) /\ data[w] \in SUBSET Seq(Byte)
        /\ lastId[w] \in Nat
      BY DEF Typed
  <2>4. rx'[w] \in Rx(n) /\ discarded'[w] \in SUBSET (0 .. n)
    <3>1. rx[w].tid \in 0 .. n /\ rx[w].buf \in Seq(Byte) /\ rx[w].seen \in SUBSET Nat
        BY <2>3 DEF Rx
    <3>2. NotStarted \in Rx(n)
        BY <1>1 DEF NotStarted, Rx
    <3>3. CASE GivesUp(w)
        BY <2>3, <3>1, <3>2, <3>3 DEF GivesUp
    <3>4. CASE lastId[w] + 1 \in 1 .. Len(events) /\ Begins(w, m)
      <4>1. m.tid \in Transfer /\ m.total_size = Len(payload[m.tid]) /\ m.checksum = sha256_bytes(payload[m.tid])
          BY <3>4 DEF EventsOfTransfers, OfPayload, Begins
      <4>2. m.tid \in 0 .. n /\ m.total_size \in Nat /\ m.checksum \in [sha256 : Payload]
          BY <1>1, <4>1, PayloadFacts DEF sha256_bytes, Transfer
      <4> QED
          BY <2>3, <3>1, <3>4, <4>2 DEF Begins, Rx
    <3>5. CASE lastId[w] + 1 \in 1 .. Len(events) /\ Keeps(w, m)
      <4>1. /\ m.tid \in Transfer /\ m.sequence_no \in Nat /\ Offset(m.sequence_no) < Len(payload[m.tid])
            /\ m.chunk = Slice(payload[m.tid], Offset(m.sequence_no))
          BY <3>5 DEF EventsOfTransfers, OfPayload, Keeps
      <4>2. payload[m.tid] \in Seq(Byte)
          BY <4>1, PayloadFacts
      <4>3. m.chunk \in Seq(Byte)
          BY <4>1, <4>2, ChunkExtendsPrefix
      <4>4. rx[w].buf \o m.chunk \in Seq(Byte)
          BY <3>1, <4>3, ConcatProperties
      <4> QED
          BY <2>3, <3>1, <3>5, <4>1, <4>4, SMTT(60) DEF Keeps, Rx
    <3>6. CASE Skips(w, m) \/ Accepts(w, m)
        BY <2>3, <3>6 DEF Skips, Accepts
    <3> QED
        BY <2>2, <3>3, <3>4, <3>5, <3>6
  <2>5. data'[w] \in SUBSET Seq(Byte)
      BY <2>2, <2>3 DEF Begins, Keeps, Skips, Accepts, GivesUp, Rx, Typed
  <2>6. rpc'[w] \in Rpc /\ lastId'[w] \in Nat
      BY <2>2, <2>3 DEF Begins, Keeps, Skips, Accepts, GivesUp, Rpc
  <2>7. Functions
      BY <1>8, ReceiveFunctions
  <2>8. UNCHANGED <<events, payload, sender, complete, lossy>>
      BY <2>2 DEF Others
  <2>9. rx' \in [Receiver -> Rx(n)] /\ discarded' \in [Receiver -> SUBSET (0 .. n)]
    <3>1. \A v \in Receiver : rx'[v] \in Rx(n) /\ discarded'[v] \in SUBSET (0 .. n)
        BY <2>2, <2>4 DEF Others, Typed
    <3> QED
        BY <2>7, <3>1 DEF Functions
  <2>10. data' \in [Receiver -> SUBSET Seq(Byte)]
    <3>1. \A v \in Receiver : data'[v] \in SUBSET Seq(Byte)
        BY <2>2, <2>5 DEF Others, Typed
    <3> QED
        BY <2>7, <3>1 DEF Functions
  <2>11. rpc' \in [Receiver -> Rpc] /\ lastId' \in [Receiver -> Nat]
    <3>1. \A v \in Receiver : rpc'[v] \in Rpc /\ lastId'[v] \in Nat
        BY <2>2, <2>6 DEF Others, Typed
    <3> QED
        BY <2>7, <3>1 DEF Functions
  <2> QED
      BY <1>1, <2>8, <2>9, <2>10, <2>11, SMTT(60) DEF Typed, IsSeq, Transfer, Rx
<1> QED
    BY <1>2, <1>3, <1>4, <1>5, <1>6, <1>7, <1>8, BreakDoes
       DEF Next, SenderStep, ReceiverStep, TimeoutInVain, TimeoutEarly

-----------------------------------------------------------------------------
(* The stream.                                                             *)

(* Transfers are only added, and completed. *)
Grows ==
    /\ Transfer \subseteq Transfer' /\ complete \subseteq complete'
    /\ \A t \in Transfer : payload'[t] = payload[t]

(* A message of a transfer stays one. *)
LEMMA StaysOfPayload ==
    ASSUME Grows, NEW m, OfPayload(m)
    PROVE  OfPayload(m)'
BY DEF Grows, OfPayload

(* No step changes what is known of a transfer. *)
LEMMA AlwaysGrows ==
    ASSUME Typed, EventsOfTransfers, ReceiverInv, [Next]_vars
    PROVE  Grows
<1>1. Len(payload) \in Nat
    BY PayloadFacts
<1>2. ASSUME NEW p \in Payload, SendStart(p) PROVE Grows
    BY <1>1, <1>2, StartDoes DEF Grows, Transfer
<1>3. CASE SendChunk
    BY <1>3 DEF SendChunk, Grows, Transfer
<1>4. CASE SendEnd
    BY <1>4 DEF SendEnd, Grows, Transfer
<1>5. CASE Breaks \/ RedisRestart
    BY <1>5 DEF Breaks, RedisRestart, Grows, Transfer
<1>6. ASSUME NEW w \in Receiver, SendDataRequest(w) PROVE Grows
    BY <1>6 DEF SendDataRequest, sendVars, Grows, Transfer
<1>7. ASSUME NEW w \in Receiver, Receive(w) \/ ReceiveTimeout(w) PROVE Grows
    BY <1>7 DEF Receive, ReceiveTimeout, sendVars, Grows, Transfer
<1> QED
    BY <1>2, <1>3, <1>4, <1>5, <1>6, <1>7, BreakDoes
       DEF Next, SenderStep, ReceiverStep, TimeoutInVain, TimeoutEarly

(* A step that adds m, which is of a transfer *)
LEMMA EventsGrow ==
    ASSUME EventsOfTransfers, Grows, NEW m, Added(m), OfPayload(m)'
    PROVE  EventsOfTransfers'
<1>1. ASSUME NEW i \in 1 .. Len(events'), NEW e, e = events'[i] PROVE OfPayload(e)'
  <2>1. CASE i \in 1 .. Len(events)
    <3>1. OfPayload(e)
        BY <1>1, <2>1 DEF EventsOfTransfers, Added
    <3> QED
        BY <3>1, StaysOfPayload
  <2>2. CASE i \in Len(events) + 1 .. Len(events')
    <3>1. e = m
        BY <1>1, <2>2 DEF Added
    <3> QED
        BY <3>1
  <2> QED
      BY <2>1, <2>2 DEF Added
<1> QED
    BY <1>1 DEF EventsOfTransfers, OfPayload

(* The sender speaks of the payload it was given. *)
LEMMA EventsStep ==
    ASSUME Typed, EventsOfTransfers, SenderInOrder, ReceiverInv, [Next]_vars
    PROVE  EventsOfTransfers'
<1>1. Grows
    BY AlwaysGrows
<1>2. Len(payload) \in Nat /\ sender.seq \in Nat
    BY PayloadFacts DEF Typed
<1>3. ASSUME NEW p \in Payload, SendStart(p) PROVE EventsOfTransfers'
  <2>1. Added(Header(p)) /\ Len(payload') = Len(payload) + 1 /\ payload'[Len(payload) + 1] = p
      BY <1>3, StartDoes
  <2>2. PICK h : h = Header(p)
      OBVIOUS
  <2>3. OfPayload(h)'
      BY <1>2, <2>1, <2>2 DEF OfPayload, Header, Transfer
  <2> QED
      BY <1>1, <2>1, <2>2, <2>3, EventsGrow
<1>4. CASE SendChunk
  <2>1. Added(Chunk) /\ sender.tid \in Transfer /\ sender.offset < Len(payload[sender.tid]) /\ payload' = payload
      BY <1>4, ChunkDoes
  <2>2. sender.offset = Offset(sender.seq)
      BY DEF SenderInOrder
  <2>3. OfPayload(Chunk)
      BY <1>2, <2>1, <2>2 DEF OfPayload, Chunk
  <2> QED
      BY <1>1, <2>1, <2>3, EventsGrow, StaysOfPayload
<1>5. CASE SendEnd
  <2>1. Added(Trailer) /\ sender.tid \in Transfer /\ complete' = complete \cup {sender.tid} /\ payload' = payload
      BY <1>5, EndDoes
  <2> QED
      BY <1>1, <2>1, EventsGrow DEF OfPayload, Trailer, Transfer
<1>6. CASE Breaks
    BY <1>6 DEF Breaks, EventsOfTransfers, OfPayload, Transfer
<1>7. CASE RedisRestart
  <2>1. Len(events') = 0
      BY <1>7 DEF RedisRestart
  <2> QED
      BY <2>1 DEF EventsOfTransfers
<1>8. ASSUME NEW w \in Receiver, SendDataRequest(w) PROVE EventsOfTransfers'
  <2>1. OfPayload([type |-> "DATA_REQUEST"])
      BY DEF OfPayload
  <2> QED
      BY <1>1, <1>8, <2>1, RequestDoes, EventsGrow, StaysOfPayload
<1>9. ASSUME NEW w \in Receiver, Receive(w) \/ ReceiveTimeout(w) PROVE EventsOfTransfers'
    BY <1>9 DEF Receive, ReceiveTimeout, sendVars, EventsOfTransfers, OfPayload, Transfer
<1> QED
    BY <1>3, <1>4, <1>5, <1>6, <1>7, <1>8, <1>9, BreakDoes
       DEF Next, SenderStep, ReceiverStep, TimeoutInVain, TimeoutEarly

-----------------------------------------------------------------------------
(* The order of the messages of a transfer.                                *)

(* After a message that is not of transfer t, the messages of t are those  *)
(* that were there.                                                        *)
SameMessages(t) ==
    /\ Len(events) \in Nat /\ Len(events') \in Nat /\ Len(events) <= Len(events')
    /\ \A i \in 1 .. Len(events) : events'[i] = events[i]
    /\ \A i \in 1 .. Len(events') : IsStart(i, t)' => i \in 1 .. Len(events)
    /\ \A i \in 1 .. Len(events') : IsChunk(i, t)' => i \in 1 .. Len(events)
    /\ \A i \in 1 .. Len(events') : IsEnd(i, t)' => i \in 1 .. Len(events)

(* A message of another transfer, and a DATA_REQUEST *)
LEMMA AnotherMessage ==
    ASSUME NEW t, NEW m, Added(m), m.type = "DATA_REQUEST" \/ m.tid # t
    PROVE  SameMessages(t)
<1>1. \A i \in 1 .. Len(events') : i \in 1 .. Len(events) \/ events'[i] = m
    BY DEF Added
<1> QED
    BY <1>1 DEF Added, SameMessages, IsStart, IsChunk, IsEnd

(* No message *)
LEMMA NoMessage ==
    ASSUME NEW t, IsSeq(events), UNCHANGED events
    PROVE  SameMessages(t)
<1>1. Len(events) \in Nat
    BY LenProperties DEF IsSeq
<1> QED
    BY <1>1 DEF SameMessages, IsStart, IsChunk, IsEnd

(* The order of the messages of t is kept by what is not of t. *)
LEMMA OrderKept ==
    ASSUME NEW t \in Transfer, Grows, SameMessages(t)
    PROVE  /\ OneStart(t) => OneStart(t)'
           /\ FromStart(t) => FromStart(t)'
           /\ \A n : \A e \in Int : e <= Len(events) /\ AllBelow(t, n, e) => AllBelow(t, n, e)'
           /\ NoGap(t) => NoGap(t)'
           /\ ToTheEnd(t) => ToTheEnd(t)'
<1>1. /\ Len(events) \in Nat /\ Len(events') \in Nat /\ Len(events) <= Len(events')
      /\ \A i \in 1 .. Len(events) : /\ IsStart(i, t)' <=> IsStart(i, t)
                                     /\ IsChunk(i, t)' <=> IsChunk(i, t)
                                     /\ IsEnd(i, t)' <=> IsEnd(i, t)
                                     /\ events'[i] = events[i]
      /\ \A i \in 1 .. Len(events') : /\ IsStart(i, t)' => i \in 1 .. Len(events)
                                      /\ IsChunk(i, t)' => i \in 1 .. Len(events)
                                      /\ IsEnd(i, t)' => i \in 1 .. Len(events)
    BY DEF SameMessages, IsStart, IsChunk, IsEnd
<1>2. payload'[t] = payload[t]
    BY DEF Grows
<1>3. OneStart(t) => OneStart(t)'
    BY <1>1 DEF OneStart
<1>4. FromStart(t) => FromStart(t)'
    BY <1>1 DEF FromStart
<1>5. ASSUME NEW n, NEW e \in Int, e <= Len(events), AllBelow(t, n, e) PROVE AllBelow(t, n, e)'
  <2> SUFFICES ASSUME NEW k \in 0 .. (n - 1)
               PROVE  \E i \in 1 .. e : IsChunk(i, t)' /\ events'[i].sequence_no = k
      BY DEF AllBelow
  <2>1. PICK i \in 1 .. e : IsChunk(i, t) /\ events[i].sequence_no = k
      BY <1>5 DEF AllBelow
  <2>2. i \in 1 .. Len(events)
      BY <1>1, <1>5
  <2> QED
      BY <1>1, <2>1, <2>2
<1>6. ASSUME NoGap(t) PROVE NoGap(t)'
  <2> SUFFICES ASSUME NEW i \in 1 .. Len(events'), IsChunk(i, t)',
                      NEW n, n = events'[i].sequence_no, NEW e, e = i - 1
               PROVE  AllBelow(t, n, e)'
      BY DEF NoGap, AllBelow
  <2>1. i \in 1 .. Len(events) /\ IsChunk(i, t) /\ n = events[i].sequence_no
      BY <1>1
  <2>2. AllBelow(t, n, e)
      BY <1>6, <2>1 DEF NoGap
  <2> QED
      BY <1>1, <1>5, <2>1, <2>2
<1>7. ASSUME ToTheEnd(t) PROVE ToTheEnd(t)'
  <2> SUFFICES ASSUME NEW i \in 1 .. Len(events'), IsEnd(i, t)',
                      NEW n, n = events'[i].total_chunks, NEW e, e = i - 1
               PROVE  WholeAt(t, n, e)'
      BY DEF ToTheEnd, WholeAt, AllBelow
  <2>1. i \in 1 .. Len(events) /\ IsEnd(i, t) /\ n = events[i].total_chunks
      BY <1>1
  <2>2. /\ n \in Nat /\ Offset(n) >= Len(payload[t]) /\ AllBelow(t, n, e)
        /\ \A j \in 1 .. Len(events) : IsChunk(j, t) => events[j].sequence_no < n
      BY <1>7, <2>1 DEF ToTheEnd, WholeAt
  <2>3. AllBelow(t, n, e)'
      BY <1>1, <1>5, <2>1, <2>2
  <2>4. \A j \in 1 .. Len(events') : IsChunk(j, t)' => events'[j].sequence_no < n
      BY <1>1, <2>2
  <2> QED
      BY <1>2, <2>2, <2>3, <2>4 DEF WholeAt
<1> QED
    BY <1>3, <1>4, <1>5, <1>6, <1>7

(* A message that was there is there. *)
Kept(t) ==
    /\ Len(events) \in Nat /\ Len(events') \in Nat /\ Len(events) < Len(events')
    /\ \A i \in 1 .. Len(events) : /\ IsStart(i, t)' <=> IsStart(i, t)
                                   /\ IsChunk(i, t)' <=> IsChunk(i, t)
                                   /\ IsEnd(i, t)' <=> IsEnd(i, t)
                                   /\ events'[i] = events[i]

(* XADD changes nothing that is there. *)
LEMMA AddedKeeps ==
    ASSUME NEW t, NEW m, Added(m)
    PROVE  /\ Kept(t)
           /\ \A i \in 1 .. Len(events') : i \in 1 .. Len(events) \/ (i > Len(events) /\ events'[i] = m)
BY DEF Added, Kept, IsStart, IsChunk, IsEnd

(* Chunks that were there are there. *)
LEMMA BelowKept ==
    ASSUME NEW t, Kept(t), NEW n, NEW e \in Int, e <= Len(events), NEW f \in Int, e <= f,
           AllBelow(t, n, e)
    PROVE  AllBelow(t, n, f)'
<1> SUFFICES ASSUME NEW k \in 0 .. (n - 1)
             PROVE  \E i \in 1 .. f : IsChunk(i, t)' /\ events'[i].sequence_no = k
    BY DEF AllBelow
<1>1. PICK i \in 1 .. e : IsChunk(i, t) /\ events[i].sequence_no = k
    BY DEF AllBelow
<1>2. i \in 1 .. Len(events) /\ i \in 1 .. f
    BY DEF Kept
<1> QED
    BY <1>1, <1>2 DEF Kept

(* What comes on the stream comes behind the DATA_START that is there. *)
LEMMA StartStaysFirst ==
    ASSUME NEW t, Kept(t), FromStart(t), \E i \in 1 .. Len(events) : IsStart(i, t)
    PROVE  FromStart(t)'
<1> SUFFICES ASSUME NEW i \in 1 .. Len(events'), IsChunk(i, t)' \/ IsEnd(i, t)'
             PROVE  \E j \in 1 .. (i - 1) : IsStart(j, t)'
    BY DEF FromStart
<1>1. CASE i \in 1 .. Len(events)
  <2>1. PICK j \in 1 .. (i - 1) : IsStart(j, t)
      BY <1>1 DEF FromStart, Kept
  <2>2. j \in 1 .. Len(events)
      BY <1>1 DEF Kept
  <2> QED
      BY <2>1, <2>2 DEF Kept
<1>2. CASE i \notin 1 .. Len(events)
  <2>1. PICK j \in 1 .. Len(events) : IsStart(j, t)
      OBVIOUS
  <2>2. j \in 1 .. (i - 1)
      BY <1>2 DEF Kept
  <2> QED
      BY <2>1, <2>2 DEF Kept
<1> QED
    BY <1>1, <1>2

(* What is not about t leaves t in order. *)
LEMMA OrderedOther ==
    ASSUME Grows, StartedOnce, StreamInOrder, NEW t \in Transfer, SameMessages(t)
    PROVE  OneStart(t)' /\ (t \notin lossy => Ordered(t)')
<1>1. OneStart(t)'
    BY OrderKept DEF StartedOnce
<1>2. ASSUME t \notin lossy PROVE Ordered(t)'
  <2>1. FromStart(t) /\ NoGap(t) /\ ToTheEnd(t)
      BY <1>2 DEF StreamInOrder, Ordered
  <2>2. FromStart(t)' /\ NoGap(t)' /\ ToTheEnd(t)'
      BY <2>1, OrderKept
  <2> QED
      BY <2>2 DEF Ordered
<1> QED
    BY <1>1, <1>2

(* A new transfer is none that the stream or a receiver knows of. *)
LEMMA OrderedStart ==
    ASSUME Typed, EventsOfTransfers, StartedOnce, StreamInOrder, Grows, NEW p \in Payload, SendStart(p)
    PROVE  StartedOnce' /\ StreamInOrder'
<1> SUFFICES ASSUME NEW t \in Transfer' PROVE OneStart(t)' /\ (t \notin lossy' => Ordered(t)')
    BY DEF StartedOnce, StreamInOrder
<1>1. /\ Added(Header(p)) /\ Len(events') = Len(events) + 1 /\ Len(payload') = Len(payload) + 1
      /\ lossy' = lossy /\ Len(payload) \in Nat
    BY StartDoes, PayloadFacts
<1>2. CASE t \in Transfer
  <2>1. Header(p).tid # t
      BY <1>1, <1>2 DEF Header, Transfer
  <2>2. SameMessages(t)
      BY <1>1, <2>1, AnotherMessage
  <2> QED
      BY <1>1, <1>2, <2>2, OrderedOther
<1>3. CASE t = Len(payload) + 1
  <2>1. /\ Kept(t)
        /\ \A i \in 1 .. Len(events') : i \in 1 .. Len(events) \/ (i > Len(events) /\ events'[i] = Header(p))
      BY <1>1, AddedKeeps
  <2>2. t \notin Transfer
      BY <1>1, <1>3 DEF Transfer
  <2>3. \A i \in 1 .. Len(events) : ~IsStart(i, t) /\ ~IsChunk(i, t) /\ ~IsEnd(i, t)
      BY <2>2 DEF EventsOfTransfers, OfPayload, IsStart, IsChunk, IsEnd
  <2>4. \A i \in 1 .. Len(events') : i > Len(events) => i = Len(events')
      BY <1>1, <2>1 DEF Kept
  <2>5. \A i \in 1 .. Len(events') : IsStart(i, t)' => i = Len(events')
      BY <2>1, <2>3, <2>4 DEF Kept
  <2>6. \A i \in 1 .. Len(events') : ~IsChunk(i, t)' /\ ~IsEnd(i, t)'
    <3>1. \A i \in 1 .. Len(events') : events'[i] = Header(p) => ~IsChunk(i, t)' /\ ~IsEnd(i, t)'
        BY DEF Header, IsChunk, IsEnd
    <3> QED
        BY <2>1, <2>3, <3>1 DEF Kept
  <2>7. OneStart(t)'
      BY <2>5 DEF OneStart
  <2>8. FromStart(t)' /\ NoGap(t)' /\ ToTheEnd(t)'
      BY <2>6 DEF FromStart, NoGap, ToTheEnd
  <2> QED
      BY <2>7, <2>8 DEF Ordered
<1> QED
    BY <1>1, <1>2, <1>3 DEF Transfer

(* The sender's chunk is the next of its transfer. *)
LEMMA OrderedChunk ==
    ASSUME Typed, EventsOfTransfers, StartedOnce, StreamInOrder, SenderInOrder, Grows, SendChunk
    PROVE  StartedOnce' /\ StreamInOrder'
<1> SUFFICES ASSUME NEW t \in Transfer' PROVE OneStart(t)' /\ (t \notin lossy' => Ordered(t)')
    BY DEF StartedOnce, StreamInOrder
<1>1. Added(Chunk) /\ sender.tid \in Transfer /\ lossy' = lossy /\ Transfer' = Transfer /\ sender.seq \in Nat
    BY ChunkDoes DEF Transfer, Typed
<1>2. CASE t # sender.tid
  <2>1. SameMessages(t)
      BY <1>1, <1>2, AnotherMessage DEF Chunk
  <2> QED
      BY <1>1, <2>1, OrderedOther
<1>3. CASE t = sender.tid
  <2>1. /\ Kept(t)
        /\ \A i \in 1 .. Len(events') : i \in 1 .. Len(events) \/ (i > Len(events) /\ events'[i] = Chunk)
      BY <1>1, AddedKeeps
  <2>2. \A i \in 1 .. Len(events') : i \in 1 .. Len(events) \/
           (i > Len(events) /\ ~IsStart(i, t)' /\ ~IsEnd(i, t)' /\ events'[i].sequence_no = sender.seq)
      BY <2>1 DEF IsStart, IsEnd, Chunk
  <2>3. OneStart(t)'
      BY <1>1, <1>3, <2>1, <2>2 DEF Kept, StartedOnce, OneStart
  <2>4. ASSUME t \notin lossy PROVE Ordered(t)'
    <3>1. /\ \E i \in 1 .. Len(events) : IsStart(i, t)
          /\ \A i \in 1 .. Len(events) : IsChunk(i, t) => events[i].sequence_no < sender.seq
          /\ AllBelow(t, sender.seq, Len(events)) /\ t \notin complete
        BY <1>1, <1>3, <2>4 DEF SenderInOrder
    <3>2. FromStart(t) /\ NoGap(t)
        BY <1>1, <1>3, <2>4 DEF StreamInOrder, Ordered
    <3>3. \A i \in 1 .. Len(events) : ~IsEnd(i, t)
        BY <3>1 DEF EventsOfTransfers, OfPayload, IsEnd
    <3>4. FromStart(t)'
        BY <2>1, <3>1, <3>2, StartStaysFirst
    <3>5. NoGap(t)'
      <4> SUFFICES ASSUME NEW i \in 1 .. Len(events'), IsChunk(i, t)',
                          NEW n, n = events'[i].sequence_no, NEW f, f = i - 1
                   PROVE  AllBelow(t, n, f)'
          BY DEF NoGap, AllBelow
      <4>1. f \in Int /\ Len(events) \in Int
          BY <2>1 DEF Kept
      <4>2. CASE i \in 1 .. Len(events)
        <5>1. AllBelow(t, n, f) /\ f <= Len(events)
            BY <2>1, <3>2, <4>1, <4>2 DEF NoGap, Kept
        <5> QED
            BY <2>1, <4>1, <5>1, BelowKept
      <4>3. CASE i > Len(events) /\ n = sender.seq
        <5>1. Len(events) <= f /\ Len(events) <= Len(events) /\ AllBelow(t, n, Len(events))
            BY <3>1, <4>1, <4>3
        <5> QED
            BY <2>1, <4>1, <5>1, BelowKept
      <4> QED
          BY <2>2, <4>2, <4>3
    <3>6. ToTheEnd(t)'
        BY <2>1, <2>2, <3>3 DEF ToTheEnd, Kept
    <3> QED
        BY <3>4, <3>5, <3>6 DEF Ordered
  <2> QED
      BY <1>1, <2>3, <2>4
<1> QED
    BY <1>2, <1>3

(* DATA_END comes when every chunk was sent. *)
LEMMA OrderedEnd ==
    ASSUME Typed, EventsOfTransfers, StartedOnce, StreamInOrder, SenderInOrder, Grows, SendEnd
    PROVE  StartedOnce' /\ StreamInOrder'
<1> SUFFICES ASSUME NEW t \in Transfer' PROVE OneStart(t)' /\ (t \notin lossy' => Ordered(t)')
    BY DEF StartedOnce, StreamInOrder
<1>1. /\ Added(Trailer) /\ sender.tid \in Transfer /\ lossy' = lossy /\ Transfer' = Transfer
      /\ sender.seq \in Nat /\ payload' = payload /\ sender.offset >= Len(payload[sender.tid])
    BY EndDoes DEF Transfer, Typed
<1>2. CASE t # sender.tid
  <2>1. SameMessages(t)
      BY <1>1, <1>2, AnotherMessage DEF Trailer
  <2> QED
      BY <1>1, <2>1, OrderedOther
<1>3. CASE t = sender.tid
  <2>1. /\ Kept(t)
        /\ \A i \in 1 .. Len(events') : i \in 1 .. Len(events) \/ (i > Len(events) /\ events'[i] = Trailer)
      BY <1>1, AddedKeeps
  <2>2. \A i \in 1 .. Len(events') : i \in 1 .. Len(events) \/
           (i > Len(events) /\ ~IsStart(i, t)' /\ ~IsChunk(i, t)' /\ events'[i].total_chunks = sender.seq)
      BY <2>1 DEF IsStart, IsChunk, Trailer
  <2>3. OneStart(t)'
      BY <1>1, <1>3, <2>1, <2>2 DEF Kept, StartedOnce, OneStart
  <2>4. ASSUME t \notin lossy PROVE Ordered(t)'
    <3>1. /\ \E i \in 1 .. Len(events) : IsStart(i, t)
          /\ \A i \in 1 .. Len(events) : IsChunk(i, t) => events[i].sequence_no < sender.seq
          /\ AllBelow(t, sender.seq, Len(events)) /\ t \notin complete
          /\ sender.offset = Offset(sender.seq)
        BY <1>1, <1>3, <2>4 DEF SenderInOrder
    <3>2. FromStart(t) /\ NoGap(t)
        BY <1>1, <1>3, <2>4 DEF StreamInOrder, Ordered
    <3>3. \A i \in 1 .. Len(events) : ~IsEnd(i, t)
        BY <3>1 DEF EventsOfTransfers, OfPayload, IsEnd
    <3>4. FromStart(t)'
        BY <2>1, <3>1, <3>2, StartStaysFirst
    <3>5. NoGap(t)'
      <4> SUFFICES ASSUME NEW i \in 1 .. Len(events'), IsChunk(i, t)',
                          NEW n, n = events'[i].sequence_no, NEW f, f = i - 1
                   PROVE  AllBelow(t, n, f)'
          BY DEF NoGap, AllBelow
      <4>1. f \in Int /\ i \in 1 .. Len(events)
          BY <2>2
      <4>2. AllBelow(t, n, f) /\ f <= Len(events)
          BY <2>1, <3>2, <4>1 DEF NoGap, Kept
      <4> QED
          BY <2>1, <4>1, <4>2, BelowKept
    <3>6. ToTheEnd(t)'
      <4> SUFFICES ASSUME NEW i \in 1 .. Len(events'), IsEnd(i, t)',
                          NEW n, n = events'[i].total_chunks, NEW f, f = i - 1
                   PROVE  WholeAt(t, n, f)'
          BY DEF ToTheEnd, WholeAt, AllBelow
      <4>1. f \in Int /\ Len(events) \in Int /\ i > Len(events) /\ n = sender.seq
          BY <2>1, <2>2, <3>3 DEF Kept
      <4>2. AllBelow(t, n, Len(events)) /\ Len(events) <= f /\ Len(events) <= Len(events)
          BY <3>1, <4>1
      <4>3. AllBelow(t, n, f)'
          BY <2>1, <4>1, <4>2, BelowKept
      <4>4. \A j \in 1 .. Len(events') : IsChunk(j, t)' => events'[j].sequence_no < n
          BY <2>1, <2>2, <3>1, <4>1 DEF Kept
      <4>5. n \in Nat /\ Offset(n) >= Len(payload'[t])
          BY <1>1, <1>3, <3>1, <4>1
      <4> QED
          BY <4>3, <4>4, <4>5 DEF WholeAt
    <3> QED
        BY <3>4, <3>5, <3>6 DEF Ordered
  <2> QED
      BY <1>1, <2>3, <2>4
<1> QED
    BY <1>2, <1>3

(* Every step leaves the stream in order. *)
LEMMA StreamStep ==
    ASSUME Typed, EventsOfTransfers, StartedOnce, StreamInOrder, SenderInOrder, ReceiverInv, [Next]_vars
    PROVE  StartedOnce' /\ StreamInOrder'
<1>1. Grows /\ IsSeq(events)
    BY AlwaysGrows DEF Typed
<1>2. ASSUME UNCHANGED <<events, payload, lossy>> PROVE StartedOnce' /\ StreamInOrder'
  <2> SUFFICES ASSUME NEW t \in Transfer' PROVE OneStart(t)' /\ (t \notin lossy' => Ordered(t)')
      BY DEF StartedOnce, StreamInOrder
  <2>1. t \in Transfer /\ lossy' = lossy
      BY <1>2 DEF Transfer
  <2>2. SameMessages(t)
      BY <1>1, <1>2, NoMessage
  <2> QED
      BY <1>1, <2>1, <2>2, OrderedOther
<1>3. CASE RedisRestart
  <2>1. Len(events') = 0
      BY <1>3 DEF RedisRestart
  <2> QED
      BY <2>1 DEF StartedOnce, StreamInOrder, OneStart, Ordered, FromStart, NoGap, ToTheEnd
<1>4. ASSUME NEW w \in Receiver, SendDataRequest(w) PROVE StartedOnce' /\ StreamInOrder'
  <2> SUFFICES ASSUME NEW t \in Transfer' PROVE OneStart(t)' /\ (t \notin lossy' => Ordered(t)')
      BY DEF StartedOnce, StreamInOrder
  <2>1. t \in Transfer /\ lossy' = lossy /\ Added([type |-> "DATA_REQUEST"])
      BY <1>4, RequestDoes DEF Transfer
  <2>2. SameMessages(t)
      BY <2>1, AnotherMessage
  <2> QED
      BY <1>1, <2>1, <2>2, OrderedOther
<1>5. ASSUME NEW w \in Receiver, Receive(w) \/ ReceiveTimeout(w) PROVE UNCHANGED <<events, payload, lossy>>
    BY <1>5 DEF Receive, ReceiveTimeout, sendVars
<1>6. ASSUME Breaks PROVE UNCHANGED <<events, payload, lossy>>
    BY <1>6 DEF Breaks
<1> QED
    BY <1>1, <1>2, <1>3, <1>4, <1>5, <1>6, BreakDoes, OrderedStart, OrderedChunk, OrderedEnd
       DEF Next, SenderStep, ReceiverStep, TimeoutInVain, TimeoutEarly

(* The sender stays at the end of its transfer; one that Redis cut is lost *)
(* for it.                                                                 *)
LEMMA SenderInv ==
    ASSUME Typed, EventsOfTransfers, SenderInOrder, ReceiverInv, [Next]_vars
    PROVE  SenderInOrder'
<1>1. /\ Len(payload) \in Nat /\ sender.seq \in Nat /\ complete \subseteq Transfer
      /\ sender.offset = Offset(sender.seq) /\ IsSeq(events)
    BY PayloadFacts DEF Typed, SenderInOrder
<1>2. ASSUME sender' = Idle PROVE SenderInOrder'
  <2>1. sender'.tid \notin Transfer' /\ sender'.offset = Offset(sender'.seq)
      BY <1>2, OffsetFacts DEF Idle, Transfer
  <2> QED
      BY <2>1 DEF SenderInOrder
<1>3. ASSUME NEW p \in Payload, SendStart(p) PROVE SenderInOrder'
  <2> DEFINE t == Len(payload) + 1
  <2>1. /\ Added(Header(p)) /\ sender' = [tid |-> t, offset |-> 0, seq |-> 0] /\ complete' = complete
      BY <1>3, StartDoes
  <2>2. /\ Kept(t)
        /\ \A i \in 1 .. Len(events') : i \in 1 .. Len(events) \/ (i > Len(events) /\ events'[i] = Header(p))
      BY <2>1, AddedKeeps
  <2>3. t \notin Transfer
      BY <1>1 DEF Transfer
  <2>4. sender'.tid = t /\ sender'.offset = 0 /\ sender'.seq = 0
      BY <2>1
  <2>5. \A i \in 1 .. Len(events) : ~IsChunk(i, t)
      BY <2>3 DEF EventsOfTransfers, OfPayload, IsChunk
  <2>6. Len(events') \in 1 .. Len(events') /\ events'[Len(events')] = Header(p)
      BY <2>1 DEF Added
  <2> HIDE DEF t
  <2>7. \E i \in 1 .. Len(events') : events'[i].type = "DATA_START" /\ events'[i].tid = t
      BY <2>6 DEF Header, t
  <2>8. \A i \in 1 .. Len(events') : ~(events'[i].type = "DATA_CHUNK" /\ events'[i].tid = t)
    <3>1. Header(p).type = "DATA_START"
        BY DEF Header
    <3> QED
        BY <2>2, <2>5, <3>1 DEF Kept, IsChunk
  <2>9. t \notin complete'
      BY <1>1, <2>1, <2>3
  <2>10. sender'.offset = Offset(sender'.seq)
      BY <2>4, OffsetFacts
  <2>11. 0 .. (sender'.seq - 1) = {}
      BY <2>4
  <2> QED
      BY <2>4, <2>7, <2>8, <2>9, <2>10, <2>11 DEF SenderInOrder, AllBelow, IsStart, IsChunk
<1>4. CASE SendChunk
  <2>1. /\ Added(Chunk) /\ sender.tid \in Transfer /\ UNCHANGED <<payload, complete, lossy>>
        /\ sender' = [tid |-> sender.tid, offset |-> sender.offset + ChunkSize, seq |-> sender.seq + 1]
      BY <1>4, ChunkDoes
  <2>2. PICK t : t = sender.tid
      OBVIOUS
  <2>3. /\ Kept(t)
        /\ \A i \in 1 .. Len(events') : i \in 1 .. Len(events) \/ (i > Len(events) /\ events'[i] = Chunk)
      BY <2>1, AddedKeeps
  <2>4. sender'.tid = t /\ sender'.offset = sender.offset + ChunkSize /\ sender'.seq = sender.seq + 1
      BY <2>1, <2>2
  <2>5. sender'.offset = Offset(sender'.seq)
      BY <1>1, <2>4, OffsetFacts
  <2>6. ASSUME t \in Transfer \ lossy
        PROVE  /\ \E i \in 1 .. Len(events') : IsStart(i, t)'
               /\ \A i \in 1 .. Len(events') : IsChunk(i, t)' => events'[i].sequence_no < sender.seq + 1
               /\ \A k \in 0 .. sender.seq :
                     \E i \in 1 .. Len(events') : IsChunk(i, t)' /\ events'[i].sequence_no = k
               /\ t \notin complete'
    <3>1. /\ \E i \in 1 .. Len(events) : IsStart(i, t)
          /\ \A i \in 1 .. Len(events) : IsChunk(i, t) => events[i].sequence_no < sender.seq
          /\ AllBelow(t, sender.seq, Len(events)) /\ t \notin complete
        BY <2>2, <2>6 DEF SenderInOrder
    <3>2. Chunk.type = "DATA_CHUNK" /\ Chunk.tid = t /\ Chunk.sequence_no = sender.seq
        BY <2>2 DEF Chunk
    <3>3. Len(events') \in 1 .. Len(events') /\ events'[Len(events')] = Chunk
        BY <2>1 DEF Added
    <3>4. \E i \in 1 .. Len(events') : IsStart(i, t)'
        BY <2>3, <3>1 DEF Kept
    <3>5. \A i \in 1 .. Len(events') : IsChunk(i, t)' => events'[i].sequence_no < sender.seq + 1
      <4>1. \A i \in 1 .. Len(events) : IsChunk(i, t) => events[i].sequence_no \in Nat
          BY DEF EventsOfTransfers, OfPayload, IsChunk
      <4> QED
          BY <1>1, <2>3, <3>1, <3>2, <4>1, SMTT(60) DEF Kept
    <3>6. ASSUME NEW k \in 0 .. sender.seq
          PROVE  \E i \in 1 .. Len(events') : IsChunk(i, t)' /\ events'[i].sequence_no = k
      <4>1. CASE k = sender.seq
        <5>1. PICK i \in 1 .. Len(events') : events'[i] = Chunk
            BY <3>3
        <5> QED
            BY <3>2, <4>1, <5>1 DEF IsChunk
      <4>2. CASE k \in 0 .. (sender.seq - 1)
        <5>1. PICK i \in 1 .. Len(events) : IsChunk(i, t) /\ events[i].sequence_no = k
            BY <3>1, <4>2 DEF AllBelow
        <5> QED
            BY <2>3, <5>1 DEF Kept
      <4> QED
          BY <1>1, <4>1, <4>2
    <3> QED
        BY <2>1, <3>1, <3>4, <3>5, <3>6
  <2>7. Transfer' = Transfer /\ lossy' = lossy /\ (sender.seq + 1) - 1 = sender.seq
      BY <1>1, <2>1 DEF Transfer
  <2> QED
      BY <2>4, <2>5, <2>6, <2>7 DEF SenderInOrder, AllBelow, IsStart, IsChunk
<1>5. CASE SendEnd
    BY <1>2, <1>5 DEF SendEnd
<1>7. CASE RedisRestart
  <2>1. sender.tid \in 0 .. Len(payload) /\ sender' \in {sender, Idle} /\ payload' = payload
        /\ lossy' = lossy \cup ({sender.tid} \ {0})
      BY <1>7, RestartDoes DEF Typed
  <2>2. sender.tid \notin Transfer' \ lossy'
      BY <1>1, <2>1 DEF Transfer
  <2> QED
      BY <1>1, <1>2, <2>1, <2>2 DEF SenderInOrder
<1>8. ASSUME NEW t, t = sender.tid, SameMessages(t), UNCHANGED <<payload, sender, complete, lossy>>, Grows
      PROVE  SenderInOrder'
  <2>1. CASE t \in Transfer \ lossy
    <3>1. /\ \E i \in 1 .. Len(events) : IsStart(i, t)
          /\ \A i \in 1 .. Len(events) : IsChunk(i, t) => events[i].sequence_no < sender.seq
          /\ AllBelow(t, sender.seq, Len(events)) /\ t \notin complete
        BY <1>8, <2>1 DEF SenderInOrder
    <3>2. /\ Len(events) \in Nat /\ Len(events') \in Nat /\ Len(events) <= Len(events')
          /\ \A i \in 1 .. Len(events) : /\ IsStart(i, t)' <=> IsStart(i, t)
                                         /\ IsChunk(i, t)' <=> IsChunk(i, t)
                                         /\ events'[i] = events[i]
          /\ \A i \in 1 .. Len(events') : IsChunk(i, t)' => i \in 1 .. Len(events)
        BY <1>8 DEF SameMessages, IsStart, IsChunk
    <3>3. \E i \in 1 .. Len(events') : IsStart(i, t)'
        BY <3>1, <3>2
    <3>4. \A i \in 1 .. Len(events') : IsChunk(i, t)' => events'[i].sequence_no < sender.seq
        BY <3>1, <3>2
    <3>5. \A k \in 0 .. (sender.seq - 1) :
              \E i \in 1 .. Len(events') : IsChunk(i, t)' /\ events'[i].sequence_no = k
      <4> TAKE k \in 0 .. (sender.seq - 1)
      <4>1. PICK i \in 1 .. Len(events) : IsChunk(i, t) /\ events[i].sequence_no = k
          BY <3>1 DEF AllBelow
      <4> QED
          BY <3>2, <4>1
    <3> QED
        BY <1>1, <1>8, <3>1, <3>3, <3>4, <3>5 DEF SenderInOrder, AllBelow, IsStart, IsChunk
  <2>2. CASE t \notin Transfer \ lossy
      BY <1>1, <1>8, <2>2 DEF SenderInOrder, Transfer
  <2> QED
      BY <2>1, <2>2
<1>9. Grows
    BY AlwaysGrows
<1>10. ASSUME NEW w \in Receiver, SendDataRequest(w) PROVE SenderInOrder'
  <2>1. PICK t : t = sender.tid
      OBVIOUS
  <2>2. Added([type |-> "DATA_REQUEST"]) /\ UNCHANGED <<payload, sender, complete, lossy>>
      BY <1>10, RequestDoes
  <2>3. SameMessages(t)
      BY <2>2, AnotherMessage
  <2> QED
      BY <1>8, <1>9, <2>1, <2>2, <2>3
<1>11. ASSUME UNCHANGED <<events, payload, sender, complete, lossy>> PROVE SenderInOrder'
  <2>1. PICK t : t = sender.tid
      OBVIOUS
  <2>2. SameMessages(t)
      BY <1>1, <1>11, NoMessage
  <2> QED
      BY <1>8, <1>9, <1>11, <2>1, <2>2
<1>12. ASSUME NEW w \in Receiver, Receive(w) \/ ReceiveTimeout(w) PROVE SenderInOrder'
    BY <1>11, <1>12 DEF Receive, ReceiveTimeout, sendVars
<1>13. CASE Breaks
    BY <1>2, <1>11, <1>13 DEF Breaks
<1> QED
    BY <1>3, <1>4, <1>5, <1>7, <1>10, <1>12, <1>13, BreakDoes
       DEF Next, SenderStep, ReceiverStep, TimeoutInVain, TimeoutEarly

-----------------------------------------------------------------------------
(* The receivers.                                                          *)

(* The stream got longer, or not, and no transfer was started again. *)
Longer ==
    /\ Len(events) \in Nat /\ Len(events') \in Nat /\ Len(events) <= Len(events')
    /\ \A i \in 1 .. Len(events) : events'[i] = events[i]
    /\ \A i \in Len(events) + 1 .. Len(events') :
          events'[i].type = "DATA_START" => events'[i].tid \notin Transfer

(* The transfers a receiver knows of are transfers. *)
LEMMA KnownTransfers ==
    ASSUME Typed, NEW w \in Receiver
    PROVE  /\ rx[w].tid \in 0 .. Len(payload) /\ discarded[w] \subseteq 0 .. Len(payload)
           /\ (discarded[w] \cup {rx[w].tid}) \ {0} \subseteq Transfer
           /\ lastId[w] \in Nat
<1>1. rx[w].tid \in 0 .. Len(payload) /\ discarded[w] \subseteq 0 .. Len(payload) /\ lastId[w] \in Nat
    BY DEF Typed, Rx
<1> QED
    BY <1>1, PayloadFacts DEF Transfer

(* A receiver that takes no step: what others send changes nothing for it. *)
LEMMA ReceiverFrame ==
    ASSUME Typed, Grows, Longer, NEW w \in Receiver, OfTransfer(w), PastStart(w), InOrder(w),
           rx'[w] = rx[w], lastId'[w] = lastId[w], discarded'[w] = discarded[w], lossy' = lossy,
           \/ rpc'[w] = rpc[w] \/ rpc'[w] = "raised"
           \/ rpc[w] = "request" /\ rpc'[w] = "receive"
    PROVE  OfTransfer(w)' /\ PastStart(w)' /\ InOrder(w)'
<1>1. /\ (discarded[w] \cup {rx[w].tid}) \ {0} \subseteq Transfer
      /\ lastId[w] \in Nat /\ lastId[w] <= Len(events) /\ 0 \notin Transfer'
    BY KnownTransfers DEF OfTransfer, Transfer
<1>2. OfTransfer(w)'
    BY <1>1, SMTT(60) DEF OfTransfer, Grows, Longer
<1>3. PastStart(w)'
  <2> SUFFICES ASSUME NEW t \in (discarded[w] \cup {rx[w].tid}) \ {0},
                      NEW i \in lastId[w] + 1 .. Len(events')
               PROVE  ~IsStart(i, t)'
      BY DEF PastStart
  <2>1. CASE i \in 1 .. Len(events)
      BY <1>1, <2>1 DEF PastStart, Longer, IsStart
  <2>2. CASE i \in Len(events) + 1 .. Len(events')
      BY <1>1, <2>2 DEF Longer, IsStart
  <2> QED
      BY <1>1, <2>1, <2>2 DEF Longer
<1>4. InOrder(w)'
  <2> SUFFICES ASSUME rpc'[w] = "receive", rx[w].tid \in Transfer' \ lossy', Started(w)'
               PROVE  InOrder(w)'
      BY DEF InOrder
  <2>1. rx[w].tid # 0 /\ rx[w].tid \in Transfer \ lossy
      BY <1>1
  <2>2. rpc[w] = "receive"
      BY <2>1 DEF OfTransfer
  <2>3. \A i \in 1 .. lastId[w] : events'[i] = events[i]
      BY <1>1 DEF Longer
  <2>4. Started(w)
      BY <2>3 DEF Started, IsStart
  <2>5. payload'[rx[w].tid] = payload[rx[w].tid]
      BY <2>1 DEF Grows
  <2>6. /\ \A k \in Nat : k \in rx[w].seen <=>
              \E i \in 1 .. lastId[w] : IsChunk(i, rx[w].tid) /\ events[i].sequence_no = k
        /\ \E n \in Nat : rx[w].seen = 0 .. (n - 1) /\ rx[w].buf = Prefix(payload[rx[w].tid], n)
      BY <2>1, <2>2, <2>4 DEF InOrder
  <2>7. \A k \in Nat : k \in rx[w].seen <=>
            \E i \in 1 .. lastId[w] : /\ events'[i].type = "DATA_CHUNK" /\ events'[i].tid = rx[w].tid
                                      /\ events'[i].sequence_no = k
      BY <2>3, <2>6, SMTT(60) DEF IsChunk
  <2> QED
      BY <2>5, <2>6, <2>7 DEF InOrder, IsChunk
<1> QED
    BY <1>2, <1>3, <1>4

(* Redis comes back empty: there is nothing a receiver could confuse. *)
LEMMA ReceiverRestart ==
    ASSUME Typed, RedisRestart, NEW w \in Receiver, OfTransfer(w), PastStart(w)
    PROVE  OfTransfer(w)' /\ PastStart(w)' /\ InOrder(w)'
<1>1. /\ Len(events') = 0 /\ lastId'[w] = 0 /\ rx'[w] = rx[w] /\ discarded'[w] = discarded[w]
      /\ rpc'[w] = rpc[w] \/ rpc'[w] = "raised"
      /\ payload' = payload
    BY RestartDoes
<1>2. PastStart(w)'
    BY <1>1 DEF PastStart
<1>3. InOrder(w)'
    BY <1>1 DEF InOrder, Started
<1> QED
    BY <1>1, <1>2, <1>3 DEF OfTransfer

(* A receiver that keeps a chunk keeps the next one: the chunks it has not *)
(* seen and that come before it on the stream are none.                    *)
LEMMA KeepsNext ==
    ASSUME Typed, EventsOfTransfers, StreamInOrder, NEW w \in Receiver, InOrder(w),
           rpc[w] = "receive", lastId[w] + 1 \in 1 .. Len(events), Started(w), rx[w].tid \notin lossy,
           Keeps(w, events[lastId[w] + 1])
    PROVE  \E n \in Nat :
              /\ events[lastId[w] + 1].sequence_no = n
              /\ rx[w].seen = 0 .. (n - 1)
              /\ rx[w].buf \o events[lastId[w] + 1].chunk = Prefix(payload[rx[w].tid], n + 1)
<1> DEFINE m == events[lastId[w] + 1]
           t == rx[w].tid
           d == payload[t]
           k == m.sequence_no
<1>1. /\ t \in Transfer /\ k \in Nat /\ Offset(k) < Len(d) /\ m.chunk = Slice(d, Offset(k))
      /\ k \notin rx[w].seen /\ IsChunk(lastId[w] + 1, t) /\ lastId[w] \in Nat
    BY KnownTransfers DEF Keeps, EventsOfTransfers, OfPayload, IsChunk
<1>2. PICK n \in Nat : rx[w].seen = 0 .. (n - 1) /\ rx[w].buf = Prefix(d, n)
    BY <1>1 DEF InOrder
<1>3. \A c \in Nat : c \in rx[w].seen <=>
          \E i \in 1 .. lastId[w] : IsChunk(i, t) /\ events[i].sequence_no = c
    BY <1>1 DEF InOrder
<1>4. AllBelow(t, k, (lastId[w] + 1) - 1)
    BY <1>1 DEF StreamInOrder, Ordered, NoGap
<1>5. ~(n < k)
  <2> SUFFICES ASSUME n < k PROVE FALSE
      OBVIOUS
  <2>1. n \in 0 .. (k - 1) /\ (lastId[w] + 1) - 1 = lastId[w]
      BY <1>1
  <2>2. \E i \in 1 .. lastId[w] : IsChunk(i, t) /\ events[i].sequence_no = n
      BY <1>4, <2>1 DEF AllBelow
  <2>3. n \in rx[w].seen
      BY <1>3, <2>2
  <2> QED
      BY <1>2, <2>3
<1>6. k = n
    BY <1>1, <1>2, <1>5
<1>7. d \in Seq(Byte)
    BY <1>1, PayloadFacts
<1>8. Prefix(d, n) \o m.chunk = Prefix(d, n + 1)
  <2> HIDE DEF d, m, k
  <2>1. Offset(n) < Len(d) /\ m.chunk = Slice(d, Offset(n))
      BY <1>1, <1>6
  <2> QED
      BY <1>7, <2>1, ChunkExtendsPrefix
<1> QED
    BY <1>2, <1>6, <1>8

(* The step of a receiver that waits *)
LEMMA ReceiverStepInv ==
    ASSUME Typed, EventsOfTransfers, StartedOnce, StreamInOrder,
           NEW w \in Receiver, OfTransfer(w), PastStart(w), InOrder(w), Receive(w) \/ ReceiveTimeout(w)
    PROVE  OfTransfer(w)' /\ PastStart(w)' /\ InOrder(w)'
<1> DEFINE m == events[lastId[w] + 1]
<1>1. /\ lastId[w] \in Nat /\ Len(events) \in Nat /\ lastId[w] <= Len(events)
      /\ rx[w].tid \in 0 .. Len(payload) /\ (discarded[w] \cup {rx[w].tid}) \ {0} \subseteq Transfer
      /\ 0 \notin Transfer
  <2>1. Len(events) \in Nat
      BY LenProperties DEF Typed, IsSeq
  <2> QED
      BY <2>1, KnownTransfers DEF OfTransfer, Transfer
<1>2. Others(w) /\ rpc[w] = "receive" /\ ((GivesUp(w) /\ lastId'[w] <= Len(events)) \/
        /\ lastId[w] + 1 \in 1 .. Len(events)
        /\ Begins(w, m) \/ Keeps(w, m) \/ Skips(w, m) \/ Accepts(w, m))
    BY <1>1, ReceiveDoes
<1>3. UNCHANGED <<events, payload, lossy>> /\ Transfer' = Transfer
    BY <1>2 DEF Others, Transfer
<1>4. CASE GivesUp(w) /\ lastId'[w] <= Len(events)
  <2>1. /\ rx'[w].tid = 0 /\ discarded'[w] = discarded[w] \cup {rx[w].tid} /\ rpc'[w] \in {"request", "failed"}
        /\ lastId'[w] \in {lastId[w], lastId[w] + 1}
      BY <1>4 DEF GivesUp, NotStarted
  <2>2. OfTransfer(w)'
      BY <1>3, <1>4, <2>1 DEF OfTransfer
  <2>3. PastStart(w)'
    <3> SUFFICES ASSUME NEW t \in (discarded[w] \cup {rx[w].tid}) \ {0}, NEW i \in lastId'[w] + 1 .. Len(events)
                 PROVE  ~IsStart(i, t)
        BY <1>3, <2>1 DEF PastStart, IsStart
    <3>1. i \in lastId[w] + 1 .. Len(events)
        BY <1>1, <2>1
    <3> QED
        BY <3>1 DEF PastStart
  <2> QED
      BY <2>1, <2>2, <2>3 DEF InOrder
<1>5. CASE lastId[w] + 1 \in 1 .. Len(events) /\ Begins(w, m)
  <2> DEFINE t == m.tid
  <2>1. /\ rx'[w] = [tid |-> t, size |-> m.total_size, checksum |-> m.checksum, buf |-> << >>, seen |-> {}]
        /\ discarded'[w] = discarded[w] \cup {rx[w].tid}
        /\ rpc'[w] = "receive" /\ lastId'[w] = lastId[w] + 1 /\ IsStart(lastId[w] + 1, t)
      BY <1>5 DEF Begins, IsStart
  <2>2. t \in Transfer /\ m.total_size = Len(payload[t]) /\ m.checksum = sha256_bytes(payload[t])
      BY <1>5 DEF Begins, EventsOfTransfers, OfPayload
  <2>3. lastId[w] + 1 \in lastId[w] + 1 .. Len(events)
      BY <1>1, <1>5
  <2>4. t \notin discarded'[w]
      BY <1>1, <2>1, <2>2, <2>3 DEF PastStart
  <2>5. OneStart(t)
      BY <2>2 DEF StartedOnce
  <2> HIDE DEF m, t
  <2>6. /\ rx'[w].tid = t /\ rx'[w].size = m.total_size /\ rx'[w].checksum = m.checksum
        /\ rx'[w].buf = << >> /\ rx'[w].seen = {}
      BY <2>1
  <2>7. OfTransfer(w)'
      BY <1>1, <1>3, <1>5, <2>1, <2>2, <2>6 DEF OfTransfer
  <2>8. PastStart(w)'
    <3>1. ASSUME NEW u \in (discarded'[w] \cup {t}) \ {0}, NEW i \in lastId'[w] + 1 .. Len(events)
          PROVE  ~IsStart(i, u)
      <4>1. i \in lastId[w] + 1 .. Len(events) /\ i \in 1 .. Len(events) /\ i # lastId[w] + 1
          BY <1>1, <2>1
      <4>2. CASE u \in (discarded[w] \cup {rx[w].tid}) \ {0}
          BY <4>1, <4>2 DEF PastStart
      <4>3. CASE u = t
          BY <1>5, <2>1, <2>5, <4>1, <4>3 DEF OneStart
      <4> QED
          BY <2>1, <4>2, <4>3
    <3> QED
        BY <1>3, <2>4, <2>6, <3>1 DEF PastStart, IsStart
  <2>9. ASSUME t \notin lossy
        PROVE  \A i \in 1 .. lastId[w] + 1 : ~IsChunk(i, t)
    <3> SUFFICES ASSUME NEW i \in 1 .. lastId[w] + 1, IsChunk(i, t) PROVE FALSE
        OBVIOUS
    <3>1. i \in 1 .. Len(events)
        BY <1>1, <1>5
    <3>2. PICK j \in 1 .. (i - 1) : IsStart(j, t)
        BY <2>2, <2>9, <3>1 DEF StreamInOrder, Ordered, FromStart
    <3>3. j \in 1 .. Len(events) /\ j # lastId[w] + 1
        BY <1>1, <3>1
    <3> QED
        BY <1>5, <2>1, <2>5, <3>2, <3>3 DEF OneStart
  <2>10. InOrder(w)'
    <3>1. payload[t] \in Seq(Byte)
        BY <2>2, PayloadFacts
    <3>2. Prefix(payload[t], 0) = << >>
        BY <3>1, PrefixEnds
    <3>3. 0 \in Nat /\ {} = 0 .. (0 - 1)
        OBVIOUS
    <3> QED
        BY <1>3, <2>1, <2>6, <2>9, <3>2, <3>3 DEF InOrder, IsChunk
  <2> QED
      BY <2>7, <2>8, <2>10
<1>6. ASSUME lastId[w] + 1 \in 1 .. Len(events), rx'[w].tid = rx[w].tid, rx'[w].size = rx[w].size,
             rx'[w].checksum = rx[w].checksum, discarded'[w] = discarded[w], lastId'[w] = lastId[w] + 1,
             rpc'[w] = "receive" \/ (rpc'[w] = "received" /\ rx[w].tid # 0)
      PROVE  OfTransfer(w)' /\ PastStart(w)'
  <2>1. OfTransfer(w)'
      BY <1>1, <1>3, <1>6 DEF OfTransfer
  <2>2. ASSUME NEW t \in (discarded[w] \cup {rx[w].tid}) \ {0}, NEW i \in lastId[w] + 2 .. Len(events)
        PROVE  ~IsStart(i, t)
    <3>1. i \in lastId[w] + 1 .. Len(events)
        BY <1>1
    <3> QED
        BY <3>1 DEF PastStart
  <2>3. (lastId[w] + 1) + 1 = lastId[w] + 2
      BY <1>1
  <2> QED
      BY <1>3, <1>6, <2>1, <2>2, <2>3 DEF PastStart, IsStart
<1>7. CASE lastId[w] + 1 \in 1 .. Len(events) /\ Keeps(w, m)
  <2>0. PICK t, b, q : t = rx[w].tid /\ b = rx[w].buf \o m.chunk /\ q = rx[w].seen \cup {m.sequence_no}
      OBVIOUS
  <2>1. /\ rx'[w].tid = t /\ rx'[w].size = rx[w].size /\ rx'[w].checksum = rx[w].checksum
        /\ rx'[w].seen = q /\ rx'[w].buf = b
        /\ discarded'[w] = discarded[w] /\ lastId'[w] = lastId[w] + 1 /\ rpc'[w] = "receive"
        /\ IsChunk(lastId[w] + 1, t)
    <3>1. m.type = "DATA_CHUNK" /\ m.tid = t
        BY <1>7, <2>0 DEF Keeps
    <3>2. IsChunk(lastId[w] + 1, t)
        BY <3>1 DEF IsChunk
    <3>3. /\ rx'[w] = [tid |-> t, size |-> rx[w].size, checksum |-> rx[w].checksum, buf |-> b, seen |-> q]
          /\ discarded'[w] = discarded[w] /\ lastId'[w] = lastId[w] + 1 /\ rpc'[w] = "receive"
        BY <1>7, <2>0 DEF Keeps
    <3> QED
        BY <3>2, <3>3
  <2> HIDE DEF m
  <2>2. OfTransfer(w)' /\ PastStart(w)'
      BY <1>6, <1>7, <2>0, <2>1
  <2>3. ASSUME t \in Transfer \ lossy, \E i \in 1 .. lastId[w] + 1 : IsStart(i, t)
        PROVE  /\ \A k \in Nat : k \in rx'[w].seen <=>
                     \E i \in 1 .. lastId[w] + 1 : IsChunk(i, t) /\ events[i].sequence_no = k
               /\ \E n \in Nat : rx'[w].seen = 0 .. (n - 1) /\ rx'[w].buf = Prefix(payload[t], n)
    <3>1. Started(w)
      <4>1. PICK i \in 1 .. lastId[w] + 1 : IsStart(i, t)
          BY <2>3
      <4>2. i # lastId[w] + 1
          BY <2>1, <4>1 DEF IsStart, IsChunk
      <4>3. i \in 1 .. lastId[w]
          BY <1>1, <4>2
      <4> QED
          BY <2>0, <4>1, <4>3 DEF Started
    <3>2. PICK n \in Nat : /\ m.sequence_no = n /\ rx[w].seen = 0 .. (n - 1)
                           /\ rx[w].buf \o m.chunk = Prefix(payload[t], n + 1)
        BY <1>2, <1>7, <2>0, <2>3, <3>1, KeepsNext DEF m
    <3>3. rx'[w].seen = 0 .. ((n + 1) - 1) /\ rx'[w].buf = Prefix(payload[t], n + 1)
      <4>1. 0 .. ((n + 1) - 1) = (0 .. (n - 1)) \cup {n}
          OBVIOUS
      <4> QED
          BY <2>0, <2>1, <3>2, <4>1
    <3>4. ASSUME NEW k \in Nat
          PROVE  k \in rx[w].seen \cup {m.sequence_no} <=>
                     \E i \in 1 .. lastId[w] + 1 : IsChunk(i, t) /\ events[i].sequence_no = k
      <4>1. k \in rx[w].seen <=> \E i \in 1 .. lastId[w] : IsChunk(i, t) /\ events[i].sequence_no = k
          BY <1>2, <2>0, <2>3, <3>1 DEF InOrder
      <4>2. \A i \in 1 .. lastId[w] + 1 : i \in 1 .. lastId[w] \/ i = lastId[w] + 1
          BY <1>1
      <4>3. 1 .. lastId[w] \subseteq 1 .. lastId[w] + 1 /\ lastId[w] + 1 \in 1 .. lastId[w] + 1
          BY <1>1
      <4>4. events[lastId[w] + 1].sequence_no = m.sequence_no
          BY DEF m
      <4> QED
          BY <2>1, <4>1, <4>2, <4>3, <4>4
    <3>5. n + 1 \in Nat
        OBVIOUS
    <3>6. \E c \in Nat : rx'[w].seen = 0 .. (c - 1) /\ rx'[w].buf = Prefix(payload[t], c)
        BY <3>3, <3>5
    <3> QED
        BY <2>0, <2>1, <3>4, <3>6
  <2>4. InOrder(w)'
    <3> SUFFICES ASSUME t \in Transfer \ lossy, Started(w)' PROVE InOrder(w)'
        BY <1>3, <2>1 DEF InOrder
    <3>1. \E i \in 1 .. lastId[w] + 1 : IsStart(i, t)
        BY <1>3, <2>1 DEF Started, IsStart
    <3>2. /\ \A k \in Nat : k \in rx'[w].seen <=>
                  \E i \in 1 .. lastId[w] + 1 : IsChunk(i, t) /\ events[i].sequence_no = k
          /\ \E n \in Nat : rx'[w].seen = 0 .. (n - 1) /\ rx'[w].buf = Prefix(payload[t], n)
        BY <2>3, <3>1
    <3>3. \A i : IsChunk(i, t)' <=> IsChunk(i, t)
        BY <1>3 DEF IsChunk
    <3> QED
        BY <1>3, <2>1, <3>2, <3>3 DEF InOrder
  <2> QED
      BY <2>2, <2>4
<1>8. CASE lastId[w] + 1 \in 1 .. Len(events) /\ Skips(w, m)
  <2> DEFINE t == rx[w].tid
  <2>1. /\ rx'[w] = rx[w] /\ discarded'[w] = discarded[w] /\ lastId'[w] = lastId[w] + 1 /\ rpc'[w] = "receive"
        /\ ~IsStart(lastId[w] + 1, t)
        /\ IsChunk(lastId[w] + 1, t) => events[lastId[w] + 1].sequence_no \in rx[w].seen
      BY <1>8 DEF Skips, IsChunk, IsStart
  <2> HIDE DEF m, t
  <2>2. OfTransfer(w)' /\ PastStart(w)'
      BY <1>6, <1>8, <2>1
  <2>3. ASSUME t \in Transfer \ lossy, \E i \in 1 .. lastId[w] + 1 : IsStart(i, t)
        PROVE  /\ \A k \in Nat : k \in rx[w].seen <=>
                     \E i \in 1 .. lastId[w] + 1 : IsChunk(i, t) /\ events[i].sequence_no = k
               /\ \E n \in Nat : rx[w].seen = 0 .. (n - 1) /\ rx[w].buf = Prefix(payload[t], n)
    <3>1. \A i \in 1 .. lastId[w] + 1 : i \in 1 .. lastId[w] \/ i = lastId[w] + 1
        BY <1>1
    <3>2. Started(w)
        BY <2>1, <2>3, <3>1 DEF Started, t
    <3>3. 1 .. lastId[w] \subseteq 1 .. lastId[w] + 1
        BY <1>1
    <3>4. /\ \A k \in Nat : k \in rx[w].seen <=>
                \E i \in 1 .. lastId[w] : IsChunk(i, t) /\ events[i].sequence_no = k
          /\ \E n \in Nat : rx[w].seen = 0 .. (n - 1) /\ rx[w].buf = Prefix(payload[t], n)
        BY <1>2, <1>8, <2>3, <3>2 DEF InOrder, Skips, t
    <3>5. ASSUME NEW k \in Nat, NEW i \in 1 .. lastId[w] + 1, IsChunk(i, t), events[i].sequence_no = k
          PROVE  k \in rx[w].seen
        BY <2>1, <3>1, <3>4, <3>5
    <3> QED
        BY <3>3, <3>4, <3>5
  <2>4. InOrder(w)'
      BY <1>3, <2>1, <2>3 DEF InOrder, Started, IsStart, IsChunk, t
  <2> QED
      BY <2>2, <2>4
<1>9. CASE lastId[w] + 1 \in 1 .. Len(events) /\ Accepts(w, m)
  <2>1. /\ rx'[w] = rx[w] /\ discarded'[w] = discarded[w] /\ lastId'[w] = lastId[w] + 1 /\ rpc'[w] = "received"
        /\ m.type = "DATA_END" /\ m.tid = rx[w].tid
      BY <1>9 DEF Accepts
  <2>2. rx[w].tid # 0
      BY <1>1, <1>9, <2>1 DEF EventsOfTransfers, OfPayload
  <2> HIDE DEF m
  <2>3. OfTransfer(w)' /\ PastStart(w)'
      BY <1>6, <1>9, <2>1, <2>2
  <2> QED
      BY <2>1, <2>3 DEF InOrder
<1> QED
    BY <1>2, <1>4, <1>5, <1>7, <1>8, <1>9

(* Every step keeps what is known of the receivers. *)
LEMMA ReceiversStep ==
    ASSUME IInv, [Next]_vars
    PROVE  ReceiverInv'
<1>1. /\ Typed /\ EventsOfTransfers /\ StartedOnce /\ StreamInOrder /\ ReceiverInv /\ Grows
      /\ Len(payload) \in Nat
    BY AlwaysGrows, PayloadFacts DEF IInv
<1> SUFFICES ASSUME NEW v \in Receiver PROVE OfTransfer(v)' /\ PastStart(v)' /\ InOrder(v)'
    BY DEF ReceiverInv
<1>2. OfTransfer(v) /\ PastStart(v) /\ InOrder(v)
    BY <1>1 DEF ReceiverInv
<1>3. ASSUME NEW m, Added(m), m.type = "DATA_START" => m.tid \notin Transfer PROVE Longer
    BY <1>3 DEF Added, Longer
<1>4. ASSUME UNCHANGED events PROVE Longer
  <2>1. Len(events) \in Nat
      BY <1>1, LenProperties DEF Typed, IsSeq
  <2> QED
      BY <1>4, <2>1 DEF Longer
<1>5. ASSUME NEW p \in Payload, SendStart(p) PROVE OfTransfer(v)' /\ PastStart(v)' /\ InOrder(v)'
  <2>1. Added(Header(p)) /\ UNCHANGED <<recvVars, lossy>>
      BY <1>1, <1>5, StartDoes
  <2>2. Header(p).tid \notin Transfer
      BY <1>1 DEF Header, Transfer
  <2>3. Longer
      BY <1>3, <2>1, <2>2
  <2> QED
      BY <1>1, <1>2, <2>1, <2>3, ReceiverFrame DEF recvVars
<1>6. CASE SendChunk
  <2>1. Added(Chunk) /\ UNCHANGED <<recvVars, lossy>>
      BY <1>1, <1>6, ChunkDoes
  <2>2. Longer
      BY <1>3, <2>1 DEF Chunk
  <2> QED
      BY <1>1, <1>2, <2>1, <2>2, ReceiverFrame DEF recvVars
<1>7. CASE SendEnd
  <2>1. Added(Trailer) /\ UNCHANGED <<recvVars, lossy>>
      BY <1>1, <1>7, EndDoes
  <2>2. Longer
      BY <1>3, <2>1 DEF Trailer
  <2> QED
      BY <1>1, <1>2, <2>1, <2>2, ReceiverFrame DEF recvVars
<1>8. CASE Breaks
  <2>1. /\ UNCHANGED <<events, rx, lastId, discarded, lossy>>
        /\ rpc'[v] = rpc[v] \/ rpc'[v] = "raised"
      BY <1>8 DEF Breaks
  <2> QED
      BY <1>1, <1>2, <1>4, <2>1, ReceiverFrame
<1>9. CASE RedisRestart
    BY <1>1, <1>2, <1>9, ReceiverRestart
<1>10. ASSUME NEW w \in Receiver, SendDataRequest(w) PROVE OfTransfer(v)' /\ PastStart(v)' /\ InOrder(v)'
  <2>1. /\ Added([type |-> "DATA_REQUEST"]) /\ rpc[w] = "request" /\ rpc' = [rpc EXCEPT ![w] = "receive"]
        /\ UNCHANGED <<lastId, rx, discarded, lossy>>
      BY <1>1, <1>10, RequestDoes
  <2>2. Longer
      BY <1>3, <2>1
  <2>3. rpc'[v] = rpc[v] \/ (rpc[v] = "request" /\ rpc'[v] = "receive")
      BY <1>1, <2>1 DEF Typed
  <2> QED
      BY <1>1, <1>2, <2>1, <2>2, <2>3, ReceiverFrame
<1>11. ASSUME NEW w \in Receiver, Receive(w) \/ ReceiveTimeout(w)
       PROVE  OfTransfer(v)' /\ PastStart(v)' /\ InOrder(v)'
  <2>1. CASE v = w
      BY <1>1, <1>2, <1>11, <2>1, ReceiverStepInv
  <2>2. CASE v # w
    <3>1. lastId[w] <= Len(events)
        BY <1>1 DEF ReceiverInv, OfTransfer
    <3>2. Others(w)
        BY <1>1, <1>11, <3>1, ReceiveDoes
    <3>3. UNCHANGED <<events, lossy>> /\ rpc'[v] = rpc[v] /\ lastId'[v] = lastId[v]
          /\ rx'[v] = rx[v] /\ discarded'[v] = discarded[v]
        BY <2>2, <3>2 DEF Others
    <3> QED
        BY <1>1, <1>2, <1>4, <3>3, ReceiverFrame
  <2> QED
      BY <2>1, <2>2
<1> QED
    BY <1>1, <1>5, <1>6, <1>7, <1>8, <1>9, <1>10, <1>11, BreakDoes
       DEF Next, SenderStep, ReceiverStep, TimeoutInVain, TimeoutEarly

(* The invariant is inductive. *)
LEMMA Inductive == Spec => []IInv
<1>1. Init => IInv
    BY InitInv
<1>2. IInv /\ [Next]_vars => IInv'
  <2> SUFFICES ASSUME IInv, [Next]_vars PROVE IInv'
      OBVIOUS
  <2>1. Typed /\ EventsOfTransfers /\ StartedOnce /\ StreamInOrder /\ SenderInOrder /\ ReceiverInv
      BY DEF IInv
  <2> QED
      BY <2>1, TypedStep, EventsStep, StreamStep, SenderInv, ReceiversStep DEF IInv
<1> QED
    BY <1>1, <1>2, PTL DEF Spec

-----------------------------------------------------------------------------
(* The theorems.                                                           *)

(* _receive_workspace recreates from the start: whatever arrives late, is  *)
(* lost, comes twice or is served again after a crash, the transfer that   *)
(* receive_once accepts is never one that this run began before and gave   *)
(* up; a transfer's DATA_START is read once.                               *)
THEOREM RecreatesFromStart == Spec => []NeverResumed
<1>1. IInv => NeverResumed
  <2> SUFFICES ASSUME IInv, NEW w \in Receiver, rpc[w] = "received" PROVE rx[w].tid \notin discarded[w]
      BY DEF NeverResumed
  <2> QED
      BY DEF IInv, ReceiverInv, OfTransfer, PastStart
<1> QED
    BY <1>1, Inductive, PTL

(* At the DATA_END of a transfer that lost nothing, receive_once has every *)
(* byte of it, in order and once.                                          *)
LEMMA EndIsValid ==
    ASSUME IInv, NEW w \in Receiver, rpc[w] = "receive", lastId[w] + 1 \in 1 .. Len(events),
           events[lastId[w] + 1].type = "DATA_END", rx[w].tid = events[lastId[w] + 1].tid,
           rx[w].tid \notin lossy
    PROVE  Valid(w)
<1> DEFINE m == events[lastId[w] + 1]
           t == rx[w].tid
           N == m.total_chunks
           d == payload[t]
<1>1. /\ Typed /\ EventsOfTransfers /\ StreamInOrder /\ OfTransfer(w) /\ PastStart(w) /\ InOrder(w)
      /\ lastId[w] \in Nat
    BY KnownTransfers DEF IInv, ReceiverInv
<1>2. IsEnd(lastId[w] + 1, t) /\ t \in Transfer
    BY <1>1 DEF EventsOfTransfers, OfPayload, IsEnd
<1>3. FromStart(t) /\ WholeAt(t, N, (lastId[w] + 1) - 1) /\ (lastId[w] + 1) - 1 = lastId[w]
    BY <1>1, <1>2 DEF StreamInOrder, Ordered, ToTheEnd
<1>4. Started(w)
    BY <1>2, <1>3 DEF FromStart, Started
<1>5. PICK n \in Nat : rx[w].seen = 0 .. (n - 1) /\ rx[w].buf = Prefix(d, n)
    BY <1>1, <1>2, <1>4 DEF InOrder
<1>6. \A k \in Nat : k \in rx[w].seen <=>
          \E i \in 1 .. lastId[w] : IsChunk(i, t) /\ events[i].sequence_no = k
    BY <1>1, <1>2, <1>4 DEF InOrder
<1>7. /\ N \in Nat /\ Offset(N) >= Len(d) /\ AllBelow(t, N, lastId[w])
    BY <1>3 DEF WholeAt
<1>8. ~(n < N)
  <2> SUFFICES ASSUME n < N PROVE FALSE
      OBVIOUS
  <2>1. n \in 0 .. (N - 1)
      BY <1>7
  <2>2. \E i \in 1 .. lastId[w] : IsChunk(i, t) /\ events[i].sequence_no = n
      BY <1>7, <2>1 DEF AllBelow
  <2>3. n \in rx[w].seen
      BY <1>6, <2>2
  <2> QED
      BY <1>5, <2>3
<1>9. ~(N < n)
  <2> SUFFICES ASSUME N < n PROVE FALSE
      OBVIOUS
  <2>1. N \in rx[w].seen
      BY <1>5, <1>7
  <2>2. PICK i \in 1 .. lastId[w] : IsChunk(i, t) /\ events[i].sequence_no = N
      BY <1>6, <1>7, <2>1
  <2>3. i \in 1 .. Len(events)
      BY <1>1 DEF OfTransfer
  <2>4. N < N
      BY <1>3, <2>2, <2>3 DEF WholeAt
  <2> QED
      BY <1>7, <2>4
<1>10. n = N
    BY <1>5, <1>7, <1>8, <1>9
<1>11. d \in Seq(Byte)
    BY <1>1, <1>2, PayloadFacts
<1>12. rx[w].buf = d
  <2> HIDE DEF d, N
  <2> QED
      BY <1>5, <1>7, <1>10, <1>11, PrefixEnds
<1>13. rx[w].size = Len(d) /\ rx[w].checksum = sha256_bytes(d)
    BY <1>1, <1>2 DEF OfTransfer, Transfer
<1> QED
    BY <1>12, <1>13 DEF Valid

(* The size and the checksum that receive_once compares reject a transfer  *)
(* only when a restart of Redis may have taken a part of it: not because   *)
(* of an attempt before, a chunk that came twice, another transfer on the  *)
(* stream, or a sender that was restarted.                                 *)
THEOREM RejectedOnlyIfLost == Spec => OnlyLossInvalidates
<1> DEFINE A == \A w \in Receiver :
                   /\ rpc[w] = "receive" /\ lastId[w] < Len(events) /\ lastId'[w] = lastId[w] + 1
                   /\ events[lastId[w] + 1].type = "DATA_END" /\ rx[w].tid = events[lastId[w] + 1].tid
                   /\ rx[w].tid \notin lossy
                   => rpc'[w] = "received"
<1>1. IInv /\ [Next]_vars => [A]_vars
  <2> SUFFICES ASSUME IInv, [Next]_vars, NEW w \in Receiver,
                      rpc[w] = "receive", lastId[w] < Len(events), lastId'[w] = lastId[w] + 1,
                      events[lastId[w] + 1].type = "DATA_END", rx[w].tid = events[lastId[w] + 1].tid,
                      rx[w].tid \notin lossy
               PROVE  rpc'[w] = "received"
      OBVIOUS
  <2>1. Typed /\ EventsOfTransfers /\ lastId[w] \in Nat /\ Len(events) \in Nat
    <3>1. Typed /\ EventsOfTransfers
        BY DEF IInv
    <3> QED
        BY <3>1, KnownTransfers, LenProperties DEF Typed, IsSeq
  <2>2. Receive(w)
    <3>1. lastId'[w] # lastId[w] /\ lastId'[w] # 0
        BY <2>1
    <3>2. ASSUME NEW v \in Receiver, Receive(v), v # w PROVE lastId'[w] = lastId[w]
        BY <2>1, <3>2 DEF Receive, Typed
    <3>3. UNCHANGED lastId \/ RedisRestart \/ \E v \in Receiver : Receive(v)
        BY <2>1, BreakDoes
           DEF Next, SenderStep, SendStart, SendChunk, SendEnd, Breaks, ReceiverStep, SendDataRequest,
               TimeoutInVain, TimeoutEarly, ReceiveTimeout, recvVars
    <3>4. ~RedisRestart
        BY <3>1 DEF RedisRestart
    <3> QED
        BY <3>1, <3>2, <3>3, <3>4
  <2>3. Valid(w)
    <3>1. lastId[w] + 1 \in 1 .. Len(events)
        BY <2>1
    <3> QED
        BY <3>1, EndIsValid
  <2>4. OnEnd(w, events[lastId[w] + 1])
      BY <2>2 DEF Receive, OnStart, OnChunk, Ignored
  <2> QED
      BY <2>1, <2>3, <2>4 DEF OnEnd, Typed
<1> QED
    BY <1>1, Inductive, PTL DEF Spec, OnlyLossInvalidates

(* What the contract sees *)
Offered == {payload[t] : t \in complete}
Outcomes == [w \in Receiver |-> Outcome(w)]

(* A payload that is complete is not changed by another transfer. *)
LEMMA OfferedKept ==
    ASSUME Typed, Grows, complete' = complete
    PROVE  Offered' = Offered
<1>1. \A t \in complete : payload'[t] = payload[t]
    BY DEF Typed, Grows
<1> QED
    BY <1>1 DEF Offered

(* The chunked transfer implements its contract: DATA_END offers the       *)
(* payload, a receive_once that returns accepts one payload that was       *)
(* offered, the last failed attempt and a Redis call that raises give up,  *)
(* and no other step is seen.                                              *)
THEOREM Refinement == Spec => Implements
<1>1. Init => Contract!ContractInit
  <2> SUFFICES ASSUME Init PROVE Contract!ContractInit
      OBVIOUS
  <2>1. {payload[t] : t \in complete} = {}
      BY DEF Init
  <2>2. [w \in Receiver |-> Outcome(w)] = [w \in Receiver |-> "waiting"]
      BY DEF Init, Outcome, Waiting
  <2> QED
      BY <2>1, <2>2 DEF Init, Contract!ContractInit
<1>2. IInv /\ IInv' /\ [Next]_vars => [Contract!ContractNext]_Contract!cvars
  <2> SUFFICES ASSUME IInv, IInv', [Next]_vars
               PROVE  Contract!ContractNext \/ UNCHANGED <<Offered, Outcomes, data>>
      BY DEF Contract!cvars, Offered, Outcomes
  <2>1. /\ Typed /\ EventsOfTransfers /\ ReceiverInv /\ Grows
        /\ rpc \in [Receiver -> Rpc]
      BY AlwaysGrows DEF IInv, Typed
  <2>2. ASSUME complete' = complete, rpc' = rpc, data' = data PROVE UNCHANGED <<Offered, Outcomes, data>>
      BY <2>1, <2>2, OfferedKept DEF Outcomes, Outcome, Waiting
  <2>3. CASE SendEnd
    <3>0. PICK p : p = payload[sender.tid]
        OBVIOUS
    <3>1. sender.tid \in Transfer /\ complete' = complete \cup {sender.tid} /\ UNCHANGED <<recvVars, payload>>
        BY <2>1, <2>3, EndDoes
    <3>2. p \in Payload
        BY <2>1, <3>0, <3>1, PayloadFacts
    <3>3. Offered' = Offered \cup {p}
        BY <3>0, <3>1 DEF Offered
    <3>4. UNCHANGED <<Outcomes, data>>
        BY <3>1 DEF Outcomes, Outcome, Waiting, recvVars
    <3>5. Contract!Offer(p)
        BY <3>3, <3>4 DEF Contract!Offer, Offered, Outcomes
    <3> QED
        BY <3>2, <3>5 DEF Contract!ContractNext
  <2>4. ASSUME NEW w \in Receiver, SendDataRequest(w) PROVE UNCHANGED <<Offered, Outcomes, data>>
    <3>1. /\ rpc[w] = "request" /\ rpc' = [rpc EXCEPT ![w] = "receive"]
          /\ complete' = complete /\ data' = data
        BY <2>1, <2>4, RequestDoes
    <3>2. \A v \in Receiver : Outcome(v)' = Outcome(v)
        BY <2>1, <3>1 DEF Outcome, Waiting
    <3>3. Outcomes' = Outcomes
        BY <3>2 DEF Outcomes
    <3> QED
        BY <2>1, <3>1, <3>3, OfferedKept
  <2>5. ASSUME NEW w \in Receiver, Receive(w) \/ ReceiveTimeout(w)
        PROVE  Contract!ContractNext \/ UNCHANGED <<Offered, Outcomes, data>>
    <3> DEFINE m == events[lastId[w] + 1]
    <3>1. lastId[w] <= Len(events) /\ OfTransfer(w)
        BY <2>1 DEF ReceiverInv, OfTransfer
    <3>2. Others(w) /\ rpc[w] = "receive" /\ (GivesUp(w) \/
            /\ lastId[w] + 1 \in 1 .. Len(events)
            /\ Begins(w, m) \/ Keeps(w, m) \/ Skips(w, m) \/ Accepts(w, m))
        BY <2>1, <2>5, <3>1, ReceiveDoes
    <3>3. Functions
        BY <2>1, <2>5, ReceiveFunctions
    <3>4. Offered' = Offered
        BY <2>1, <3>2, OfferedKept DEF Others
    <3>5. ASSUME rpc'[w] \in {"request", "receive"} PROVE Outcomes' = Outcomes
      <4>1. \A v \in Receiver : Outcome(v)' = Outcome(v)
          BY <3>2, <3>5 DEF Others, Outcome, Waiting
      <4> QED
          BY <4>1 DEF Outcomes
    <3>6. ASSUME NEW o \in {"received", "failed"}, rpc'[w] = o
          PROVE  Outcomes' = [v \in Receiver |-> IF v = w THEN o ELSE Outcomes[v]]
      <4>1. \A v \in Receiver : Outcome(v)' = IF v = w THEN o ELSE Outcome(v)
          BY <3>2, <3>6 DEF Others, Outcome, Waiting
      <4> QED
          BY <4>1 DEF Outcomes
    <3>7. Outcomes[w] = "waiting"
        BY <3>2 DEF Outcomes, Outcome, Waiting
    <3>8. ASSUME data'[w] = data[w] PROVE data' = data
      <4>1. \A v \in Receiver : data'[v] = data[v]
          BY <3>2, <3>8 DEF Others
      <4>2. data = [v \in Receiver |-> data[v]] /\ data' = [v \in Receiver |-> data'[v]]
          BY <2>1, <3>3 DEF Typed, Functions
      <4> QED
          BY <4>1, <4>2
    <3>9. CASE GivesUp(w)
      <4>1. data' = data /\ rpc'[w] \in {"request", "failed"}
          BY <3>9 DEF GivesUp
      <4>2. CASE rpc'[w] = "failed"
        <5>1. Outcomes' = [v \in Receiver |-> IF v = w THEN "failed" ELSE Outcomes[v]]
            BY <3>6, <4>2
        <5>2. Outcomes' = [v \in Receiver |-> IF v \in {w} THEN "failed" ELSE Outcomes[v]]
            BY <5>1
        <5>3. Contract!GiveUp({w})
            BY <3>4, <3>7, <4>1, <5>2 DEF Contract!GiveUp, Outcomes, Offered
        <5> QED
            BY <5>3 DEF Contract!ContractNext
      <4> QED
          BY <3>4, <3>5, <4>1, <4>2
    <3>10. CASE Begins(w, m) \/ Keeps(w, m) \/ Skips(w, m)
      <4>1. rpc'[w] = "receive" /\ data'[w] = data[w]
          BY <3>10 DEF Begins, Keeps, Skips
      <4> QED
          BY <3>4, <3>5, <3>8, <4>1
    <3>11. CASE lastId[w] + 1 \in 1 .. Len(events) /\ Accepts(w, m)
      <4>0. PICK p : p = payload[rx[w].tid]
          OBVIOUS
      <4>1. /\ m.type = "DATA_END" /\ m.tid = rx[w].tid /\ Valid(w)
            /\ rpc'[w] = "received" /\ data' = [data EXCEPT ![w] = {rx[w].buf}]
          BY <3>11 DEF Accepts
      <4>2. rx[w].tid \in Transfer /\ rx[w].tid \in complete
          BY <2>1, <3>11, <4>1 DEF EventsOfTransfers, OfPayload
      <4>3. rx[w].tid # 0 /\ p \in Payload
          BY <2>1, <4>0, <4>2, PayloadFacts
      <4>4. rx[w].checksum = sha256_bytes(p)
          BY <3>1, <4>0, <4>3 DEF OfTransfer
      <4>5. sha256_bytes(rx[w].buf) = sha256_bytes(p)
          BY <4>1, <4>4 DEF Valid
      <4>6. rx[w].buf = p
          BY <4>5 DEF sha256_bytes
      <4>7. p \in Offered
          BY <4>0, <4>2 DEF Offered
      <4>8. Outcomes' = [Outcomes EXCEPT ![w] = "received"]
          BY <3>6, <4>1 DEF Outcomes
      <4>9. Contract!Accept(w, p)
          BY <3>4, <3>7, <4>1, <4>6, <4>7, <4>8 DEF Contract!Accept, Outcomes, Offered
      <4> QED
          BY <4>3, <4>9 DEF Contract!ContractNext
    <3> QED
        BY <3>2, <3>9, <3>10, <3>11
  <2>6. ASSUME NEW p \in Payload, SendStart(p) PROVE UNCHANGED <<Offered, Outcomes, data>>
      BY <2>2, <2>6 DEF SendStart, recvVars
  <2>7. CASE SendChunk
      BY <2>2, <2>7 DEF SendChunk, recvVars
  <2>8. ASSUME rpc' \in [Receiver -> Rpc], UNCHANGED <<payload, complete, data>>,
               \A v \in Receiver : \/ rpc'[v] = rpc[v]
                                   \/ rpc[v] \in {"request", "receive"} /\ rpc'[v] = "raised"
        PROVE  Contract!ContractNext
    <3> DEFINE W == {v \in Receiver : rpc'[v] # rpc[v]}
    <3>1. Offered' = Offered
        BY <2>1, <2>8, OfferedKept
    <3>2. \A v \in Receiver : Outcome(v)' = IF v \in W THEN "failed" ELSE Outcome(v)
        BY <2>8 DEF Outcome, Waiting
    <3>3. \A v \in W : Outcome(v) = "waiting"
        BY <2>8 DEF Outcome, Waiting
    <3> HIDE DEF W
    <3>4. Outcomes' = [v \in Receiver |-> IF v \in W THEN "failed" ELSE Outcomes[v]]
        BY <3>2 DEF Outcomes
    <3>5. W \in SUBSET Receiver
        BY DEF W
    <3>6. \A v \in W : Outcomes[v] = "waiting"
        BY <3>3, <3>5 DEF Outcomes
    <3>7. Contract!GiveUp(W)
        BY <2>8, <3>1, <3>4, <3>6 DEF Contract!GiveUp, Outcomes, Offered
    <3> QED
        BY <3>5, <3>7 DEF Contract!ContractNext
  <2>9. CASE Breaks
      BY <2>8, <2>9 DEF Breaks
  <2>10. CASE RedisRestart
      BY <2>1, <2>8, <2>10, RestartDoes
  <2> QED
      BY <2>1, <2>3, <2>4, <2>5, <2>6, <2>7, <2>9, <2>10, BreakDoes
         DEF Next, SenderStep, ReceiverStep, TimeoutInVain, TimeoutEarly
<1> QED
    BY <1>1, <1>2, Inductive, PTL DEF Spec, Implements, Contract!ContractSpec
=============================================================================
