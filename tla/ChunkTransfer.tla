--------------------------- MODULE ChunkTransfer ---------------------------
(***************************************************************************)
(* The chunked transfer of a workspace over an execution's events stream,  *)
(* byte by byte: _receive_workspace (worker/worker_app/tasks.py) asks with *)
(* DATA_REQUEST, the watcher of stream_dispatcher.py answers each request  *)
(* with one ChunkSender.send_bytes, and ChunkReceiver.receive_once puts    *)
(* the chunks together (shared/delegate_protocol/chunked_transfer.py).     *)
(*                                                                         *)
(* All receivers of an execution (its task may run twice at a time) read   *)
(* the same stream.  As in ExecutionProtocol, a last_id is the number of   *)
(* messages read, and losing the stream zeroes it.  A receiver takes one   *)
(* message per step; an XREAD batch is a run of such steps.                *)
(*                                                                         *)
(* A Redis call that is under way when the connection goes raises: the     *)
(* client sends nothing again.  In send_bytes that ends the watcher's      *)
(* thread, in a receiver its task; only TransferFailed is retried.         *)
(*                                                                         *)
(* A byte is a model value; base64 is undone by the receiver and left out; *)
(* SHA-256 is taken to be injective.                                       *)
(***************************************************************************)
EXTENDS Integers, Sequences

CONSTANTS
    Receiver,       \* the runs that wait for the workspace
    Payload,        \* the zip files that may be sent, as sequences of bytes
    ChunkSize,      \* CHUNK_SIZE (256 KiB in the code)
    MaxRetries,     \* TRANSFER_MAX_RETRIES (5 in the code)
    Faults,         \* the kinds of fault that may happen
    MaxFaults       \* bound: how many faults may happen in one behaviour

ASSUME TransferAssumption ==
    /\ \A p \in Payload : p \in Seq({p[i] : i \in DOMAIN p})     \* a payload is a sequence
    /\ ChunkSize \in Nat \ {0}
    /\ MaxRetries \in Nat \ {0}
    /\ MaxFaults \in Nat
    /\ Faults \subseteq {"slow", "sender_crash", "duplicate", "redis_error", "redis_restart"}

VARIABLES
    events,         \* the stream: a sequence of messages
    payload,        \* history: payload[t] is what transfer t was started with
    watching,       \* is the watcher's thread alive?
    served,         \* its last_id
    sender,         \* send_bytes: transfer, next offset and next sequence_no
    rpc,            \* where each receiver is
    attempt,        \* its attempt
    lastId,         \* its last_id
    rx,             \* receive_once's transfer_id, total_size, checksum, buf, seen_seq
    data,           \* what receive_once returned ({}: nothing yet)
    complete,       \* history: transfers whose DATA_END was sent
    ended,          \* history: a watcher has ended in an exception
    discarded,      \* history: transfers each receiver began and gave up
    lossy,          \* history: transfers a Redis restart may have taken chunks of
    faults          \* faults so far

recvVars == <<rpc, attempt, lastId, rx, data, discarded>>
sendVars == <<payload, watching, served, sender, complete, ended>>
vars == <<events, recvVars, sendVars, lossy, faults>>

Waiting(w) == rpc[w] \in {"request", "receive"}

(* How a receiver's wait ended: an exception ends it like the last failed  *)
(* attempt, without a workspace.                                           *)
Outcome(w) ==
    CASE Waiting(w)          -> "waiting"
      [] rpc[w] = "received" -> "received"
      [] OTHER               -> "failed"

Contract == INSTANCE TransferContract WITH
    offered   <- {payload[t] : t \in complete},
    outcome   <- [w \in Receiver |-> Outcome(w)],
    delivered <- data

Idle == [tid |-> 0, offset |-> 0, seq |-> 0]

NotStarted == [tid |-> 0, size |-> 0, checksum |-> << >>, buf |-> << >>, seen |-> {}]

sha256_bytes(d) == [sha256 |-> d]

Fault(kind) ==
    /\ kind \in Faults
    /\ faults < MaxFaults
    /\ faults' = faults + 1

Init ==
    /\ events = << >> /\ payload = << >>
    /\ watching = TRUE /\ served = 0 /\ sender = Idle
    /\ rpc = [w \in Receiver |-> "request"] /\ attempt = [w \in Receiver |-> 1]
    /\ lastId = [w \in Receiver |-> 0] /\ rx = [w \in Receiver |-> NotStarted]
    /\ data = [w \in Receiver |-> {}]
    /\ complete = {} /\ ended = FALSE /\ discarded = [w \in Receiver |-> {}] /\ lossy = {}
    /\ faults = 0

-----------------------------------------------------------------------------
(* ChunkSender.send_bytes, called by the watcher for every DATA_REQUEST in *)
(* the order of the stream.                                                *)

IsRequest(i) == i \in served + 1 .. Len(events) /\ events[i].type = "DATA_REQUEST"
Serving == sender.tid # 0

SendStart(p) ==
    /\ watching /\ ~Serving
    /\ \E i \in 1 .. Len(events) :
          /\ IsRequest(i) /\ \A j \in 1 .. (i - 1) : ~IsRequest(j)
          /\ served' = i
    /\ payload' = Append(payload, p)
    /\ sender' = [tid |-> Len(payload) + 1, offset |-> 0, seq |-> 0]
    /\ events' = Append(events, [type |-> "DATA_START", tid |-> Len(payload) + 1,
                                 total_size |-> Len(p), checksum |-> sha256_bytes(p)])
    /\ UNCHANGED <<recvVars, watching, complete, ended, lossy, faults>>

(* data[offset : offset + chunk_size] *)
Slice(d, offset) ==
    SubSeq(d, offset + 1, IF offset + ChunkSize < Len(d) THEN offset + ChunkSize ELSE Len(d))

(* A chunk may be there twice: the pinned client does not send it again,   *)
(* but the receiver is written to tolerate one that would.                 *)
SendChunk ==
    /\ Serving
    /\ LET d == payload[sender.tid]
           m == [type |-> "DATA_CHUNK", tid |-> sender.tid, sequence_no |-> sender.seq,
                 chunk |-> Slice(d, sender.offset)]
       IN  /\ sender.offset < Len(d)
           /\ \/ events' = Append(events, m) /\ UNCHANGED faults
              \/ events' = events \o <<m, m>> /\ Fault("duplicate")
    /\ sender' = [sender EXCEPT !.offset = @ + ChunkSize, !.seq = @ + 1]
    /\ UNCHANGED <<recvVars, payload, watching, served, complete, ended, lossy>>

SendEnd ==
    /\ Serving
    /\ sender.offset >= Len(payload[sender.tid])
    /\ events' = Append(events, [type |-> "DATA_END", tid |-> sender.tid, total_chunks |-> sender.seq])
    /\ complete' = complete \cup {sender.tid}
    /\ sender' = Idle
    /\ UNCHANGED <<recvVars, payload, watching, served, ended, lossy, faults>>

(* The dispatcher dies and comes back: the new watcher reads the stream    *)
(* from "0" and answers every request in it again.                         *)
SenderRestart ==
    /\ Fault("sender_crash")
    /\ watching' = TRUE /\ sender' = Idle /\ served' = 0
    /\ UNCHANGED <<events, recvVars, payload, complete, ended, lossy>>

(* An XADD of send_bytes raises, executed or not, and the thread ends. *)
SenderCalls == Serving \/ \E i \in 1 .. Len(events) : events[i].type = "DATA_REQUEST"

SenderError ==
    /\ watching /\ SenderCalls
    /\ Fault("redis_error")
    /\ watching' = FALSE /\ ended' = TRUE /\ sender' = Idle /\ served' = 0
    /\ UNCHANGED <<events, recvVars, payload, complete, lossy>>

(* Nobody starts it again, but the next announcement of the execution, by  *)
(* another run of the task, gets a watcher of its own, which reads from    *)
(* "0".                                                                    *)
NewWatcher ==
    /\ ~watching
    /\ watching' = TRUE
    /\ UNCHANGED <<events, recvVars, payload, served, sender, complete, ended, lossy, faults>>

(* Redis comes back empty.  Of the watcher and the receivers, those with a *)
(* call under way meanwhile see it raise; the others notice nothing.       *)
RedisRestart ==
    /\ Fault("redis_restart")
    /\ events' = << >>
    /\ \E W \in SUBSET {w \in Receiver : Waiting(w)} :
          rpc' = [w \in Receiver |-> IF w \in W THEN "raised" ELSE rpc[w]]
    /\ \/ UNCHANGED <<watching, ended, sender>>
       \/ watching /\ SenderCalls /\ watching' = FALSE /\ ended' = TRUE /\ sender' = Idle
    /\ served' = 0 /\ lastId' = [w \in Receiver |-> 0]
    /\ lossy' = lossy \cup ({sender.tid} \ {0})
    /\ UNCHANGED <<attempt, rx, data, discarded, payload, complete>>

-----------------------------------------------------------------------------
(* _receive_workspace and receive_once.                                    *)

SendDataRequest(w) ==
    /\ rpc[w] = "request"
    /\ rpc' = [rpc EXCEPT ![w] = "receive"]
    /\ events' = Append(events, [type |-> "DATA_REQUEST"])
    /\ UNCHANGED <<attempt, lastId, rx, data, discarded, sendVars, lossy, faults>>

(* Mutants of Retry: the last attempt is not made; what was received so    *)
(* far is kept for the next attempt                                        *)
RetryOneLess(w) ==
    /\ rpc' = [rpc EXCEPT ![w] = IF attempt[w] + 1 < MaxRetries THEN "request" ELSE "failed"]
    /\ attempt' = [attempt EXCEPT ![w] = @ + 1]
    /\ discarded' = [discarded EXCEPT ![w] = @ \cup {rx[w].tid}]
    /\ rx' = [rx EXCEPT ![w] = NotStarted]
    /\ UNCHANGED data

RetryKeeping(w) ==
    /\ rpc' = [rpc EXCEPT ![w] = IF attempt[w] < MaxRetries THEN "request" ELSE "failed"]
    /\ attempt' = [attempt EXCEPT ![w] = @ + 1]
    /\ discarded' = [discarded EXCEPT ![w] = @ \cup {rx[w].tid}]
    /\ UNCHANGED <<rx, data>>

(* TransferFailed: everything is discarded and asked for again, up to      *)
(* MaxRetries times.                                                       *)
Retry(w) ==
    /\ rpc' = [rpc EXCEPT ![w] = IF attempt[w] < MaxRetries THEN "request" ELSE "failed"]
    /\ attempt' = [attempt EXCEPT ![w] = @ + 1]
    /\ discarded' = [discarded EXCEPT ![w] = @ \cup {rx[w].tid}]
    /\ rx' = [rx EXCEPT ![w] = NotStarted]
    /\ UNCHANGED data

(* One message of the stream *)
OnStart(w, m) ==
    /\ m.type = "DATA_START"
    /\ rx' = [rx EXCEPT ![w] = [tid |-> m.tid, size |-> m.total_size, checksum |-> m.checksum,
                                buf |-> << >>, seen |-> {}]]
    /\ discarded' = [discarded EXCEPT ![w] = @ \cup {rx[w].tid}]
    /\ UNCHANGED <<rpc, attempt, data>>

(* Mutant of OnChunk: sequence numbers are not looked at *)
OnChunkUnchecked(w, m) ==
    /\ m.type = "DATA_CHUNK" /\ m.tid = rx[w].tid
    /\ rx' = [rx EXCEPT ![w].seen = @ \cup {m.sequence_no}, ![w].buf = @ \o m.chunk]
    /\ UNCHANGED <<rpc, attempt, data, discarded>>

OnChunk(w, m) ==
    /\ m.type = "DATA_CHUNK" /\ m.tid = rx[w].tid
    /\ IF m.sequence_no \in rx[w].seen
       THEN UNCHANGED rx                         \* duplicate chunk, already committed
       ELSE rx' = [rx EXCEPT ![w].seen = @ \cup {m.sequence_no}, ![w].buf = @ \o m.chunk]
    /\ UNCHANGED <<rpc, attempt, data, discarded>>

(* Mutant of Valid: neither the size nor the checksum is compared *)
ValidAlways(w) == TRUE
Valid(w) == Len(rx[w].buf) = rx[w].size /\ sha256_bytes(rx[w].buf) = rx[w].checksum

OnEnd(w, m) ==
    /\ m.type = "DATA_END" /\ m.tid = rx[w].tid
    /\ \/ /\ Valid(w)
          /\ data' = [data EXCEPT ![w] = {rx[w].buf}]
          /\ rpc' = [rpc EXCEPT ![w] = "received"]
          /\ UNCHANGED <<attempt, rx, discarded>>
       \/ ~Valid(w) /\ Retry(w)

Ignored(w, m) ==
    /\ m.type \in {"DATA_CHUNK", "DATA_END"} => m.tid # rx[w].tid
    /\ m.type # "DATA_START"
    /\ UNCHANGED <<rpc, attempt, rx, data, discarded>>

Receive(w) ==
    /\ rpc[w] = "receive"
    /\ lastId[w] < Len(events)
    /\ LET m == events[lastId[w] + 1]
       IN  OnStart(w, m) \/ OnChunk(w, m) \/ OnEnd(w, m) \/ Ignored(w, m)
    /\ lastId' = [lastId EXCEPT ![w] = @ + 1]
    /\ UNCHANGED <<events, sendVars, lossy, faults>>

(* The XADD of the request or the XREAD raises; nothing catches that here. *)
ReceiverError(w) ==
    /\ Waiting(w)
    /\ Fault("redis_error")
    /\ rpc' = [rpc EXCEPT ![w] = "raised"]
    /\ UNCHANGED <<events, attempt, lastId, rx, data, discarded, sendVars, lossy>>

(* The deadline passes, which every DATA_START and chunk moves.  It may do *)
(* so although an answer is on its way (the watcher is slow), and it does  *)
(* so when there is nothing more to come.                                  *)
NothingToCome(w) ==
    /\ ~Serving /\ lastId[w] = Len(events)
    /\ watching => \A i \in 1 .. Len(events) : ~IsRequest(i)

ReceiveTimeout(w) ==
    /\ rpc[w] = "receive"
    /\ Retry(w)
    /\ UNCHANGED <<events, lastId, sendVars, lossy>>

TimeoutInVain(w) == NothingToCome(w) /\ ReceiveTimeout(w) /\ UNCHANGED faults
TimeoutEarly(w)  == ~NothingToCome(w) /\ ReceiveTimeout(w) /\ Fault("slow")

-----------------------------------------------------------------------------
SenderStep == (\E p \in Payload : SendStart(p)) \/ SendChunk \/ SendEnd

ReceiverStep(w) == SendDataRequest(w) \/ Receive(w) \/ TimeoutInVain(w)

Next ==
    \/ SenderStep \/ SenderRestart \/ SenderError \/ NewWatcher \/ RedisRestart
    \/ \E w \in Receiver : ReceiverStep(w) \/ TimeoutEarly(w) \/ ReceiverError(w)

Spec == Init /\ [][Next]_vars

-----------------------------------------------------------------------------
(* The transfer keeps its contract: a receiver is handed one payload that  *)
(* was sent to the end, unaltered and once, or it gives up; late answers,  *)
(* duplicates, crashes and losses in between change nothing.               *)
Implements == Contract!ContractSpec

(* A transfer that lost nothing always passes validation: the size and the *)
(* checksum of receive_once reject a transfer only after a Redis restart,  *)
(* never because of an earlier attempt's leftovers, a duplicated chunk, or *)
(* a second transfer on the stream.                                        *)
OnlyLossInvalidates ==
    [][\A w \in Receiver :
          /\ rpc[w] = "receive" /\ lastId[w] < Len(events) /\ lastId'[w] = lastId[w] + 1
          /\ events[lastId[w] + 1].type = "DATA_END" /\ rx[w].tid = events[lastId[w] + 1].tid
          /\ rx[w].tid \notin lossy
          => rpc'[w] = "received"]_vars

(* Recreate-from-start: a transfer of which an earlier attempt saw a part  *)
(* is never the one that is accepted.                                      *)
NeverResumed == \A w \in Receiver : rpc[w] = "received" => rx[w].tid \notin discarded[w]

(* The attempts run out only after as many faults: a slow or restarted      *)
(* watcher, a duplicate, even a restart of Redis costs each receiver that   *)
(* goes on at most one attempt.  The exception is a watcher that ended in   *)
(* an exception: nobody owes the receivers another.                         *)
RetriesAbsorbFaults == \A w \in Receiver : rpc[w] = "failed" => ended \/ faults >= MaxRetries
=============================================================================
