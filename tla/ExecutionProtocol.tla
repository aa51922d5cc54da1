------------------------- MODULE ExecutionProtocol -------------------------
(***************************************************************************)
(* The life of one delegate execution, end to end:                         *)
(*                                                                         *)
(*   create_execution        control_plane/delegates/views.py              *)
(*   Celery task delivery    worker/worker_app/celery_app.py (acks_late,   *)
(*                           visibility_timeout 30 s)                      *)
(*   _prepare_execution,     worker/worker_app/tasks.py: announce, request *)
(*   execute_task            the workspace, run, send the output           *)
(*   stream_dispatcher       one watcher thread per announced execution    *)
(*   revoke_delegate         cuts the delegate off while all this runs     *)
(*                                                                         *)
(* A Redis stream is a sequence, and a last_id is the number of its        *)
(* messages with a smaller or equal id.  DEL (or a Redis restart, which    *)
(* persists nothing) empties the stream and so zeroes every last_id: ids   *)
(* are time based, what is added later has larger ids.  A transfer is      *)
(* DATA_START and DATA_END; the chunks between them are modelled one by    *)
(* one in ChunkTransfer, and here only by whether some of them were lost.    *)
(* The log stream carries no control: it, the output's bytes and its file  *)
(* are the subject of ResultDelivery.                                      *)
(*                                                                         *)
(* A "run" is one delivery of the Celery task to a pool process.  Faults   *)
(* are drawn from the set Faults, at most MaxFaults of them per behaviour. *)
(***************************************************************************)
EXTENDS Integers, Sequences, FiniteSets

CONSTANTS
    MaxRetries,     \* TRANSFER_MAX_RETRIES (5 in the code)
    WatchBatch,     \* count=50 of the watcher's XREAD, per stream
    ReceiveBatch,   \* count=100 of the receiver's XREAD
    Concurrency,    \* --concurrency of the Celery worker (2 in the code)
    Faults,         \* the kinds of fault that may happen
    MaxFaults       \* bound: how many faults may happen in one behaviour

FaultKind == {"enqueue_error", "worker_crash", "redelivery", "dispatcher_crash",
              "redis_error", "redis_restart", "watch_timeout", "revocation"}

ASSUME ConstantsAssumption ==
    /\ MaxRetries \in Nat \ {0}
    /\ WatchBatch \in Nat \ {0}
    /\ ReceiveBatch \in Nat \ {0}
    /\ Concurrency \in Nat \ {0}
    /\ MaxFaults \in Nat
    /\ Faults \subseteq FaultKind

Run == 1 .. (MaxFaults + 1)          \* every delivery but the first follows a fault
NoRun == 0
Stream == {"events", "status", "output"}

TERMINAL_STATUSES == {"SUCCEEDED", "FAILED", "TRANSFER_FAILED"}
Status == TERMINAL_STATUSES \cup {"QUEUED", "TRANSFERRING", "RUNNING"}
NoRow == "NO_ROW"                    \* create_execution has not stored the row yet

VARIABLES
    \* the Execution row and the Delegate row
    status,            \* Execution.status
    transferId,        \* Execution.transfer_id (0: none yet)
    transferAttempts,  \* Execution.transfer_attempts
    outputOf,          \* run whose checksum the row records (output_checksum)
    delegate,          \* Delegate.status
    fileExists,        \* does the requested file exist in the fixture?
    \* Redis
    acl,               \* does the delegate's ACL user exist?
    stream,            \* the execution's streams
    announced,         \* EXECUTION_STARTED messages on the global stream
    task,              \* where the Celery message is
    damaged,           \* <<r, t>>: chunks of transfer t were lost to run r
    outDamaged,        \* runs whose output lost chunks
    \* the worker's runs
    deliveries,        \* how many runs have been started
    pc, attempt,       \* where each run is, and its DATA_REQUEST attempt
    cursor,            \* its last_id
    rx,                \* transfer being assembled (0: none)
    \* the dispatcher
    dispatcherUp, lastId,
    wpc,               \* the watcher thread of this execution
    wcur, wbatch,      \* its last_ids, and what is left of its XREAD batch
    wout,              \* output_state: run of the DATA_START seen
    transfers,         \* workspace transfers started (transfer ids handed out)
    \* bookkeeping
    faults,            \* faults so far
    complete,          \* history: transfers whose DATA_END was sent
    reports,           \* history: the final messages the runs have published
    sentAtRevoke       \* history: transfers at the time of the revocation

rowVars   == <<status, transferId, transferAttempts, outputOf>>
recvVars  == <<attempt, cursor, rx>>
runVars   == <<deliveries, pc, recvVars, reports>>
watchVars == <<wpc, wcur, wbatch, wout>>
damage    == <<damaged, outDamaged>>
sendVars  == <<transfers, complete, damage>>
dispVars  == <<dispatcherUp, lastId>>
authVars  == <<delegate, acl, sentAtRevoke>>
vars == <<rowVars, fileExists, authVars, stream, announced, task, runVars,
          dispVars, watchVars, sendVars, faults>>

-----------------------------------------------------------------------------
(* Messages and faults.                                                    *)

Message == [type : {"DATA_REQUEST", "DATA_START", "DATA_END",
                    "TRANSFERRING_INPUT", "EXECUTING", "TRANSFER_FAILED",
                    "TASK_FAILED", "TASK_SUCCEEDED"},
            id : Nat]

Lesser(a, b) == IF a < b THEN a ELSE b

FinalMessage == {"TRANSFER_FAILED", "TASK_FAILED", "DATA_END"}

XAdd(s, t, i) == stream' = [stream EXCEPT ![s] = Append(@, [type |-> t, id |-> i])]

(* XREAD with a last_id and a count *)
XRead(s, from, count) == SubSeq(stream[s], from + 1, Lesser(from + count, Len(stream[s])))

(* DEL of the execution's streams *)
Del == stream' = [s \in Stream |-> << >>]

Fault(kind) ==
    /\ kind \in Faults
    /\ faults < MaxFaults
    /\ faults' = faults + 1

Init ==
    /\ status = NoRow /\ transferId = 0 /\ transferAttempts = 0
    /\ outputOf = NoRun
    /\ delegate = "ACTIVE" /\ acl = TRUE /\ sentAtRevoke = 0
    /\ fileExists \in BOOLEAN
    /\ stream = [s \in Stream |-> << >>]
    /\ announced = 0 /\ task = "none"
    /\ deliveries = 0
    /\ pc = [r \in Run |-> "idle"] /\ attempt = [r \in Run |-> 1]
    /\ cursor = [r \in Run |-> 0]
    /\ rx = [r \in Run |-> 0]
    /\ damaged = {} /\ outDamaged = {}
    /\ dispatcherUp = TRUE /\ lastId = 0
    /\ wpc = "none"
    /\ wcur = [s \in Stream |-> 0] /\ wbatch = [s \in Stream |-> << >>]
    /\ wout = NoRun
    /\ transfers = 0 /\ complete = {} /\ reports = {}
    /\ faults = 0

-----------------------------------------------------------------------------
(* The control plane's API: create_execution stores the row and only then  *)
(* hands the task to the broker, without a transaction around the two.     *)

CreateExecution ==
    /\ status = NoRow
    /\ delegate = "ACTIVE"
    /\ status' = "QUEUED"
    /\ task' = "sending"
    /\ UNCHANGED <<transferId, transferAttempts, outputOf, fileExists, authVars,
                   stream, announced, runVars, dispVars, watchVars, sendVars, faults>>

SendExecuteTask ==
    /\ task = "sending"
    /\ \/ task' = "queued" /\ UNCHANGED faults
       \/ task' = "lost" /\ Fault("enqueue_error")     \* send_task raises: HTTP 500
    /\ UNCHANGED <<rowVars, fileExists, authVars, stream, announced, runVars,
                   dispVars, watchVars, sendVars>>

(* revoke_delegate: the row first, the ACL user second; DELUSER also       *)
(* terminates the delegate's open connections.                             *)

RevokeDelegate ==
    /\ delegate = "ACTIVE"
    /\ Fault("revocation")
    /\ delegate' = "REVOKED"
    /\ sentAtRevoke' = transfers
    /\ UNCHANGED <<rowVars, fileExists, acl, stream, announced, task, runVars,
                   dispVars, watchVars, sendVars>>

RevokeAcl ==
    /\ delegate = "REVOKED" /\ acl
    /\ acl' = FALSE
    /\ UNCHANGED <<rowVars, fileExists, delegate, sentAtRevoke, stream, announced, task,
                   runVars, dispVars, watchVars, sendVars, faults>>

-----------------------------------------------------------------------------
(* The Celery broker.  A delivered message stays unacked until its run is  *)
(* over (acks_late).  kombu restores it to the queue when the visibility   *)
(* timeout passes, whether its run is dead or merely slow; the copy keeps  *)
(* its delivery tag, so the first run to finish acknowledges both.         *)

Ended == {"dead", "done"}
Live == {r \in Run : pc[r] \notin Ended \cup {"idle"}}

(* Mutant of Deliver: task_acks_late = False *)
DeliverAckEarly ==
    /\ task = "queued" /\ acl
    /\ deliveries + 1 \in Run
    /\ Cardinality(Live) < Concurrency
    /\ task' = "acked"
    /\ deliveries' = deliveries + 1
    /\ pc' = [pc EXCEPT ![deliveries + 1] = "announce"]
    /\ UNCHANGED <<rowVars, fileExists, authVars, stream, announced, recvVars, reports,
                   dispVars, watchVars, sendVars, faults>>

Deliver ==
    /\ task = "queued" /\ acl
    /\ deliveries + 1 \in Run
    /\ Cardinality(Live) < Concurrency
    /\ task' = "unacked"
    /\ deliveries' = deliveries + 1
    /\ pc' = [pc EXCEPT ![deliveries + 1] = "announce"]
    /\ UNCHANGED <<rowVars, fileExists, authVars, stream, announced, recvVars, reports,
                   dispVars, watchVars, sendVars, faults>>

Restore ==
    /\ task = "unacked" /\ acl
    /\ task' = "queued"
    /\ UNCHANGED <<rowVars, fileExists, authVars, stream, announced, runVars,
                   dispVars, watchVars, sendVars>>

RestoreLost == Restore /\ pc[deliveries] \in Ended /\ UNCHANGED faults
RestoreSlow == Restore /\ pc[deliveries] \notin Ended /\ Fault("redelivery")

-----------------------------------------------------------------------------
(* Phase 1 of a run: _prepare_execution, the task_prerun handler.          *)

Goto(r, from, to) ==
    /\ pc[r] = from
    /\ pc' = [pc EXCEPT ![r] = to]

(* A run whose step is one XADD. *)
Publish(r, from, to, s, t) ==
    /\ acl
    /\ Goto(r, from, to)
    /\ XAdd(s, t, r)
    /\ reports' = IF t \in FinalMessage THEN reports \cup {<<r, t>>} ELSE reports
    /\ UNCHANGED <<rowVars, fileExists, authVars, announced, task, deliveries, recvVars,
                   dispVars, watchVars, sendVars, faults>>

Announce(r) ==
    /\ acl
    /\ Goto(r, "announce", "transferring")
    /\ announced' = announced + 1
    /\ UNCHANGED <<rowVars, fileExists, authVars, stream, task, deliveries, recvVars, reports,
                   dispVars, watchVars, sendVars, faults>>

PublishTransferring(r) ==
    Publish(r, "transferring", "request", "status", "TRANSFERRING_INPUT")

SendDataRequest(r) == Publish(r, "request", "receive", "events", "DATA_REQUEST")

(* Mutants of Retry: one attempt too many; no report after the last one.   *)
RetryOnceMore(r) ==
    /\ pc' = [pc EXCEPT ![r] = IF attempt[r] <= MaxRetries THEN "request" ELSE "give_up"]
    /\ attempt' = [attempt EXCEPT ![r] = @ + 1]
    /\ rx' = [rx EXCEPT ![r] = 0]

RetrySilently(r) ==
    /\ pc' = [pc EXCEPT ![r] = IF attempt[r] < MaxRetries THEN "request" ELSE "finish"]
    /\ attempt' = [attempt EXCEPT ![r] = Lesser(@ + 1, MaxRetries)]
    /\ rx' = [rx EXCEPT ![r] = 0]

(* TransferFailed: discard what was received; the next attempt, or         *)
(* TRANSFER_FAILED after the last one.                                     *)
Retry(r) ==
    /\ pc' = [pc EXCEPT ![r] = IF attempt[r] < MaxRetries THEN "request" ELSE "give_up"]
    /\ attempt' = [attempt EXCEPT ![r] = Lesser(@ + 1, MaxRetries)]
    /\ rx' = [rx EXCEPT ![r] = 0]

(* What receive_once makes of a batch b of messages: before message i it   *)
(* is assembling the transfer t whose DATA_START it saw last, in b or in   *)
(* an earlier batch, and only that transfer's DATA_END ends the assembly.  *)
(* It makes no call between two messages, so a batch is one step.          *)
Starts(b, i) == {j \in 1 .. (i - 1) : b[j].type = "DATA_START"}

Assembling(r, b, i, t) ==
    \/ Starts(b, i) = {} /\ t = rx[r]
    \/ \E j \in Starts(b, i) : t = b[j].id /\ \A k \in Starts(b, i) : k <= j

IsEnd(r, b, i) == b[i].type = "DATA_END" /\ b[i].id # 0 /\ Assembling(r, b, i, b[i].id)

Received(r) ==
    UNCHANGED <<rowVars, fileExists, authVars, stream, announced, task, deliveries, reports,
                dispVars, watchVars, sendVars, faults>>

Receive(r) ==
    /\ acl
    /\ pc[r] = "receive"
    /\ cursor[r] < Len(stream["events"])
    /\ LET b == XRead("events", cursor[r], ReceiveBatch)
       IN  \/ /\ \A i \in 1 .. Len(b) : ~IsEnd(r, b, i)
              /\ \E t \in {rx[r]} \cup {b[j].id : j \in 1 .. Len(b)} :
                    /\ Assembling(r, b, Len(b) + 1, t)
                    /\ rx' = [rx EXCEPT ![r] = t]
              /\ cursor' = [cursor EXCEPT ![r] = @ + Len(b)]
              /\ UNCHANGED <<pc, attempt>>
           \/ \E i \in 1 .. Len(b) :
              /\ IsEnd(r, b, i) /\ \A j \in 1 .. (i - 1) : ~IsEnd(r, b, j)
              /\ \/ /\ <<r, b[i].id>> \notin damaged          \* size and checksum match
                    /\ Goto(r, "receive", "executing")
                    /\ rx' = [rx EXCEPT ![r] = b[i].id]
                    /\ attempt' = [attempt EXCEPT ![r] = 1]   \* locals out of scope
                    /\ cursor' = [cursor EXCEPT ![r] = 0]
                 \/ /\ <<r, b[i].id>> \in damaged             \* TransferFailed, last_id here
                    /\ cursor' = [cursor EXCEPT ![r] = @ + i]
                    /\ Retry(r)
    /\ Received(r)

(* The deadline passes: it is looked at between two XREADs only.           *)
ReceiveTimeout(r) ==
    /\ pc[r] = "receive"
    /\ Retry(r)
    /\ UNCHANGED cursor
    /\ Received(r)

(* Mutant of PublishTransferFailed: the body runs without a workspace *)
PublishTransferFailedAndRun(r) ==
    Publish(r, "give_up", "executing", "status", "TRANSFER_FAILED")

PublishTransferFailed(r) ==
    Publish(r, "give_up", "finish", "status", "TRANSFER_FAILED")

-----------------------------------------------------------------------------
(* Phase 2 of a run: the body of execute_task.                             *)

PublishExecuting(r)   == Publish(r, "executing", "body", "status", "EXECUTING")
SendOutputStart(r)    == Publish(r, "body", "sending", "output", "DATA_START")
SendOutputEnd(r)      == Publish(r, "sending", "succeeded", "output", "DATA_END")
PublishSucceeded(r)   == Publish(r, "succeeded", "finish", "status", "TASK_SUCCEEDED")
PublishTaskFailed(r)  == Publish(r, "raised", "finish", "status", "TASK_FAILED")

(* run_stub_task raises *)
TaskRaises(r) ==
    /\ Goto(r, "body", "raised")
    /\ UNCHANGED <<rowVars, fileExists, authVars, stream, announced, task, deliveries, recvVars,
                   reports, dispVars, watchVars, sendVars, faults>>

(* The task is over, whether it returned or raised: Celery acknowledges.   *)
Finish(r) ==
    /\ Goto(r, "finish", "done")
    /\ \/ task' = (IF task = "unacked" /\ acl THEN "acked" ELSE task) /\ UNCHANGED faults
       \/ Fault("redis_error") /\ UNCHANGED task          \* the ack is lost
    /\ UNCHANGED <<rowVars, fileExists, authVars, stream, announced, deliveries, recvVars,
                   reports, dispVars, watchVars, sendVars>>

-----------------------------------------------------------------------------
(* Failures of the worker.                                                 *)

Preparing == {"announce", "transferring", "request", "receive", "give_up", "executing"}
InBody    == {"executing", "body", "sending", "succeeded"}

(* A Redis call of the run raises.  In the task_prerun handler Celery logs *)
(* and drops the exception, the body finds no workspace and returns.  In   *)
(* the body the except clause reports TASK_FAILED if Redis answers again,  *)
(* and otherwise raises itself.                                            *)
RunError(r) ==
    /\ IF acl THEN Fault("redis_error") ELSE UNCHANGED faults
    /\ \/ pc[r] \in Preparing \cup {"raised"} /\ pc' = [pc EXCEPT ![r] = "finish"]
       \/ /\ pc[r] \in InBody
          /\ pc' \in {[pc EXCEPT ![r] = "raised"], [pc EXCEPT ![r] = "finish"]}
    /\ attempt' = [attempt EXCEPT ![r] = 1]
    /\ cursor' = [cursor EXCEPT ![r] = 0]
    /\ UNCHANGED <<rowVars, fileExists, authVars, stream, announced, task, deliveries, rx,
                   reports, dispVars, watchVars, sendVars>>

WorkerCrash ==
    /\ Live # {}
    /\ Fault("worker_crash")
    /\ pc' = [r \in Run |-> IF r \in Live THEN "dead" ELSE pc[r]]
    /\ attempt' = [r \in Run |-> 1]
    /\ cursor' = [r \in Run |-> 0]
    /\ UNCHANGED <<rowVars, fileExists, authVars, stream, announced, task, deliveries, rx,
                   reports, dispVars, watchVars, sendVars>>

-----------------------------------------------------------------------------
(* The dispatcher's main loop over the global stream.                      *)

(* A watcher starts, and leaves, with nothing in memory. *)
WatcherAt(p) ==
    /\ wpc' = p
    /\ wcur' = [s \in Stream |-> 0] /\ wbatch' = [s \in Stream |-> << >>]
    /\ wout' = NoRun

DispatcherRead ==
    /\ dispatcherUp
    /\ lastId < announced
    /\ lastId' = lastId + 1
    /\ IF wpc = "none" THEN WatcherAt("loop")      \* else "already being watched"
                       ELSE UNCHANGED watchVars
    /\ UNCHANGED <<rowVars, fileExists, authVars, stream, announced, task, runVars, dispatcherUp,
                   sendVars, faults>>

DispatcherCrash ==
    /\ dispatcherUp
    /\ Fault("dispatcher_crash")
    /\ dispatcherUp' = FALSE
    /\ WatcherAt("none")
    /\ UNCHANGED <<rowVars, fileExists, authVars, stream, announced, task, runVars, lastId,
                   sendVars>>

DispatcherRestart ==
    /\ ~dispatcherUp
    /\ dispatcherUp' = TRUE
    /\ lastId' = 0
    /\ UNCHANGED <<rowVars, fileExists, authVars, stream, announced, task, runVars,
                   watchVars, sendVars, faults>>

(* redis.conf persists no data: streams, announcements and the queue go.   *)
(* A transfer whose DATA_END was not yet sent may have lost some chunks to *)
(* a reader, or none, if the reader already has all that were sent.  A call *)
(* that is under way meanwhile raises; that is a fault "redis_error" of its *)
(* caller (RunError, WatcherError), before or after this step.             *)
RedisRestart ==
    /\ Fault("redis_restart")
    /\ Del
    /\ cursor' = [r \in Run |-> 0] /\ wcur' = [s \in Stream |-> 0]
    /\ announced' = 0 /\ lastId' = 0
    /\ task' = IF task \in {"queued", "unacked"} THEN "lost" ELSE task
    /\ \E lost \in SUBSET {<<r, transfers>> : r \in Run}, outLost \in SUBSET Run :
          /\ lost # {} => wpc = "sending"
          /\ \A r \in outLost : pc[r] = "sending"
          /\ damaged' = damaged \cup lost
          /\ outDamaged' = outDamaged \cup outLost
    /\ UNCHANGED <<rowVars, fileExists, authVars, deliveries, pc, attempt, rx,
                   reports, dispatcherUp, wpc, wbatch, wout, transfers, complete>>

-----------------------------------------------------------------------------
(* watch_execution.  wpc = "loop" with an undrained batch is the inner     *)
(* for loop, which takes the streams in the order events, status, output;  *)
(* with everything drained it is the top of the while loop.                *)

(* In the events stream only a DATA_REQUEST is acted on. *)
Requests   == {i \in 1 .. Len(wbatch["events"]) : wbatch["events"][i].type = "DATA_REQUEST"}
Drained(s) == IF s = "events" THEN Requests = {} ELSE wbatch[s] = << >>
AllDrained == \A s \in Stream : Drained(s)
Terminal   == status \in TERMINAL_STATUSES
Take(s)    == wbatch' = [wbatch EXCEPT ![s] = Tail(@)]

(* Mutant of WatcherRead: the terminal check at the top of the loop is gone *)
WatcherReadUnchecked ==
    /\ wpc = "loop" /\ AllDrained
    /\ \E s \in Stream : wcur[s] < Len(stream[s])
    /\ wbatch' = [s \in Stream |-> XRead(s, wcur[s], WatchBatch)]
    /\ wcur' = [s \in Stream |-> Lesser(wcur[s] + WatchBatch, Len(stream[s]))]
    /\ UNCHANGED <<rowVars, fileExists, authVars, stream, announced, task, runVars,
                   dispVars, wpc, wout, sendVars, faults>>

WatcherRead ==
    /\ wpc = "loop" /\ AllDrained
    /\ ~Terminal
    /\ \E s \in Stream : wcur[s] < Len(stream[s])
    /\ wbatch' = [s \in Stream |-> XRead(s, wcur[s], WatchBatch)]
    /\ wcur' = [s \in Stream |-> Lesser(wcur[s] + WatchBatch, Len(stream[s]))]
    /\ UNCHANGED <<rowVars, fileExists, authVars, stream, announced, task, runVars,
                   dispVars, wpc, wout, sendVars, faults>>

(* _handle_data_request up to the call of send_bytes: the delegate must be *)
(* active and the requested file must exist, otherwise nothing is sent.    *)
(* (Mutants: the delegate's status, or the lookup's None, is not looked at) *)
AnyStatus  == TRUE
Authorized == delegate = "ACTIVE"

AnyFile    == TRUE
FileFound  == fileExists

HandleEvent ==
    /\ wpc = "loop" /\ ~Drained("events")
    /\ \E i \in Requests :
          /\ \A j \in Requests : i <= j
          /\ wbatch' = [wbatch EXCEPT !["events"] = SubSeq(@, i + 1, Len(@))]
    /\ wpc' = IF Authorized /\ FileFound THEN "send" ELSE "loop"
    /\ UNCHANGED <<rowVars, fileExists, authVars, stream, announced, task, runVars, dispVars,
                   wcur, wout, sendVars, faults>>

(* ChunkSender.send_bytes under a fresh transfer id *)
SendStep(from, to, t, i) ==
    /\ wpc = from /\ wpc' = to
    /\ XAdd("events", t, i)
    /\ UNCHANGED <<rowVars, fileExists, authVars, announced, task, runVars, dispVars,
                   wcur, wbatch, wout, faults>>

SendStart ==
    /\ SendStep("send", "sending", "DATA_START", transfers + 1)
    /\ transfers' = transfers + 1
    /\ UNCHANGED <<complete, damage>>

SendEnd ==
    /\ SendStep("sending", "save", "DATA_END", transfers)
    /\ complete' = complete \cup {transfers}
    /\ UNCHANGED <<transfers, damage>>

(* the rest of _handle_data_request: the row is saved after the transfer   *)
SaveTransfer ==
    /\ wpc = "save" /\ wpc' = "loop"
    /\ status' = "TRANSFERRING"
    /\ transferId' = transfers
    /\ transferAttempts' = transferAttempts + 1
    /\ UNCHANGED <<outputOf, fileExists, authVars, stream, announced, task, runVars,
                   dispVars, wcur, wbatch, wout, sendVars, faults>>

(* Mutant of STATUS_MAPPING: TASK_SUCCEEDED is believed *)
STATUS_MAPPING_TRUSTING ==
    [t \in {"TRANSFERRING_INPUT", "EXECUTING", "TRANSFER_FAILED", "TASK_FAILED", "TASK_SUCCEEDED"} |->
        IF t = "TRANSFERRING_INPUT" THEN "TRANSFERRING" ELSE
        IF t = "EXECUTING"          THEN "RUNNING" ELSE
        IF t = "TRANSFER_FAILED"    THEN "TRANSFER_FAILED" ELSE
        IF t = "TASK_FAILED"        THEN "FAILED" ELSE "SUCCEEDED"]

STATUS_MAPPING ==
    [t \in {"TRANSFERRING_INPUT", "EXECUTING", "TRANSFER_FAILED", "TASK_FAILED"} |->
        IF t = "TRANSFERRING_INPUT" THEN "TRANSFERRING" ELSE
        IF t = "EXECUTING"          THEN "RUNNING" ELSE
        IF t = "TRANSFER_FAILED"    THEN "TRANSFER_FAILED" ELSE "FAILED"]

(* Mutant of HandleStatus: the status stream is taken before the events *)
HandleStatusFirst ==
    /\ wpc = "loop" /\ ~Drained("status")
    /\ Take("status")
    /\ LET t == Head(wbatch["status"]).type
       IN  status' = IF t \in DOMAIN STATUS_MAPPING THEN STATUS_MAPPING[t] ELSE status
    /\ UNCHANGED <<transferId, transferAttempts, outputOf, fileExists, authVars, stream,
                   announced, task, runVars, dispVars, wpc, wcur, wout, sendVars, faults>>

HandleStatus ==
    /\ wpc = "loop" /\ Drained("events") /\ ~Drained("status")
    /\ Take("status")
    /\ LET t == Head(wbatch["status"]).type
       IN  status' = IF t \in DOMAIN STATUS_MAPPING THEN STATUS_MAPPING[t] ELSE status
    /\ UNCHANGED <<transferId, transferAttempts, outputOf, fileExists, authVars, stream,
                   announced, task, runVars, dispVars, wpc, wcur, wout, sendVars, faults>>

(* _handle_output_message.  A valid DATA_END writes the file and then the  *)
(* row, two steps; an invalid one marks the execution FAILED.              *)
HandleOutput ==
    /\ wpc = "loop" /\ Drained("events") /\ Drained("status") /\ ~Drained("output")
    /\ Take("output")
    /\ LET m == Head(wbatch["output"])
           ours == wout # NoRun /\ m.id = wout
       IN  \/ /\ m.type = "DATA_START"
              /\ wout' = m.id
              /\ UNCHANGED <<wpc, status>>
           \/ /\ m.type = "DATA_END" /\ ours /\ wout \notin outDamaged
              /\ wpc' = "store"
              /\ UNCHANGED <<wout, status>>
           \/ /\ m.type = "DATA_END" /\ ours /\ wout \in outDamaged
              /\ status' = "FAILED"
              /\ wout' = NoRun
              /\ UNCHANGED wpc
           \/ /\ m.type = "DATA_END" /\ ~ours
              /\ UNCHANGED <<wpc, wout, status>>
    /\ UNCHANGED <<transferId, transferAttempts, outputOf, fileExists, authVars, stream,
                   announced, task, runVars, dispVars, wcur, sendVars, faults>>

(* Mutant of SaveOutput: the update leaves out output_checksum *)
SaveOutputStatus ==
    /\ wpc = "store" /\ wpc' = "loop"
    /\ status' = "SUCCEEDED"
    /\ wout' = NoRun
    /\ UNCHANGED <<transferId, transferAttempts, outputOf, fileExists, authVars, stream,
                   announced, task, runVars, dispVars, wcur, wbatch, sendVars, faults>>

SaveOutput ==
    /\ wpc = "store" /\ wpc' = "loop"
    /\ status' = "SUCCEEDED"
    /\ outputOf' = wout
    /\ wout' = NoRun
    /\ UNCHANGED <<transferId, transferAttempts, fileExists, authVars, stream, announced,
                   task, runVars, dispVars, wcur, wbatch, sendVars, faults>>

(* _cleanup_execution_streams, on a terminal status or after the watcher's *)
(* 600 s; the thread is alive until it has also written its audit event.   *)
Cleanup ==
    /\ wpc = "loop" /\ AllDrained
    /\ \/ Terminal /\ UNCHANGED faults
       \/ ~Terminal /\ Fault("watch_timeout")
    /\ Del /\ cursor' = [r \in Run |-> 0]
    /\ WatcherAt("exiting")
    /\ UNCHANGED <<rowVars, fileExists, authVars, announced, task, deliveries, pc, attempt,
                   rx, reports, dispVars, sendVars>>

WatcherExit ==
    /\ wpc = "exiting" /\ wpc' = "none"
    /\ UNCHANGED <<rowVars, fileExists, authVars, stream, announced, task, runVars,
                   dispVars, wcur, wbatch, wout, sendVars, faults>>

(* XADD inside send_bytes, or the DEL, raises: only the XREAD of the loop  *)
(* is guarded, so the exception ends the thread.                           *)
WatcherError ==
    /\ wpc \in {"send", "sending"} \/ (wpc = "loop" /\ AllDrained /\ Terminal)
    /\ Fault("redis_error")
    /\ WatcherAt("none")
    /\ UNCHANGED <<rowVars, fileExists, authVars, stream, announced, task, runVars,
                   dispVars, sendVars>>

-----------------------------------------------------------------------------
RunStep(r) ==
    \/ Announce(r) \/ PublishTransferring(r) \/ SendDataRequest(r)
    \/ Receive(r) \/ ReceiveTimeout(r) \/ PublishTransferFailed(r)
    \/ PublishExecuting(r) \/ SendOutputStart(r) \/ SendOutputEnd(r)
    \/ PublishSucceeded(r) \/ TaskRaises(r) \/ PublishTaskFailed(r) \/ Finish(r)

WatcherStep ==
    \/ WatcherRead \/ HandleEvent \/ SendStart \/ SendEnd \/ SaveTransfer
    \/ HandleStatus \/ HandleOutput \/ SaveOutput \/ Cleanup \/ WatcherExit

Next ==
    \/ CreateExecution \/ SendExecuteTask
    \/ RevokeDelegate \/ RevokeAcl
    \/ Deliver \/ RestoreLost \/ RestoreSlow
    \/ \E r \in Run : RunStep(r) \/ RunError(r)
    \/ WorkerCrash
    \/ DispatcherRead \/ DispatcherCrash \/ DispatcherRestart \/ RedisRestart
    \/ WatcherStep \/ WatcherError

Spec == Init /\ [][Next]_vars

(* Fairness: the processes of docker-compose.yml keep running (those that  *)
(* die are restarted), XREAD and BRPOP return when there is something to   *)
(* read, receive_once has a deadline and kombu restores unacked messages.  *)
(* Nothing is assumed of faults, of API calls or of revocation.            *)
FairSpec ==
    /\ Spec
    /\ WF_vars(SendExecuteTask)
    /\ WF_vars(Deliver) /\ WF_vars(RestoreLost)
    /\ \A r \in Run : WF_vars(RunStep(r))
    /\ WF_vars(DispatcherRead) /\ WF_vars(DispatcherRestart)
    /\ WF_vars(WatcherStep)

-----------------------------------------------------------------------------
(* Type correctness *)

PC == Preparing \cup InBody \cup Ended \cup {"idle", "raised", "finish"}

RowOK ==
    /\ status \in Status \cup {NoRow}
    /\ transferId \in Nat /\ transferAttempts \in Nat
    /\ outputOf \in Nat

AuthOK == delegate \in {"ACTIVE", "REVOKED"} /\ acl \in BOOLEAN /\ sentAtRevoke \in Nat

TaskOK == task \in {"none", "sending", "queued", "unacked", "acked", "lost"}

RecvOK == attempt \in [Run -> 1 .. MaxRetries] /\ cursor \in [Run -> Nat] /\ rx \in [Run -> Nat]

RunOK ==
    /\ deliveries \in Run \cup {NoRun}
    /\ pc \in [Run -> PC]
    /\ RecvOK
    /\ reports \subseteq Run \X FinalMessage

DispOK == dispatcherUp \in BOOLEAN /\ lastId \in Nat

WatchOK ==
    /\ wpc \in {"none", "loop", "send", "sending", "save", "store", "exiting"}
    /\ wcur \in [Stream -> Nat] /\ wbatch \in [Stream -> Seq(Message)]
    /\ wout \in Nat

SendOK ==
    /\ transfers \in Nat /\ complete \subseteq Nat
    /\ damaged \subseteq Run \X Nat /\ outDamaged \subseteq Run

TypeOK ==
    /\ RowOK /\ AuthOK /\ TaskOK /\ RunOK /\ DispOK /\ WatchOK /\ SendOK
    /\ fileExists \in BOOLEAN
    /\ stream \in [Stream -> Seq(Message)]
    /\ announced \in Nat
    /\ faults \in 0 .. MaxFaults

-----------------------------------------------------------------------------
(* Safety *)

(* A DATA_REQUEST never reopens a finished execution.  _handle_data_request *)
(* writes TRANSFERRING unconditionally after a long send; that is safe only *)
(* because the loop checks for a terminal status before every XREAD and     *)
(* takes the events stream of a batch before the streams that conclude it.  *)
RequestNeverReopens == wpc \in {"send", "sending", "save"} => ~Terminal

(* The body of execute_task runs only on a workspace whose transfer the     *)
(* control plane sent to the end, of which this run lost no chunk, and for  *)
(* a file that exists.                                                      *)
ExecutesSentWorkspace ==
    \A r \in Run : pc[r] \in InBody =>
        fileExists /\ rx[r] \in complete /\ <<r, rx[r]>> \notin damaged

(* SUCCEEDED is never the worker's word alone: the row names the output of  *)
(* a run that sent all of it, undamaged, after executing on a completely    *)
(* transferred workspace.                                                   *)
SuccessIsValidated ==
    status = "SUCCEEDED" =>
        /\ outputOf \in Run
        /\ <<outputOf, "DATA_END">> \in reports
        /\ outputOf \notin outDamaged
        /\ rx[outputOf] \in complete

(* Once a delegate is revoked in the database, at most the workspace        *)
(* transfer that had already passed the ownership check is still sent.      *)
RevocationStopsTransfers == delegate = "REVOKED" => transfers <= sentAtRevoke + 1

(* A run that is over has told the control plane how it ended.              *)
FinishedIsReported == \A r \in Run : pc[r] = "done" => \E t \in FinalMessage : <<r, t>> \in reports

(* The watcher has messages of its batch before it *)
MidBatch == wpc = "store" \/ (wpc = "loop" /\ ~AllDrained)
Sealed   == Terminal /\ ~MidBatch

(* A terminal status can be overwritten only by later messages of the batch *)
(* that made it terminal; once the watcher is past that batch, or is gone,  *)
(* nothing changes it ever again, whatever is announced, redelivered or     *)
(* restarted.                                                               *)
SealedIsFinal == [][Sealed => Sealed' /\ status' = status]_vars

(* Until the task is delivered a second time a terminal status is final at  *)
(* once: without a failing Redis one run never reports two different ends,  *)
(* and a dispatcher that restarts and reads all messages again changes      *)
(* nothing.                                                                 *)
TerminalIsFinal == [][Terminal /\ deliveries = 1 => status' = status]_vars

Contract == INSTANCE ExecutionContract WITH
    phase   <- IF status = NoRow THEN "none" ELSE IF Sealed THEN "settled" ELSE "open",
    outcome <- IF Sealed THEN <<status, IF status = "SUCCEEDED" THEN outputOf ELSE NoRun>> ELSE <<"none", NoRun>>,
    offered <- {r \in Run : <<r, "DATA_END">> \in reports}

(* The row is the execution's contract: it settles once, with SUCCEEDED     *)
(* only for an output that some run sent to the end, and then neither the   *)
(* status nor the recorded output changes, whatever crashes, is delivered   *)
(* again or is read again.                                                  *)
Implements == Contract!ContractSpec

-----------------------------------------------------------------------------
(* Liveness, under FairSpec *)

(* create_execution stored the row and send_task raised *)
Stranded == task = "lost" /\ status = "QUEUED"

(* Every execution whose row exists ends in a terminal status and stays     *)
(* there, although the worker or the dispatcher may crash on the way; only  *)
(* one whose task the broker never got is QUEUED for ever.                  *)
EventuallySettled == status # NoRow ~> [](Terminal \/ Stranded)

(* A request for a file that does not exist ends in TRANSFER_FAILED, though *)
(* it is never answered.                                                    *)
MissingFileReported == (status # NoRow /\ ~fileExists) ~> [](status = "TRANSFER_FAILED" \/ Stranded)
-----------------------------------------------------------------------------
(* What a comment of the code says and the code does not keep up            *)

(* watch_execution on a lost connection: "just don't let this execution's   *)
(* watcher die and strand it".  While the dispatcher runs, an announced     *)
(* execution that is not finished has a watcher.                            *)
WatcherSurvives ==
    dispatcherUp /\ 0 < announced /\ lastId = announced /\ wpc = "none" => Terminal
=============================================================================
