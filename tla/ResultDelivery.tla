--------------------------- MODULE ResultDelivery ---------------------------
(***************************************************************************)
(* How the results of an execution reach the control plane: its log lines, *)
(* its output and its final status.                                        *)
(*                                                                         *)
(*   execute_task, _prepare_execution   worker/worker_app/tasks.py publish *)
(*                           on three streams (log, status, output)        *)
(*   watch_execution         stream_dispatcher.py reads the three in one   *)
(*                           XREAD, writes ExecutionLog rows, assembles    *)
(*                           and stores the output, and deletes the        *)
(*                           streams once the execution is over            *)
(*                                                                         *)
(* Ids are modelled as Redis makes them: every XADD to a stream gets the   *)
(* next id of that stream, also after a DEL, and a last_id is an id.  The  *)
(* workspace's way to the worker is the subject of ExecutionProtocol: here *)
(* a run gets it or does not.  Log lines with neither an output message    *)
(* nor a final status between them stand for each other: one line for each *)
(* such stretch of the program ("progress": all up to the output).         *)
(***************************************************************************)
EXTENDS Integers, Sequences, FiniteSets

CONSTANTS
    Chunks,         \* DATA_CHUNK messages of an output
    WatchBatch,     \* count=50 of the watcher's XREAD, per stream
    Faults,         \* the kinds of fault that may happen
    MaxFaults       \* bound: how many faults may happen in one behaviour

ASSUME ResultAssumption ==
    /\ Chunks \in Nat \ {0}
    /\ WatchBatch \in Nat \ {0}
    /\ MaxFaults \in Nat
    /\ Faults \subseteq {"redelivery", "worker_crash", "redis_error", "duplicate",
                         "dispatcher_crash", "redis_restart", "watch_timeout"}

Run == {1, 2}           \* deliveries of the one Celery task
NoRun == 0
Stream == {"log", "status", "output"}
TERMINAL_STATUSES == {"SUCCEEDED", "FAILED", "TRANSFER_FAILED"}

VARIABLES
    part, pos,       \* a run's part of the program and the step it is at
    brokered,        \* the broker still knows the task (Redis persists nothing)
    stream, nextId,  \* the execution's streams; the id of the next XADD
    announced,       \* EXECUTION_STARTED messages on the global stream
    up, lastId,      \* the dispatcher and its position in the global stream
    wpc, last_ids, batch, log_seq, output_state, \* the watcher thread
    watchers,        \* watcher threads started so far
    status,          \* Execution.status ("OPEN": any that is not terminal)
    output_checksum, \* Execution.output_checksum: run it is of (NoRun: NULL)
    file,            \* what outputs/<execution_id>.zip holds
    rows,            \* ExecutionLog, in the order of creation
    faults,
    lines,           \* history: the lines each run has published, in order
    verdict,         \* history: the message that made the status terminal
    behind,          \* history: the last XREAD left log messages unread
    erased,          \* history: log messages deleted before they were read
    torn,            \* history: dispatcher died between opening and saving
    undeleted,       \* history: the last watcher ended in an exception, without its DEL
    lossy            \* history: Redis restarted

runVars   == <<part, pos, brokered, lines>>
redisVars == <<stream, nextId, announced>>
watchVars == <<wpc, last_ids, batch, log_seq, output_state, watchers>>
dispVars  == <<up, lastId>>
rowVars   == <<status, output_checksum, file, rows>>
histVars  == <<verdict, behind, erased, torn, undeleted, lossy>>
vars == <<runVars, redisVars, watchVars, dispVars, rowVars, faults, histVars>>

Fault(kind) ==
    /\ kind \in Faults
    /\ faults < MaxFaults
    /\ faults' = faults + 1

-----------------------------------------------------------------------------
(* What a run publishes, step by step: one XADD each.                      *)

XADD(to, type) == [to |-> to, type |-> type, line |-> "none", sequence_no |-> 0]
LOG(line)      == [XADD("log", "LOG") EXCEPT !.line = line]
CHUNK(k)       == [XADD("output", "DATA_CHUNK") EXCEPT !.sequence_no = k]

Program ==
    [prepare |-> <<XADD("status", "TRANSFERRING_INPUT"), LOG("progress")>>,
     give_up |-> <<XADD("status", "TRANSFER_FAILED"), LOG("giving_up")>>,
     body    |-> <<XADD("status", "EXECUTING"), XADD("output", "DATA_START")>>
                 \o [k \in 1 .. Chunks |-> CHUNK(k - 1)]
                 \o <<XADD("output", "DATA_END"), LOG("output_sent"), XADD("status", "TASK_SUCCEEDED")>>,
     except  |-> <<LOG("task_failed"), XADD("status", "TASK_FAILED")>>]

Output(r) == [k \in 1 .. Chunks |-> <<r, k - 1>>]       \* the zipped output, chunk by chunk
NotStarted == [run |-> NoRun, buf |-> << >>, seen_seq |-> {}]

Running(r) == part[r] \in DOMAIN Program
AtEnd(r)   == Running(r) /\ pos[r] > Len(Program[part[r]])

Init ==
    /\ part = [r \in Run |-> "idle"] /\ pos = [r \in Run |-> 1] /\ brokered = TRUE
    /\ lines = [r \in Run |-> << >>]
    /\ stream = [s \in Stream |-> << >>] /\ nextId = [s \in Stream |-> 1] /\ announced = 0
    /\ up = TRUE /\ lastId = 0
    /\ wpc = "none" /\ last_ids = [s \in Stream |-> 0] /\ batch = [s \in Stream |-> << >>]
    /\ log_seq = 0 /\ output_state = NotStarted /\ watchers = 0
    /\ status = "OPEN" /\ output_checksum = NoRun /\ file = << >> /\ rows = << >>
    /\ faults = 0
    /\ verdict = [run |-> NoRun, type |-> "none"]
    /\ behind = FALSE /\ erased = {} /\ torn = FALSE /\ undeleted = FALSE /\ lossy = FALSE

Goto(r, p) == part' = [part EXCEPT ![r] = p] /\ pos' = [pos EXCEPT ![r] = 1]

(* Bound: two runs at a time leave no room for other faults. *)
Redelivery == "redelivery" \in Faults /\ faults = 0 /\ 0 < MaxFaults /\ faults' = MaxFaults

(* The first delivery, the one that follows a worker's death, and the one  *)
(* of a task that outlasts the visibility timeout.  A run starts with its  *)
(* announcement.                                                           *)
Deliver(r) ==
    /\ part[r] = "idle" /\ brokered
    /\ \/ r = 1 /\ UNCHANGED faults
       \/ r > 1 /\ part[r - 1] = "dead" /\ UNCHANGED faults
       \/ r > 1 /\ Running(r - 1) /\ ~AtEnd(r - 1) /\ Redelivery
    /\ Goto(r, "prepare")
    /\ announced' = announced + 1
    /\ UNCHANGED <<brokered, lines, stream, nextId, watchVars, dispVars, rowVars, histVars>>

(* A message may be there twice: the pinned client does not send it again,  *)
(* but the watcher is written to tolerate chunks of one that would.         *)
Publish(r) ==
    /\ Running(r) /\ ~AtEnd(r)
    /\ LET m == Program[part[r]][pos[r]]
           n == nextId[m.to]
           msg(i) == [run |-> r, type |-> m.type, line |-> m.line,
                      sequence_no |-> m.sequence_no, id |-> i]
       IN  /\ \/ /\ stream' = [stream EXCEPT ![m.to] = Append(@, msg(n))]
                 /\ nextId' = [nextId EXCEPT ![m.to] = n + 1]
                 /\ UNCHANGED faults
              \/ /\ Fault("duplicate")
                 /\ stream' = [stream EXCEPT ![m.to] = @ \o <<msg(n), msg(n + 1)>>]
                 /\ nextId' = [nextId EXCEPT ![m.to] = n + 2]
           /\ lines' = IF m.type = "LOG" THEN [lines EXCEPT ![r] = Append(@, m.line)] ELSE lines
    /\ pos' = [pos EXCEPT ![r] = @ + 1]
    /\ UNCHANGED <<part, brokered, announced, watchVars, dispVars, rowVars, histVars>>

(* _receive_workspace returns, with or without the workspace *)
Received(r) ==
    /\ part[r] = "prepare" /\ AtEnd(r)
    /\ Goto(r, "body") \/ Goto(r, "give_up")
    /\ UNCHANGED <<brokered, lines, redisVars, watchVars, dispVars, rowVars, faults, histVars>>

(* run_stub_task raises, or a Redis call does.  In the body that leads to  *)
(* the except clause, which may itself fail to reach Redis; elsewhere the  *)
(* task is over.                                                           *)
Raise(r) ==
    /\ Running(r) /\ ~AtEnd(r)
    /\ \/ part[r] = "body" /\ pos[r] = 2 /\ Goto(r, "except") /\ UNCHANGED faults
       \/ part[r] = "body" /\ Goto(r, "except") /\ Fault("redis_error")
       \/ Goto(r, "over") /\ Fault("redis_error")
    /\ UNCHANGED <<brokered, lines, redisVars, watchVars, dispVars, rowVars, histVars>>

WorkerCrash ==
    /\ \E r \in Run : Running(r) /\ ~AtEnd(r)
    /\ Fault("worker_crash")
    /\ part' = [r \in Run |-> IF Running(r) /\ ~AtEnd(r) THEN "dead" ELSE part[r]]
    /\ UNCHANGED <<pos, brokered, lines, redisVars, watchVars, dispVars, rowVars, histVars>>

-----------------------------------------------------------------------------
(* The dispatcher and the life of its watcher thread.                      *)

WatcherAt(p) ==
    /\ wpc' = p
    /\ last_ids' = [s \in Stream |-> 0] /\ batch' = [s \in Stream |-> << >>]
    /\ log_seq' = 0 /\ output_state' = NotStarted

DispatcherRead ==
    /\ up /\ lastId < announced
    /\ lastId' = lastId + 1
    /\ IF wpc = "none" THEN WatcherAt("loop") /\ watchers' = watchers + 1
                       ELSE UNCHANGED watchVars
    /\ UNCHANGED <<runVars, redisVars, up, rowVars, faults, histVars>>

DispatcherCrash ==
    /\ up /\ Fault("dispatcher_crash")
    /\ up' = FALSE
    /\ WatcherAt("none")
    /\ torn' = (torn \/ wpc \in {"write", "save"})
    /\ UNCHANGED <<runVars, redisVars, lastId, watchers, rowVars, verdict, behind, erased, undeleted, lossy>>

DispatcherRestart ==
    /\ ~up
    /\ up' = TRUE /\ lastId' = 0
    /\ UNCHANGED <<runVars, redisVars, watchVars, rowVars, faults, histVars>>

(* XREAD returns what follows last_ids; ids grow along a stream. *)
Seen(s)   == {i \in DOMAIN stream[s] : stream[s][i].id <= last_ids[s]}
Unread(s) == SubSeq(stream[s], Cardinality(Seen(s)) + 1, Len(stream[s]))
UnreadLog == {stream["log"][i].id : i \in DOMAIN stream["log"]} \ {rows[i].id : i \in DOMAIN rows}

(* A call that is under way when Redis goes raises: that is a fault of its *)
(* own, "redis_error" (Raise, WatcherError).                               *)
RedisRestart ==
    /\ Fault("redis_restart")
    /\ stream' = [s \in Stream |-> << >>]
    /\ announced' = 0 /\ lastId' = 0 /\ brokered' = FALSE
    /\ erased' = erased \cup UnreadLog /\ lossy' = TRUE
    /\ UNCHANGED <<part, pos, lines, nextId, up, watchVars, rowVars, verdict, behind, torn,
                   undeleted>>

-----------------------------------------------------------------------------
(* watch_execution: one XREAD over the streams, then the messages of the   *)
(* log, of status and of output, in this order.                            *)

Drained(s) == batch[s] = << >>
AllDrained == \A s \in Stream : Drained(s)
Terminal   == status \in TERMINAL_STATUSES

FirstOf(s) == SubSeq(Unread(s), 1, IF Len(Unread(s)) < WatchBatch THEN Len(Unread(s)) ELSE WatchBatch)
IdAfter(s) == IF FirstOf(s) = << >> THEN last_ids[s] ELSE FirstOf(s)[Len(FirstOf(s))].id

(* Mutant of WatcherRead: last_ids stays behind *)
WatcherReadAgain ==
    /\ wpc = "loop" /\ AllDrained /\ ~Terminal
    /\ \E s \in Stream : Unread(s) # << >>
    /\ batch' = [s \in Stream |-> FirstOf(s)]
    /\ last_ids' = [last_ids EXCEPT !["status"] = IdAfter("status"), !["output"] = IdAfter("output")]
    /\ behind' = (Len(Unread("log")) > WatchBatch)
    /\ UNCHANGED <<runVars, redisVars, dispVars, wpc, log_seq, output_state, watchers, rowVars,
                   faults, verdict, erased, torn, undeleted, lossy>>

WatcherRead ==
    /\ wpc = "loop" /\ AllDrained /\ ~Terminal
    /\ \E s \in Stream : Unread(s) # << >>
    /\ batch' = [s \in Stream |-> FirstOf(s)]
    /\ last_ids' = [s \in Stream |-> IdAfter(s)]
    /\ behind' = (Len(Unread("log")) > WatchBatch)
    /\ UNCHANGED <<runVars, redisVars, dispVars, wpc, log_seq, output_state, watchers, rowVars,
                   faults, verdict, erased, torn, undeleted, lossy>>

Take(s) == batch' = [batch EXCEPT ![s] = Tail(@)]

HandleLog ==
    /\ wpc = "loop" /\ ~Drained("log")
    /\ batch' = [batch EXCEPT !["log"] = << >>]
    /\ log_seq' = log_seq + Len(batch["log"])
    /\ rows' = rows \o [i \in DOMAIN batch["log"] |->
                          [watcher |-> watchers, seq |-> log_seq + i, run |-> batch["log"][i].run,
                           line |-> batch["log"][i].line, id |-> batch["log"][i].id]]
    /\ UNCHANGED <<runVars, redisVars, dispVars, wpc, last_ids, output_state, watchers, status,
                   output_checksum, file, faults, histVars>>

(* Mutant of STATUS_MAPPING: the worker's word is stored as it is *)
STATUS_MAPPING_RAW ==
    [t \in {"TRANSFERRING_INPUT", "EXECUTING", "TRANSFER_FAILED", "TASK_FAILED"} |-> t]

STATUS_MAPPING ==
    [t \in {"TRANSFERRING_INPUT", "EXECUTING", "TRANSFER_FAILED", "TASK_FAILED"} |->
        IF t = "TRANSFER_FAILED" THEN "TRANSFER_FAILED" ELSE
        IF t = "TASK_FAILED"     THEN "FAILED" ELSE "OPEN"]

(* Mutant of HandleStatus: the status stream is taken before the log *)
HandleStatusFirst ==
    /\ wpc = "loop" /\ ~Drained("status")
    /\ Take("status")
    /\ LET m == Head(batch["status"])
       IN  IF m.type \in DOMAIN STATUS_MAPPING
           THEN status' = STATUS_MAPPING[m.type] /\ verdict' = [run |-> m.run, type |-> m.type]
           ELSE UNCHANGED <<status, verdict>>
    /\ UNCHANGED <<runVars, redisVars, dispVars, wpc, last_ids, log_seq, output_state, watchers,
                   output_checksum, file, rows, faults, behind, erased, torn, undeleted, lossy>>

HandleStatus ==
    /\ wpc = "loop" /\ Drained("log") /\ ~Drained("status")
    /\ Take("status")
    /\ LET m == Head(batch["status"])
       IN  IF m.type \in DOMAIN STATUS_MAPPING
           THEN status' = STATUS_MAPPING[m.type] /\ verdict' = [run |-> m.run, type |-> m.type]
           ELSE UNCHANGED <<status, verdict>>
    /\ UNCHANGED <<runVars, redisVars, dispVars, wpc, last_ids, log_seq, output_state, watchers,
                   output_checksum, file, rows, faults, behind, erased, torn, undeleted, lossy>>

(* _handle_output_message.  A valid DATA_END opens, writes and then records *)
(* the file.                                                                *)

OnStart(m) == [run |-> m.run, buf |-> << >>, seen_seq |-> {}]

(* Mutant of OnChunk: a chunk that comes twice is added twice *)
OnChunkAgain(st, m) ==
    IF st.run # m.run THEN st
    ELSE [st EXCEPT !.seen_seq = @ \cup {m.sequence_no},
                    !.buf = Append(@, Output(m.run)[m.sequence_no + 1])]

OnChunk(st, m) ==
    IF st.run # m.run \/ m.sequence_no \in st.seen_seq THEN st
    ELSE [st EXCEPT !.seen_seq = @ \cup {m.sequence_no},
                    !.buf = Append(@, Output(m.run)[m.sequence_no + 1])]

(* Mutant of Valid: nothing is compared *)
ValidAlways(st) == TRUE
Valid(st) == st.buf = Output(st.run)                   \* total_size and checksum

HandleOutput ==
    /\ wpc = "loop" /\ Drained("log") /\ Drained("status") /\ ~Drained("output")
    /\ Take("output")
    /\ LET m     == Head(batch["output"])
           st    == output_state
           ended == m.type = "DATA_END" /\ m.run = st.run
       IN  \/ /\ \/ m.type = "DATA_START" /\ output_state' = OnStart(m)
                 \/ m.type = "DATA_CHUNK" /\ output_state' = OnChunk(st, m)
                 \/ m.type = "DATA_END" /\ ~ended /\ output_state' = st
              /\ UNCHANGED <<wpc, status, file, verdict>>
           \/ /\ ended /\ Valid(st)                      \* open(out_path, "wb")
              /\ wpc' = "write" /\ file' = << >>
              /\ UNCHANGED <<output_state, status, verdict>>
           \/ /\ ended /\ ~Valid(st)
              /\ status' = "FAILED" /\ verdict' = [run |-> st.run, type |-> "DATA_END"]
              /\ output_state' = NotStarted
              /\ UNCHANGED <<wpc, file>>
    /\ UNCHANGED <<runVars, redisVars, dispVars, last_ids, log_seq, watchers, output_checksum, rows,
                   faults, behind, erased, torn, undeleted, lossy>>

WriteFile ==
    /\ wpc = "write" /\ wpc' = "save"
    /\ file' = output_state.buf
    /\ UNCHANGED <<runVars, redisVars, dispVars, last_ids, batch, log_seq, output_state, watchers,
                   status, output_checksum, rows, faults, histVars>>

SaveOutput ==
    /\ wpc = "save" /\ wpc' = "loop"
    /\ status' = "SUCCEEDED" /\ verdict' = [run |-> output_state.run, type |-> "DATA_END"]
    /\ output_checksum' = output_state.run
    /\ output_state' = NotStarted /\ torn' = FALSE
    /\ UNCHANGED <<runVars, redisVars, dispVars, last_ids, batch, log_seq, watchers, file, rows,
                   faults, behind, erased, undeleted, lossy>>

(* _cleanup_execution_streams, and the end of the thread: the moment        *)
(* between the two is in ExecutionProtocol *)

(* Mutant of Cleanup: the thread leaves the streams behind *)
CleanupForgotten ==
    /\ wpc = "loop" /\ AllDrained
    /\ \/ Terminal /\ UNCHANGED faults
       \/ ~Terminal /\ Fault("watch_timeout")
    /\ WatcherAt("none") /\ undeleted' = FALSE
    /\ UNCHANGED <<runVars, redisVars, dispVars, watchers, rowVars, verdict, behind, erased, torn, lossy>>

Cleanup ==
    /\ wpc = "loop" /\ AllDrained
    /\ \/ Terminal /\ UNCHANGED faults
       \/ ~Terminal /\ Fault("watch_timeout")
    /\ stream' = [s \in Stream |-> << >>]
    /\ erased' = erased \cup UnreadLog
    /\ WatcherAt("none") /\ undeleted' = FALSE
    /\ UNCHANGED <<runVars, nextId, announced, dispVars, watchers, rowVars, verdict, behind,
                   torn, lossy>>

(* The DEL raises, or an XADD of send_bytes for a request, which a batch    *)
(* has in front of all else: the thread ends and nothing is deleted.        *)
WatcherError ==
    /\ wpc = "loop" /\ AllDrained
    /\ Fault("redis_error")
    /\ WatcherAt("none") /\ undeleted' = TRUE
    /\ UNCHANGED <<runVars, redisVars, dispVars, watchers, rowVars, verdict, behind, erased, torn, lossy>>

-----------------------------------------------------------------------------
Next ==
    \/ \E r \in Run : Deliver(r) \/ Publish(r) \/ Received(r) \/ Raise(r)
    \/ WorkerCrash
    \/ DispatcherRead \/ DispatcherCrash \/ DispatcherRestart \/ RedisRestart
    \/ WatcherRead \/ HandleLog \/ HandleStatus \/ HandleOutput \/ WriteFile \/ SaveOutput
    \/ Cleanup \/ WatcherError

Spec == Init /\ [][Next]_vars

-----------------------------------------------------------------------------
(* Type correctness *)
Line == {"progress", "giving_up", "output_sent", "task_failed"}
Type == {"LOG", "TRANSFERRING_INPUT", "EXECUTING", "TRANSFER_FAILED", "TASK_FAILED", "TASK_SUCCEEDED",
         "DATA_START", "DATA_CHUNK", "DATA_END"}
Message == [run : Run, type : Type, line : Line \cup {"none"}, sequence_no : 0 .. Chunks, id : Nat]

TypeOK ==
    /\ part \in [Run -> DOMAIN Program \cup {"idle", "over", "dead"}] /\ pos \in [Run -> Nat]
    /\ stream \in [Stream -> Seq(Message)] /\ batch \in [Stream -> Seq(Message)]
    /\ wpc \in {"none", "loop", "write", "save"}
    /\ status \in TERMINAL_STATUSES \cup {"OPEN"} /\ output_checksum \in Run \cup {NoRun}
    /\ rows \in Seq([watcher : Nat, seq : Nat, run : Run, line : Line, id : Nat])

-----------------------------------------------------------------------------
(* Safety *)

(* execution_status shows the lines in the order of seq.  What one watcher  *)
(* recorded is, in that order, what was published, in the order of          *)
(* publication and nothing twice, although log_seq lives in the thread and  *)
(* starts again with every watcher.                                         *)
LogInOrder ==
    \A i, j \in DOMAIN rows :
        rows[i].watcher = rows[j].watcher => (rows[i].seq < rows[j].seq <=> rows[i].id < rows[j].id)

(* Whoever finds a terminal status finds every line the concluding run had  *)
(* published before it: the one XREAD returns the log with the conclusion,  *)
(* and the log is handled first.  The exceptions are lines Redis lost or a  *)
(* watcher deleted, and more than WatchBatch unread lines.                  *)
After(type) == IF type = "DATA_END"        THEN {"output_sent", "task_failed"} ELSE
               IF type = "TRANSFER_FAILED" THEN {"giving_up"} ELSE {}

Preceding(v) == {lines[v.run][i] : i \in DOMAIN lines[v.run]} \ After(v.type)

ConcludedIsLogged ==
    Terminal /\ ~behind /\ erased = {} =>
        \A l \in Preceding(verdict) : \E i \in DOMAIN rows : rows[i].run = verdict.run /\ rows[i].line = l

(* The file in MEDIA_ROOT is the whole output of the run whose checksum the *)
(* row records, unless the dispatcher died while it stored another output.  *)
FileMatchesRow ==
    output_checksum # NoRun /\ wpc \notin {"write", "save"} /\ ~torn => file = Output(output_checksum)

(* An output is found invalid only if Redis lost a part of it: never        *)
(* because two runs interleave their outputs, because a chunk arrives       *)
(* twice, or because a new watcher reads everything again.                  *)
OnlyLossFailsOutput == status = "FAILED" /\ verdict.type = "DATA_END" => lossy

(* A DEL that was executed leaves the tail only: with one run, and unless   *)
(* the announcement is lost with Redis, what then stays in Redis for good   *)
(* is what the run publishes after its conclusion, never the output nor     *)
(* anything that led to the conclusion.  A DEL that raised leaves all of it *)
(* until an announcement or a restart of the dispatcher brings a watcher.   *)
CleanedUp == Terminal /\ up /\ wpc = "none" /\ lastId = announced

LeakIsTail ==
    CleanedUp /\ ~undeleted /\ part[2] = "idle" /\ ~lossy =>
        /\ stream["output"] = << >>
        /\ \A i \in DOMAIN stream["log"] :
              stream["log"][i].line \in {"output_sent", "task_failed", "giving_up"}
        /\ \A i \in DOMAIN stream["status"] :
              stream["status"][i].type \in {"TASK_SUCCEEDED", "TASK_FAILED"}

-----------------------------------------------------------------------------
(* What the documentation says and the code does not keep up                *)

(* _cleanup_execution_streams: "by that point every message that will ever  *)
(* matter has already been read and processed".  No line is deleted unread. *)
NoLineLost == erased = {}
=============================================================================
