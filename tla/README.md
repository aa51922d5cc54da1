# Formal models of the delegate POC

TLA+ models of the delegate feature in `src/`: a Django control plane, Celery
workers that act as delegates, and Redis as broker and stream store. The models
are translated from the code. TLC checks them on small instances. TLAPS proves
for every instance the safety of every part and both refinements; liveness is
TLC's alone (section 4).
`PROJECT.json` lists components, runs, mutants, the source lines behind every
definition, findings, hazards and theorems.

## 1. The system

| Component | State | Operations | Talks to |
|---|---|---|---|
| API, `control_plane/delegates/views.py` | rows: RegistrationToken, Delegate, Execution | issue token, register, revoke, create execution | Redis ACLs, broker, gateway's control endpoint |
| Redis ACLs, `redis_acl.py` | ACL users in Redis, aclfile | provision, revoke, reconcile | called by API and dispatcher |
| Broker (Celery/kombu on Redis), `celery_app.py`, `celery_client.py` | queue, unacked messages | send, deliver, acknowledge, restore | API to worker |
| Worker task, `worker_app/tasks.py` | per run: attempt, last id, buffers | announce, request workspace, receive, execute, send output, report | streams |
| Chunked transfer, `chunked_transfer.py` | sender: offset, sequence number; receiver: transfer id, buffer, seen numbers | DATA_START, DATA_CHUNK*, DATA_END; validate; time out | both directions of every transfer |
| Dispatcher, `stream_dispatcher.py` | last id of the global stream; one watcher thread per execution with last ids, log sequence number, output state, lifetime | react to announcements, answer requests, record log lines and statuses, store output, delete streams | database, streams, files |
| Restart gateway, `restart_gateway.py` | CONNECTED: delegate to websocket | HELLO, restart, disconnect | agent managers, API |
| Agent manager, `agent_manager.py` | its websocket, the identity it has read | connect, HELLO, restart the worker, reconnect | gateway, worker's files |
| Worker identity, `registration.py` | key, certificate, ca.crt, identity.json | register once, reuse | API |
| Certificate authority, `ca.py` | key and certificate of the CA, the gateway, Redis and the admin client | create what is missing, sign | run by `init_ca`, gateway, dispatcher and API on one volume |

An execution: the API stores a QUEUED row and sends a Celery task to the
delegate's queue. The worker announces it on the global stream, publishes
statuses on the execution's `status` stream and a DATA_REQUEST on `events`. The
dispatcher starts a watcher thread, which answers the request with a chunked
transfer on the same stream. The worker validates it, executes, sends its output
as a second transfer on `output` and acknowledges the task. The watcher maps
statuses to the row, marks SUCCEEDED only for a validated output, and deletes the
streams when the row is terminal or its 600 s are over. Log lines travel on a
fourth stream, `log`, and become ExecutionLog rows.

What is hard here:

* **Two runs of one task.** `visibility_timeout` is 30 s, a transfer with
  retries may take longer; a slow run and its redelivery then share streams, row
  and output file.
* **Batches across streams.** One XREAD returns up to 50 messages of each
  stream and the watcher handles them stream by stream, so the order in which
  they were sent is lost inside a batch.
* **Unconditional writes.** Statuses overwrite the row, and a request saves
  TRANSFERRING after a long send, from a row that was read before it.
* **Crashes and restarts.** The dispatcher keeps its position in memory only;
  Redis persists nothing but its aclfile; Celery redelivers.
* **No transactions** around the calls of registration and revocation, nor
  between the database and Redis; `reconcile` works on a snapshot.
* **Awaits in the gateway**, between which websockets die and revocations come;
  CONNECTED is in memory only.
* **Files that are opened, then written**, several of them to make one identity
  or one certificate pair, by programs that docker kills and starts again and
  that take an existing file for a good one.

`PROJECT.json` "hazards" has each of these at its line.

## 2. Modules

| Module | Models | Kind |
|---|---|---|
| `ExecutionProtocol` | one execution end to end: API, broker, runs of the task, dispatcher, watcher, revocation, faults | core |
| `ExecutionProtocolProofs` | theorems about it: type correctness, requests, revocation, what is executed | TLAPS |
| `ExecutionOutcomeProofs` | on top of those: how an execution ends, and the refinement of its contract | TLAPS |
| `ExecutionContract` | what the caller of `create_execution` may rely on | abstract |
| `ResultDelivery` | log, status and output from the runs to rows and file; the watcher's output assembly, cleanup and what leaks | component |
| `ResultDeliveryProofs` | theorems about it | TLAPS |
| `ChunkTransfer` | a workspace transfer byte by byte, several receivers on a stream | detailed |
| `ChunkTransferProofs` | theorems about it, and the refinement of its contract | TLAPS |
| `TransferContract` | what a transfer promises | abstract |
| `MCChunkTransfer` | payloads for TLC | instance |
| `DelegateRegistry` | tokens, rows, ACL users, aclfile, reconcile | component |
| `DelegateRegistryProofs` | theorems about it | TLAPS |
| `RegistryClaims` | two sentences of the documentation, with the history they need | claims |
| `RestartGateway` | CONNECTED, the handlers at their awaits, the agents, the gateway's death | component |
| `RestartGatewayProofs` | theorems about it | TLAPS |
| `CertificateAuthority` | the CA's files and the programs that create them | component |
| `WorkerIdentity` | registration, the worker's files and agent_manager, on top of `CertificateAuthority` | composition |
| `WorkerIdentityProofs` | theorems about both | TLAPS |

### ExecutionProtocol

A stream is a sequence and a last id the number of messages up to it. DEL and a
restart of Redis empty a stream and so zero the cursors on it: Redis ids are
time based, later messages have larger ids and are read. A transfer is its
DATA_START and DATA_END; that chunks of it were lost to a reader is a fact kept
beside it (`damaged`, `outDamaged`), which `ChunkTransfer` justifies: validation
fails exactly when chunks were lost. A *run* is one delivery of the task.

* The row: `status`, `transferId`, `transferAttempts`, `outputOf` (the run whose
  checksum it records). The bytes of the output, its file and the log are the
  subject of `ResultDelivery`.
* `pc[r]` walks through `_prepare_execution` and `execute_task`, one step per
  Redis call. `Receive` handles a whole XREAD batch, since `receive_once` makes
  no call between two messages. `RunError` is any Redis call that raises: in the
  `task_prerun` handler Celery drops the exception, in the body `except` reports
  TASK_FAILED if it can.
* `wpc` is the watcher: at `loop` with messages left in `wbatch` it is in the
  inner `for`, in the order events, status, output; with none left at the top of
  the `while`, where a terminal status ends it. `send`, `sending`, `save` are
  `_handle_data_request` around `send_bytes`; `exiting` is the moment between
  DEL and the end of the thread, when an announcement is ignored because the
  thread is alive.
* Faults: failing to enqueue, worker crash, redelivery of a slow task,
  dispatcher crash, a Redis call that raises, a restart of Redis, the watcher's
  600 s, a revocation. A restart of Redis is what it does to the data; that it
  makes the calls under way raise is the other fault, `RunError` or
  `WatcherError`, of each caller (the same in `ResultDelivery`). At most
  `MaxFaults` in a behaviour, of the kinds a run enables; the number of runs
  is then bounded by `MaxFaults + 1`.

### ExecutionContract

Open until settled, settled once, SUCCEEDED only with the output of a run that
sent it to the end. `ExecutionProtocol!Implements` maps `phase` to "settled"
when the row is terminal and the watcher is past its batch, and `offered` to the
runs whose DATA_END is out.

### ResultDelivery

A run is its list of XADDs on `log`, `status` and `output` (`Program`), one step
each. Log lines with neither an output message nor a final status between them
stand for each other, one for each stretch. Ids are modelled as Redis makes
them, also across a DEL, because reading again after a restart and what is
written after the DEL are what the module is about. `HandleOutput` is
`_handle_output_message` for one message: start over, add a chunk, ignore it, or
judge the whole; opening, writing and recording the file are three steps.
History variables name the exceptions of the properties: `behind` (more unread
lines than an XREAD returns), `erased` (lines deleted unread), `torn` (the
dispatcher died while storing), `undeleted` (the last watcher ended in an
exception and left the streams), `lossy` (Redis restarted). `WatcherError` is
that exception: the DEL raised, or an XADD of `send_bytes`, which runs in the
same thread.

### ChunkTransfer and TransferContract

`send_bytes` (start, one step per chunk, end) against `receive_once` with its
sequence numbers, size and checksum (SHA-256 taken to be injective), and the
retry loop of `_receive_workspace` around it. Several receivers read the same
stream and each sees the answers to the others' requests. Faults: a deadline
that passes before the answer comes, a restarted sender that answers all
requests again, a chunk that arrives twice (the receiver tolerates it; the
pinned client never sends one), a Redis call that raises, a restart of Redis.
A call that raises ends the watcher's thread (`SenderError`) or the receiver's
run (`ReceiverError`, `rpc` = "raised"), since only TransferFailed is retried;
`RedisRestart` does this, in its one step, to any of those that have a call
under way, and empties the stream. A watcher that ended is replaced only by the
next announcement (`NewWatcher`).
`TransferContract` says that each receiver is handed one of the payloads that
were sent to the end, whole and once, or gives up; `Implements` states that
`ChunkTransfer` refines it (`offered`, `outcome` and `delivered` are mapped to
the completed transfers, the receiver's end, where an exception counts as
giving up, and what `receive_once` returned).

### DelegateRegistry

Every database call and every Redis call of `register_delegate`,
`revoke_delegate` and `reconcile` is a step; requests, the dispatcher and
outages of Redis interleave. A request mints its delegate's id, so a delegate is
named by its registration. `disturbed` remembers the delegates whose requests
overlapped a reconcile or an outage or failed half way: for those, and only
those, Redis and the database may disagree until a reconcile completes.

An outage makes the call under way raise and every call until Redis is back; a
call made after that does not raise, because the client's pool replaces an idle
connection that is dead. So a reconcile over which Redis restarted may fail, or
go on with what it read before and save it, and an outage between two XREADs of
the main loop is never noticed (`XReadReconnects`). `broken` says that Redis
went away since the XREAD began or since reconcile read the users; a reconcile
that completes with `broken` clears nothing from `disturbed`. A loop of
reconcile over an empty set makes no call and cannot fail.

### RestartGateway

A coroutine's stretch between two awaits is one step; the lookup runs in a
thread between them. Numbers of websockets are used again, so agents reconnect
without end; `MaxOpen` bounds those that exist at one time. A client sends one
HELLO, which is what agent_manager does; further HELLOs on one websocket and
messages that are not JSON are left out. The gateway may die,
and loses CONNECTED. `crossed` and `spared` name the two races that remain (see
below).

### CertificateAuthority and WorkerIdentity

A file is missing, torn (opened for writing, nothing in it yet) or complete. A
key is a number, a certificate the pair of its key and the CA key that signed
it. `init`, `gateway` and `dispatcher` run the `ensure_*` calls step by step:
look, generate, open and write the key, open and write the certificate; each may
be killed in between and is started again. `Reissue` is the operator who follows
`settings.py` and deletes a server pair. `WorkerIdentity` adds the worker
(`register`, its four files), `agent_manager`, which waits for the files, reads
the identity and then loads the certificate, and the operator who wipes
`CERT_DIR`. A registration is a number, that of its delegate and of its key.
agent_manager restarts its worker in whatever state it is: a restart of a
running one is `RestartDelegate` and costs nothing, one that meets a worker in
the middle of its registration counts as a crash.

## 3. Runs

All bounds are in the cfg files. TLC needs from seconds to about three minutes for each.

| Run | Instance | Properties |
|---|---|---|
| `exec_faults` | 2 attempts, watcher batches of 2, one fault of seven kinds | `RequestNeverReopens`, `ExecutesSentWorkspace`, `SuccessIsValidated`, `RevocationStopsTransfers`, `SealedIsFinal`, `Implements` |
| `exec_liveness` | one fault of failed enqueueing, crash, redelivery, dispatcher crash; fair | `TypeOK`, `FinishedIsReported`, `TerminalIsFinal`, `EventuallySettled`, `MissingFileReported` |
| `chunk_faults` | 2 interchangeable receivers on a stream, 2 payloads, chunk size 2, 2 attempts, 1 fault of five kinds | `NeverResumed`, `Implements`, `OnlyLossInvalidates`, `RetriesAbsorbFaults` |
| `results` | 1 chunk, batches of 3, two faults or two concurrent runs | `TypeOK`, `LogInOrder`, `ConcludedIsLogged`, `FileMatchesRow`, `OnlyLossFailsOutput`, `LeakIsTail` |
| `registry` | 2 delegates, 1 token, 2 faults | `TypeOK`, `AccessMatchesRegistry`, `TokenReuseNeedsOverlap`, `RestartHeals` |
| `gateway` | 2 delegates, 2 websockets each at a time, 1 failure and 1 death of the gateway; fair | `TypeOK`, `RestartReachesOwner`, `NoLostChannel`, `OnlySparedChannelSurvives`, `ChannelRestored` |
| `bootstrap` | 3 programs, 1 worker, 1 agent, 2 faults; fair | `TypeOK`, `OneIssuer`, `MismatchNeedsOverlap`, `IdentityUsable`, `RestartsRegisterNothing`, `AgentSpeaksForWorker`, `GatewayServes`, `WorkerServes` |

*Why the bounds are enough to see something.* Two messages per stream and XREAD
put every pair of neighbouring messages both into one batch and into two; the
code's 50 can do no more to a pair. Three (in `results`) let one batch hold a
whole output, and `ClaimCleanup.cfg` uses the code's 50. With one fault there
are two runs, and a request, a retry and a late answer of each. Two attempts
show a retry and the giving up. The payloads are one short chunk, and two equal
full chunks. The receivers of `ChunkTransfer` are alike in Init, in every action
and in every property, and all of these are safety properties, so TLC takes them
for interchangeable. A redelivery of a slow task takes the whole fault budget in
`results` (two runs already interleave everywhere); `exec_faults` leaves that
kind of fault to `exec_liveness` and `results`, as together with retries it
exceeds what TLC does in minutes, and the theorems of section 4 include it. Two
delegates with one token are the smallest overlap; two websockets of a delegate
are the old one and the new one, and their numbers are reused. `MaxRegistered`
is above what `MaxFaults` failures can cause, so it never blocks a registration
that the code would make. Deadlock is not checked: an execution, a transfer and
a set of requests end.

*Fairness.* `ExecutionProtocol!FairSpec`: the API request goes on, the broker
delivers what is queued and restores what a dead run left unacked, runs, the
dispatcher and the watcher take their next step, a dead dispatcher is restarted
(`restart: unless-stopped`, blocking reads that return, deadlines). Faults,
revocations and new requests are never forced. The worker as a whole counts as
one process that is started again. `ChunkTransfer` is checked for safety only:
that a wait ends at all is `EventuallySettled`.
`DelegateRegistry`: the dispatcher goes on and Redis comes back; nothing is
assumed of the API. `RestartGateway`: the event loop and the agents' loops run,
the gateway is started again, and dead peers are noticed (websocket pings).
`WorkerIdentity`: gateway, dispatcher, worker and agent_manager go on and are
started again (`restart: unless-stopped` in docker-compose.yml); the API server
has no restart policy, so that it finishes what it began is assumed, that it is
ever started is not. Both liveness properties are therefore about a control
plane that is up.

Each property has a mutant of a mapped definition (in the modules, marked
"Mutant of"), a plausible bug that makes TLC find the property violated: a
dropped guard, a reordered stream, an early acknowledgement, a missing save.

### What the properties say

* `RequestNeverReopens`, `SealedIsFinal`, `TerminalIsFinal`: the unconditional
  writes are harmless because the watcher looks at the row before every XREAD
  and takes the events of a batch first. What is *not* true: a terminal status
  may be replaced by another one within the batch that brought it, when two runs
  or a failing Redis are involved (FAILED, then SUCCEEDED from the output). Once
  the batch is over the status is final.
* `ExecutesSentWorkspace`, `SuccessIsValidated`, `FileMatchesRow`: what is
  executed was sent whole; SUCCEEDED names the validated output of such a run;
  the file is the one the row describes, unless the dispatcher died between
  truncating the file and recording it.
* `NeverResumed`, `OnlyLossInvalidates`, `RetriesAbsorbFaults`: a payload is
  assembled from one transfer from its start, and rejected only when a restart
  of Redis cut it. The attempts run out only after as many faults, whichever of
  late answers, dispatcher restarts, duplicates and losses these are, as long as
  no watcher ended in an exception. They do not make up for a Redis call that
  raises: it ends the run, or the watcher, at once, and nobody owes the
  receivers another watcher (`claim_reported`, `claim_watcher`).
* `OnlyLossFailsOutput`: two runs that interleave their outputs, a repeated
  chunk or a watcher that starts over never make an output invalid; the later
  DATA_START wins and the other transfer is ignored.
* `LogInOrder`, `ConcludedIsLogged`, `LeakIsTail`: see the history variables of
  `ResultDelivery` for what is excepted. `LeakIsTail` speaks of a DEL that was
  executed; one that raised, or a watcher that ended before, leaves everything
  in Redis until an announcement or a restart of the dispatcher brings another
  watcher. Two watchers of one execution record the same lines twice, with the
  same numbers; that is left open by `LogInOrder`, which is about each watcher.
* `RevocationStopsTransfers`: a request that passed the ownership check may
  still be answered, no second one.
* `EventuallySettled`, `MissingFileReported`, `FinishedIsReported`: without
  failing Redis calls an execution ends, even if its worker or its dispatcher
  dies once, unless `send_task` failed after the row was stored. With two faults
  it need not: the DATA_START of a redelivered run discards the first run's
  half assembled output, the first run acknowledges the task for both, and the
  second dies.
* `AccessMatchesRegistry`, `RestartHeals`: see `disturbed` above. The exceptions
  are real: a reconcile that read the rows before a revocation provisions the
  revoked delegate again, one that read them before a registration's row
  deletes the new user, and both last until the next reconcile that completes
  with no outage since it read the users. One that completes over an outage may
  save a revoked user that came back with the aclfile.
* `NoLostChannel`, `OnlySparedChannelSurvives`, `ChannelRestored`: an older
  websocket never displaces a newer one unless their lookups return in the other
  order (then a live channel is missing from CONNECTED until it breaks), and
  after a revocation only a websocket remains whose lookup had already returned
  or whose disconnect request was lost.
* `OneIssuer`, `MismatchNeedsOverlap`, `GatewayServes`: the CA is never replaced
  under certificates it issued. A gateway that finds a torn or mixed-up server
  pair never starts again, because both files exist; the first takes a kill
  between open and write, the second two programs that reissue at once.
* `IdentityUsable`, `WorkerServes`, `RestartsRegisterNothing`,
  `AgentSpeaksForWorker`: identity.json is written last and looked for first, so
  every interruption before it leads to a new registration. The one exception is
  a kill while identity.json is open: the worker then fails at every start. An
  agent_manager that is not restarted after CERT_DIR was wiped goes on speaking
  for the old delegate.

### Findings

Five runs expect a violation: a sentence of the repository the code does not
keep. Quotations and lines are in `PROJECT.json`.

* `claim_watcher`: "don't let this execution's watcher die and strand it" holds
  for the XREAD only; an error in `send_bytes` or at the DEL ends the thread.
* `claim_reported`: "`_prepare_execution` already published TRANSFER_FAILED" is
  not so when a Redis call in it raised.
* `claim_token`: "single-use" is not so for two overlapping registrations.
* `claim_outage`: "the main loop will call this again" is not so when Redis is
  back before the next XREAD.
* `claim_cleanup`: "every message that will ever matter has already been read"
  is not so for the worker's last log line, which it publishes right after the
  message that concludes the execution.

Smaller observations without a run: messages published after the DEL create the
streams anew and nobody deletes those (`LeakIsTail` says which they are);
`src/README.md:108-110` says that a dispatcher that is down when an announcement
fires never sees it, while the code reads the global stream from "0" at its
start and does; the comment in `send_bytes` that promises a chunk for an
empty payload describes code that is not there (no caller sends one, an empty
zip file has 22 bytes).

## 4. Proofs

All theorems are about the modules' `Spec`, for every value of the constants
that satisfies the module's ASSUME: any numbers of retries, batch sizes, chunks,
delegates, receivers and faults of the known kinds. Each rests on an inductive
invariant, of which `Init` and every step are checked action by action; lemmas
say what XADD, XREAD, DEL and the other operators do.

| Module | Theorem | States | Inductive invariant |
|---|---|---|---|
| `ExecutionProtocolProofs` | `TypeCorrect` | `TypeOK` | `TypeOK` |
| | `NeverReopens` | `RequestNeverReopens` | `Reopen` |
| | `SealedForever` | `SealedIsFinal` (a step) | `Reopen` |
| | `RevocationCutsOff` | `RevocationStopsTransfers` | `Cutoff` |
| | `ExecutesSent` | `ExecutesSentWorkspace` | `Sent` |
| `ExecutionOutcomeProofs` | `SuccessValidated` | `SuccessIsValidated` | `Outcome` |
| | `Refinement` | `Implements` (`ExecutionContract`) | `Outcome` |
| | `RunsTellTheirEnd` | `FinishedIsReported` | `EndsTold` |
| `ChunkTransferProofs` | `RecreatesFromStart` | `NeverResumed` | `IInv` |
| | `RejectedOnlyIfLost` | `OnlyLossInvalidates` (a step) | `IInv` |
| | `Refinement` | `Implements` (`TransferContract`) | `IInv` |
| `ResultDeliveryProofs` | `TypeCorrect` | `TypeOK` | `Core` |
| | `FileIsOutput` | `FileMatchesRow` | `Storing` |
| | `LogReadsInOrder` | `LogInOrder` | `RowsKnown`, `RowsInOrder` |
| | `ConclusionIsLogged` | `ConcludedIsLogged` | `OneLine`, `LinesKept`, `BatchLogged` and the above |
| | `OnlyLossFails` | `OnlyLossFailsOutput` | `OutputInOrder`, `BatchInStream`, `Assembly` |
| | `OnlyTailLeaks` | `LeakIsTail` | `Announced`, `Concluded` and the above |
| `DelegateRegistryProofs` | `TypeCorrect`, `AccessFollowsRegistry`, `TokenSpentOnce` | `TypeOK`, `AccessMatchesRegistry`, `TokenReuseNeedsOverlap` | `IInv` |
| `RestartGatewayProofs` | `TypeCorrect`, `ReachesOwner`, `ChannelKept`, `RevocationDisconnects` | `TypeOK`, `RestartReachesOwner`, `NoLostChannel`, `OnlySparedChannelSurvives` | `IInv` |
| `WorkerIdentityProofs` | `TypeCorrect`, `RootIsForever`, `MixedOnlyByOverlap`, `RunsWithIdentity`, `SpeaksForWorker`, `NoOrphans` | `TypeOK`, `OneIssuer`, `MismatchNeedsOverlap`, `IdentityUsable`, `AgentSpeaksForWorker`, `RestartsRegisterNothing` | `IInv` |

### From which assumptions

The ASSUMEs of the modules only: `ConstantsAssumption`, `TransferAssumption`
(one conjunct of it says that a payload is a sequence), `ResultAssumption`,
`RegistryAssumption`, `BoundsAssumption` and `NoneAssumption`,
`FaultsAssumption`. One theorem has hypotheses of its own:
`RunsTellTheirEnd` excludes failing Redis calls and revocations, because with
either the property is false (`claim_reported` shows it for the former; a
revoked worker's calls fail as well). `exec_liveness`, which checks the same
property, leaves both out, too.

### Along which argument

*ExecutionProtocol.* `RequestNeverReopens` is not inductive: it has to be known
that requests still waiting in the batch, too, are taken while the row is not
terminal. `Reopen` adds this, and it holds because a batch is read only with a
row that is not terminal and statuses and output are handled only when its
requests are gone. `Cutoff` adds that after a revocation the one extra transfer
has either not begun or leaves the watcher with no other past the ownership
check. `Sent` adds that every DATA_END on the events stream belongs to a
completed transfer, that transfers are started and completed only for a file
that exists, and that the transfer under way is not a completed one, so that a
restart of Redis cannot damage what a run has already accepted.

`Outcome` follows an output's DATA_END from the stream to the batch, to the
watcher that stores it and to the row: wherever it is, the run it names has sent
its output to the end, is past the point where its workspace could still be
damaged, and never goes back (a delivery starts a run that was idle). From
`Outcome` and the theorems before it every step is a step of `ExecutionContract`
or a stutter.

*ChunkTransfer.* For a transfer that no restart of Redis has cut, the stream
holds DATA_START once, then the chunks in the order of their numbers without a
gap, then DATA_END after all of them (`StartedOnce`, `StreamInOrder`,
`SenderInOrder`); repetitions may occur. A receiver in such a transfer has seen
exactly the numbers that went by, and its buffer is that prefix of the payload
(`InOrder`); it is past the DATA_START of every transfer it gave up
(`PastStart`), so it never enters one again. Size and checksum then match
exactly when nothing is missing. A restart of Redis only puts the transfer under
way among the lossy ones, and receivers that raise only leave.

*ResultDelivery.* `Core` says what every message is, and that ids run without a
gap through a stream and through what is left of a batch. On it rest five
arguments. The file: between `open()` and the row's `save()` the watcher holds
the valid output it is about to record (`Storing`). The log's order: the rows of
the watcher at work lie before what is left of its batch (`RowsKnown`). The
log's completeness: an id stands for one line (`OneLine`), a published line is
in the stream or in the rows, and with a watcher also every line it has read is
a row or in its batch (`LinesKept`); when a conclusion is in the batch, the
lines before it are there or recorded (`BatchLogged`), and the log of a batch is
handled first. The output: in the stream each run's messages come in the order
of their ranks, from its DATA_START on without a gap (`OutputInOrder`), and the
watcher has assembled exactly the chunks up to the last message it has handled
(`Assembly`), so the next one is the last again or the one after it, whatever
another run sends in between; with DATA_END all of them are there. What leaks:
a terminal row means that the one run is past its conclusion (`Concluded`), and
the watcher that deleted the streams was started by an announcement that is
still counted (`Announced`); a watcher that ends in an exception is told apart
by `undeleted`.

*DelegateRegistry.* What Redis and the aclfile hold of an undisturbed delegate
is determined by how far its own requests are (`Undisturbed`), and a reconcile
that is under way will neither delete nor provision one wrongly, because every
request that overlaps with it makes its delegate `touched`
(`ReconcileProgress`, `OverlapsKnown`). Two registrations past the look at one
token overlapped (`TokensSpent`).

*RestartGateway.* To the properties `IInv` adds: a websocket past its HELLO
belongs to the delegate it claims, an entry of CONNECTED is a registered
websocket of that delegate (`Owned`; without it a handler that ends could empty
an entry that is not its own); a gateway that is down remembers nothing
(`Forgotten`; without it a disconnect that is refused would leave a channel);
a lookup that found a delegate active which is revoked by now is of a spared
websocket (`LookedSpared`; without it the handler could register one that is
not).

*WorkerIdentity.* The root comes first and only `init` creates it (`RootFirst`);
a pair whose creation overlapped with nothing has one creator, whose step says
what state its files are in (`OneCreator`); what is about to be signed hangs off
the root (`SignedByRoot`). identity.json is written last and only over a
directory without one, and with it the four files are of one registration
(`IdentityLast`); a worker without an identity owes every registration so far to
a failure (`Owed`).

### Only model-checked

Liveness (`EventuallySettled`, `MissingFileReported`, `RestartHeals`,
`ChannelRestored`, `GatewayServes`, `WorkerServes`): fairness and ENABLED are
beyond the prover. `TerminalIsFinal`, which holds only for the faults of its
run. `RetriesAbsorbFaults`, which needs a count of the faults each attempt was
lost to. What the runs that expect a violation show needs no proof.

## 5. Not modelled

Cryptography, names and lifetimes of certificates (the code does not look at the
expiry of an identity it reuses), zip and unzip, the contents of ACL rules,
audit events (written, never read by the program), read-only endpoints, admin,
settings and migrations, docker itself, temporary directories, and the test
scripts. Several executions at once: watchers of different executions share
nothing but the process and the global stream. A redelivered run together with a
second fault in `ResultDelivery`.

## 6. Plan

1. `ExecutionProtocol`, `ChunkTransfer`, `DelegateRegistry`, `RestartGateway`
   with their runs; type correctness and the first invariants of the core
   proved (done).
2. `ResultDelivery`, `CertificateAuthority`, `WorkerIdentity`,
   `ExecutionContract` and its refinement, the gateway's death, tokens that are
   issued and revocations that are repeated; the gateway's invariants proved
   (done).
3. Proofs of the safety of results, transfers, registry, CA and identity, and of
   both refinements (done).
4. Left: `TerminalIsFinal` for any number of batches (every message a run
   publishes after its conclusion must be shown to be harmless),
   `RetriesAbsorbFaults` for any number of attempts, and a run of
   `results` with two runs and a second fault, should a smaller model of the log
   allow it.
