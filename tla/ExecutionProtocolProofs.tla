---------------------- MODULE ExecutionProtocolProofs ----------------------
(***************************************************************************)
(* Theorems about ExecutionProtocol, for every value of its constants.     *)
(***************************************************************************)
EXTENDS ExecutionProtocol, SequenceTheorems, TLAPS

USE ConstantsAssumption

-----------------------------------------------------------------------------
(* Facts about the helpers of the model.                                   *)

(* XADD of a message keeps the streams well typed. *)
LEMMA XAddType ==
    ASSUME stream \in [Stream -> Seq(Message)],
           NEW s \in Stream, NEW t, NEW i, [type |-> t, id |-> i] \in Message,
           XAdd(s, t, i)
    PROVE  stream' \in [Stream -> Seq(Message)]
<1>1. Append(stream[s], [type |-> t, id |-> i]) \in Seq(Message)
    BY AppendProperties
<1> QED
    BY <1>1 DEF XAdd

(* What XREAD returns is a sequence of messages of the stream. *)
LEMMA XReadType ==
    ASSUME stream \in [Stream -> Seq(Message)],
           NEW s \in Stream, NEW from \in Nat, NEW count \in Nat
    PROVE  XRead(s, from, count) \in Seq(Message)
<1> DEFINE q == stream[s]
<1>1. q \in Seq(Message) /\ Len(q) \in Nat
    BY LenProperties
<1>2. \A i \in (from + 1) .. Lesser(from + count, Len(q)) : q[i] \in Message
    BY <1>1, ElementOfSeq DEF Lesser
<1>3. Lesser(from + count, Len(q)) \in Nat
    BY <1>1 DEF Lesser
<1> QED
    BY <1>1, <1>2, <1>3, SubSeqProperties DEF XRead

(* What XREAD returns comes from the stream. *)
LEMMA XReadElement ==
    ASSUME stream \in [Stream -> Seq(Message)],
           NEW s \in Stream, NEW from \in Nat, NEW count \in Nat,
           NEW i \in 1 .. Len(XRead(s, from, count))
    PROVE  \E k \in 1 .. Len(stream[s]) : XRead(s, from, count)[i] = stream[s][k]
<1> DEFINE q == stream[s]
           n == Lesser(from + count, Len(q))
<1>1. q \in Seq(Message) /\ Len(q) \in Nat
    BY LenProperties
<1>2. n \in Nat /\ n <= Len(q)
    BY <1>1 DEF Lesser
<1> HIDE DEF q, n
<1>3. /\ Len(SubSeq(q, from + 1, n)) = IF from + 1 <= n THEN n - from ELSE 0
      /\ \A k \in 1 .. (n - from) : SubSeq(q, from + 1, n)[k] = q[from + k]
    BY <1>1, <1>2, SMTT(60)
<1>4. XRead(s, from, count) = SubSeq(q, from + 1, n)
    BY DEF XRead, q, n
<1>5. i \in 1 .. (n - from) /\ from + i \in 1 .. Len(q)
    BY <1>2, <1>3, <1>4, SMTT(60)
<1> QED
    BY <1>3, <1>4, <1>5 DEF q

(* The elements of a sequence of messages are messages. *)
LEMMA ElementType ==
    ASSUME NEW b \in Seq(Message), NEW i \in 1 .. Len(b)
    PROVE  b[i] \in Message /\ b[i].id \in Nat
<1>1. b[i] \in Message
    BY ElementOfSeq
<1> QED
    BY <1>1 DEF Message

(* A message published by a run is a message. *)
LEMMA RunMessage ==
    ASSUME NEW r \in Run,
           NEW t \in {"DATA_REQUEST", "DATA_START", "DATA_END", "TRANSFERRING_INPUT", "EXECUTING",
                      "TRANSFER_FAILED", "TASK_FAILED", "TASK_SUCCEEDED"}
    PROVE  [type |-> t, id |-> r] \in Message
BY DEF Run, Message

-----------------------------------------------------------------------------
(* Type correctness.                                                       *)

LEMMA InitTypeOK == Init => TypeOK
<1> SUFFICES ASSUME Init PROVE TypeOK
    OBVIOUS
<1>1. << >> \in Seq(Message)
    OBVIOUS
<1>2. RowOK /\ AuthOK /\ TaskOK /\ DispOK /\ SendOK
    BY DEF Init, RowOK, AuthOK, TaskOK, DispOK, SendOK, Status, NoRun
<1>3. RunOK
    BY DEF Init, RunOK, RecvOK, PC, NoRun
<1>4. WatchOK
    BY <1>1 DEF Init, WatchOK, NoRun
<1> QED
    BY <1>1, <1>2, <1>3, <1>4 DEF Init, TypeOK

(* What an action leaves alone keeps its type. *)
LEMMA Untouched ==
    ASSUME TypeOK
    PROVE  /\ UNCHANGED rowVars => RowOK'
           /\ UNCHANGED authVars => AuthOK'
           /\ UNCHANGED task => TaskOK'
           /\ UNCHANGED recvVars => RecvOK'
           /\ UNCHANGED runVars => RunOK'
           /\ UNCHANGED dispVars => DispOK'
           /\ UNCHANGED watchVars => WatchOK'
           /\ UNCHANGED sendVars => SendOK'
<1> USE DEF TypeOK
<1>1. UNCHANGED rowVars => RowOK'
    BY DEF RowOK, rowVars
<1>2. UNCHANGED authVars => AuthOK'
    BY DEF AuthOK, authVars
<1>3. UNCHANGED task => TaskOK'
    BY DEF TaskOK
<1>4. UNCHANGED recvVars => RecvOK'
    BY DEF RunOK, RecvOK, recvVars
<1>5. UNCHANGED runVars => RunOK'
    BY <1>4 DEF RunOK, runVars
<1>6. UNCHANGED dispVars => DispOK'
    BY DEF DispOK, dispVars
<1>7. UNCHANGED watchVars => WatchOK'
    BY DEF WatchOK, watchVars
<1>8. UNCHANGED sendVars => SendOK'
    BY DEF SendOK, sendVars, damage
<1> QED
    BY <1>1, <1>2, <1>3, <1>4, <1>5, <1>6, <1>7, <1>8

(* Counting a fault keeps the counter in its range. *)
LEMMA FaultType == ASSUME TypeOK, NEW k, Fault(k) PROVE faults' \in 0 .. MaxFaults
BY DEF TypeOK, Fault

LEMMA NextTypeOK == TypeOK /\ [Next]_vars => TypeOK'
<1> SUFFICES ASSUME TypeOK PROVE [Next]_vars => TypeOK'
    OBVIOUS
<1> USE Untouched, FaultType
<1>1. ASSUME CreateExecution PROVE TypeOK'
  <2>1. RowOK' /\ TaskOK'
      BY <1>1 DEF CreateExecution, TypeOK, RowOK, TaskOK, Status
  <2> QED
      BY <1>1, <2>1 DEF CreateExecution, TypeOK
<1>2. ASSUME SendExecuteTask PROVE TypeOK'
  <2>1. TaskOK'
      BY <1>2 DEF SendExecuteTask, TaskOK
  <2> QED
      BY <1>2, <2>1 DEF SendExecuteTask, TypeOK
<1>3. ASSUME RevokeDelegate \/ RevokeAcl PROVE TypeOK'
  <2>1. AuthOK'
      BY <1>3 DEF RevokeDelegate, RevokeAcl, TypeOK, AuthOK, SendOK
  <2> QED
      BY <1>3, <2>1 DEF RevokeDelegate, RevokeAcl, TypeOK
<1>4. ASSUME Deliver PROVE TypeOK'
  <2>1. RunOK' /\ TaskOK'
      BY <1>4 DEF Deliver, TypeOK, RunOK, TaskOK, PC, Preparing
  <2> QED
      BY <1>4, <2>1 DEF Deliver, TypeOK
<1>5. ASSUME RestoreLost \/ RestoreSlow PROVE TypeOK'
  <2>1. TaskOK'
      BY <1>5 DEF RestoreLost, RestoreSlow, Restore, TaskOK
  <2> QED
      BY <1>5, <2>1 DEF RestoreLost, RestoreSlow, Restore, TypeOK
<1>6. ASSUME NEW r \in Run, NEW from, NEW to \in PC, NEW st \in Stream,
             NEW t \in {"DATA_REQUEST", "DATA_START", "DATA_END", "TRANSFERRING_INPUT",
                        "EXECUTING", "TRANSFER_FAILED", "TASK_FAILED", "TASK_SUCCEEDED"},
             Publish(r, from, to, st, t)
      PROVE  TypeOK'
  <2>1. stream' \in [Stream -> Seq(Message)]
      BY <1>6, RunMessage, XAddType DEF Publish, TypeOK
  <2>2. RunOK'
      BY <1>6 DEF Publish, Goto, TypeOK, RunOK
  <2> QED
      BY <1>6, <2>1, <2>2 DEF Publish, TypeOK
<1>7. ASSUME NEW r \in Run,
             \/ PublishTransferring(r) \/ SendDataRequest(r) \/ PublishTransferFailed(r)
             \/ PublishExecuting(r) \/ SendOutputStart(r) \/ SendOutputEnd(r)
             \/ PublishSucceeded(r) \/ PublishTaskFailed(r)
      PROVE  TypeOK'
    BY <1>6, <1>7 DEF PublishTransferring, SendDataRequest, PublishTransferFailed, PublishExecuting,
        SendOutputStart, SendOutputEnd, PublishSucceeded, PublishTaskFailed,
        Stream, PC, Preparing, InBody
<1>8. ASSUME NEW r \in Run, Announce(r) \/ TaskRaises(r) PROVE TypeOK'
  <2>1. RunOK'
      BY <1>8 DEF Announce, TaskRaises, Goto, TypeOK, RunOK, PC, Preparing
  <2> QED
      BY <1>8, <2>1 DEF Announce, TaskRaises, TypeOK
<1>9. ASSUME NEW r \in Run, Retry(r)
      PROVE  /\ pc' \in [Run -> PC]
             /\ attempt' \in [Run -> 1 .. MaxRetries]
             /\ rx' \in [Run -> Nat]
    BY <1>9 DEF Retry, Lesser, TypeOK, RunOK, RecvOK, PC, Preparing
<1>10. ASSUME NEW r \in Run, Receive(r) PROVE TypeOK'
  <2> DEFINE b == XRead("events", cursor[r], ReceiveBatch)
  <2>1. b \in Seq(Message) /\ Len(b) \in Nat
      BY XReadType, LenProperties DEF TypeOK, RunOK, RecvOK, Stream
  <2>2. \A i \in 1 .. Len(b) : b[i].id \in Nat
      BY <2>1, ElementType
  <2> HIDE DEF b
  <2> DEFINE Typed == pc' \in [Run -> PC] /\ RecvOK'
  <2>3. ASSUME NEW t \in {rx[r]} \cup {b[j].id : j \in 1 .. Len(b)},
               rx' = [rx EXCEPT ![r] = t],
               cursor' = [cursor EXCEPT ![r] = @ + Len(b)],
               UNCHANGED <<pc, attempt>>
        PROVE  Typed
    <3>1. t \in Nat
        BY <2>2, <2>3 DEF TypeOK, RunOK, RecvOK
    <3> QED
        BY <2>1, <2>3, <3>1, SMTT(60) DEF TypeOK, RunOK, RecvOK
  <2>4. ASSUME NEW i \in 1 .. Len(b),
               Goto(r, "receive", "executing"), rx' = [rx EXCEPT ![r] = b[i].id],
               attempt' = [attempt EXCEPT ![r] = 1], cursor' = [cursor EXCEPT ![r] = 0]
        PROVE  Typed
      BY <2>2, <2>4 DEF Goto, TypeOK, RunOK, RecvOK, PC, Preparing
  <2>5. ASSUME NEW i \in 1 .. Len(b), cursor' = [cursor EXCEPT ![r] = @ + i], Retry(r)
        PROVE  Typed
    <3>1. cursor' \in [Run -> Nat]
        BY <2>1, <2>5, SMTT(60) DEF TypeOK, RunOK, RecvOK
    <3> QED
        BY <1>9, <2>5, <3>1 DEF RecvOK
  <2>6. Typed
      BY <1>10, <2>3, <2>4, <2>5 DEF Receive, b
  <2> QED
      BY <1>10, <2>6 DEF Receive, Received, TypeOK, RunOK
<1>11. ASSUME NEW r \in Run, ReceiveTimeout(r) PROVE TypeOK'
    BY <1>9, <1>11 DEF ReceiveTimeout, Received, TypeOK, RunOK, RecvOK
<1>12. ASSUME NEW r \in Run, Finish(r) PROVE TypeOK'
  <2>1. RunOK' /\ TaskOK'
      BY <1>12 DEF Finish, Goto, TypeOK, RunOK, TaskOK, PC, Ended
  <2> QED
      BY <1>12, <2>1 DEF Finish, TypeOK
<1>13. ASSUME NEW r \in Run, RunError(r) PROVE TypeOK'
  <2>1. pc' \in [Run -> PC]
      BY <1>13 DEF RunError, TypeOK, RunOK, PC
  <2>2. RecvOK'
      BY <1>13 DEF RunError, TypeOK, RunOK, RecvOK
  <2>3. RunOK'
      BY <1>13, <2>1, <2>2 DEF RunError, TypeOK, RunOK
  <2> QED
      BY <1>13, <2>3 DEF RunError, TypeOK
<1>14. ASSUME WorkerCrash PROVE TypeOK'
  <2>1. RunOK'
      BY <1>14 DEF WorkerCrash, TypeOK, RunOK, RecvOK, PC, Ended
  <2> QED
      BY <1>14, <2>1 DEF WorkerCrash, TypeOK
<1>15. ASSUME NEW p \in {"none", "loop", "exiting"}, WatcherAt(p) PROVE WatchOK'
  <2>1. << >> \in Seq(Message)
      OBVIOUS
  <2> QED
      BY <1>15, <2>1 DEF WatcherAt, WatchOK, NoRun
<1>16. ASSUME DispatcherRead PROVE TypeOK'
  <2>1. WatchOK' /\ DispOK'
      BY <1>15, <1>16 DEF DispatcherRead, TypeOK, DispOK
  <2> QED
      BY <1>16, <2>1 DEF DispatcherRead, TypeOK
<1>17. ASSUME DispatcherCrash \/ WatcherError PROVE TypeOK'
  <2>1. WatchOK' /\ DispOK'
      BY <1>15, <1>17 DEF DispatcherCrash, WatcherError, TypeOK, DispOK
  <2> QED
      BY <1>17, <2>1 DEF DispatcherCrash, WatcherError, TypeOK
<1>18. ASSUME DispatcherRestart PROVE TypeOK'
    BY <1>18 DEF DispatcherRestart, TypeOK, DispOK
<1>19. Del => stream' \in [Stream -> Seq(Message)]
  <2>1. << >> \in Seq(Message)
      OBVIOUS
  <2> QED
      BY <2>1 DEF Del
<1>20. ASSUME RedisRestart PROVE TypeOK'
  <2>1. SendOK'
      BY <1>20 DEF RedisRestart, TypeOK, SendOK
  <2>2. RunOK'
      BY <1>20 DEF RedisRestart, TypeOK, RunOK, RecvOK
  <2>3. WatchOK' /\ DispOK' /\ TaskOK'
      BY <1>20 DEF RedisRestart, TypeOK, WatchOK, DispOK, TaskOK
  <2> QED
      BY <1>19, <1>20, <2>1, <2>2, <2>3 DEF RedisRestart, TypeOK
<1>21. ASSUME WatcherRead PROVE TypeOK'
  <2>1. ASSUME NEW st \in Stream
        PROVE  /\ XRead(st, wcur[st], WatchBatch) \in Seq(Message)
               /\ Lesser(wcur[st] + WatchBatch, Len(stream[st])) \in Nat
    <3>1. wcur[st] \in Nat /\ Len(stream[st]) \in Nat
        BY LenProperties DEF TypeOK, WatchOK
    <3>2. stream \in [Stream -> Seq(Message)]
        BY DEF TypeOK
    <3>3. WatchBatch \in Nat
        OBVIOUS
    <3>4. XRead(st, wcur[st], WatchBatch) \in Seq(Message)
        BY <3>1, <3>2, <3>3, XReadType
    <3> QED
        BY <3>1, <3>4 DEF Lesser
  <2>2. WatchOK'
      BY <1>21, <2>1 DEF WatcherRead, TypeOK, WatchOK
  <2> QED
      BY <1>21, <2>2 DEF WatcherRead, TypeOK
<1>22. ASSUME HandleEvent PROVE TypeOK'
  <2> DEFINE b == wbatch["events"]
  <2>1. PICK i \in Requests : wbatch' = [wbatch EXCEPT !["events"] = SubSeq(b, i + 1, Len(b))]
      BY <1>22, Zenon DEF HandleEvent
  <2>2. b \in Seq(Message) /\ Len(b) \in Nat /\ i \in 1 .. Len(b)
      BY LenProperties DEF TypeOK, WatchOK, Stream, Requests
  <2>3. SubSeq(b, i + 1, Len(b)) \in Seq(Message)
      BY <2>2, SubSeqProperties, ElementOfSeq
  <2>4. WatchOK'
      BY <1>22, <2>1, <2>3 DEF HandleEvent, TypeOK, WatchOK
  <2> QED
      BY <1>22, <2>4 DEF HandleEvent, TypeOK
<1>23. ASSUME NEW t \in {"DATA_START", "DATA_END"}, NEW i \in Nat, XAdd("events", t, i)
       PROVE  stream' \in [Stream -> Seq(Message)]
  <2>1. [type |-> t, id |-> i] \in Message
      BY DEF Message
  <2> QED
      BY <1>23, <2>1, XAddType DEF TypeOK, Stream
<1>24. ASSUME SendStart \/ SendEnd PROVE TypeOK'
  <2>1. stream' \in [Stream -> Seq(Message)]
      BY <1>23, <1>24 DEF SendStart, SendEnd, SendStep, TypeOK, SendOK
  <2>2. SendOK'
    <3>1. transfers' \in Nat
        BY <1>24 DEF SendStart, SendEnd, TypeOK, SendOK
    <3>2. complete' = complete \/ complete' = complete \cup {transfers}
        BY <1>24 DEF SendStart, SendEnd
    <3> QED
        BY <1>24, <3>1, <3>2 DEF SendStart, SendEnd, TypeOK, SendOK, damage
  <2>3. WatchOK'
      BY <1>24 DEF SendStart, SendEnd, SendStep, TypeOK, WatchOK
  <2> QED
      BY <1>24, <2>1, <2>2, <2>3 DEF SendStart, SendEnd, SendStep, TypeOK
<1>25. ASSUME SaveTransfer PROVE TypeOK'
  <2>1. RowOK' /\ WatchOK'
      BY <1>25 DEF SaveTransfer, TypeOK, RowOK, WatchOK, SendOK, Status
  <2> QED
      BY <1>25, <2>1 DEF SaveTransfer, TypeOK
<1>26. ASSUME NEW st \in {"status", "output"}, ~Drained(st), Take(st)
       PROVE  /\ wbatch' \in [Stream -> Seq(Message)]
              /\ Head(wbatch[st]) \in Message
  <2>1. wbatch[st] \in Seq(Message) /\ wbatch[st] # << >>
      BY <1>26 DEF Drained, TypeOK, WatchOK, Stream
  <2>2. Tail(wbatch[st]) \in Seq(Message) /\ Head(wbatch[st]) \in Message
      BY <2>1, HeadTailProperties
  <2> QED
      BY <1>26, <2>2 DEF Take, TypeOK, WatchOK
<1>27. ASSUME HandleStatus PROVE TypeOK'
  <2>1. WatchOK'
      BY <1>26, <1>27 DEF HandleStatus, TypeOK, WatchOK
  <2>2. \A t \in DOMAIN STATUS_MAPPING : STATUS_MAPPING[t] \in Status
      BY DEF STATUS_MAPPING, Status, TERMINAL_STATUSES
  <2>3. RowOK'
      BY <1>27, <2>2 DEF HandleStatus, TypeOK, RowOK
  <2> QED
      BY <1>27, <2>1, <2>3 DEF HandleStatus, TypeOK
<1>28. ASSUME HandleOutput PROVE TypeOK'
  <2>1. PICK m \in Message : m = Head(wbatch["output"])
      BY <1>26, <1>28 DEF HandleOutput
  <2>2. wbatch' \in [Stream -> Seq(Message)]
      BY <1>26, <1>28 DEF HandleOutput
  <2>3. m.id \in Nat
      BY DEF Message
  <2>4. RowOK'
      BY <1>28 DEF HandleOutput, TypeOK, RowOK, WatchOK, Status, TERMINAL_STATUSES
  <2>5. WatchOK'
      BY <1>28, <2>1, <2>2, <2>3 DEF HandleOutput, TypeOK, WatchOK, NoRun
  <2> QED
      BY <1>28, <2>4, <2>5 DEF HandleOutput, TypeOK
<1>29. ASSUME SaveOutput PROVE TypeOK'
  <2>1. RowOK' /\ WatchOK'
      BY <1>29 DEF SaveOutput, TypeOK, RowOK, WatchOK, Status, TERMINAL_STATUSES, NoRun
  <2> QED
      BY <1>29, <2>1 DEF SaveOutput, TypeOK
<1>30. ASSUME Cleanup PROVE TypeOK'
  <2>1. RunOK'
      BY <1>30 DEF Cleanup, TypeOK, RunOK, RecvOK
  <2> QED
      BY <1>15, <1>19, <1>30, <2>1 DEF Cleanup, TypeOK
<1>31. ASSUME WatcherExit PROVE TypeOK'
  <2>1. WatchOK'
      BY <1>31 DEF WatcherExit, TypeOK, WatchOK
  <2> QED
      BY <1>31, <2>1 DEF WatcherExit, TypeOK
<1>32. ASSUME UNCHANGED vars PROVE TypeOK'
    BY <1>32 DEF vars, TypeOK
<1> QED
    BY <1>1, <1>2, <1>3, <1>4, <1>5, <1>7, <1>8, <1>10, <1>11, <1>12, <1>13, <1>14, <1>16, <1>17,
       <1>18, <1>20, <1>21, <1>22, <1>24, <1>25, <1>27, <1>28, <1>29, <1>30, <1>31, <1>32
    DEF Next, RunStep, WatcherStep

(* Every reachable state of the execution protocol is well typed: statuses *)
(* written by the watcher, batches, cursors and attempts stay in range.    *)
THEOREM TypeCorrect == Spec => []TypeOK
BY InitTypeOK, NextTypeOK, PTL DEF Spec

-----------------------------------------------------------------------------
(* The watcher and the terminal status.                                    *)

(* RequestNeverReopens is not inductive: a request may still be waiting in *)
(* the batch, or reach the loop again from the middle of storing an output.*)
Reopen ==
    /\ wpc \in {"send", "sending", "save"} \/ (wpc = "loop" /\ Requests # {}) => ~Terminal
    /\ wpc = "store" => Requests = {}

(* Requests and Terminal depend on the batch and on the status alone. *)
LEMMA SameRequests == /\ UNCHANGED wbatch => Requests' = Requests
                      /\ wbatch'["events"] = wbatch["events"] => Requests' = Requests
                      /\ UNCHANGED status => Terminal' = Terminal
BY DEF Requests, Terminal

(* A watcher that starts or leaves holds no request. *)
LEMMA NoRequests == ASSUME NEW p, WatcherAt(p) PROVE Requests' = {} /\ AllDrained'
<1>1. wbatch'["events"] = << >>
    BY DEF WatcherAt, Stream
<1>2. Requests' = {}
    BY <1>1 DEF Requests
<1>3. \A st \in Stream : wbatch'[st] = << >>
    BY DEF WatcherAt
<1> QED
    BY <1>2, <1>3 DEF AllDrained, Drained

(* Steps that leave the watcher's position, batch and the status alone.    *)
WatcherIdle == UNCHANGED <<wpc, wbatch, status>>

LEMMA IdleSteps ==
    ASSUME \/ SendExecuteTask \/ RevokeDelegate \/ RevokeAcl \/ Deliver \/ RestoreLost \/ RestoreSlow
           \/ (\E r \in Run : RunStep(r) \/ RunError(r))
           \/ WorkerCrash \/ DispatcherRestart \/ RedisRestart \/ UNCHANGED vars
    PROVE  WatcherIdle
<1>1. ASSUME NEW r \in Run, RunStep(r) PROVE WatcherIdle
    BY <1>1 DEF RunStep, WatcherIdle, Announce, PublishTransferring, SendDataRequest, Receive,
        ReceiveTimeout, Received, PublishTransferFailed, PublishExecuting, SendOutputStart,
        SendOutputEnd, PublishSucceeded, TaskRaises, PublishTaskFailed, Finish, Publish,
        rowVars, watchVars
<1>2. ASSUME NEW r \in Run, RunError(r) PROVE WatcherIdle
    BY <1>2 DEF RunError, WatcherIdle, rowVars, watchVars
<1>3. ASSUME SendExecuteTask \/ RevokeDelegate \/ RevokeAcl \/ Deliver \/ RestoreLost \/ RestoreSlow
      PROVE  WatcherIdle
    BY <1>3 DEF SendExecuteTask, RevokeDelegate, RevokeAcl, Deliver, RestoreLost, RestoreSlow, Restore,
        WatcherIdle, rowVars, watchVars
<1>4. ASSUME WorkerCrash \/ DispatcherRestart \/ RedisRestart \/ UNCHANGED vars PROVE WatcherIdle
    BY <1>4 DEF WorkerCrash, DispatcherRestart, RedisRestart, vars, WatcherIdle, rowVars, watchVars
<1> QED
    BY <1>1, <1>2, <1>3, <1>4

LEMMA InitReopen == Init => Reopen
<1> SUFFICES ASSUME Init PROVE Reopen
    OBVIOUS
<1>1. wbatch["events"] = << >>
    BY DEF Init, Stream
<1> QED
    BY <1>1 DEF Init, Reopen, Requests

LEMMA NextReopen == TypeOK /\ Reopen /\ [Next]_vars => Reopen'
<1> SUFFICES ASSUME TypeOK, Reopen PROVE [Next]_vars => Reopen'
    OBVIOUS
<1> USE SameRequests
<1>1. ASSUME WatcherIdle PROVE Reopen'
    BY <1>1 DEF WatcherIdle, Reopen
<1>2. ASSUME CreateExecution PROVE Reopen'
    BY <1>2 DEF CreateExecution, Reopen, watchVars, Terminal, TERMINAL_STATUSES
<1>3. ASSUME NEW p \in {"none", "loop", "exiting"}, WatcherAt(p) PROVE Reopen'
    BY <1>3, NoRequests DEF WatcherAt, Reopen
<1>4. ASSUME DispatcherRead \/ DispatcherCrash \/ WatcherError \/ Cleanup PROVE Reopen'
  <2>1. UNCHANGED status
      BY <1>4 DEF DispatcherRead, DispatcherCrash, WatcherError, Cleanup, rowVars
  <2>2. UNCHANGED watchVars => Reopen'
      BY <2>1 DEF watchVars, Reopen
  <2> QED
      BY <1>3, <1>4, <2>2 DEF DispatcherRead, DispatcherCrash, WatcherError, Cleanup
<1>5. ASSUME WatcherRead PROVE Reopen'
    BY <1>5 DEF WatcherRead, Reopen, rowVars
<1>6. ASSUME HandleEvent PROVE Reopen'
    BY <1>6 DEF HandleEvent, Reopen, rowVars, Drained
<1>7. ASSUME SendStart \/ SendEnd PROVE Reopen'
    BY <1>7 DEF SendStart, SendEnd, SendStep, Reopen, rowVars
<1>8. ASSUME SaveTransfer PROVE Reopen'
    BY <1>8 DEF SaveTransfer, Reopen, Terminal, TERMINAL_STATUSES
<1>9. ASSUME NEW st \in {"status", "output"}, Take(st) PROVE Requests' = Requests
  <2>1. wbatch'["events"] = wbatch["events"]
      BY <1>9 DEF Take, TypeOK, WatchOK, Stream
  <2> QED
      BY <2>1
<1>10. ASSUME HandleStatus \/ HandleOutput PROVE Reopen'
  <2>1. Requests = {} /\ Requests' = {}
      BY <1>9, <1>10 DEF HandleStatus, HandleOutput, Drained
  <2>2. wpc' \in {"loop", "store"}
      BY <1>10 DEF HandleStatus, HandleOutput
  <2> QED
      BY <2>1, <2>2 DEF Reopen
<1>11. ASSUME SaveOutput PROVE Reopen'
    BY <1>11 DEF SaveOutput, Reopen
<1>12. ASSUME WatcherExit PROVE Reopen'
    BY <1>12 DEF WatcherExit, Reopen
<1> QED
    BY <1>1, <1>2, <1>4, <1>5, <1>6, <1>7, <1>8, <1>10, <1>11, <1>12, IdleSteps DEF Next, WatcherStep

(* For any number of runs, retries and faults: while a workspace transfer  *)
(* is under way, or about to be recorded, the execution has no terminal    *)
(* status that the TRANSFERRING of _handle_data_request could overwrite.   *)
THEOREM NeverReopens == Spec => []RequestNeverReopens
<1>1. Reopen => RequestNeverReopens
    BY DEF Reopen, RequestNeverReopens
<1> QED
    BY <1>1, InitTypeOK, NextTypeOK, InitReopen, NextReopen, PTL DEF Spec

(* The status of a sealed execution does not change in any step. *)
LEMMA SealedStep == TypeOK /\ Reopen /\ [Next]_vars => (Sealed => Sealed' /\ status' = status)
<1> SUFFICES ASSUME TypeOK, Reopen, Sealed PROVE [Next]_vars => Sealed' /\ status' = status
    OBVIOUS
<1> USE SameRequests
<1>1. Terminal /\ wpc # "store" /\ (wpc = "loop" => AllDrained)
    BY DEF Sealed, MidBatch
<1>2. UNCHANGED wbatch => AllDrained' = AllDrained
    BY DEF AllDrained, Drained
<1>3. ASSUME WatcherIdle PROVE Sealed' /\ status' = status
    BY <1>1, <1>2, <1>3 DEF WatcherIdle, Sealed, MidBatch
<1>4. ASSUME CreateExecution PROVE FALSE
    BY <1>1, <1>4 DEF CreateExecution, Terminal, TERMINAL_STATUSES, NoRow
<1>5. ASSUME UNCHANGED status, NEW p \in {"none", "loop", "exiting"}, WatcherAt(p)
      PROVE  Sealed' /\ status' = status
  <2>1. AllDrained' /\ wpc' # "store"
      BY <1>5, NoRequests DEF WatcherAt
  <2> QED
      BY <1>1, <1>5, <2>1 DEF Sealed, MidBatch
<1>6. ASSUME DispatcherRead \/ DispatcherCrash \/ WatcherError \/ Cleanup
      PROVE  Sealed' /\ status' = status
  <2>1. UNCHANGED status
      BY <1>6 DEF DispatcherRead, DispatcherCrash, WatcherError, Cleanup, rowVars
  <2>2. UNCHANGED watchVars => Sealed' /\ status' = status
      BY <1>3, <2>1 DEF watchVars, WatcherIdle
  <2> QED
      BY <1>5, <1>6, <2>1, <2>2 DEF DispatcherRead, DispatcherCrash, WatcherError, Cleanup
<1>7. ASSUME WatcherRead \/ SendStart \/ SendEnd \/ SaveTransfer PROVE FALSE
    BY <1>1, <1>7 DEF WatcherRead, SendStart, SendEnd, SendStep, SaveTransfer, Reopen
<1>8. ASSUME HandleEvent \/ HandleStatus \/ HandleOutput \/ SaveOutput PROVE FALSE
    BY <1>1, <1>8 DEF HandleEvent, HandleStatus, HandleOutput, SaveOutput, AllDrained, Stream
<1>9. ASSUME WatcherExit PROVE Sealed' /\ status' = status
    BY <1>1, <1>9 DEF WatcherExit, rowVars, Sealed, MidBatch
<1> QED
    BY <1>3, <1>4, <1>6, <1>7, <1>8, <1>9, IdleSteps DEF Next, WatcherStep

(* For any number of runs, retries and faults: a terminal status that the  *)
(* watcher's current batch can no longer overwrite is never overwritten.   *)
THEOREM SealedForever == Spec => SealedIsFinal
<1>1. TypeOK /\ Reopen /\ [Next]_vars => [Sealed => Sealed' /\ status' = status]_vars
    BY SealedStep
<1> QED
    BY <1>1, InitTypeOK, NextTypeOK, InitReopen, NextReopen, PTL DEF Spec, SealedIsFinal

-----------------------------------------------------------------------------
(* Revocation and what a run executes on.                                  *)

(* RevocationStopsTransfers with the position of the watcher: the one      *)
(* transfer that may follow the revocation leaves the send state with it,  *)
(* and the status check lets no other request into that state.             *)
Cutoff ==
    delegate = "REVOKED" =>
        transfers <= sentAtRevoke \/ (transfers = sentAtRevoke + 1 /\ wpc # "send")

(* The only steps that start a transfer or move the watcher to "send".     *)
LEMMA NoTransferSteps ==
    ASSUME [Next]_vars
    PROVE  \/ HandleEvent \/ SendStart \/ RevokeDelegate
           \/ /\ UNCHANGED <<transfers, delegate, sentAtRevoke>>
              /\ wpc' # "send" \/ UNCHANGED wpc
<1> USE DEF sendVars, authVars, watchVars
<1>1. ASSUME NEW r \in Run, RunStep(r) \/ RunError(r)
      PROVE  UNCHANGED <<transfers, delegate, sentAtRevoke, wpc>>
    BY <1>1 DEF RunStep, RunError, Announce, PublishTransferring, SendDataRequest, Receive,
        ReceiveTimeout, Received, PublishTransferFailed, PublishExecuting, SendOutputStart,
        SendOutputEnd, PublishSucceeded, TaskRaises, PublishTaskFailed, Finish, Publish
<1>2. ASSUME CreateExecution \/ SendExecuteTask \/ RevokeAcl \/ Deliver \/ RestoreLost \/ RestoreSlow
             \/ WorkerCrash \/ DispatcherRestart \/ RedisRestart \/ UNCHANGED vars
      PROVE  UNCHANGED <<transfers, delegate, sentAtRevoke, wpc>>
    BY <1>2 DEF CreateExecution, SendExecuteTask, RevokeAcl, Deliver, RestoreLost, RestoreSlow, Restore,
        WorkerCrash, DispatcherRestart, RedisRestart, vars
<1>3. ASSUME DispatcherRead \/ DispatcherCrash \/ WatcherError \/ Cleanup
      PROVE  /\ UNCHANGED <<transfers, delegate, sentAtRevoke>>
             /\ wpc' # "send" \/ UNCHANGED wpc
    BY <1>3 DEF DispatcherRead, DispatcherCrash, WatcherError, Cleanup, WatcherAt
<1>4. ASSUME WatcherRead \/ SendEnd \/ SaveTransfer \/ HandleStatus \/ SaveOutput \/ WatcherExit
      PROVE  /\ UNCHANGED <<transfers, delegate, sentAtRevoke>>
             /\ wpc' # "send" \/ UNCHANGED wpc
    BY <1>4 DEF WatcherRead, SendEnd, SendStep, SaveTransfer, HandleStatus, SaveOutput, WatcherExit
<1>5. ASSUME HandleOutput
      PROVE  /\ UNCHANGED <<transfers, delegate, sentAtRevoke>>
             /\ wpc' # "send" \/ UNCHANGED wpc
    BY <1>5 DEF HandleOutput
<1> QED
    BY <1>1, <1>2, <1>3, <1>4, <1>5 DEF Next, WatcherStep

LEMMA NextCutoff == TypeOK /\ Cutoff /\ [Next]_vars => Cutoff'
<1> SUFFICES ASSUME TypeOK, Cutoff, [Next]_vars PROVE Cutoff'
    OBVIOUS
<1>1. transfers \in Nat /\ sentAtRevoke \in Nat
    BY DEF TypeOK, SendOK, AuthOK
<1>2. CASE HandleEvent
    BY <1>1, <1>2 DEF HandleEvent, Authorized, Cutoff, authVars, sendVars
<1>3. CASE SendStart
    BY <1>1, <1>3 DEF SendStart, SendStep, Cutoff, authVars
<1>4. CASE RevokeDelegate
    BY <1>1, <1>4 DEF RevokeDelegate, Cutoff, sendVars
<1>5. CASE /\ UNCHANGED <<transfers, delegate, sentAtRevoke>>
           /\ wpc' # "send" \/ UNCHANGED wpc
    BY <1>1, <1>5 DEF Cutoff
<1> QED
    BY <1>2, <1>3, <1>4, <1>5, NoTransferSteps

(* However the watcher, the runs and the revocation interleave, at most    *)
(* one workspace transfer starts after the delegate was revoked.           *)
THEOREM RevocationCutsOff == Spec => []RevocationStopsTransfers
<1>1. Init => Cutoff
    BY DEF Init, Cutoff
<1>2. TypeOK /\ Cutoff => RevocationStopsTransfers
    BY DEF TypeOK, SendOK, AuthOK, Cutoff, RevocationStopsTransfers
<1> QED
    BY <1>1, <1>2, InitTypeOK, NextTypeOK, NextCutoff, PTL DEF Spec

-----------------------------------------------------------------------------
(* A DATA_END in the events stream belongs to a transfer that was sent to  *)
(* the end, and only the transfer being sent can still lose chunks: that   *)
(* is what makes the receiver's one check at DATA_END last.                *)

EndsAreSent ==
    \A i \in 1 .. Len(stream["events"]) :
        stream["events"][i].type = "DATA_END" => stream["events"][i].id \in complete

TransfersSent ==
    /\ wpc \in {"send", "sending", "save"} \/ complete # {} => fileExists
    /\ \A t \in complete : t <= transfers
    /\ wpc = "sending" => transfers \notin complete

RunsSent == \A r \in Run : pc[r] \in InBody => rx[r] \in complete /\ <<r, rx[r]>> \notin damaged

Sent == EndsAreSent /\ TransfersSent /\ RunsSent

(* An XADD keeps EndsAreSent unless it is a DATA_END of an incomplete      *)
(* transfer.                                                               *)
LEMMA XAddSent ==
    ASSUME TypeOK, EndsAreSent, NEW s \in Stream, NEW t, NEW i, XAdd(s, t, i),
           complete \subseteq complete',
           s = "events" /\ t = "DATA_END" => i \in complete'
    PROVE  EndsAreSent'
<1> DEFINE q == stream["events"]
           m == [type |-> t, id |-> i]
<1>1. q \in Seq(Message)
    BY DEF TypeOK, Stream
<1>2. CASE s # "events"
  <2>1. stream'["events"] = q
      BY <1>2 DEF XAdd, TypeOK, Stream
  <2> QED
      BY <2>1 DEF EndsAreSent
<1>3. CASE s = "events"
  <2>1. stream'["events"] = Append(q, m)
      BY <1>3 DEF XAdd, TypeOK, Stream
  <2>2. /\ Len(Append(q, m)) = Len(q) + 1
        /\ Len(q) \in Nat
        /\ \A k \in 1 .. Len(q) : Append(q, m)[k] = q[k]
        /\ Append(q, m)[Len(q) + 1] = m
      BY <1>1
  <2>3. ASSUME NEW k \in 1 .. Len(stream'["events"]), stream'["events"][k].type = "DATA_END"
        PROVE  stream'["events"][k].id \in complete'
    <3>1. CASE k \in 1 .. Len(q)
        BY <2>1, <2>2, <2>3, <3>1 DEF EndsAreSent
    <3>2. CASE k = Len(q) + 1
        BY <1>3, <2>1, <2>2, <2>3, <3>2
    <3> QED
        BY <2>1, <2>2, <3>1, <3>2
  <2> QED
      BY <2>3 DEF EndsAreSent
<1> QED
    BY <1>2, <1>3

(* DEL leaves nothing to account for. *)
LEMMA DelSent == Del => EndsAreSent'
<1> SUFFICES ASSUME Del PROVE EndsAreSent'
    OBVIOUS
<1>1. stream'["events"] = << >>
    BY DEF Del, Stream
<1> QED
    BY <1>1 DEF EndsAreSent

(* The three parts of Sent depend on few variables. *)
LEMMA SentUnchanged ==
    /\ EndsAreSent /\ UNCHANGED <<stream, complete>> => EndsAreSent'
    /\ TransfersSent /\ UNCHANGED <<fileExists, complete, transfers>>
         /\ (wpc' \in {"send", "sending", "save"} => wpc' = wpc) => TransfersSent'
    /\ RunsSent /\ UNCHANGED <<pc, rx, complete, damaged>> => RunsSent'
<1>1. EndsAreSent /\ UNCHANGED <<stream, complete>> => EndsAreSent'
    BY DEF EndsAreSent
<1>2. TransfersSent /\ UNCHANGED <<fileExists, complete, transfers>>
         /\ (wpc' \in {"send", "sending", "save"} => wpc' = wpc) => TransfersSent'
    BY DEF TransfersSent
<1>3. RunsSent /\ UNCHANGED <<pc, rx, complete, damaged>> => RunsSent'
    BY DEF RunsSent
<1> QED
    BY <1>1, <1>2, <1>3

LEMMA NextSent == TypeOK /\ Sent /\ [Next]_vars => Sent'
<1> SUFFICES ASSUME TypeOK, Sent PROVE [Next]_vars => Sent'
    OBVIOUS
<1> USE SentUnchanged DEF Sent
<1> DEFINE Keeps == \A q \in Run : pc'[q] \in InBody => pc[q] \in InBody /\ rx'[q] = rx[q]
<1>1. ASSUME Keeps, UNCHANGED <<complete, damaged>> PROVE RunsSent'
    BY <1>1 DEF RunsSent
<1>2. ASSUME UNCHANGED sendVars PROVE UNCHANGED <<transfers, complete, damaged>>
    BY <1>2 DEF sendVars, damage
<1>3. ASSUME UNCHANGED runVars PROVE UNCHANGED <<pc, rx>>
    BY <1>3 DEF runVars, recvVars
<1>4. ASSUME NEW r \in Run, NEW from, NEW to, NEW st \in Stream, NEW t,
             Publish(r, from, to, st, t), to \in InBody => from \in InBody,
             st = "events" => t # "DATA_END"
      PROVE  Sent'
  <2>1. Keeps
      BY <1>4 DEF Publish, Goto, recvVars, TypeOK, RunOK
  <2>2. EndsAreSent'
      BY <1>2, <1>4, XAddSent DEF Publish
  <2> QED
      BY <1>1, <1>2, <1>4, <2>1, <2>2 DEF Publish, watchVars
<1>5. ASSUME NEW r \in Run,
             \/ PublishTransferring(r) \/ SendDataRequest(r) \/ PublishTransferFailed(r)
             \/ PublishExecuting(r) \/ SendOutputStart(r) \/ SendOutputEnd(r)
             \/ PublishSucceeded(r) \/ PublishTaskFailed(r)
      PROVE  Sent'
    BY <1>4, <1>5 DEF PublishTransferring, SendDataRequest, PublishTransferFailed, PublishExecuting,
        SendOutputStart, SendOutputEnd, PublishSucceeded, PublishTaskFailed, Stream, InBody
<1>6. ASSUME NEW r \in Run, Announce(r) \/ TaskRaises(r) \/ Finish(r) \/ RunError(r) PROVE Sent'
  <2>1. Keeps
      BY <1>6 DEF Announce, TaskRaises, Finish, RunError, Goto, recvVars, InBody, TypeOK, RunOK
  <2> QED
      BY <1>1, <1>2, <1>6, <2>1 DEF Announce, TaskRaises, Finish, RunError, watchVars
<1>7. ASSUME NEW r \in Run, Retry(r) PROVE Keeps
    BY <1>7 DEF Retry, InBody, TypeOK, RunOK, RecvOK
<1>8. ASSUME NEW r \in Run, ReceiveTimeout(r) PROVE Sent'
    BY <1>1, <1>2, <1>7, <1>8 DEF ReceiveTimeout, Received, watchVars
<1>9. ASSUME NEW r \in Run, Receive(r) PROVE Sent'
  <2> DEFINE q == stream["events"]
             b == XRead("events", cursor[r], ReceiveBatch)
  <2>1. /\ q \in Seq(Message) /\ Len(q) \in Nat /\ cursor[r] \in Nat /\ ReceiveBatch \in Nat
      BY LenProperties DEF TypeOK, RunOK, RecvOK, Stream
  <2>2. ASSUME NEW i \in 1 .. Len(b), b[i].type = "DATA_END" PROVE b[i].id \in complete
    <3>1. stream \in [Stream -> Seq(Message)] /\ "events" \in Stream
        BY DEF TypeOK, Stream
    <3>2. \E k \in 1 .. Len(q) : b[i] = q[k]
        BY <2>1, <3>1, XReadElement
    <3> QED
        BY <2>2, <3>2 DEF EndsAreSent
  <2> HIDE DEF b
  <2>3. RunsSent'
    <3>1. ASSUME NEW i \in 1 .. Len(b), IsEnd(r, b, i), <<r, b[i].id>> \notin damaged,
                 Goto(r, "receive", "executing"), rx' = [rx EXCEPT ![r] = b[i].id],
                 UNCHANGED <<complete, damaged>>
          PROVE  RunsSent'
      <4>1. b[i].id \in complete
          BY <2>2, <3>1 DEF IsEnd
      <4>2. ASSUME NEW p \in Run, pc'[p] \in InBody
            PROVE  rx'[p] \in complete' /\ <<p, rx'[p]>> \notin damaged'
        <5>1. CASE p = r
            BY <3>1, <4>1, <5>1 DEF TypeOK, RunOK, RecvOK
        <5>2. CASE p # r
            BY <3>1, <4>2, <5>2 DEF RunsSent, Goto, TypeOK, RunOK, RecvOK
        <5> QED
            BY <5>1, <5>2
      <4> QED
          BY <4>2 DEF RunsSent
    <3>2. ASSUME NEW t, rx' = [rx EXCEPT ![r] = t], UNCHANGED pc, pc[r] = "receive"
          PROVE  Keeps
        BY <3>2 DEF InBody, TypeOK, RunOK, RecvOK
    <3>3. UNCHANGED <<complete, damaged>>
        BY <1>2, <1>9 DEF Receive, Received
    <3> QED
        BY <1>1, <1>7, <1>9, <3>1, <3>2, <3>3 DEF Receive, b
  <2> QED
      BY <1>2, <1>9, <2>3 DEF Receive, Received, watchVars
<1>10. ASSUME WorkerCrash PROVE Sent'
  <2>1. Keeps
      BY <1>10 DEF WorkerCrash, InBody, TypeOK, RunOK
  <2> QED
      BY <1>1, <1>2, <1>10, <2>1 DEF WorkerCrash, watchVars
<1>11. ASSUME Deliver PROVE Sent'
  <2>1. Keeps
      BY <1>11 DEF Deliver, InBody, recvVars, TypeOK, RunOK
  <2> QED
      BY <1>1, <1>2, <1>11, <2>1 DEF Deliver, watchVars
<1>12. ASSUME CreateExecution \/ SendExecuteTask \/ RevokeDelegate \/ RevokeAcl
              \/ RestoreLost \/ RestoreSlow \/ DispatcherRestart \/ UNCHANGED vars
       PROVE  Sent'
    BY <1>2, <1>3, <1>12 DEF CreateExecution, SendExecuteTask, RevokeDelegate, RevokeAcl,
        RestoreLost, RestoreSlow, Restore, DispatcherRestart, vars, watchVars
<1>13. ASSUME DispatcherRead \/ DispatcherCrash \/ WatcherError PROVE Sent'
    BY <1>2, <1>3, <1>13 DEF DispatcherRead, DispatcherCrash, WatcherError, WatcherAt, watchVars
<1>14. ASSUME RedisRestart PROVE Sent'
  <2>1. PICK lost \in SUBSET {<<r, transfers>> : r \in Run} :
            (lost # {} => wpc = "sending") /\ damaged' = damaged \cup lost
      BY <1>14 DEF RedisRestart
  <2>2. ASSUME NEW r \in Run, pc[r] \in InBody PROVE <<r, rx[r]>> \notin lost
    <3>1. rx[r] \in complete
        BY <2>2 DEF RunsSent
    <3> QED
        BY <2>1, <3>1 DEF TransfersSent
  <2>3. RunsSent'
      BY <1>14, <2>1, <2>2 DEF RedisRestart, RunsSent
  <2> QED
      BY <1>14, <2>3, DelSent DEF RedisRestart
<1>15. ASSUME WatcherRead \/ HandleStatus \/ SaveTransfer \/ SaveOutput \/ WatcherExit PROVE Sent'
    BY <1>2, <1>3, <1>15 DEF WatcherRead, HandleStatus, SaveTransfer, SaveOutput, WatcherExit
<1>16. ASSUME HandleOutput PROVE Sent'
    BY <1>2, <1>3, <1>16 DEF HandleOutput
<1>17. ASSUME HandleEvent PROVE Sent'
  <2>1. TransfersSent'
      BY <1>2, <1>17 DEF HandleEvent, FileFound, TransfersSent
  <2> QED
      BY <1>2, <1>3, <1>17, <2>1 DEF HandleEvent
<1>18. ASSUME SendStart PROVE Sent'
  <2>1. TransfersSent'
      BY <1>18 DEF SendStart, SendStep, TransfersSent, TypeOK, SendOK
  <2>2. EndsAreSent'
      BY <1>18, XAddSent DEF SendStart, SendStep, Stream
  <2> QED
      BY <1>3, <1>18, <2>1, <2>2 DEF SendStart, SendStep, damage
<1>19. ASSUME SendEnd PROVE Sent'
  <2>1. complete' = complete \cup {transfers}
      BY <1>19 DEF SendEnd
  <2>2. TransfersSent'
      BY <1>19, <2>1 DEF SendEnd, SendStep, TransfersSent, TypeOK, SendOK
  <2>3. EndsAreSent'
      BY <1>19, <2>1, XAddSent DEF SendEnd, SendStep, Stream
  <2>4. RunsSent'
      BY <1>3, <1>19, <2>1 DEF SendEnd, SendStep, damage, RunsSent
  <2> QED
      BY <2>2, <2>3, <2>4
<1>20. ASSUME Cleanup PROVE Sent'
    BY <1>2, <1>20, DelSent DEF Cleanup, WatcherAt
<1> QED
    BY <1>5, <1>6, <1>8, <1>9, <1>10, <1>11, <1>12, <1>13, <1>14, <1>15, <1>16, <1>17, <1>18,
       <1>19, <1>20
    DEF Next, RunStep, WatcherStep

(* For any number of runs, retries and faults: execute_task's body runs    *)
(* only on a complete and undamaged transfer of a file that exists.        *)
THEOREM ExecutesSent == Spec => []ExecutesSentWorkspace
<1>1. Init => Sent
  <2> SUFFICES ASSUME Init PROVE Sent
      OBVIOUS
  <2>1. stream["events"] = << >>
      BY DEF Init, Stream
  <2> QED
      BY <2>1 DEF Init, Sent, EndsAreSent, TransfersSent, RunsSent, InBody
<1>2. Sent => ExecutesSentWorkspace
    BY DEF Sent, TransfersSent, RunsSent, ExecutesSentWorkspace
<1> QED
    BY <1>1, <1>2, InitTypeOK, NextTypeOK, NextSent, PTL DEF Spec
=============================================================================
