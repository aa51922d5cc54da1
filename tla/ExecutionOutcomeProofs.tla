----------------------- MODULE ExecutionOutcomeProofs -----------------------
(***************************************************************************)
(* How an execution ends: theorems about ExecutionProtocol that rest on    *)
(* those of ExecutionProtocolProofs.                                       *)
(***************************************************************************)
EXTENDS ExecutionProtocolProofs

USE ConstantsAssumption

-----------------------------------------------------------------------------
(* The inductive invariant: wherever an output's DATA_END is, in the       *)
(* stream, in the batch the watcher holds, in what it is about to store or *)
(* in the row, the run it names has sent its output to the end.            *)

Reported(r) == r \in Run /\ <<r, "DATA_END">> \in reports

OutputsReported ==
    \A i \in 1 .. Len(stream["output"]) :
        stream["output"][i].type = "DATA_END" => Reported(stream["output"][i].id)

BatchReported ==
    \A i \in 1 .. Len(wbatch["output"]) :
        wbatch["output"][i].type = "DATA_END" => Reported(wbatch["output"][i].id)

StoreReported == wpc = "store" => Reported(wout) /\ wout \notin outDamaged

RowReported == status = "SUCCEEDED" => Reported(outputOf) /\ outputOf \notin outDamaged

(* A run that has sent its output is past the point where a restart of     *)
(* Redis can damage it, and does not come back to it: a delivery starts a  *)
(* run that was idle.                                                      *)
Past == {"succeeded", "raised", "finish", "done", "dead"}

RunsReported == \A r \in Run : Reported(r) => pc[r] \in Past /\ rx[r] \in complete

Fresh == \A r \in Run : r > deliveries => pc[r] = "idle"

(* Nothing happens before the row is there. *)
Quiet == status = NoRow => task = "none" /\ deliveries = 0 /\ announced = 0 /\ wpc = "none"

Outcome ==
    OutputsReported /\ BatchReported /\ StoreReported /\ RowReported /\ RunsReported /\ Fresh /\ Quiet

-----------------------------------------------------------------------------
(* The runs.                                                               *)

(* A delivery starts a run that was idle, and the runs not delivered stay  *)
(* idle.                                                                   *)
LEMMA FreshStep ==
    ASSUME TypeOK, Fresh, [Next]_vars
    PROVE  Fresh'
<1> USE DEF runVars, vars
<1>1. pc \in [Run -> PC] /\ deliveries \in Nat /\ \A r \in Run : r \in Nat
    BY DEF TypeOK, RunOK, Run, NoRun
<1>2. ASSUME NEW r \in Run, pc[r] # "idle", deliveries' = deliveries,
             \A q \in Run : q # r => pc'[q] = pc[q]
      PROVE  Fresh'
    BY <1>1, <1>2 DEF Fresh
<1>3. ASSUME UNCHANGED <<pc, deliveries>> PROVE Fresh'
    BY <1>3 DEF Fresh
<1>4. ASSUME NEW r \in Run, NEW from, NEW to, Goto(r, from, to), from # "idle", deliveries' = deliveries
      PROVE  Fresh'
    BY <1>1, <1>2, <1>4 DEF Goto
<1>5. ASSUME NEW r \in Run, Retry(r), pc[r] # "idle", deliveries' = deliveries PROVE Fresh'
    BY <1>1, <1>2, <1>5 DEF Retry
<1>6. ASSUME NEW r \in Run,
             \/ PublishTransferring(r) \/ SendDataRequest(r) \/ PublishTransferFailed(r)
             \/ PublishExecuting(r) \/ SendOutputStart(r) \/ SendOutputEnd(r)
             \/ PublishSucceeded(r) \/ PublishTaskFailed(r)
      PROVE  Fresh'
  <2>1. \E from \in PC \ {"idle"}, to \in PC : \E st, t : Publish(r, from, to, st, t)
      BY <1>6 DEF PublishTransferring, SendDataRequest, PublishTransferFailed, PublishExecuting,
          SendOutputStart, SendOutputEnd, PublishSucceeded, PublishTaskFailed, PC, Preparing, InBody
  <2> QED
      BY <1>4, <2>1 DEF Publish
<1>7. ASSUME NEW r \in Run, Announce(r) \/ TaskRaises(r) \/ Finish(r) PROVE Fresh'
    BY <1>4, <1>7 DEF Announce, TaskRaises, Finish
<1>8. ASSUME NEW r \in Run, Receive(r) \/ ReceiveTimeout(r) PROVE Fresh'
  <2>1. pc[r] # "idle" /\ deliveries' = deliveries
      BY <1>8 DEF Receive, ReceiveTimeout, Received
  <2> QED
      BY <1>3, <1>4, <1>5, <1>8, <2>1 DEF Receive, ReceiveTimeout
<1>9. ASSUME NEW r \in Run, RunError(r) PROVE Fresh'
  <2>1. pc[r] # "idle" /\ deliveries' = deliveries
      BY <1>9 DEF RunError, Preparing, InBody
  <2> QED
      BY <1>1, <1>2, <1>9, <2>1 DEF RunError
<1>10. ASSUME Deliver PROVE Fresh'
    BY <1>1, <1>10 DEF Deliver, Fresh
<1>11. ASSUME WorkerCrash PROVE Fresh'
    BY <1>11 DEF WorkerCrash, Fresh, Live
<1>12. ASSUME \/ CreateExecution \/ SendExecuteTask \/ RevokeDelegate \/ RevokeAcl \/ RestoreLost
              \/ RestoreSlow \/ DispatcherRead \/ DispatcherCrash \/ DispatcherRestart \/ RedisRestart
              \/ WatcherStep \/ WatcherError \/ UNCHANGED vars
       PROVE  UNCHANGED <<pc, deliveries>>
    BY <1>12 DEF CreateExecution, SendExecuteTask, RevokeDelegate, RevokeAcl, RestoreLost, RestoreSlow,
        Restore, DispatcherRead, DispatcherCrash, DispatcherRestart, RedisRestart, WatcherStep,
        WatcherError, WatcherRead, HandleEvent, SendStart, SendEnd, SendStep, SaveTransfer,
        HandleStatus, HandleOutput, SaveOutput, Cleanup, WatcherExit
<1> QED
    BY <1>3, <1>6, <1>7, <1>8, <1>9, <1>10, <1>11, <1>12 DEF Next, RunStep

(* A run past its output stays there, with its workspace. *)
LEMMA PastStays ==
    ASSUME TypeOK, Fresh, [Next]_vars, NEW q \in Run, pc[q] \in Past
    PROVE  pc'[q] \in Past /\ rx'[q] = rx[q]
<1> USE DEF runVars, recvVars, vars, Past
<1>1. pc \in [Run -> PC] /\ rx \in [Run -> Nat] /\ deliveries \in Nat
    BY SMTT(60) DEF TypeOK, RunOK, RecvOK, Run, NoRun
<1>2. ASSUME NEW r \in Run, NEW from, NEW to, Goto(r, from, to), from \in Past => to \in Past
      PROVE  pc'[q] \in Past
    BY <1>1, <1>2 DEF Goto
<1>3. ASSUME NEW r \in Run,
             \/ PublishTransferring(r) \/ SendDataRequest(r) \/ PublishTransferFailed(r)
             \/ PublishExecuting(r) \/ SendOutputStart(r) \/ SendOutputEnd(r)
             \/ PublishSucceeded(r) \/ PublishTaskFailed(r)
      PROVE  pc'[q] \in Past /\ rx' = rx
  <2>1. \E from, to, st, t : Publish(r, from, to, st, t) /\ (from \in Past => to \in Past)
      BY <1>3 DEF PublishTransferring, SendDataRequest, PublishTransferFailed, PublishExecuting,
          SendOutputStart, SendOutputEnd, PublishSucceeded, PublishTaskFailed
  <2> QED
      BY <1>2, <2>1 DEF Publish
<1>4. ASSUME NEW r \in Run, Announce(r) \/ TaskRaises(r) \/ Finish(r) PROVE pc'[q] \in Past /\ rx' = rx
    BY <1>2, <1>4 DEF Announce, TaskRaises, Finish
<1>5. ASSUME NEW r \in Run, Receive(r) \/ ReceiveTimeout(r) PROVE pc'[q] = pc[q] /\ rx'[q] = rx[q]
  <2>1. pc[r] = "receive" /\ q # r
      BY <1>5 DEF Receive, ReceiveTimeout
  <2>2. Retry(r) => pc'[q] = pc[q] /\ rx'[q] = rx[q]
      BY <1>1, <2>1 DEF Retry
  <2> QED
      BY <1>1, <1>5, <2>1, <2>2 DEF Receive, ReceiveTimeout, Goto
<1>6. ASSUME NEW r \in Run, RunError(r) PROVE pc'[q] \in Past /\ rx' = rx
    BY <1>1, <1>6 DEF RunError
<1>7. ASSUME Deliver PROVE pc'[q] \in Past /\ rx' = rx
  <2>1. q # deliveries + 1
      BY <1>1, <1>7 DEF Deliver, Fresh
  <2> QED
      BY <1>1, <1>7, <2>1 DEF Deliver
<1>8. ASSUME WorkerCrash PROVE pc'[q] \in Past /\ rx' = rx
    BY <1>1, <1>8 DEF WorkerCrash
<1>9. ASSUME \/ CreateExecution \/ SendExecuteTask \/ RevokeDelegate \/ RevokeAcl \/ RestoreLost
             \/ RestoreSlow \/ DispatcherRead \/ DispatcherCrash \/ DispatcherRestart \/ RedisRestart
             \/ WatcherStep \/ WatcherError \/ UNCHANGED vars
       PROVE  UNCHANGED <<pc, rx>>
    BY <1>9 DEF CreateExecution, SendExecuteTask, RevokeDelegate, RevokeAcl, RestoreLost, RestoreSlow,
        Restore, DispatcherRead, DispatcherCrash, DispatcherRestart, RedisRestart, WatcherStep,
        WatcherError, WatcherRead, HandleEvent, SendStart, SendEnd, SendStep, SaveTransfer,
        HandleStatus, HandleOutput, SaveOutput, Cleanup, WatcherExit
<1> QED
    BY <1>3, <1>4, <1>5, <1>6, <1>7, <1>8, <1>9 DEF Next, RunStep

(* What the runs have published stays published, only a DATA_END on the    *)
(* output stream reports one, and only a run in the middle of its output   *)
(* can still lose a part of it.                                            *)
LEMMA ReportsStep ==
    ASSUME TypeOK, [Next]_vars
    PROVE  /\ reports \subseteq reports' /\ complete \subseteq complete'
           /\ \A q \in Run : Reported(q)' => Reported(q) \/ SendOutputEnd(q)
           /\ \A q \in outDamaged' : q \in outDamaged \/ pc[q] = "sending"
<1> USE DEF runVars, vars, sendVars, damage
<1> DEFINE Good == /\ reports \subseteq reports' /\ complete \subseteq complete'
                   /\ \A q \in Run : Reported(q)' => Reported(q) \/ SendOutputEnd(q)
                   /\ \A q \in outDamaged' : q \in outDamaged \/ pc[q] = "sending"
<1>1. ASSUME UNCHANGED <<reports, outDamaged>>, complete \subseteq complete' PROVE Good
    BY <1>1 DEF Reported
<1>2. ASSUME NEW r \in Run, NEW from, NEW to, NEW st, NEW t, Publish(r, from, to, st, t), t # "DATA_END"
      PROVE  Good
    BY <1>2 DEF Publish, Reported
<1>3. ASSUME NEW r \in Run,
             \/ PublishTransferring(r) \/ SendDataRequest(r) \/ PublishTransferFailed(r)
             \/ PublishExecuting(r) \/ SendOutputStart(r)
             \/ PublishSucceeded(r) \/ PublishTaskFailed(r)
      PROVE  Good
    BY <1>2, <1>3 DEF PublishTransferring, SendDataRequest, PublishTransferFailed, PublishExecuting,
        SendOutputStart, PublishSucceeded, PublishTaskFailed
<1>4. ASSUME NEW r \in Run, SendOutputEnd(r) PROVE Good
  <2>1. reports' = reports \cup {<<r, "DATA_END">>} /\ UNCHANGED <<complete, outDamaged>>
      BY <1>4 DEF SendOutputEnd, Publish, FinalMessage
  <2> QED
      BY <1>4, <2>1 DEF Reported
<1>5. ASSUME NEW r \in Run, \/ Announce(r) \/ TaskRaises(r) \/ Finish(r) \/ RunError(r)
                            \/ Receive(r) \/ ReceiveTimeout(r)
      PROVE  UNCHANGED <<reports, outDamaged, complete>>
    BY <1>5 DEF Announce, TaskRaises, Finish, RunError, Receive, ReceiveTimeout, Received
<1>6. ASSUME RedisRestart PROVE Good
    BY <1>6 DEF RedisRestart, Reported
<1>7. ASSUME SendEnd PROVE Good
    BY <1>1, <1>7 DEF SendEnd, SendStep
<1>8. ASSUME \/ CreateExecution \/ SendExecuteTask \/ RevokeDelegate \/ RevokeAcl \/ RestoreLost
             \/ RestoreSlow \/ Deliver \/ WorkerCrash
             \/ DispatcherRead \/ DispatcherCrash \/ DispatcherRestart \/ UNCHANGED vars
      PROVE  UNCHANGED <<reports, outDamaged, complete>>
    BY <1>8 DEF CreateExecution, SendExecuteTask, RevokeDelegate, RevokeAcl, RestoreLost, RestoreSlow,
        Restore, Deliver, WorkerCrash, DispatcherRead, DispatcherCrash, DispatcherRestart
<1>9. ASSUME \/ WatcherError \/ WatcherRead \/ HandleEvent \/ SendStart \/ SaveTransfer
             \/ HandleStatus \/ HandleOutput \/ SaveOutput \/ Cleanup \/ WatcherExit
      PROVE  UNCHANGED <<reports, outDamaged, complete>>
    BY <1>9 DEF WatcherError, WatcherRead, HandleEvent, SendStart, SendStep, SaveTransfer,
        HandleStatus, HandleOutput, SaveOutput, Cleanup, WatcherExit
<1> HIDE DEF Good
<1>10. Good
    BY <1>1, <1>3, <1>4, <1>5, <1>6, <1>7, <1>8, <1>9 DEF Next, RunStep, WatcherStep
<1> QED
    BY <1>10 DEF Good

(* A run that has reported its output is past it. *)
LEMMA RunsReportedStep ==
    ASSUME TypeOK, Sent, Fresh, RunsReported, [Next]_vars
    PROVE  RunsReported'
<1> SUFFICES ASSUME NEW q \in Run, Reported(q)' PROVE pc'[q] \in Past /\ rx'[q] \in complete'
    BY DEF RunsReported
<1>1. complete \subseteq complete' /\ (Reported(q) \/ SendOutputEnd(q))
    BY ReportsStep
<1>2. CASE Reported(q)
    BY <1>1, <1>2, PastStays DEF RunsReported
<1>3. CASE SendOutputEnd(q)
  <2>1. pc[q] = "sending" /\ pc' = [pc EXCEPT ![q] = "succeeded"] /\ rx' = rx
      BY <1>3 DEF SendOutputEnd, Publish, Goto, recvVars
  <2>2. rx[q] \in complete
      BY <2>1 DEF Sent, RunsSent, InBody
  <2> QED
      BY <1>1, <2>1, <2>2 DEF TypeOK, RunOK, Past
<1> QED
    BY <1>1, <1>2, <1>3

-----------------------------------------------------------------------------
(* The output stream and the watcher.                                      *)

(* An XADD keeps OutputsReported if a DATA_END it adds to the output       *)
(* stream is reported.                                                     *)
LEMMA XAddReported ==
    ASSUME TypeOK, OutputsReported, NEW s \in Stream, NEW t, NEW i, XAdd(s, t, i),
           reports \subseteq reports', s = "output" /\ t = "DATA_END" => Reported(i)'
    PROVE  OutputsReported'
<1> DEFINE q == stream["output"]
           m == [type |-> t, id |-> i]
<1>1. q \in Seq(Message)
    BY DEF TypeOK, Stream
<1>2. CASE s # "output"
  <2>1. stream'["output"] = q
      BY <1>2 DEF XAdd, TypeOK, Stream
  <2> QED
      BY <2>1 DEF OutputsReported, Reported
<1>3. CASE s = "output"
  <2>1. stream'["output"] = Append(q, m)
      BY <1>3 DEF XAdd, TypeOK, Stream
  <2>2. /\ Len(Append(q, m)) = Len(q) + 1
        /\ Len(q) \in Nat
        /\ \A k \in 1 .. Len(q) : Append(q, m)[k] = q[k]
        /\ Append(q, m)[Len(q) + 1] = m
      BY <1>1
  <2>3. ASSUME NEW k \in 1 .. Len(stream'["output"]), stream'["output"][k].type = "DATA_END"
        PROVE  /\ stream'["output"][k].id \in Run
               /\ <<stream'["output"][k].id, "DATA_END">> \in reports'
    <3>1. CASE k \in 1 .. Len(q)
        BY <2>1, <2>2, <2>3, <3>1 DEF OutputsReported, Reported
    <3>2. CASE k = Len(q) + 1
        BY <1>3, <2>1, <2>2, <2>3, <3>2 DEF Reported
    <3> QED
        BY <2>1, <2>2, <3>1, <3>2
  <2> QED
      BY <2>3 DEF OutputsReported, Reported
<1> QED
    BY <1>2, <1>3

(* A DATA_END on the output stream is the end of a run's output. *)
LEMMA OutputsStep ==
    ASSUME TypeOK, OutputsReported, [Next]_vars
    PROVE  OutputsReported'
<1>1. reports \subseteq reports'
    BY ReportsStep
<1>2. ASSUME UNCHANGED stream PROVE OutputsReported'
    BY <1>1, <1>2 DEF OutputsReported, Reported
<1>3. ASSUME Del PROVE OutputsReported'
  <2>1. stream'["output"] = << >>
      BY <1>3 DEF Del, Stream
  <2> QED
      BY <2>1 DEF OutputsReported
<1>4. ASSUME NEW r \in Run, NEW from, NEW to, NEW st \in Stream, NEW t, Publish(r, from, to, st, t)
      PROVE  OutputsReported'
  <2>1. XAdd(st, t, r) /\ (t = "DATA_END" => Reported(r)')
      BY <1>4 DEF Publish, Reported, FinalMessage
  <2> QED
      BY <1>1, <2>1, XAddReported
<1>5. ASSUME NEW r \in Run,
             \/ PublishTransferring(r) \/ SendDataRequest(r) \/ PublishTransferFailed(r)
             \/ PublishExecuting(r) \/ SendOutputStart(r) \/ SendOutputEnd(r)
             \/ PublishSucceeded(r) \/ PublishTaskFailed(r)
      PROVE  OutputsReported'
  <2>1. \E from, to, t : \E st \in Stream : Publish(r, from, to, st, t)
      BY <1>5 DEF PublishTransferring, SendDataRequest, PublishTransferFailed, PublishExecuting,
          SendOutputStart, SendOutputEnd, PublishSucceeded, PublishTaskFailed, Stream
  <2> QED
      BY <1>4, <2>1
<1>6. ASSUME SendStart \/ SendEnd PROVE OutputsReported'
    BY <1>1, <1>6, XAddReported DEF SendStart, SendEnd, SendStep, Stream
<1>7. ASSUME NEW r \in Run, \/ Announce(r) \/ TaskRaises(r) \/ Finish(r) \/ RunError(r)
                            \/ Receive(r) \/ ReceiveTimeout(r)
      PROVE  UNCHANGED stream
    BY <1>7 DEF Announce, TaskRaises, Finish, RunError, Receive, ReceiveTimeout, Received
<1>8. ASSUME RedisRestart \/ Cleanup PROVE Del
    BY <1>8 DEF RedisRestart, Cleanup
<1>9. ASSUME \/ CreateExecution \/ SendExecuteTask \/ RevokeDelegate \/ RevokeAcl \/ RestoreLost
             \/ RestoreSlow \/ Deliver \/ WorkerCrash
             \/ DispatcherRead \/ DispatcherCrash \/ DispatcherRestart \/ UNCHANGED vars
      PROVE  UNCHANGED stream
    BY <1>9 DEF CreateExecution, SendExecuteTask, RevokeDelegate, RevokeAcl, RestoreLost, RestoreSlow,
        Restore, Deliver, WorkerCrash, DispatcherRead, DispatcherCrash, DispatcherRestart, vars
<1>10. ASSUME \/ WatcherError \/ WatcherRead \/ HandleEvent \/ SaveTransfer
              \/ HandleStatus \/ HandleOutput \/ SaveOutput \/ WatcherExit
       PROVE  UNCHANGED stream
    BY <1>10 DEF WatcherError, WatcherRead, HandleEvent, SaveTransfer,
        HandleStatus, HandleOutput, SaveOutput, WatcherExit
<1> QED
    BY <1>2, <1>3, <1>5, <1>6, <1>7, <1>8, <1>9, <1>10 DEF Next, RunStep, WatcherStep

(* What the steps of the watcher do to its batch of the output stream      *)
LEMMA WatcherMoves ==
    ASSUME TypeOK, [Next]_vars
    PROVE  \/ UNCHANGED <<wbatch, wpc, wout, outputOf>> /\ (status' = status \/ status' = "QUEUED")
           \/ /\ \/ wbatch'["output"] = << >>
                 \/ wbatch'["output"] = wbatch["output"]
                 \/ wbatch'["output"] = XRead("output", wcur["output"], WatchBatch)
              /\ wpc' # "store"
              /\ status' # "SUCCEEDED" \/ status' = status
              /\ outputOf' = outputOf
           \/ HandleOutput
           \/ SaveOutput
<1> USE DEF rowVars, watchVars
<1>1. "output" \in Stream /\ "events" \in Stream /\ "status" \in Stream /\ wbatch \in [Stream -> Seq(Message)]
    BY DEF TypeOK, WatchOK, Stream
<1>2. ASSUME NEW r \in Run, RunStep(r) \/ RunError(r) PROVE UNCHANGED <<wbatch, wpc, wout, status, outputOf>>
    BY <1>2 DEF RunStep, RunError, Announce, PublishTransferring, SendDataRequest, Receive,
        ReceiveTimeout, Received, PublishTransferFailed, PublishExecuting, SendOutputStart,
        SendOutputEnd, PublishSucceeded, TaskRaises, PublishTaskFailed, Finish, Publish
<1>3. ASSUME SendExecuteTask \/ RevokeDelegate \/ RevokeAcl \/ Deliver \/ RestoreLost \/ RestoreSlow
             \/ WorkerCrash \/ DispatcherRestart \/ RedisRestart \/ UNCHANGED vars
      PROVE  UNCHANGED <<wbatch, wpc, wout, status, outputOf>>
    BY <1>3 DEF SendExecuteTask, RevokeDelegate, RevokeAcl, Deliver, RestoreLost, RestoreSlow, Restore,
        WorkerCrash, DispatcherRestart, RedisRestart, vars
<1>4. ASSUME DispatcherCrash \/ WatcherError \/ Cleanup
      PROVE  wbatch'["output"] = << >> /\ wpc' # "store" /\ UNCHANGED <<status, outputOf>>
    BY <1>1, <1>4 DEF DispatcherCrash, WatcherError, Cleanup, WatcherAt
<1>5. ASSUME DispatcherRead
      PROVE  \/ wbatch'["output"] = << >> /\ wpc' # "store" /\ UNCHANGED <<status, outputOf>>
             \/ UNCHANGED <<wbatch, wpc, wout, status, outputOf>>
    BY <1>1, <1>5 DEF DispatcherRead, WatcherAt
<1>6. ASSUME SendStart \/ SendEnd \/ WatcherExit
      PROVE  wbatch' = wbatch /\ wpc' # "store" /\ UNCHANGED <<status, outputOf>>
    BY <1>6 DEF SendStart, SendEnd, SendStep, WatcherExit
<1>7. ASSUME SaveTransfer
      PROVE  wbatch' = wbatch /\ wpc' # "store" /\ status' # "SUCCEEDED" /\ outputOf' = outputOf
    BY <1>7 DEF SaveTransfer
<1>8. ASSUME WatcherRead
      PROVE  /\ wbatch'["output"] = XRead("output", wcur["output"], WatchBatch)
             /\ wpc' # "store" /\ UNCHANGED <<status, outputOf>>
    BY <1>1, <1>8 DEF WatcherRead
<1>9. ASSUME HandleEvent
      PROVE  wbatch'["output"] = wbatch["output"] /\ wpc' # "store" /\ UNCHANGED <<status, outputOf>>
    BY <1>1, <1>9 DEF HandleEvent
<1>10. ASSUME HandleStatus
       PROVE  /\ wbatch'["output"] = wbatch["output"] /\ wpc' # "store" /\ outputOf' = outputOf
              /\ status' # "SUCCEEDED" \/ status' = status
  <2>1. wbatch'["output"] = wbatch["output"]
      BY <1>1, <1>10 DEF HandleStatus, Take
  <2>2. \A t \in DOMAIN STATUS_MAPPING : STATUS_MAPPING[t] # "SUCCEEDED"
      BY DEF STATUS_MAPPING
  <2> HIDE DEF STATUS_MAPPING
  <2> QED
      BY <1>10, <2>1, <2>2 DEF HandleStatus
<1>11. ASSUME CreateExecution
       PROVE  UNCHANGED <<wbatch, wpc, wout, outputOf>> /\ status' = "QUEUED"
    BY <1>11 DEF CreateExecution
<1> QED
    BY <1>2, <1>3, <1>4, <1>5, <1>6, <1>7, <1>8, <1>9, <1>10, <1>11 DEF Next, WatcherStep

(* What the watcher holds, stores and has written comes from the stream. *)
LEMMA WatcherReported ==
    ASSUME TypeOK, Outcome, [Next]_vars
    PROVE  BatchReported' /\ StoreReported' /\ RowReported'
<1>1. /\ reports \subseteq reports'
      /\ \A q \in outDamaged' : q \in outDamaged \/ pc[q] = "sending"
    BY ReportsStep
<1>2. OutputsReported /\ BatchReported /\ StoreReported /\ RowReported /\ RunsReported
    BY DEF Outcome
<1>3. ASSUME NEW q, Reported(q) PROVE Reported(q)' /\ (q \notin outDamaged => q \notin outDamaged')
    BY <1>1, <1>2, <1>3 DEF Reported, RunsReported, Past
<1>4. "output" \in Stream /\ stream \in [Stream -> Seq(Message)] /\ wbatch \in [Stream -> Seq(Message)]
      /\ wcur["output"] \in Nat
    BY DEF TypeOK, WatchOK, Stream
<1>5. ASSUME wbatch'["output"] = wbatch["output"] PROVE BatchReported'
    BY <1>1, <1>2, <1>5 DEF BatchReported, Reported
<1>6. ASSUME wbatch'["output"] = << >> PROVE BatchReported'
    BY <1>6 DEF BatchReported
<1>7. ASSUME wbatch'["output"] = XRead("output", wcur["output"], WatchBatch) PROVE BatchReported'
  <2> DEFINE b == XRead("output", wcur["output"], WatchBatch)
  <2>0. WatchBatch \in Nat
      BY ConstantsAssumption
  <2>1. ASSUME NEW i \in 1 .. Len(b), b[i].type = "DATA_END" PROVE Reported(b[i].id)
    <3>1. stream \in [Stream -> Seq(Message)] /\ "output" \in Stream /\ wcur["output"] \in Nat
        BY <1>4
    <3>2. \A j \in 1 .. Len(b) : \E k \in 1 .. Len(stream["output"]) : b[j] = stream["output"][k]
        BY <2>0, <3>1, XReadElement
    <3>3. \E k \in 1 .. Len(stream["output"]) : b[i] = stream["output"][k]
        BY <3>2
    <3> QED
        BY <1>2, <2>1, <3>3 DEF OutputsReported
  <2> HIDE DEF b
  <2> QED
      BY <1>1, <1>7, <2>1 DEF BatchReported, Reported, b
<1>8. ASSUME wout' = wout, wpc' = wpc \/ wpc' # "store" PROVE StoreReported'
    BY <1>2, <1>3, <1>8 DEF StoreReported, Reported
<1>9. ASSUME outputOf' = outputOf, status' = status \/ status' # "SUCCEEDED" PROVE RowReported'
    BY <1>2, <1>3, <1>9 DEF RowReported, Reported
<1>10. CASE UNCHANGED <<wbatch, wpc, wout, outputOf>> /\ (status' = status \/ status' = "QUEUED")
    BY <1>5, <1>8, <1>9, <1>10
<1>11. CASE /\ \/ wbatch'["output"] = << >>
               \/ wbatch'["output"] = wbatch["output"]
               \/ wbatch'["output"] = XRead("output", wcur["output"], WatchBatch)
            /\ wpc' # "store"
            /\ status' # "SUCCEEDED" \/ status' = status
            /\ outputOf' = outputOf
  <2>1. StoreReported'
      BY <1>11 DEF StoreReported
  <2> QED
      BY <1>5, <1>6, <1>7, <1>9, <1>11, <2>1
<1>12. CASE HandleOutput
  <2> DEFINE b == wbatch["output"]
             m == Head(b)
  <2>1. b \in Seq(Message) /\ b # << >> /\ wbatch'["output"] = Tail(b)
      BY <1>4, <1>12 DEF HandleOutput, Drained, Take
  <2>2. /\ Len(b) \in Nat /\ Len(b) > 0 /\ Len(Tail(b)) = Len(b) - 1 /\ m = b[1]
        /\ \A i \in 1 .. Len(Tail(b)) : Tail(b)[i] = b[i + 1]
      BY <2>1
  <2> HIDE DEF b
  <2>3. BatchReported'
    <3>1. ASSUME NEW i \in 1 .. Len(Tail(b)), Tail(b)[i].type = "DATA_END" PROVE Reported(Tail(b)[i].id)
      <4>1. i + 1 \in 1 .. Len(b) /\ Tail(b)[i] = b[i + 1]
          BY <2>2
      <4> QED
          BY <1>2, <3>1, <4>1 DEF BatchReported, b
    <3> QED
        BY <1>1, <2>1, <3>1 DEF BatchReported, Reported
  <2>4. ASSUME m.type = "DATA_END" PROVE Reported(m.id)
    <3>1. 1 \in 1 .. Len(b)
        BY <2>2
    <3> QED
        BY <1>2, <2>2, <2>4, <3>1 DEF BatchReported, b
  <2>5. wpc = "loop" /\ outputOf' = outputOf /\ (status' = status \/ status' = "FAILED")
      BY <1>12 DEF HandleOutput
  <2>6. wpc' = "store" => m.type = "DATA_END" /\ m.id = wout /\ wout \notin outDamaged /\ wout' = wout
      BY <1>12, <2>5 DEF HandleOutput, b
  <2>7. StoreReported'
    <3> SUFFICES ASSUME wpc' = "store" PROVE Reported(wout)' /\ wout' \notin outDamaged'
        BY DEF StoreReported
    <3>1. Reported(wout) /\ wout \notin outDamaged /\ wout' = wout
        BY <2>4, <2>6
    <3> QED
        BY <1>3, <3>1 DEF Reported
  <2> QED
      BY <1>9, <2>3, <2>5, <2>7
<1>13. CASE SaveOutput
  <2>1. wpc = "store" /\ wpc' = "loop" /\ wbatch' = wbatch /\ outputOf' = wout
      BY <1>13 DEF SaveOutput
  <2>2. Reported(wout) /\ wout \notin outDamaged
      BY <1>2, <2>1 DEF StoreReported
  <2>3. RowReported'
      BY <1>3, <2>1, <2>2 DEF RowReported, Reported
  <2>4. StoreReported'
      BY <2>1 DEF StoreReported
  <2> QED
      BY <1>5, <2>1, <2>3, <2>4
<1> QED
    BY <1>10, <1>11, <1>12, <1>13, WatcherMoves

-----------------------------------------------------------------------------
(* The row.                                                                *)

(* The row appears once, and only by create_execution; before that nothing *)
(* runs.                                                                   *)
LEMMA RowAppears ==
    ASSUME TypeOK, Quiet, Fresh, [Next]_vars
    PROVE  /\ status = NoRow => CreateExecution \/ (status' = NoRow /\ Quiet')
           /\ status # NoRow => status' # NoRow
<1> USE DEF rowVars
<1>1. ASSUME status = NoRow PROVE CreateExecution \/ (status' = NoRow /\ Quiet')
  <2>1. task = "none" /\ deliveries = 0 /\ announced = 0 /\ wpc = "none" /\ lastId \in Nat
      BY <1>1 DEF Quiet, TypeOK, DispOK
  <2>2. \A r \in Run : pc[r] = "idle"
      BY <2>1 DEF Fresh, Run
  <2>3. ASSUME NEW r \in Run PROVE ~RunStep(r) /\ ~RunError(r)
      BY <2>2 DEF RunStep, RunError, Announce, PublishTransferring, SendDataRequest, Receive,
          ReceiveTimeout, PublishTransferFailed, PublishExecuting, SendOutputStart, SendOutputEnd,
          PublishSucceeded, TaskRaises, PublishTaskFailed, Finish, Publish, Goto, Preparing, InBody
  <2>4. ~WatcherStep /\ ~WatcherError
      BY <2>1 DEF WatcherStep, WatcherError, WatcherRead, HandleEvent, SendStart, SendEnd, SendStep,
          SaveTransfer, HandleStatus, HandleOutput, SaveOutput, Cleanup, WatcherExit
  <2>5. ~SendExecuteTask /\ ~Deliver /\ ~RestoreLost /\ ~RestoreSlow /\ ~DispatcherRead /\ ~WorkerCrash
      BY <2>1, <2>2 DEF SendExecuteTask, Deliver, RestoreLost, RestoreSlow, Restore, DispatcherRead,
          WorkerCrash, Live
  <2>6. ASSUME RevokeDelegate \/ RevokeAcl \/ DispatcherCrash \/ DispatcherRestart \/ RedisRestart \/ UNCHANGED vars
        PROVE  status' = NoRow /\ task' = "none" /\ deliveries' = 0 /\ announced' = 0 /\ wpc' = "none"
      BY <1>1, <2>1, <2>6 DEF RevokeDelegate, RevokeAcl, DispatcherCrash, DispatcherRestart, RedisRestart,
          WatcherAt, vars, runVars, watchVars
  <2> QED
      BY <2>3, <2>4, <2>5, <2>6 DEF Next, Quiet
<1>2. ASSUME status # NoRow PROVE status' # NoRow
  <2>1. ASSUME HandleStatus PROVE status' # NoRow
    <3>1. \A t \in DOMAIN STATUS_MAPPING : STATUS_MAPPING[t] # NoRow
        BY DEF STATUS_MAPPING, NoRow
    <3> HIDE DEF STATUS_MAPPING
    <3> QED
        BY <1>2, <2>1, <3>1 DEF HandleStatus
  <2>2. ASSUME HandleOutput PROVE status' # NoRow
      BY <1>2, <2>2 DEF HandleOutput, NoRow
  <2>3. ASSUME SaveOutput \/ SaveTransfer \/ CreateExecution PROVE status' # NoRow
      BY <2>3 DEF SaveOutput, SaveTransfer, CreateExecution, NoRow
  <2>4. ASSUME \/ DispatcherRead \/ DispatcherCrash \/ WatcherRead \/ HandleEvent \/ SendStart \/ SendEnd
               \/ Cleanup \/ WatcherExit \/ WatcherError
        PROVE  status' = status
      BY <2>4 DEF DispatcherRead, DispatcherCrash, WatcherRead, HandleEvent, SendStart, SendEnd, SendStep,
          Cleanup, WatcherExit, WatcherError
  <2> QED
      BY <1>2, <2>1, <2>2, <2>3, <2>4, IdleSteps DEF Next, WatcherStep, WatcherIdle
<1> QED
    BY <1>1, <1>2

(* Nothing happens before the row is there. *)
LEMMA QuietStep ==
    ASSUME TypeOK, Quiet, Fresh, [Next]_vars
    PROVE  Quiet'
<1>1. CASE status = NoRow
  <2>1. CreateExecution => status' # NoRow
      BY DEF CreateExecution, NoRow
  <2> QED
      BY <1>1, <2>1, RowAppears DEF Quiet
<1>2. CASE status # NoRow
    BY <1>2, RowAppears DEF Quiet
<1> QED
    BY <1>1, <1>2

(* Nothing was sent at first. *)
LEMMA InitOutcome == Init => Outcome
<1> SUFFICES ASSUME Init PROVE Outcome
    OBVIOUS
<1>1. stream["output"] = << >> /\ wbatch["output"] = << >>
    BY DEF Init, Stream
<1>2. OutputsReported /\ BatchReported
    BY <1>1 DEF OutputsReported, BatchReported
<1>3. StoreReported /\ RowReported /\ RunsReported /\ Fresh /\ Quiet
    BY DEF Init, StoreReported, RowReported, RunsReported, Reported, Fresh, Quiet, NoRow
<1> QED
    BY <1>2, <1>3 DEF Outcome

(* The first transfer is none. *)
LEMMA InitSent == Init => Sent
<1> SUFFICES ASSUME Init PROVE Sent
    OBVIOUS
<1>1. stream["events"] = << >>
    BY DEF Init, Stream
<1> QED
    BY <1>1 DEF Init, Sent, EndsAreSent, TransfersSent, RunsSent, InBody

(* The invariant is inductive, together with the types and with Sent. *)
LEMMA NextOutcome == TypeOK /\ Sent /\ Outcome /\ [Next]_vars => Outcome'
<1> SUFFICES ASSUME TypeOK, Sent, Outcome, [Next]_vars PROVE Outcome'
    OBVIOUS
<1>1. OutputsReported /\ RunsReported /\ Fresh /\ Quiet
    BY DEF Outcome
<1> QED
    BY <1>1, OutputsStep, WatcherReported, RunsReportedStep, FreshStep, QuietStep DEF Outcome

(* For any number of runs, batches and faults: an execution is SUCCEEDED   *)
(* only with the output of a run that executed on a complete workspace and *)
(* whose output arrived whole; TASK_SUCCEEDED, a message that is read      *)
(* twice, or a second run's DATA_START in between do not make it so.       *)
THEOREM SuccessValidated == Spec => []SuccessIsValidated
<1>1. Outcome => SuccessIsValidated
    BY DEF Outcome, RowReported, RunsReported, Reported, SuccessIsValidated
<1> QED
    BY <1>1, InitTypeOK, NextTypeOK, InitSent, NextSent, InitOutcome, NextOutcome, PTL DEF Spec

-----------------------------------------------------------------------------
(* The contract.                                                           *)

(* What the contract sees *)
Phase   == IF status = NoRow THEN "none" ELSE IF Sealed THEN "settled" ELSE "open"
Settled == IF Sealed THEN <<status, IF status = "SUCCEEDED" THEN outputOf ELSE NoRun>> ELSE <<"none", NoRun>>
Offered == {r \in Run : <<r, "DATA_END">> \in reports}

(* The recorded output of a sealed execution does not change either. *)
LEMMA SealedOutput ==
    ASSUME TypeOK, Sealed, [Next]_vars
    PROVE  outputOf' = outputOf
<1>1. wpc # "store"
    BY DEF Sealed, MidBatch
<1>2. ~SaveOutput
    BY <1>1 DEF SaveOutput
<1>3. HandleOutput => outputOf' = outputOf
    BY DEF HandleOutput
<1> QED
    BY <1>2, <1>3, WatcherMoves

(* A run offers its output while the watcher does something else. *)
LEMMA OfferStep ==
    ASSUME TypeOK, [Next]_vars
    PROVE  \/ Offered' = Offered
           \/ \E r \in Run : Offered' = Offered \cup {r} /\ UNCHANGED <<Phase, Settled>>
<1>1. /\ reports \subseteq reports'
      /\ \A q \in Run : Reported(q)' => Reported(q) \/ SendOutputEnd(q)
    BY ReportsStep
<1>2. CASE \A q \in Run : Reported(q)' => Reported(q)
    BY <1>1, <1>2 DEF Offered, Reported
<1>3. CASE \E q \in Run : SendOutputEnd(q)
  <2>1. PICK r \in Run : SendOutputEnd(r)
      BY <1>3
  <2>2. reports' = reports \cup {<<r, "DATA_END">>} /\ UNCHANGED <<status, outputOf, wpc, wbatch>>
      BY <2>1 DEF SendOutputEnd, Publish, FinalMessage, rowVars, watchVars
  <2>3. Offered' = Offered \cup {r}
      BY <2>2 DEF Offered
  <2>4. Sealed' = Sealed
      BY <2>2 DEF Sealed, MidBatch, Terminal, AllDrained, Drained, Requests
  <2>5. UNCHANGED <<Phase, Settled>>
      BY <2>2, <2>4 DEF Phase, Settled
  <2> QED
      BY <2>3, <2>5
<1> QED
    BY <1>1, <1>2, <1>3

(* An execution implements its contract: it is created once, it settles    *)
(* once, SUCCEEDED only with the output of a run that sent it to the end,  *)
(* and nothing that crashes, is delivered again or is read again afterward *)
(* is seen by the one who asks for its status.                             *)
THEOREM Refinement == Spec => Implements
<1>1. Init => Contract!ContractInit
  <2> SUFFICES ASSUME Init PROVE Contract!ContractInit
      OBVIOUS
  <2>1. status = NoRow /\ ~Sealed /\ {r \in Run : <<r, "DATA_END">> \in reports} = {}
      BY DEF Init, Sealed, Terminal, TERMINAL_STATUSES, NoRow
  <2> QED
      BY <2>1 DEF Contract!ContractInit
<1>2. TypeOK /\ Reopen /\ Outcome /\ Outcome' /\ [Next]_vars => [Contract!ContractNext]_Contract!cvars
  <2> SUFFICES ASSUME TypeOK, Reopen, Outcome, Outcome', [Next]_vars
               PROVE  Contract!ContractNext \/ UNCHANGED <<Phase, Settled, Offered>>
      BY DEF Contract!cvars, Phase, Settled, Offered
  <2>1. Quiet /\ Fresh /\ RowReported'
      BY DEF Outcome
  <2>2. /\ status = NoRow => ~Sealed
        /\ status' = NoRow => ~Sealed'
      BY DEF Sealed, Terminal, TERMINAL_STATUSES, NoRow
  <2>3. CASE \E r \in Run : Offered' = Offered \cup {r} /\ UNCHANGED <<Phase, Settled>>
    <3>1. PICK r \in Run : Offered' = Offered \cup {r} /\ UNCHANGED <<Phase, Settled>>
        BY <2>3
    <3>2. Contract!Offer(r)
        BY <3>1 DEF Contract!Offer, Phase, Settled, Offered
    <3> QED
        BY <3>2 DEF Contract!ContractNext
  <2>4. CASE Offered' = Offered
    <3>1. CASE Sealed
      <4>1. Sealed' /\ status' = status /\ outputOf' = outputOf
          BY <3>1, SealedStep, SealedOutput
      <4> QED
          BY <2>4, <3>1, <4>1 DEF Phase, Settled
    <3>2. CASE ~Sealed /\ status = NoRow
      <4>1. CASE CreateExecution
        <5>1. status' = "QUEUED" /\ ~Sealed'
            BY <4>1 DEF CreateExecution, Sealed, Terminal, TERMINAL_STATUSES
        <5>2. Phase = "none" /\ Phase' = "open" /\ Settled' = Settled
            BY <3>2, <5>1 DEF Phase, Settled, NoRow
        <5>3. Contract!Create
            BY <2>4, <5>2 DEF Contract!Create, Phase, Settled, Offered
        <5> QED
            BY <5>3 DEF Contract!ContractNext
      <4>2. CASE status' = NoRow
          BY <2>2, <2>4, <3>2, <4>2 DEF Phase, Settled
      <4> QED
          BY <2>1, <3>2, <4>1, <4>2, RowAppears
    <3>3. CASE ~Sealed /\ status # NoRow /\ ~Sealed'
      <4>1. status' # NoRow
          BY <2>1, <3>3, RowAppears
      <4> QED
          BY <2>4, <3>3, <4>1 DEF Phase, Settled
    <3>4. CASE ~Sealed /\ status # NoRow /\ Sealed'
      <4>1. status' # NoRow
          BY <2>1, <3>4, RowAppears
      <4>2. Phase = "open" /\ Phase' = "settled"
          BY <3>4, <4>1 DEF Phase
      <4>3. status' \in {"SUCCEEDED", "FAILED", "TRANSFER_FAILED"}
          BY <3>4 DEF Sealed, Terminal, TERMINAL_STATUSES
      <4>4. CASE status' = "SUCCEEDED"
        <5>1. outputOf' \in Offered'
            BY <2>1, <4>4 DEF RowReported, Reported, Offered
        <5>2. Settled' = <<"SUCCEEDED", outputOf'>>
            BY <3>4, <4>4 DEF Settled
        <5>3. Settled' \in {"SUCCEEDED"} \X Offered
            BY <2>4, <5>1, <5>2
        <5>4. Contract!Settle
            BY <2>4, <4>2, <5>3 DEF Contract!Settle, Phase, Settled, Offered
        <5> QED
            BY <5>4 DEF Contract!ContractNext
      <4>5. CASE status' \in {"FAILED", "TRANSFER_FAILED"}
        <5>1. Settled' = <<status', NoRun>>
            BY <3>4, <4>5 DEF Settled
        <5>2. Settled' \in {"FAILED", "TRANSFER_FAILED"} \X {NoRun}
            BY <4>5, <5>1
        <5>3. Contract!Settle
            BY <2>4, <4>2, <5>2 DEF Contract!Settle, Phase, Settled, Offered
        <5> QED
            BY <5>3 DEF Contract!ContractNext
      <4> QED
          BY <4>3, <4>4, <4>5
    <3> QED
        BY <3>1, <3>2, <3>3, <3>4
  <2> QED
      BY <2>3, <2>4, OfferStep
<1> QED
    BY <1>1, <1>2, InitTypeOK, NextTypeOK, InitReopen, NextReopen, InitSent, NextSent, InitOutcome, NextOutcome,
       PTL DEF Spec, Implements, Contract!ContractSpec
-----------------------------------------------------------------------------
(* A worker that keeps its connection.                                     *)

(* The invariant: a run that has nothing left to do but return, or has     *)
(* returned, has published how it ended; the one that still has to publish *)
(* TASK_SUCCEEDED has already sent its output.                             *)
HasTold(r) == \E t \in FinalMessage : <<r, t>> \in reports

EndsTold ==
    /\ delegate = "ACTIVE" /\ acl = TRUE
    /\ \A r \in Run : pc[r] \in {"succeeded", "finish", "done"} => HasTold(r)

(* Where Redis answers and the delegate keeps its access, a run comes to   *)
(* its end only through a message that says how.                           *)
LEMMA NextEndsTold ==
    ASSUME "redis_error" \notin Faults, "revocation" \notin Faults, TypeOK, EndsTold, [Next]_vars
    PROVE  EndsTold'
<1> USE DEF runVars, authVars, recvVars, vars
<1>1. pc \in [Run -> PC] /\ acl = TRUE /\ delegate = "ACTIVE"
    BY DEF TypeOK, RunOK, EndsTold
<1>2. reports \subseteq reports'
    BY ReportsStep
<1>3. ~RevokeDelegate /\ ~RevokeAcl
    BY <1>1 DEF RevokeDelegate, RevokeAcl, Fault
<1>4. ASSUME NEW r \in Run PROVE ~RunError(r)
    BY <1>1 DEF RunError, Fault
<1>5. UNCHANGED <<delegate, acl>>
  <2>1. ASSUME NEW r \in Run, RunStep(r) PROVE UNCHANGED <<delegate, acl>>
      BY <2>1 DEF RunStep, Announce, PublishTransferring, SendDataRequest, Receive, ReceiveTimeout,
          PublishTransferFailed, PublishExecuting, SendOutputStart, SendOutputEnd, PublishSucceeded,
          TaskRaises, PublishTaskFailed, Finish, Publish, Received
  <2>2. ASSUME WatcherStep \/ WatcherError PROVE UNCHANGED <<delegate, acl>>
      BY <2>2 DEF WatcherStep, WatcherError, WatcherRead, HandleEvent, SendStart, SendEnd, SendStep,
          SaveTransfer, HandleStatus, HandleOutput, SaveOutput, Cleanup, WatcherExit
  <2>3. ASSUME \/ CreateExecution \/ SendExecuteTask \/ Deliver \/ RestoreLost \/ RestoreSlow \/ WorkerCrash
               \/ DispatcherRead \/ DispatcherCrash \/ DispatcherRestart \/ RedisRestart \/ UNCHANGED vars
        PROVE  UNCHANGED <<delegate, acl>>
      BY <2>3 DEF CreateExecution, SendExecuteTask, Deliver, RestoreLost, RestoreSlow, Restore, WorkerCrash,
          DispatcherRead, DispatcherCrash, DispatcherRestart, RedisRestart
  <2> QED
      BY <1>3, <1>4, <2>1, <2>2, <2>3 DEF Next
<1>6. ASSUME NEW q \in Run, pc'[q] \in {"succeeded", "finish", "done"} PROVE HasTold(q)'
  <2>1. HasTold(q) => HasTold(q)'
      BY <1>2 DEF HasTold
  <2>2. pc[q] \in {"succeeded", "finish", "done"} => HasTold(q)
      BY DEF EndsTold
  <2>3. ASSUME UNCHANGED pc PROVE pc[q] \in {"succeeded", "finish", "done"}
      BY <1>6, <2>3
  <2>4. ASSUME NEW r \in Run, NEW from, NEW to, NEW st, NEW t, Publish(r, from, to, st, t),
               \/ to \notin {"succeeded", "finish", "done"}
               \/ from \in {"succeeded", "finish", "done"}
               \/ t \in FinalMessage
        PROVE  HasTold(q)'
    <3>1. pc[r] = from /\ pc' = [pc EXCEPT ![r] = to]
        BY <2>4 DEF Publish, Goto
    <3>2. t \in FinalMessage => HasTold(r)'
        BY <2>4 DEF Publish, HasTold
    <3>3. CASE q = r
        BY <1>1, <1>6, <2>1, <2>2, <2>4, <3>1, <3>2, <3>3
    <3>4. CASE q # r
        BY <1>1, <1>6, <2>1, <2>2, <3>1, <3>4
    <3> QED
        BY <3>3, <3>4
  <2>5. ASSUME NEW r \in Run, RunStep(r) PROVE HasTold(q)'
    <3>1. ASSUME \/ PublishTransferring(r) \/ SendDataRequest(r) \/ PublishTransferFailed(r)
                 \/ PublishExecuting(r) \/ SendOutputStart(r) \/ SendOutputEnd(r)
                 \/ PublishSucceeded(r) \/ PublishTaskFailed(r)
          PROVE  HasTold(q)'
      <4>1. \E from, to, st, t :
               /\ Publish(r, from, to, st, t)
               /\ \/ to \notin {"succeeded", "finish", "done"}
                  \/ from \in {"succeeded", "finish", "done"}
                  \/ t \in FinalMessage
          BY <3>1 DEF PublishTransferring, SendDataRequest, PublishTransferFailed, PublishExecuting,
              SendOutputStart, SendOutputEnd, PublishSucceeded, PublishTaskFailed, FinalMessage
      <4> QED
          BY <2>4, <4>1
    <3>2. ASSUME Announce(r) \/ TaskRaises(r) \/ Finish(r) PROVE pc[q] \in {"succeeded", "finish", "done"}
        BY <1>1, <1>6, <3>2 DEF Announce, TaskRaises, Finish, Goto
    <3>3. ASSUME Receive(r) \/ ReceiveTimeout(r) PROVE pc[q] \in {"succeeded", "finish", "done"}
      <4>1. pc' = pc \/ \E to \in {"executing", "request", "give_up"} : pc' = [pc EXCEPT ![r] = to]
          BY <3>3 DEF Receive, ReceiveTimeout, Retry, Goto
      <4> QED
          BY <1>1, <1>6, <4>1
    <3> QED
        BY <2>1, <2>2, <2>5, <3>1, <3>2, <3>3 DEF RunStep
  <2>6. ASSUME Deliver \/ WorkerCrash PROVE pc[q] \in {"succeeded", "finish", "done"}
      BY <1>1, <1>6, <2>6 DEF Deliver, WorkerCrash
  <2>7. ASSUME \/ CreateExecution \/ SendExecuteTask \/ RestoreLost \/ RestoreSlow
               \/ DispatcherRead \/ DispatcherCrash \/ DispatcherRestart \/ RedisRestart
               \/ WatcherStep \/ WatcherError \/ UNCHANGED vars
        PROVE  UNCHANGED pc
      BY <2>7 DEF CreateExecution, SendExecuteTask, RestoreLost, RestoreSlow,
          Restore, DispatcherRead, DispatcherCrash, DispatcherRestart, RedisRestart, WatcherStep,
          WatcherError, WatcherRead, HandleEvent, SendStart, SendEnd, SendStep, SaveTransfer,
          HandleStatus, HandleOutput, SaveOutput, Cleanup, WatcherExit
  <2> QED
      BY <1>3, <1>4, <2>1, <2>2, <2>3, <2>5, <2>6, <2>7 DEF Next
<1> QED
    BY <1>1, <1>5, <1>6 DEF EndsTold

(* While the worker reaches Redis and is not revoked, no run of            *)
(* execute_task returns without having said how it ended, whatever crashes,*)
(* is delivered again or is lost otherwise.                                *)
THEOREM RunsTellTheirEnd ==
    ASSUME "redis_error" \notin Faults, "revocation" \notin Faults
    PROVE  Spec => []FinishedIsReported
<1>1. Init => EndsTold
    BY DEF Init, EndsTold
<1>2. EndsTold => FinishedIsReported
    BY DEF EndsTold, HasTold, FinishedIsReported
<1>3. TypeOK /\ EndsTold /\ [Next]_vars => EndsTold'
    BY NextEndsTold
<1> QED
    BY <1>1, <1>2, <1>3, InitTypeOK, NextTypeOK, PTL DEF Spec
=============================================================================
