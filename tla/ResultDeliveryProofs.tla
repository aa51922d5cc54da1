------------------------ MODULE ResultDeliveryProofs ------------------------
(***************************************************************************)
(* Theorems about ResultDelivery, for every number of chunks, every size   *)
(* of a batch and any faults: the rows, the file, the order of the log,    *)
(* what is logged when an execution is over, what is left in Redis, and    *)
(* that an output is found invalid only when Redis lost a part of it.      *)
(***************************************************************************)
EXTENDS ResultDelivery, FiniteSetTheorems, SequenceTheorems, TLAPS

USE ResultAssumption

-----------------------------------------------------------------------------
(* What a run publishes.                                                   *)

Part == {"prepare", "give_up", "body", "except"}

(* The text of execute_task and _prepare_execution, step by step: where    *)
(* each message goes, and what it carries.                                 *)
LEMMA ProgramText ==
    /\ DOMAIN Program = Part
    /\ Len(Program["prepare"]) = 2 /\ Len(Program["give_up"]) = 2 /\ Len(Program["except"]) = 2
    /\ Len(Program["body"]) = Chunks + 5
    /\ Program["prepare"][1] = XADD("status", "TRANSFERRING_INPUT") /\ Program["prepare"][2] = LOG("progress")
    /\ Program["give_up"][1] = XADD("status", "TRANSFER_FAILED") /\ Program["give_up"][2] = LOG("giving_up")
    /\ Program["except"][1] = LOG("task_failed") /\ Program["except"][2] = XADD("status", "TASK_FAILED")
    /\ Program["body"][1] = XADD("status", "EXECUTING") /\ Program["body"][2] = XADD("output", "DATA_START")
    /\ \A k \in 1 .. Chunks : Program["body"][k + 2] = CHUNK(k - 1)
    /\ Program["body"][Chunks + 3] = XADD("output", "DATA_END")
    /\ Program["body"][Chunks + 4] = LOG("output_sent")
    /\ Program["body"][Chunks + 5] = XADD("status", "TASK_SUCCEEDED")
<1> DEFINE a == <<XADD("status", "EXECUTING"), XADD("output", "DATA_START")>>
           b == [k \in 1 .. Chunks |-> CHUNK(k - 1)]
           c == <<XADD("output", "DATA_END"), LOG("output_sent"), XADD("status", "TASK_SUCCEEDED")>>
           M == {a[1], a[2], c[1], c[2], c[3]} \cup {CHUNK(k - 1) : k \in 1 .. Chunks}
<1>0. Chunks \in Nat
    OBVIOUS
<1>1. Program["body"] = (a \o b) \o c
    BY DEF Program
<1>2. a \in Seq(M) /\ c \in Seq(M) /\ Len(a) = 2 /\ Len(c) = 3
    OBVIOUS
<1>3. b \in Seq(M) /\ Len(b) = Chunks /\ \A k \in 1 .. Chunks : b[k] = CHUNK(k - 1)
  <2>1. \A k \in 1 .. Chunks : CHUNK(k - 1) \in M
      OBVIOUS
  <2>2. b \in [1 .. Chunks -> M]
      BY <2>1
  <2>3. DOMAIN b = 1 .. Chunks /\ \A k \in 1 .. Chunks : b[k] = CHUNK(k - 1)
      OBVIOUS
  <2> HIDE DEF b, M
  <2> QED
      BY <1>0, <2>2, <2>3
<1>4. a[1] = XADD("status", "EXECUTING") /\ a[2] = XADD("output", "DATA_START")
      /\ c[1] = XADD("output", "DATA_END") /\ c[2] = LOG("output_sent") /\ c[3] = XADD("status", "TASK_SUCCEEDED")
    OBVIOUS
<1> HIDE DEF a, b, c, M
<1>5. a \o b \in Seq(M) /\ Len(a \o b) = 2 + Chunks
      /\ \A i \in 1 .. (2 + Chunks) : (a \o b)[i] = IF i <= 2 THEN a[i] ELSE b[i - 2]
  <2>1. a \o b \in Seq(M) /\ Len(a \o b) = Len(a) + Len(b)
        /\ \A i \in 1 .. (Len(a) + Len(b)) : (a \o b)[i] = IF i <= Len(a) THEN a[i] ELSE b[i - Len(a)]
      BY <1>2, <1>3, ConcatProperties, Zenon
  <2> QED
      BY <1>2, <1>3, <2>1
<1>6. Len((a \o b) \o c) = Chunks + 5
      /\ \A i \in 1 .. (Chunks + 5) : ((a \o b) \o c)[i] = IF i <= 2 + Chunks THEN (a \o b)[i] ELSE c[i - (2 + Chunks)]
  <2> DEFINE d == a \o b
  <2>1. d \in Seq(M) /\ Len(d) = 2 + Chunks
      BY <1>5
  <2> HIDE DEF d
  <2>2. Len(d \o c) = Len(d) + Len(c)
        /\ \A i \in 1 .. (Len(d) + Len(c)) : (d \o c)[i] = IF i <= Len(d) THEN d[i] ELSE c[i - Len(d)]
      BY <1>2, <2>1, ConcatProperties, Zenon
  <2>3. (2 + Chunks) + 3 = Chunks + 5
      BY <1>0
  <2> QED
      BY <1>2, <2>1, <2>2, <2>3 DEF d
<1>7. \A k \in 1 .. Chunks : Program["body"][k + 2] = CHUNK(k - 1)
  <2> TAKE k \in 1 .. Chunks
  <2>1. k + 2 \in 1 .. (Chunks + 2) /\ k + 2 \in 1 .. (Chunks + 5) /\ k + 2 <= Chunks + 2 /\ ~(k + 2 <= 2) /\ (k + 2) - 2 = k
      OBVIOUS
  <2> QED
      BY <1>1, <1>3, <1>5, <1>6, <2>1
<1>8. /\ Program["body"][1] = a[1] /\ Program["body"][2] = a[2]
      /\ Program["body"][Chunks + 3] = c[1] /\ Program["body"][Chunks + 4] = c[2]
      /\ Program["body"][Chunks + 5] = c[3] /\ Len(Program["body"]) = Chunks + 5
  <2>1. /\ 1 \in 1 .. (2 + Chunks) /\ 1 \in 1 .. (Chunks + 5) /\ 1 <= 2 + Chunks /\ 1 <= 2
        /\ 2 \in 1 .. (2 + Chunks) /\ 2 \in 1 .. (Chunks + 5) /\ 2 <= 2 + Chunks /\ 2 <= 2
        /\ \A j \in 1 .. 3 : /\ Chunks + 2 + j \in 1 .. (Chunks + 5) /\ ~(Chunks + 2 + j <= 2 + Chunks)
                             /\ (Chunks + 2 + j) - (2 + Chunks) = j
        /\ Chunks + 2 + 1 = Chunks + 3 /\ Chunks + 2 + 2 = Chunks + 4 /\ Chunks + 2 + 3 = Chunks + 5
      BY <1>0
  <2>2. \A j \in 1 .. 3 : Program["body"][Chunks + 2 + j] = c[j]
      BY <1>1, <1>6, <2>1
  <2>3. Program["body"][1] = a[1] /\ Program["body"][2] = a[2]
      BY <1>1, <1>5, <1>6, <2>1
  <2>4. Program["body"][Chunks + 3] = c[1]
      BY <2>1, <2>2
  <2>5. Program["body"][Chunks + 4] = c[2]
      BY <2>1, <2>2
  <2>6. Program["body"][Chunks + 5] = c[3]
      BY <2>1, <2>2
  <2> QED
      BY <1>1, <1>6, <2>3, <2>4, <2>5, <2>6
<1>9. DOMAIN Program = Part
    BY DEF Program, Part
<1>10. Program["prepare"] = <<XADD("status", "TRANSFERRING_INPUT"), LOG("progress")>>
       /\ Program["give_up"] = <<XADD("status", "TRANSFER_FAILED"), LOG("giving_up")>>
       /\ Program["except"] = <<LOG("task_failed"), XADD("status", "TASK_FAILED")>>
    BY DEF Program
<1>11. /\ Len(Program["prepare"]) = 2 /\ Len(Program["give_up"]) = 2 /\ Len(Program["except"]) = 2
       /\ Program["prepare"][1] = XADD("status", "TRANSFERRING_INPUT") /\ Program["prepare"][2] = LOG("progress")
       /\ Program["give_up"][1] = XADD("status", "TRANSFER_FAILED") /\ Program["give_up"][2] = LOG("giving_up")
       /\ Program["except"][1] = LOG("task_failed") /\ Program["except"][2] = XADD("status", "TASK_FAILED")
  <2>2. Len(Program["prepare"]) = 2 /\ Program["prepare"][1] = XADD("status", "TRANSFERRING_INPUT") /\ Program["prepare"][2] = LOG("progress")
    <3> DEFINE x == XADD("status", "TRANSFERRING_INPUT")
               y == LOG("progress")
    <3>1. Program["prepare"] = <<x, y>>
        BY <1>10
    <3> HIDE DEF x, y, Program
    <3>2. Len(<<x, y>>) = 2 /\ <<x, y>>[1] = x /\ <<x, y>>[2] = y
        OBVIOUS
    <3>3. Len(Program["prepare"]) = 2 /\ Program["prepare"][1] = x /\ Program["prepare"][2] = y
        BY <3>1, <3>2
    <3> QED
        BY <3>3 DEF x, y
  <2>3. Len(Program["give_up"]) = 2 /\ Program["give_up"][1] = XADD("status", "TRANSFER_FAILED") /\ Program["give_up"][2] = LOG("giving_up")
    <3> DEFINE x == XADD("status", "TRANSFER_FAILED")
               y == LOG("giving_up")
    <3>1. Program["give_up"] = <<x, y>>
        BY <1>10
    <3> HIDE DEF x, y, Program
    <3>2. Len(<<x, y>>) = 2 /\ <<x, y>>[1] = x /\ <<x, y>>[2] = y
        OBVIOUS
    <3>3. Len(Program["give_up"]) = 2 /\ Program["give_up"][1] = x /\ Program["give_up"][2] = y
        BY <3>1, <3>2
    <3> QED
        BY <3>3 DEF x, y
  <2>4. Len(Program["except"]) = 2 /\ Program["except"][1] = LOG("task_failed") /\ Program["except"][2] = XADD("status", "TASK_FAILED")
    <3> DEFINE x == LOG("task_failed")
               y == XADD("status", "TASK_FAILED")
    <3>1. Program["except"] = <<x, y>>
        BY <1>10
    <3> HIDE DEF x, y, Program
    <3>2. Len(<<x, y>>) = 2 /\ <<x, y>>[1] = x /\ <<x, y>>[2] = y
        OBVIOUS
    <3>3. Len(Program["except"]) = 2 /\ Program["except"][1] = x /\ Program["except"][2] = y
        BY <3>1, <3>2
    <3> QED
        BY <3>3 DEF x, y
  <2> QED
      BY <2>2, <2>3, <2>4
<1> HIDE DEF Program
<1> QED
    BY <1>4, <1>7, <1>8, <1>9, <1>11

(* What each stream carries, and from which step of the program a message  *)
(* comes.                                                                  *)
StatusType == {"TRANSFERRING_INPUT", "EXECUTING", "TRANSFER_FAILED", "TASK_FAILED", "TASK_SUCCEEDED"}
OutputType == {"DATA_START", "DATA_CHUNK", "DATA_END"}

Rank(m) == IF m.type = "DATA_START" THEN 0 ELSE
           IF m.type = "DATA_CHUNK" THEN m.sequence_no + 1 ELSE Chunks + 1

LEMMA StepFields ==
    ASSUME NEW p \in Part, NEW i \in 1 .. Len(Program[p]), NEW m, m = Program[p][i]
    PROVE  /\ m.to \in Stream /\ m.type \in Type /\ m.line \in Line \cup {"none"} /\ m.sequence_no \in 0 .. Chunks
           /\ m.to = "log" <=> m.type = "LOG"
           /\ m.to = "log" =>
                 \/ p = "prepare" /\ m.line = "progress"
                 \/ p = "give_up" /\ i = 2 /\ m.line = "giving_up"
                 \/ p = "body" /\ i = Chunks + 4 /\ m.line = "output_sent"
                 \/ p = "except" /\ i = 1 /\ m.line = "task_failed"
           /\ m.to = "status" =>
                 \/ p = "prepare" /\ m.type = "TRANSFERRING_INPUT"
                 \/ p = "give_up" /\ i = 1 /\ m.type = "TRANSFER_FAILED"
                 \/ p = "body" /\ i = 1 /\ m.type = "EXECUTING"
                 \/ p = "body" /\ i = Chunks + 5 /\ m.type = "TASK_SUCCEEDED"
                 \/ p = "except" /\ i = 2 /\ m.type = "TASK_FAILED"
           /\ m.to = "output" =>
                 /\ p = "body" /\ i \in 2 .. (Chunks + 3) /\ Rank(m) = i - 2
                 /\ \/ m.type = "DATA_START" /\ i = 2
                    \/ m.type = "DATA_CHUNK" /\ m.sequence_no = i - 3 /\ i - 3 \in 0 .. (Chunks - 1)
                    \/ m.type = "DATA_END" /\ i = Chunks + 3
<1>0. Chunks \in Nat /\ Chunks # 0
    OBVIOUS
<1>1. ASSUME NEW to, NEW type, m = XADD(to, type)
      PROVE  m.to = to /\ m.type = type /\ m.line = "none" /\ m.sequence_no = 0
    BY <1>1 DEF XADD
<1>2. ASSUME NEW line, m = LOG(line)
      PROVE  m.to = "log" /\ m.type = "LOG" /\ m.line = line /\ m.sequence_no = 0
    BY <1>2 DEF XADD, LOG
<1>3. ASSUME NEW k, m = CHUNK(k)
      PROVE  m.to = "output" /\ m.type = "DATA_CHUNK" /\ m.line = "none" /\ m.sequence_no = k
    BY <1>3 DEF XADD, CHUNK
<1>4. CASE p = "prepare"
  <2>1. Len(Program["prepare"]) = 2 /\ Program["prepare"][1] = XADD("status", "TRANSFERRING_INPUT") /\ Program["prepare"][2] = LOG("progress")
      BY ProgramText
  <2>2. i = 1 \/ i = 2
      BY <1>4, <2>1
  <2>3. CASE i = 1
    <3>1. m.to = "status" /\ m.type = "TRANSFERRING_INPUT" /\ m.line = "none" /\ m.sequence_no = 0
        BY <1>1, <1>4, <2>1, <2>3
    <3> QED
        BY <1>0, <1>4, <2>3, <3>1 DEF Stream, Line, Type
  <2>4. CASE i = 2
    <3>1. m.to = "log" /\ m.type = "LOG" /\ m.line = "progress" /\ m.sequence_no = 0
        BY <1>2, <1>4, <2>1, <2>4
    <3> QED
        BY <1>0, <1>4, <2>4, <3>1 DEF Stream, Line, Type
  <2> QED
      BY <2>2, <2>3, <2>4
<1>5. CASE p = "give_up"
  <2>1. Len(Program["give_up"]) = 2 /\ Program["give_up"][1] = XADD("status", "TRANSFER_FAILED") /\ Program["give_up"][2] = LOG("giving_up")
      BY ProgramText
  <2>2. i = 1 \/ i = 2
      BY <1>5, <2>1
  <2>3. CASE i = 1
    <3>1. m.to = "status" /\ m.type = "TRANSFER_FAILED" /\ m.line = "none" /\ m.sequence_no = 0
        BY <1>1, <1>5, <2>1, <2>3
    <3> QED
        BY <1>0, <1>5, <2>3, <3>1 DEF Stream, Line, Type
  <2>4. CASE i = 2
    <3>1. m.to = "log" /\ m.type = "LOG" /\ m.line = "giving_up" /\ m.sequence_no = 0
        BY <1>2, <1>5, <2>1, <2>4
    <3> QED
        BY <1>0, <1>5, <2>4, <3>1 DEF Stream, Line, Type
  <2> QED
      BY <2>2, <2>3, <2>4
<1>6. CASE p = "except"
  <2>1. Len(Program["except"]) = 2 /\ Program["except"][1] = LOG("task_failed") /\ Program["except"][2] = XADD("status", "TASK_FAILED")
      BY ProgramText
  <2>2. i = 1 \/ i = 2
      BY <1>6, <2>1
  <2>3. CASE i = 1
    <3>1. m.to = "log" /\ m.type = "LOG" /\ m.line = "task_failed" /\ m.sequence_no = 0
        BY <1>2, <1>6, <2>1, <2>3
    <3> QED
        BY <1>0, <1>6, <2>3, <3>1 DEF Stream, Line, Type
  <2>4. CASE i = 2
    <3>1. m.to = "status" /\ m.type = "TASK_FAILED" /\ m.line = "none" /\ m.sequence_no = 0
        BY <1>1, <1>6, <2>1, <2>4
    <3> QED
        BY <1>0, <1>6, <2>4, <3>1 DEF Stream, Line, Type
  <2> QED
      BY <2>2, <2>3, <2>4
<1>7. CASE p = "body"
  <2>1. i \in 1 .. (Chunks + 5)
    <3>1. Len(Program["body"]) = Chunks + 5
        BY ProgramText
    <3> QED
        BY <1>7, <3>1
  <2>2. CASE i = 1
    <3>1. m = XADD("status", "EXECUTING")
        BY <1>7, <2>2, ProgramText
    <3>2. m.to = "status" /\ m.type = "EXECUTING" /\ m.line = "none" /\ m.sequence_no = 0
        BY <1>1, <3>1
    <3> QED
        BY <1>0, <1>7, <2>2, <3>2 DEF Stream, Line, Type, Rank
  <2>3. CASE i = 2
    <3>1. m = XADD("output", "DATA_START")
        BY <1>7, <2>3, ProgramText
    <3>2. m.to = "output" /\ m.type = "DATA_START" /\ m.line = "none" /\ m.sequence_no = 0
        BY <1>1, <3>1
    <3> QED
        BY <1>0, <1>7, <2>3, <3>2 DEF Stream, Line, Type, Rank
  <2>4. CASE i = Chunks + 3
    <3>1. m = XADD("output", "DATA_END")
        BY <1>7, <2>4, ProgramText
    <3>2. m.to = "output" /\ m.type = "DATA_END" /\ m.line = "none" /\ m.sequence_no = 0
        BY <1>1, <3>1
    <3> QED
        BY <1>0, <1>7, <2>4, <3>2 DEF Stream, Line, Type, Rank
  <2>5. CASE i = Chunks + 4
    <3>1. m = LOG("output_sent")
        BY <1>7, <2>5, ProgramText
    <3>2. m.to = "log" /\ m.type = "LOG" /\ m.line = "output_sent" /\ m.sequence_no = 0
        BY <1>2, <3>1
    <3> QED
        BY <1>0, <1>7, <2>5, <3>2 DEF Stream, Line, Type, Rank
  <2>6. CASE i = Chunks + 5
    <3>1. m = XADD("status", "TASK_SUCCEEDED")
        BY <1>7, <2>6, ProgramText
    <3>2. m.to = "status" /\ m.type = "TASK_SUCCEEDED" /\ m.line = "none" /\ m.sequence_no = 0
        BY <1>1, <3>1
    <3> QED
        BY <1>0, <1>7, <2>6, <3>2 DEF Stream, Line, Type, Rank
  <2>7. CASE i \in 3 .. (Chunks + 2)
    <3>1. i - 2 \in 1 .. Chunks /\ (i - 2) + 2 = i /\ (i - 2) - 1 = i - 3
        BY <1>0, <2>7
    <3>2. m = CHUNK(i - 3)
      <4>1. \A k \in 1 .. Chunks : Program["body"][k + 2] = CHUNK(k - 1)
          BY ProgramText
      <4>2. Program["body"][(i - 2) + 2] = CHUNK((i - 2) - 1)
          BY <3>1, <4>1
      <4> QED
          BY <1>7, <3>1, <4>2
    <3>3. m.to = "output" /\ m.type = "DATA_CHUNK" /\ m.line = "none" /\ m.sequence_no = i - 3
        BY <1>3, <3>2
    <3>4. /\ i \in 2 .. (Chunks + 3) /\ (i - 3) + 1 = i - 2
          /\ i - 3 \in 0 .. (Chunks - 1) /\ i - 3 \in 0 .. Chunks
        BY <1>0, <2>7
    <3>5. Rank(m) = i - 2
        BY <3>3, <3>4 DEF Rank
    <3> QED
        BY <1>7, <3>3, <3>4, <3>5 DEF Stream, Line, Type
  <2> QED
      BY <1>0, <2>1, <2>2, <2>3, <2>4, <2>5, <2>6, <2>7
<1> QED
    BY <1>4, <1>5, <1>6, <1>7 DEF Part

-----------------------------------------------------------------------------
(* The inductive invariant.  First what the state consists of, and what is *)
(* known of every message: where it was published, that its id was given   *)
(* out, and that the run that concluded is past its conclusion.            *)

Final == {"DATA_END", "TRANSFER_FAILED", "TASK_FAILED"}

Past(r, t) ==
    \/ part[r] \in {"over", "dead"}
    \/ t = "DATA_END" /\ (part[r] = "except" \/ (part[r] = "body" /\ pos[r] > Chunks + 3))
    \/ t = "TRANSFER_FAILED" /\ part[r] = "give_up" /\ pos[r] > 1
    \/ t = "TASK_FAILED" /\ part[r] = "except" /\ pos[r] > 2

Published(s, m) ==
    /\ m \in Message
    /\ s = "log" => m.line \in Line
    /\ s = "status" => m.type \in StatusType
    /\ s = "output" => m.type \in OutputType /\ (m.type = "DATA_CHUNK" => m.sequence_no < Chunks)
    /\ m.id < nextId[s]
    /\ part[m.run] # "idle"
    /\ m.type \in Final => Past(m.run, m.type)

Types ==
    /\ part \in [Run -> Part \cup {"idle", "over", "dead"}] /\ pos \in [Run -> Nat] /\ \A r \in Run : pos[r] >= 1
    /\ lines \in [Run -> Seq(Line)]
    /\ stream \in [Stream -> Seq(Message)] /\ nextId \in [Stream -> Nat] /\ announced \in Nat /\ lastId \in Nat
    /\ wpc \in {"none", "loop", "write", "save"}
    /\ batch \in [Stream -> Seq(Message)] /\ last_ids \in [Stream -> Nat] /\ log_seq \in Nat /\ watchers \in Nat
    /\ output_state \in [run : Run \cup {NoRun}, buf : Seq(Run \X Nat), seen_seq : SUBSET Nat]
    /\ status \in TERMINAL_STATUSES \cup {"OPEN"} /\ output_checksum \in Run \cup {NoRun}
    /\ rows \in Seq([watcher : Nat, seq : Nat, run : Run, line : Line, id : Nat])
    /\ verdict \in [run : Run \cup {NoRun}, type : Type \cup {"none"}]
    /\ up \in BOOLEAN /\ lossy \in BOOLEAN /\ behind \in BOOLEAN /\ torn \in BOOLEAN

Streams == \A s \in Stream : \A i \in 1 .. Len(stream[s]) : Published(s, stream[s][i])
Batches == \A s \in Stream : \A i \in 1 .. Len(batch[s]) : Published(s, batch[s][i])

(* Ids run without a gap through a stream and through what is left of a    *)
(* batch, and a batch ends at last_ids.                                    *)
Ids ==
    \A s \in Stream :
        /\ Len(stream[s]) < nextId[s]
        /\ \A i \in 1 .. Len(stream[s]) : stream[s][i].id = nextId[s] - 1 - Len(stream[s]) + i
        /\ last_ids[s] < nextId[s] /\ Len(batch[s]) <= last_ids[s]
        /\ \A i \in 1 .. Len(batch[s]) : batch[s][i].id = last_ids[s] - Len(batch[s]) + i

(* The file and the row *)
Storing ==
    /\ wpc \in {"write", "save"} =>
          /\ output_state.run \in Run /\ Valid(output_state) /\ Past(output_state.run, "DATA_END")
          /\ part[output_state.run] # "idle" /\ batch["log"] = << >>
    /\ wpc = "save" => file = output_state.buf

Concluded ==
    Terminal => /\ verdict.run \in Run /\ part[verdict.run] # "idle"
                /\ verdict.type \in Final /\ Past(verdict.run, verdict.type)

(* The log: rows of one watcher are in the order of their ids, and those   *)
(* of the watcher at work come before what is left of its batch.           *)
RowsInOrder ==
    \A i, j \in 1 .. Len(rows) :
        i < j /\ rows[i].watcher = rows[j].watcher => rows[i].seq < rows[j].seq /\ rows[i].id < rows[j].id

RowsKnown ==
    \A i \in 1 .. Len(rows) :
        /\ rows[i].watcher <= watchers /\ rows[i].id < nextId["log"]
        /\ wpc # "none" /\ rows[i].watcher = watchers =>
              rows[i].seq <= log_seq /\ rows[i].id <= last_ids["log"] - Len(batch["log"])

Announced == ~lossy /\ part[1] # "idle" => announced >= 1

(* An id stands for one line: in the stream, in a batch and in the rows.   *)
OneLine ==
    \A i \in 1 .. Len(stream["log"]) :
        /\ \A k \in 1 .. Len(rows) : rows[k].id = stream["log"][i].id =>
              rows[k].run = stream["log"][i].run /\ rows[k].line = stream["log"][i].line
        /\ \A k \in 1 .. Len(batch["log"]) : batch["log"][k].id = stream["log"][i].id =>
              batch["log"][k].run = stream["log"][i].run /\ batch["log"][k].line = stream["log"][i].line

Recorded(r, l) == \E k \in 1 .. Len(rows) : rows[k].run = r /\ rows[k].line = l
InBatch(r, l)  == \E k \in 1 .. Len(batch["log"]) : batch["log"][k].run = r /\ batch["log"][k].line = l
InStream(r, l) == \E k \in 1 .. Len(stream["log"]) : stream["log"][k].run = r /\ stream["log"][k].line = l

(* As long as no line was deleted unread, a published line is in the       *)
(* stream or in the rows, and the watcher at work has recorded, or holds,  *)
(* what it has read.                                                       *)
LinesKept ==
    erased = {} =>
        /\ \A r \in Run : \A i \in 1 .. Len(lines[r]) : InStream(r, lines[r][i]) \/ Recorded(r, lines[r][i])
        /\ wpc # "none" => \A i \in 1 .. Len(stream["log"]) :
              stream["log"][i].id <= last_ids["log"] =>
                  \/ Recorded(stream["log"][i].run, stream["log"][i].line)
                  \/ InBatch(stream["log"][i].run, stream["log"][i].line)

(* The lines that run r published before its conclusion t *)
Before(r, t) == {lines[r][i] : i \in 1 .. Len(lines[r])} \ After(t)

(* ... have been read when the conclusion has. *)
BatchLogged ==
    erased = {} /\ ~behind =>
        /\ wpc # "none" => \A s \in Stream : \A i \in 1 .. Len(batch[s]) : batch[s][i].type \in Final =>
              \A l \in Before(batch[s][i].run, batch[s][i].type) :
                  Recorded(batch[s][i].run, l) \/ InBatch(batch[s][i].run, l)
        /\ wpc \in {"write", "save"} =>
              \A l \in Before(output_state.run, "DATA_END") : Recorded(output_state.run, l)
        /\ Terminal => \A l \in Before(verdict.run, verdict.type) : Recorded(verdict.run, l)

-----------------------------------------------------------------------------
(* XREAD.                                                                  *)

(* What a watcher has seen of a stream is a prefix of it. *)
LEMMA SeenPrefix ==
    ASSUME Types, Ids, NEW s \in Stream
    PROVE  \E n \in 0 .. Len(stream[s]) :
              /\ Cardinality(Seen(s)) = n
              /\ \A i \in 1 .. Len(stream[s]) : i <= n <=> stream[s][i].id <= last_ids[s]
<1> DEFINE N == Len(stream[s])
           L == last_ids[s]
           B == nextId[s] - 1 - N
           n == IF L <= B THEN 0 ELSE L - B
<1>1. N \in Nat /\ L \in Nat /\ B \in Nat /\ L - B <= N /\ DOMAIN stream[s] = 1 .. N
  <2>1. stream[s] \in Seq(Message) /\ nextId[s] \in Nat /\ last_ids[s] \in Nat
      BY DEF Types
  <2>2. N < nextId[s] /\ L < nextId[s]
      BY DEF Ids
  <2>3. N \in Nat /\ DOMAIN stream[s] = 1 .. N
      BY <2>1, LenProperties
  <2> QED
      BY <2>1, <2>2, <2>3
<1>2. \A i \in 1 .. N : stream[s][i].id = B + i
    BY <1>1 DEF Ids
<1> HIDE DEF N, L, B
<1>3. n \in 0 .. N
    BY <1>1
<1>4. \A i \in 1 .. N : i <= n <=> stream[s][i].id <= L
    BY <1>1, <1>2
<1> HIDE DEF n
<1>5. Seen(s) = 1 .. n
    BY <1>1, <1>3, <1>4 DEF Seen, L
<1>6. Cardinality(1 .. n) = n
    BY <1>1, <1>3, FS_Interval
<1> QED
    BY <1>3, <1>4, <1>5, <1>6 DEF N, L

(* A batch is what comes next, and last_ids its end. *)
LEMMA ReadFacts ==
    ASSUME Types, Ids, NEW s \in Stream
    PROVE  /\ FirstOf(s) \in Seq(Message) /\ Len(FirstOf(s)) \in Nat /\ IdAfter(s) \in Nat
           /\ \E n \in 0 .. Len(stream[s]) :
                 /\ \A i \in 1 .. Len(stream[s]) : i <= n <=> stream[s][i].id <= last_ids[s]
                 /\ Len(Unread(s)) = Len(stream[s]) - n
                 /\ n + Len(FirstOf(s)) <= Len(stream[s])
                 /\ Len(Unread(s)) <= WatchBatch => n + Len(FirstOf(s)) = Len(stream[s])
                 /\ \A i \in 1 .. Len(FirstOf(s)) : FirstOf(s)[i] = stream[s][n + i]
                 /\ IdAfter(s) = IF Len(FirstOf(s)) = 0 THEN last_ids[s] ELSE stream[s][n + Len(FirstOf(s))].id
<1> DEFINE q == stream[s]
           u == Unread(s)
           b == FirstOf(s)
           w == IF Len(u) < WatchBatch THEN Len(u) ELSE WatchBatch
<1>1. q \in Seq(Message) /\ Len(q) \in Nat /\ last_ids[s] \in Nat /\ WatchBatch \in Nat /\ WatchBatch > 0
    BY LenProperties DEF Types
<1>2. PICK n \in 0 .. Len(q) :
          /\ Cardinality(Seen(s)) = n
          /\ \A i \in 1 .. Len(q) : i <= n <=> q[i].id <= last_ids[s]
    BY SeenPrefix
<1>3. u = SubSeq(q, n + 1, Len(q))
    BY <1>2 DEF Unread
<1> HIDE DEF q
<1>4. u \in Seq(Message) /\ Len(u) = Len(q) - n /\ \A i \in 1 .. Len(u) : u[i] = q[n + i]
  <2>1. n + 1 \in 1 .. (Len(q) + 1) /\ Len(q) \in (n + 1) - 1 .. Len(q)
      BY <1>1, <1>2
  <2>2. \A i \in (n + 1) .. Len(q) : q[i] \in Message
      BY <1>1, <1>2
  <2>3. /\ SubSeq(q, n + 1, Len(q)) \in Seq(Message)
        /\ Len(SubSeq(q, n + 1, Len(q))) = IF n + 1 <= Len(q) THEN Len(q) - (n + 1) + 1 ELSE 0
        /\ \A i \in 1 .. (Len(q) - (n + 1) + 1) : SubSeq(q, n + 1, Len(q))[i] = q[(n + 1) + i - 1]
      BY <1>1, <1>2, <2>1, <2>2, SubSeqProperties
  <2>4. /\ Len(q) - (n + 1) + 1 = Len(q) - n /\ (n + 1 <= Len(q) \/ Len(q) - n = 0)
        /\ \A i \in Nat : (n + 1) + i - 1 = n + i
      BY <1>1, <1>2
  <2> HIDE DEF u
  <2>5. u \in Seq(Message) /\ Len(u) = Len(q) - n
      BY <1>1, <1>2, <1>3, <2>3, <2>4
  <2>6. ASSUME NEW i \in 1 .. Len(u) PROVE u[i] = q[n + i]
    <3>0. Len(u) = Len(q) - (n + 1) + 1
        BY <2>4, <2>5, Zenon
    <3>1. i \in 1 .. (Len(q) - (n + 1) + 1) /\ i \in Nat
        BY <3>0
    <3>2. u[i] = q[(n + 1) + i - 1]
        BY <1>3, <2>3, <3>1
    <3> QED
        BY <2>4, <3>1, <3>2
  <2> QED
      BY <2>5, <2>6
<1>5. b = SubSeq(u, 1, w)
    BY DEF FirstOf
<1> HIDE DEF u, b
<1>6. w \in 0 .. Len(u) /\ Len(u) \in Nat /\ (Len(u) <= WatchBatch => w = Len(u))
    BY <1>1, <1>2, <1>4
<1> HIDE DEF w
<1>7. b \in Seq(Message) /\ Len(b) = w /\ \A i \in 1 .. w : b[i] = u[i]
    BY <1>4, <1>5, <1>6
<1>8. IdAfter(s) = IF Len(b) = 0 THEN last_ids[s] ELSE b[Len(b)].id
  <2>1. b = << >> <=> Len(b) = 0
      BY <1>7, EmptySeq
  <2> QED
      BY <2>1 DEF IdAfter, b
<1>9. /\ n + Len(b) <= Len(q)
      /\ Len(u) <= WatchBatch => n + Len(b) = Len(q)
    BY <1>1, <1>2, <1>4, <1>6, <1>7
<1>10. ASSUME NEW i \in 1 .. Len(b) PROVE b[i] = q[n + i]
  <2>1. i \in 1 .. w /\ i \in 1 .. Len(u)
      BY <1>6, <1>7
  <2> QED
      BY <1>4, <1>7, <2>1
<1>11. Len(b) # 0 => Len(b) \in 1 .. Len(b) /\ b[Len(b)] = q[n + Len(b)] /\ q[n + Len(b)].id \in Nat
  <2> SUFFICES ASSUME Len(b) # 0
               PROVE  Len(b) \in 1 .. Len(b) /\ b[Len(b)] = q[n + Len(b)] /\ q[n + Len(b)].id \in Nat
      OBVIOUS
  <2>1. Len(b) \in 1 .. Len(b) /\ n + Len(b) \in 1 .. Len(q)
      BY <1>1, <1>2, <1>6, <1>7, <1>9
  <2>2. b[Len(b)] = q[n + Len(b)] /\ q[n + Len(b)] \in Message
      BY <1>1, <1>10, <2>1
  <2> QED
      BY <2>1, <2>2 DEF Message
<1>12. Len(b) \in Nat /\ IdAfter(s) \in Nat /\ IdAfter(s) = IF Len(b) = 0 THEN last_ids[s] ELSE q[n + Len(b)].id
    BY <1>1, <1>6, <1>7, <1>8, <1>11
<1> QED
    BY <1>2, <1>4, <1>7, <1>9, <1>10, <1>12 DEF q, u, b

-----------------------------------------------------------------------------
(* XADD.                                                                   *)

(* Run r has added the message m of its program, once or twice. *)
NewMessage(r, m, i) ==
    [run |-> r, type |-> m.type, line |-> m.line, sequence_no |-> m.sequence_no, id |-> i]

Wrote(r, m, c) ==
    /\ \A s \in Stream : s # m.to => stream'[s] = stream[s] /\ nextId'[s] = nextId[s]
    /\ Len(stream'[m.to]) = Len(stream[m.to]) + c /\ nextId'[m.to] = nextId[m.to] + c
    /\ \A k \in 1 .. Len(stream[m.to]) : stream'[m.to][k] = stream[m.to][k]
    /\ \A k \in 1 .. c :
          stream'[m.to][Len(stream[m.to]) + k] = NewMessage(r, m, nextId[m.to] + k - 1)

Publishing(r, p, i, m, c) ==
    /\ p \in Part /\ i \in 1 .. Len(Program[p]) /\ m = Program[p][i] /\ c \in 1 .. 2
    /\ part[r] = p /\ pos[r] = i
    /\ Wrote(r, m, c)
    /\ stream' \in [Stream -> Seq(Message)] /\ nextId' \in [Stream -> Nat]
    /\ pos' = [pos EXCEPT ![r] = i + 1]
    /\ lines' = IF m.type = "LOG" THEN [lines EXCEPT ![r] = Append(@, m.line)] ELSE lines
    /\ UNCHANGED <<part, brokered, announced, watchVars, dispVars, rowVars, histVars>>

LEMMA PublishEffect ==
    ASSUME Types, NEW r \in Run, Publish(r)
    PROVE  \E p, i, m, c : Publishing(r, p, i, m, c)
<1>0. PICK p \in Part : part[r] = p
    BY ProgramText DEF Publish, Running
<1>1. PICK i \in 1 .. Len(Program[p]) : part[r] = p /\ pos[r] = i
  <2>1. part[r] \in Part /\ pos[r] \in Nat /\ pos[r] >= 1
      BY ProgramText DEF Publish, Running, Types
  <2>2. \A q \in Part : Len(Program[q]) \in Nat
      BY ProgramText DEF Part
  <2>3. ~(pos[r] > Len(Program[part[r]]))
      BY DEF Publish, AtEnd
  <2> QED
      BY <1>0, <2>1, <2>2, <2>3
<1>2. PICK m : m = Program[p][i]
    OBVIOUS
<1>3. /\ m.to \in Stream /\ m.type \in Type /\ m.line \in Line \cup {"none"} /\ m.sequence_no \in 0 .. Chunks
    BY <1>2, StepFields
<1> DEFINE q == stream[m.to]
           n == nextId[m.to]
<1>4. stream \in [Stream -> Seq(Message)] /\ nextId \in [Stream -> Nat] /\ q \in Seq(Message) /\ n \in Nat
    BY <1>3 DEF Types
<1>5. \A k \in Nat : NewMessage(r, m, k) \in Message
    BY <1>3 DEF NewMessage, Message
<1>6. /\ \/ /\ stream' = [stream EXCEPT ![m.to] = Append(@, NewMessage(r, m, n))]
            /\ nextId' = [nextId EXCEPT ![m.to] = n + 1]
         \/ /\ stream' = [stream EXCEPT ![m.to] = @ \o <<NewMessage(r, m, n), NewMessage(r, m, n + 1)>>]
            /\ nextId' = [nextId EXCEPT ![m.to] = n + 2]
      /\ lines' = IF m.type = "LOG" THEN [lines EXCEPT ![r] = Append(@, m.line)] ELSE lines
      /\ pos' = [pos EXCEPT ![r] = i + 1]
      /\ UNCHANGED <<part, brokered, announced, watchVars, dispVars, rowVars, histVars>>
    BY <1>1, <1>2 DEF Publish, NewMessage
<1> HIDE DEF q, n
<1>7. /\ Append(q, NewMessage(r, m, n)) \in Seq(Message)
      /\ Len(Append(q, NewMessage(r, m, n))) = Len(q) + 1 /\ Len(q) \in Nat
      /\ \A k \in 1 .. Len(q) : Append(q, NewMessage(r, m, n))[k] = q[k]
      /\ Append(q, NewMessage(r, m, n))[Len(q) + 1] = NewMessage(r, m, n)
    BY <1>4, <1>5, AppendProperties, LenProperties
<1> DEFINE a == NewMessage(r, m, n)
           b == NewMessage(r, m, n + 1)
<1>8. a \in Message /\ b \in Message
    BY <1>4, <1>5
<1> HIDE DEF a, b
<1>9. /\ q \o <<a, b>> \in Seq(Message) /\ Len(q \o <<a, b>>) = Len(q) + 2
      /\ \A k \in 1 .. Len(q) : (q \o <<a, b>>)[k] = q[k]
      /\ (q \o <<a, b>>)[Len(q) + 1] = a /\ (q \o <<a, b>>)[Len(q) + 2] = b
    BY <1>4, <1>8, LenProperties
<1>10. CASE /\ stream' = [stream EXCEPT ![m.to] = Append(@, a)]
            /\ nextId' = [nextId EXCEPT ![m.to] = n + 1]
  <2>1. /\ stream' \in [Stream -> Seq(Message)] /\ nextId' \in [Stream -> Nat]
        /\ \A s \in Stream : s # m.to => stream'[s] = stream[s] /\ nextId'[s] = nextId[s]
        /\ stream'[m.to] = Append(q, a) /\ nextId'[m.to] = n + 1
      BY <1>3, <1>4, <1>7, <1>10 DEF q, n, a
  <2>2. n + 1 - 1 = n /\ 1 \in 1 .. 2
      BY <1>4
  <2>3. Wrote(r, m, 1)
    <3>1. \A k \in 1 .. 1 : k = 1
        OBVIOUS
    <3>2. Append(q, a)[Len(q) + 1] = NewMessage(r, m, n + 1 - 1)
        BY <1>7, <2>2 DEF a
    <3> QED
        BY <1>7, <2>1, <3>1, <3>2 DEF Wrote, q, n, a
  <2> QED
      BY <1>1, <1>2, <1>6, <2>1, <2>2, <2>3 DEF Publishing
<1>11. CASE /\ stream' = [stream EXCEPT ![m.to] = @ \o <<a, b>>]
            /\ nextId' = [nextId EXCEPT ![m.to] = n + 2]
  <2>1. /\ stream' \in [Stream -> Seq(Message)] /\ nextId' \in [Stream -> Nat]
        /\ \A s \in Stream : s # m.to => stream'[s] = stream[s] /\ nextId'[s] = nextId[s]
        /\ stream'[m.to] = q \o <<a, b>> /\ nextId'[m.to] = n + 2
      BY <1>3, <1>4, <1>9, <1>11, SMTT(60) DEF q, n
  <2>2. n + 1 - 1 = n /\ n + 2 - 1 = n + 1 /\ 2 \in 1 .. 2
      BY <1>4
  <2>3. Wrote(r, m, 2)
    <3>1. \A k \in 1 .. 2 : k = 1 \/ k = 2
        OBVIOUS
    <3>2. /\ (q \o <<a, b>>)[Len(q) + 1] = NewMessage(r, m, n + 1 - 1)
          /\ (q \o <<a, b>>)[Len(q) + 2] = NewMessage(r, m, n + 2 - 1)
        BY <1>9, <2>2 DEF a, b
    <3> QED
        BY <1>9, <2>1, <3>1, <3>2 DEF Wrote, q, n
  <2> QED
      BY <1>1, <1>2, <1>6, <2>1, <2>2, <2>3 DEF Publishing
<1> QED
    BY <1>6, <1>10, <1>11 DEF a, b

(* What was published, and a run that has been delivered, stays so; a run  *)
(* past its conclusion stays past it.                                      *)
LEMMA PastKept ==
    ASSUME Types, [Next]_vars, NEW r \in Run
    PROVE  /\ part[r] # "idle" => part'[r] # "idle"
           /\ \A t : Past(r, t) => Past(r, t)'
<1> USE DEF vars, runVars
<1>1. part \in [Run -> Part \cup {"idle", "over", "dead"}] /\ pos \in [Run -> Nat] /\ pos[r] >= 1
      /\ Chunks \in Nat /\ DOMAIN Program = Part
    BY ProgramText DEF Types
<1>2. ASSUME UNCHANGED <<part, pos>>
      PROVE  (part[r] # "idle" => part'[r] # "idle") /\ \A t : Past(r, t) => Past(r, t)'
    BY <1>2 DEF Past
<1>3. ASSUME NEW q \in Run, q # r, part'[r] = part[r], pos'[r] = pos[r]
      PROVE  (part[r] # "idle" => part'[r] # "idle") /\ \A t : Past(r, t) => Past(r, t)'
    BY <1>3 DEF Past
<1>4. ASSUME NEW q \in Run, q # r, Deliver(q) \/ Publish(q) \/ Received(q) \/ Raise(q)
      PROVE  part'[r] = part[r] /\ pos'[r] = pos[r]
    BY <1>1, <1>4 DEF Deliver, Publish, Received, Raise, Goto
<1>5. ASSUME Deliver(r)
      PROVE  (part[r] # "idle" => part'[r] # "idle") /\ \A t : Past(r, t) => Past(r, t)'
    BY <1>1, <1>5 DEF Deliver, Past
<1>6. ASSUME Publish(r)
      PROVE  (part[r] # "idle" => part'[r] # "idle") /\ \A t : Past(r, t) => Past(r, t)'
  <2>1. part' = part /\ pos'[r] = pos[r] + 1
      BY <1>1, <1>6 DEF Publish
  <2> QED
      BY <1>1, <2>1 DEF Past
<1>7. ASSUME Received(r)
      PROVE  (part[r] # "idle" => part'[r] # "idle") /\ \A t : Past(r, t) => Past(r, t)'
    BY <1>1, <1>7 DEF Received, Goto, Past
<1>8. ASSUME Raise(r)
      PROVE  (part[r] # "idle" => part'[r] # "idle") /\ \A t : Past(r, t) => Past(r, t)'
  <2>1. part'[r] = "over" \/ (part[r] = "body" /\ part'[r] = "except")
      BY <1>1, <1>8 DEF Raise, Goto
  <2> QED
      BY <1>1, <2>1 DEF Past
<1>9. ASSUME WorkerCrash
      PROVE  (part[r] # "idle" => part'[r] # "idle") /\ \A t : Past(r, t) => Past(r, t)'
  <2>1. (part'[r] = "dead" \/ part'[r] = part[r]) /\ pos' = pos
      BY <1>1, <1>9 DEF WorkerCrash
  <2> QED
      BY <1>1, <2>1 DEF Past
<1>10. ASSUME \/ DispatcherRead \/ DispatcherCrash \/ DispatcherRestart \/ RedisRestart
              \/ WatcherRead \/ HandleLog \/ HandleStatus \/ HandleOutput \/ WriteFile \/ SaveOutput
              \/ Cleanup \/ WatcherError \/ UNCHANGED vars
       PROVE  UNCHANGED <<part, pos>>
    BY <1>10 DEF DispatcherRead, DispatcherCrash, DispatcherRestart, RedisRestart, WatcherRead, HandleLog,
        HandleStatus, HandleOutput, WriteFile, SaveOutput, Cleanup, WatcherError
<1> QED
    BY <1>2, <1>3, <1>4, <1>5, <1>6, <1>7, <1>8, <1>9, <1>10 DEF Next

-----------------------------------------------------------------------------
(* The state and the messages.                                             *)

(* Which steps touch what: the streams change only by XADD, DEL and the    *)
(* loss of Redis; a batch only by the watcher and with it.                 *)
LEMMA Frames ==
    ASSUME [Next]_vars
    PROVE  /\ \/ UNCHANGED <<stream, nextId, lines>>
              \/ \E r \in Run : Publish(r)
              \/ stream' = [s \in Stream |-> << >>] /\ erased' = erased \cup UnreadLog /\ UNCHANGED <<nextId, lines>>
           /\ \/ UNCHANGED <<wpc, last_ids, batch, log_seq, output_state, watchers>>
              \/ /\ wpc' = "loop" /\ wpc = "none" /\ watchers' = watchers + 1
                 /\ last_ids' = [s \in Stream |-> 0] /\ batch' = [s \in Stream |-> << >>]
                 /\ log_seq' = 0 /\ output_state' = NotStarted
              \/ /\ wpc' = "none" /\ watchers' = watchers
                 /\ last_ids' = [s \in Stream |-> 0] /\ batch' = [s \in Stream |-> << >>]
                 /\ log_seq' = 0 /\ output_state' = NotStarted
              \/ WatcherRead \/ HandleLog \/ HandleStatus \/ HandleOutput \/ WriteFile \/ SaveOutput
           /\ \/ UNCHANGED <<status, verdict>>
              \/ HandleStatus \/ HandleOutput \/ SaveOutput
           /\ rows' = rows \/ HandleLog
           /\ \/ UNCHANGED <<file, output_checksum>>
              \/ HandleOutput \/ WriteFile \/ SaveOutput
<1> USE DEF vars, runVars, redisVars, watchVars, dispVars, rowVars, histVars
<1>1. ASSUME NEW r \in Run, Deliver(r) \/ Received(r) \/ Raise(r)
      PROVE  UNCHANGED <<stream, nextId, lines, wpc, last_ids, batch, log_seq, output_state, watchers, status, verdict,
                         rows, file, output_checksum>>
    BY <1>1 DEF Deliver, Received, Raise
<1>2. ASSUME NEW r \in Run, Publish(r)
      PROVE  UNCHANGED <<wpc, last_ids, batch, log_seq, output_state, watchers, status, verdict, rows, file,
                         output_checksum>>
    BY <1>2 DEF Publish
<1>3. ASSUME WorkerCrash \/ DispatcherRestart \/ UNCHANGED vars
      PROVE  UNCHANGED <<stream, nextId, lines, wpc, last_ids, batch, log_seq, output_state, watchers, status, verdict,
                         rows, file, output_checksum>>
    BY <1>3 DEF WorkerCrash, DispatcherRestart
<1>4. ASSUME DispatcherRead
      PROVE  /\ UNCHANGED <<stream, nextId, lines, status, verdict, rows, file, output_checksum>>
             /\ \/ UNCHANGED <<wpc, last_ids, batch, log_seq, output_state, watchers>>
                \/ /\ wpc' = "loop" /\ wpc = "none" /\ watchers' = watchers + 1
                   /\ last_ids' = [s \in Stream |-> 0] /\ batch' = [s \in Stream |-> << >>]
                   /\ log_seq' = 0 /\ output_state' = NotStarted
    BY <1>4 DEF DispatcherRead, WatcherAt
<1>5. ASSUME DispatcherCrash \/ WatcherError
      PROVE  /\ UNCHANGED <<stream, nextId, lines, status, verdict, rows, file, output_checksum>>
             /\ wpc' = "none" /\ watchers' = watchers
             /\ last_ids' = [s \in Stream |-> 0] /\ batch' = [s \in Stream |-> << >>]
             /\ log_seq' = 0 /\ output_state' = NotStarted
    BY <1>5 DEF DispatcherCrash, WatcherError, WatcherAt
<1>6. ASSUME RedisRestart
      PROVE  /\ stream' = [s \in Stream |-> << >>] /\ erased' = erased \cup UnreadLog /\ UNCHANGED <<nextId, lines>>
             /\ UNCHANGED <<wpc, last_ids, batch, log_seq, output_state, watchers, status, verdict, rows, file,
                            output_checksum>>
    BY <1>6 DEF RedisRestart
<1>7. ASSUME Cleanup
      PROVE  /\ stream' = [s \in Stream |-> << >>] /\ erased' = erased \cup UnreadLog /\ UNCHANGED <<nextId, lines>>
             /\ UNCHANGED <<status, verdict, rows, file, output_checksum>>
             /\ wpc' = "none" /\ watchers' = watchers
             /\ last_ids' = [s \in Stream |-> 0] /\ batch' = [s \in Stream |-> << >>]
             /\ log_seq' = 0 /\ output_state' = NotStarted
    BY <1>7 DEF Cleanup, WatcherAt
<1>8. ASSUME WatcherRead \/ HandleLog \/ HandleStatus \/ HandleOutput \/ WriteFile \/ SaveOutput
      PROVE  UNCHANGED <<stream, nextId, lines>>
    BY <1>8 DEF WatcherRead, HandleLog, HandleStatus, HandleOutput, WriteFile, SaveOutput
<1>9. (WatcherRead => UNCHANGED <<status, verdict, rows, file, output_checksum>>)
      /\ (HandleLog => UNCHANGED <<status, verdict, file, output_checksum>>)
      /\ (HandleStatus => UNCHANGED <<rows, file, output_checksum>>)
      /\ (HandleOutput => UNCHANGED rows)
      /\ (WriteFile => UNCHANGED <<status, verdict, rows>>)
      /\ (SaveOutput => UNCHANGED rows)
    BY DEF WatcherRead, HandleLog, HandleStatus, HandleOutput, WriteFile, SaveOutput
<1> QED
    BY <1>1, <1>2, <1>3, <1>4, <1>5, <1>6, <1>7, <1>8, <1>9 DEF Next

(* What the program gives the streams is what Published asks for. *)
LEMMA NewPublished ==
    ASSUME Types, NEW r \in Run, NEW p \in Part, NEW i \in 1 .. Len(Program[p]), NEW m, m = Program[p][i],
           part[r] = p, pos[r] = i, NEW j \in Nat, j < nextId'[m.to],
           part' = part, pos' = [pos EXCEPT ![r] = i + 1]
    PROVE  Published(m.to, NewMessage(r, m, j))'
<1> DEFINE a == NewMessage(r, m, j)
<1>0. Chunks \in Nat /\ pos \in [Run -> Nat] /\ i \in Nat
    BY DEF Types
<1>1. /\ m.to \in Stream /\ m.type \in Type /\ m.line \in Line \cup {"none"} /\ m.sequence_no \in 0 .. Chunks
      /\ m.to = "log" => m.line \in Line /\ m.type = "LOG"
      /\ m.to = "status" => /\ m.type \in StatusType
                            /\ m.type = "TRANSFER_FAILED" => p = "give_up" /\ i = 1
                            /\ m.type = "TASK_FAILED" => p = "except" /\ i = 2
      /\ m.to = "output" => /\ m.type \in OutputType /\ p = "body"
                            /\ m.type = "DATA_CHUNK" => m.sequence_no < Chunks
                            /\ m.type = "DATA_END" => i = Chunks + 3
  <2>1. /\ m.to \in Stream /\ m.type \in Type /\ m.line \in Line \cup {"none"} /\ m.sequence_no \in 0 .. Chunks
      BY StepFields
  <2>2. m.to = "log" => m.line \in Line /\ m.type = "LOG"
      BY StepFields DEF Line
  <2>3. m.to = "status" => /\ m.type \in StatusType
                           /\ m.type = "TRANSFER_FAILED" => p = "give_up" /\ i = 1
                           /\ m.type = "TASK_FAILED" => p = "except" /\ i = 2
      BY StepFields DEF StatusType
  <2>4. m.to = "output" =>
           /\ p = "body"
           /\ \/ m.type = "DATA_START"
              \/ m.type = "DATA_CHUNK" /\ m.sequence_no = i - 3 /\ i - 3 \in 0 .. (Chunks - 1)
              \/ m.type = "DATA_END" /\ i = Chunks + 3
      BY StepFields
  <2> QED
      BY <1>0, <2>1, <2>2, <2>3, <2>4 DEF OutputType
<1>2. a \in Message /\ a.run = r /\ a.type = m.type /\ a.line = m.line /\ a.sequence_no = m.sequence_no /\ a.id = j
    BY <1>1 DEF NewMessage, Message
<1> HIDE DEF a
<1>3. part'[r] = p /\ pos'[r] = i + 1 /\ part'[r] # "idle"
    BY <1>0 DEF Part
<1>4. a.type \in Final => Past(r, a.type)'
  <2>1. CASE m.to = "status"
      BY <1>0, <1>1, <1>2, <1>3, <2>1 DEF Final, Past, StatusType
  <2>2. CASE m.to = "output"
      BY <1>0, <1>1, <1>2, <1>3, <2>2 DEF Final, Past, OutputType
  <2>3. CASE m.to = "log"
      BY <1>1, <1>2, <2>3 DEF Final
  <2> QED
      BY <1>1, <2>1, <2>2, <2>3 DEF Stream
<1>5. Past(a.run, a.type)' <=> Past(r, a.type)'
    BY <1>2 DEF Past
<1> QED
    BY <1>1, <1>2, <1>3, <1>4, <1>5 DEF Published, a

(* The messages of the streams after an XADD: the old ones in their places *)
(* and the new ones at the end of one stream.                              *)
LEMMA WroteAt ==
    ASSUME Types, NEW r, NEW m, m.to \in Stream, NEW c \in 1 .. 2, Wrote(r, m, c),
           NEW s \in Stream, NEW j \in 1 .. Len(stream'[s])
    PROVE  \/ j \in 1 .. Len(stream[s]) /\ stream'[s][j] = stream[s][j]
           \/ s = m.to /\ \E k \in 1 .. c : /\ j = Len(stream[s]) + k
                                            /\ stream'[s][j] = NewMessage(r, m, nextId[s] + k - 1)
<1>1. stream[s] \in Seq(Message) /\ Len(stream[s]) \in Nat
    BY LenProperties DEF Types
<1>2. CASE s # m.to
    BY <1>2 DEF Wrote
<1>3. CASE s = m.to /\ j <= Len(stream[s])
    BY <1>1, <1>3 DEF Wrote
<1>4. CASE s = m.to /\ ~(j <= Len(stream[s]))
  <2>1. Len(stream'[s]) = Len(stream[s]) + c /\ c \in Nat
      BY <1>4 DEF Wrote
  <2>2. PICK L \in Nat : L = Len(stream[s])
      BY <1>1
  <2>3. j \in 1 .. (L + c) /\ ~(j <= L)
      BY <1>4, <2>1, <2>2
  <2>4. PICK k \in 1 .. c : j = L + k
    <3>1. j - L \in 1 .. c /\ j = L + (j - L)
        BY <2>1, <2>3
    <3> QED
        BY <3>1
  <2>5. stream'[s][Len(stream[s]) + k] = NewMessage(r, m, nextId[s] + k - 1)
      BY <1>4, <2>4 DEF Wrote
  <2> QED
      BY <1>4, <2>2, <2>4, <2>5
<1> QED
    BY <1>2, <1>3, <1>4

LEMMA NextIdGrows ==
    ASSUME Types, [Next]_vars, NEW s \in Stream
    PROVE  nextId' \in [Stream -> Nat] /\ nextId'[s] >= nextId[s]
<1>1. nextId \in [Stream -> Nat]
    BY DEF Types
<1>2. ASSUME NEW r \in Run, Publish(r) PROVE nextId' \in [Stream -> Nat] /\ nextId'[s] >= nextId[s]
  <2>1. PICK p, i, x, c : Publishing(r, p, i, x, c)
      BY <1>2, PublishEffect
  <2>2. c \in 1 .. 2 /\ Wrote(r, x, c) /\ nextId' \in [Stream -> Nat]
      BY <2>1 DEF Publishing
  <2>3. CASE s = x.to
      BY <1>1, <2>2, <2>3 DEF Wrote
  <2>4. CASE s # x.to
      BY <1>1, <2>2, <2>4 DEF Wrote
  <2> QED
      BY <2>2, <2>3, <2>4
<1> QED
    BY <1>1, <1>2, Frames

(* A message stays what it is. *)
LEMMA PublishedKept ==
    ASSUME Types, [Next]_vars, NEW s \in Stream, NEW m, Published(s, m)
    PROVE  Published(s, m)'
<1>1. nextId' \in [Stream -> Nat] /\ nextId'[s] >= nextId[s]
    BY NextIdGrows
<1>2. m \in Message /\ m.run \in Run /\ m.id \in Nat /\ nextId[s] \in Nat
    BY DEF Published, Message, Types
<1>3. part'[m.run] # "idle" /\ (m.type \in Final => Past(m.run, m.type)')
    BY <1>2, PastKept DEF Published
<1>4. m.id < nextId'[s]
    BY <1>1, <1>2 DEF Published
<1> QED
    BY <1>3, <1>4 DEF Published, Past

(* Every message of a stream was published by the program. *)
LEMMA StreamsStep ==
    ASSUME Types, Streams, [Next]_vars
    PROVE  Streams'
<1> SUFFICES ASSUME NEW s \in Stream, NEW j \in 1 .. Len(stream'[s]), NEW a, a = stream'[s][j]
             PROVE  Published(s, a)'
    BY DEF Streams, Published, Past
<1>1. ASSUME NEW k \in 1 .. Len(stream[s]), a = stream[s][k] PROVE Published(s, a)'
    BY <1>1, PublishedKept DEF Streams
<1>2. CASE UNCHANGED stream
    BY <1>1, <1>2
<1>3. CASE stream' = [x \in Stream |-> << >>]
    BY <1>3
<1>4. ASSUME NEW r \in Run, Publish(r) PROVE Published(s, a)'
  <2>1. PICK p, i, m, c : Publishing(r, p, i, m, c)
      BY <1>4, PublishEffect
  <2>3. /\ p \in Part /\ i \in 1 .. Len(Program[p]) /\ m = Program[p][i] /\ c \in 1 .. 2
        /\ part[r] = p /\ pos[r] = i /\ Wrote(r, m, c) /\ nextId' \in [Stream -> Nat]
        /\ pos' = [pos EXCEPT ![r] = i + 1] /\ part' = part
      BY <2>1 DEF Publishing
  <2>4. m.to \in Stream
      BY <2>3, StepFields
  <2>5. stream[m.to] \in Seq(Message) /\ Len(stream[m.to]) \in Nat /\ nextId[m.to] \in Nat
      BY <2>4, LenProperties DEF Types
  <2>6. CASE s # m.to
      BY <1>1, <2>3, <2>6 DEF Wrote
  <2>7. CASE s = m.to /\ j <= Len(stream[m.to])
    <3>1. j \in 1 .. Len(stream[m.to])
        BY <2>5, <2>7
    <3>2. stream'[m.to][j] = stream[m.to][j]
        BY <2>3, <3>1 DEF Wrote
    <3> QED
        BY <1>1, <2>7, <3>1, <3>2
  <2>8. CASE s = m.to /\ ~(j <= Len(stream[m.to]))
    <3> DEFINE k == j - Len(stream[m.to])
               id == nextId[m.to] + k - 1
    <3>0. Len(stream'[m.to]) = Len(stream[m.to]) + c /\ nextId'[m.to] = nextId[m.to] + c /\ c \in Nat
        BY <2>3 DEF Wrote
    <3>1. k \in 1 .. c /\ j = Len(stream[m.to]) + k /\ k \in Nat /\ 1 <= k /\ k <= c
      <4>1. j \in 1 .. (Len(stream[m.to]) + c)
          BY <2>8, <3>0
      <4>2. PICK L \in Nat : L = Len(stream[m.to])
          BY <2>5
      <4>3. j - L \in 1 .. c /\ j = L + (j - L) /\ j - L \in Nat /\ 1 <= j - L /\ j - L <= c
        <5>1. j \in 1 .. (L + c) /\ ~(j <= L) /\ c \in Nat
            BY <2>8, <3>0, <4>1, <4>2
        <5> QED
            BY <5>1
      <4> QED
          BY <4>2, <4>3
    <3>2. id \in Nat /\ id < nextId'[m.to]
      <4> HIDE DEF k
      <4> QED
          BY <2>5, <3>0, <3>1
    <3> HIDE DEF k
    <3>3. a = NewMessage(r, m, id)
        BY <2>3, <2>8, <3>1 DEF Wrote
    <3> HIDE DEF id
    <3>4. PICK x : x = id
        OBVIOUS
    <3>5. Published(m.to, NewMessage(r, m, x))'
        BY <2>3, <3>2, <3>4, NewPublished
    <3> QED
        BY <2>8, <3>3, <3>4, <3>5
  <2> QED
      BY <2>6, <2>7, <2>8
<1> QED
    BY <1>2, <1>3, <1>4, Frames

(* The first of what is left was taken off, or everything. *)
LEMMA TakeFacts ==
    ASSUME Types, NEW s \in Stream, batch[s] # << >>, Take(s)
    PROVE  /\ \A x \in Stream : x # s => batch'[x] = batch[x]
           /\ batch' \in [Stream -> Seq(Message)]
           /\ Len(batch[s]) \in Nat /\ Len(batch[s]) > 0 /\ Len(batch'[s]) = Len(batch[s]) - 1
           /\ Head(batch[s]) = batch[s][1] /\ Head(batch[s]) \in Message
           /\ \A i \in 1 .. Len(batch'[s]) : batch'[s][i] = batch[s][i + 1] /\ i + 1 \in 1 .. Len(batch[s])
<1>1. batch \in [Stream -> Seq(Message)] /\ batch[s] \in Seq(Message)
    BY DEF Types
<1>2. batch'[s] = Tail(batch[s]) /\ \A x \in Stream : x # s => batch'[x] = batch[x]
    BY <1>1 DEF Take
<1> DEFINE q == batch[s]
<1> HIDE DEF q
<1>3. q \in Seq(Message) /\ q # << >>
    BY <1>1 DEF q
<1>4. /\ Tail(q) \in Seq(Message) /\ Len(q) \in Nat /\ Len(q) > 0 /\ Len(Tail(q)) = Len(q) - 1
      /\ Head(q) = q[1] /\ Head(q) \in Message /\ \A i \in 1 .. Len(Tail(q)) : Tail(q)[i] = q[i + 1]
    BY <1>3
<1>5. \A i \in 1 .. Len(Tail(q)) : i + 1 \in 1 .. Len(q)
    BY <1>4
<1>6. batch' \in [Stream -> Seq(Message)]
    BY <1>1, <1>2, <1>4 DEF Take, q
<1> QED
    BY <1>2, <1>4, <1>5, <1>6 DEF q

(* What the watcher holds: less of the same, nothing, or what it reads. *)
LEMMA BatchMoves ==
    ASSUME Types, [Next]_vars
    PROVE  \A s \in Stream :
              \/ UNCHANGED <<batch[s], last_ids[s]>>
              \/ batch'[s] = << >> /\ last_ids'[s] \in {0, last_ids[s]}
              \/ WatcherRead /\ batch'[s] = FirstOf(s) /\ last_ids'[s] = IdAfter(s)
              \/ batch[s] # << >> /\ Take(s) /\ UNCHANGED last_ids
<1> SUFFICES ASSUME NEW s \in Stream
             PROVE  \/ UNCHANGED <<batch[s], last_ids[s]>>
                    \/ batch'[s] = << >> /\ last_ids'[s] \in {0, last_ids[s]}
                    \/ WatcherRead /\ batch'[s] = FirstOf(s) /\ last_ids'[s] = IdAfter(s)
                    \/ batch[s] # << >> /\ Take(s) /\ UNCHANGED last_ids
    OBVIOUS
<1>0. "log" \in Stream /\ "status" \in Stream /\ "output" \in Stream /\ batch \in [Stream -> Seq(Message)]
    BY DEF Stream, Types
<1>1. CASE UNCHANGED <<wpc, last_ids, batch, log_seq, output_state, watchers>>
    BY <1>1
<1>2. CASE last_ids' = [x \in Stream |-> 0] /\ batch' = [x \in Stream |-> << >>]
    BY <1>2
<1>3. CASE WatcherRead
    BY <1>3 DEF WatcherRead
<1>4. CASE HandleLog
    BY <1>0, <1>4 DEF HandleLog
<1>5. CASE HandleStatus
  <2>1. batch["status"] # << >> /\ Take("status") /\ UNCHANGED last_ids
      BY <1>5 DEF HandleStatus, Drained
  <2>2. s # "status" => batch'[s] = batch[s]
      BY <1>0, <2>1 DEF Take
  <2> QED
      BY <2>1, <2>2
<1>6. CASE HandleOutput
  <2>1. batch["output"] # << >> /\ Take("output") /\ UNCHANGED last_ids
      BY <1>6 DEF HandleOutput, Drained
  <2>2. s # "output" => batch'[s] = batch[s]
      BY <1>0, <2>1 DEF Take
  <2> QED
      BY <2>1, <2>2
<1>7. CASE WriteFile \/ SaveOutput
    BY <1>7 DEF WriteFile, SaveOutput
<1> QED
    BY <1>1, <1>2, <1>3, <1>4, <1>5, <1>6, <1>7, Frames

(* Every message of a batch was published by the program. *)
LEMMA BatchesStep ==
    ASSUME Types, Ids, Streams, Batches, [Next]_vars
    PROVE  Batches'
<1> SUFFICES ASSUME NEW s \in Stream, NEW j \in 1 .. Len(batch'[s]), NEW a, a = batch'[s][j]
             PROVE  Published(s, a)'
    BY DEF Batches, Published, Past
<1>1. ASSUME Published(s, a) PROVE Published(s, a)'
    BY <1>1, PublishedKept
<1>2. CASE UNCHANGED <<batch[s], last_ids[s]>>
    BY <1>1, <1>2 DEF Batches
<1>3. CASE batch'[s] = << >>
    BY <1>3
<1>4. CASE WatcherRead /\ batch'[s] = FirstOf(s)
  <2>1. PICK n \in 0 .. Len(stream[s]) :
            /\ n + Len(FirstOf(s)) <= Len(stream[s]) /\ Len(FirstOf(s)) \in Nat
            /\ \A i \in 1 .. Len(FirstOf(s)) : FirstOf(s)[i] = stream[s][n + i]
      BY ReadFacts
  <2>2. Len(stream[s]) \in Nat
      BY LenProperties DEF Types
  <2>3. n + j \in 1 .. Len(stream[s]) /\ a = stream[s][n + j]
      BY <1>4, <2>1, <2>2
  <2> QED
      BY <1>1, <2>3 DEF Streams
<1>5. CASE batch[s] # << >> /\ Take(s)
    BY <1>1, <1>5, TakeFacts DEF Batches
<1> QED
    BY <1>2, <1>3, <1>4, <1>5, BatchMoves

(* Ids run without a gap: XADD gives the next one, DEL removes them all,   *)
(* and XREAD takes a stretch.                                              *)
LEMMA IdsStep ==
    ASSUME Types, Ids, [Next]_vars
    PROVE  Ids'
<1> SUFFICES ASSUME NEW s \in Stream
             PROVE  /\ Len(stream'[s]) < nextId'[s]
                    /\ \A i \in 1 .. Len(stream'[s]) : stream'[s][i].id = nextId'[s] - 1 - Len(stream'[s]) + i
                    /\ last_ids'[s] < nextId'[s] /\ Len(batch'[s]) <= last_ids'[s]
                    /\ \A i \in 1 .. Len(batch'[s]) : batch'[s][i].id = last_ids'[s] - Len(batch'[s]) + i
    BY DEF Ids
<1>1. /\ stream[s] \in Seq(Message) /\ Len(stream[s]) \in Nat /\ nextId[s] \in Nat
      /\ batch[s] \in Seq(Message) /\ Len(batch[s]) \in Nat /\ last_ids[s] \in Nat
    BY LenProperties DEF Types
<1>2. PICK L \in Nat, N \in Nat : L = Len(stream[s]) /\ N = nextId[s]
    BY <1>1
<1>3. L < N /\ last_ids[s] < N /\ \A i \in 1 .. L : stream[s][i].id = N - 1 - L + i
    BY <1>2 DEF Ids
<1>4. nextId'[s] \in Nat /\ nextId'[s] >= N
    BY <1>2, NextIdGrows
<1>5. Len(stream'[s]) < nextId'[s]
      /\ \A i \in 1 .. Len(stream'[s]) : stream'[s][i].id = nextId'[s] - 1 - Len(stream'[s]) + i
  <2>1. CASE UNCHANGED <<stream, nextId, lines>>
      BY <1>2, <1>3, <2>1
  <2>2. CASE stream' = [x \in Stream |-> << >>] /\ nextId' = nextId
      BY <1>2, <1>3, <2>2
  <2>3. ASSUME NEW r \in Run, Publish(r)
        PROVE  /\ Len(stream'[s]) < nextId'[s]
               /\ \A i \in 1 .. Len(stream'[s]) : stream'[s][i].id = nextId'[s] - 1 - Len(stream'[s]) + i
    <3>1. PICK p, k0, m, c : Publishing(r, p, k0, m, c)
        BY <2>3, PublishEffect
    <3>2. c \in 1 .. 2 /\ Wrote(r, m, c) /\ p \in Part /\ k0 \in 1 .. Len(Program[p]) /\ m = Program[p][k0]
        BY <3>1 DEF Publishing
    <3>3. m.to \in Stream
        BY <3>2, StepFields
    <3>4. CASE s # m.to
      <4>1. stream'[s] = stream[s] /\ nextId'[s] = nextId[s]
          BY <3>2, <3>4 DEF Wrote
      <4> QED
          BY <1>2, <1>3, <4>1
    <3>5. CASE s = m.to
      <4>1. Len(stream'[s]) = L + c /\ nextId'[s] = N + c /\ c \in Nat
          BY <1>2, <3>2, <3>5 DEF Wrote
      <4>2. ASSUME NEW i \in 1 .. Len(stream'[s]) PROVE stream'[s][i].id = N - 1 - L + i
        <5>1. CASE i \in 1 .. Len(stream[s]) /\ stream'[s][i] = stream[s][i]
            BY <1>2, <1>3, <5>1
        <5>2. CASE \E k \in 1 .. c : i = Len(stream[s]) + k /\ stream'[s][i] = NewMessage(r, m, nextId[s] + k - 1)
          <6>1. PICK k \in 1 .. c : i = L + k /\ stream'[s][i] = NewMessage(r, m, N + k - 1)
              BY <1>2, <5>2
          <6>2. stream'[s][i].id = N + k - 1
              BY <6>1 DEF NewMessage
          <6>3. N + k - 1 = N - 1 - L + i
            <7>1. \A n, l, j \in Int : n + j - 1 = n - 1 - l + (l + j)
                OBVIOUS
            <7>2. N \in Int /\ L \in Int /\ k \in Int /\ i = L + k
                BY <1>2, <4>1, <6>1
            <7> QED
                BY <7>1, <7>2, Zenon
          <6> QED
              BY <6>2, <6>3
        <5>3. \/ i \in 1 .. Len(stream[s]) /\ stream'[s][i] = stream[s][i]
              \/ s = m.to /\ \E k \in 1 .. c : /\ i = Len(stream[s]) + k
                                               /\ stream'[s][i] = NewMessage(r, m, nextId[s] + k - 1)
            BY <3>2, <3>3, WroteAt, SMTT(60)
        <5> QED
            BY <5>1, <5>2, <5>3
      <4>3. \A i \in Nat : (N + c) - 1 - (L + c) + i = N - 1 - L + i
        <5>1. c \in Nat
            BY <4>1
        <5> QED
            BY <5>1
      <4>4. L + c < N + c
          BY <1>2, <1>3, <4>1
      <4> QED
        <5>1. \A i \in 1 .. Len(stream'[s]) : i \in Nat
            OBVIOUS
        <5> QED
            BY <4>1, <4>2, <4>3, <4>4, <5>1
    <3> QED
        BY <3>4, <3>5
  <2> QED
      BY <2>1, <2>2, <2>3, Frames
<1>6. last_ids'[s] < nextId'[s] /\ Len(batch'[s]) <= last_ids'[s]
      /\ \A i \in 1 .. Len(batch'[s]) : batch'[s][i].id = last_ids'[s] - Len(batch'[s]) + i
  <2>1. CASE UNCHANGED <<batch[s], last_ids[s]>>
    <3>1. batch'[s] = batch[s] /\ last_ids'[s] = last_ids[s] /\ last_ids[s] < nextId'[s]
        BY <1>1, <1>3, <1>4, <2>1
    <3>2. Len(batch[s]) <= last_ids[s] /\ \A i \in 1 .. Len(batch[s]) : batch[s][i].id = last_ids[s] - Len(batch[s]) + i
        BY DEF Ids
    <3> QED
        BY <3>1, <3>2
  <2>2. CASE batch'[s] = << >> /\ last_ids'[s] \in {0, last_ids[s]}
      BY <1>1, <1>2, <1>3, <1>4, <2>2
  <2>3. CASE WatcherRead /\ batch'[s] = FirstOf(s) /\ last_ids'[s] = IdAfter(s)
    <3>1. PICK n \in 0 .. Len(stream[s]) :
              /\ n + Len(FirstOf(s)) <= Len(stream[s]) /\ Len(FirstOf(s)) \in Nat
              /\ \A i \in 1 .. Len(FirstOf(s)) : FirstOf(s)[i] = stream[s][n + i]
              /\ IdAfter(s) = IF Len(FirstOf(s)) = 0 THEN last_ids[s] ELSE stream[s][n + Len(FirstOf(s))].id
        BY ReadFacts
    <3>2. PICK F \in Nat : F = Len(FirstOf(s))
        BY <3>1
    <3>3. n \in Nat /\ n + F <= L /\ Len(batch'[s]) = F
        BY <1>2, <2>3, <3>1, <3>2
    <3>4. CASE F = 0
      <4>1. last_ids'[s] = last_ids[s]
          BY <2>3, <3>1, <3>2, <3>4
      <4> QED
          BY <1>1, <1>2, <1>3, <1>4, <3>3, <3>4, <4>1
    <3>5. CASE F # 0
      <4>1. last_ids'[s] = stream[s][n + F].id /\ n + F \in 1 .. L
          BY <1>2, <2>3, <3>1, <3>2, <3>3, <3>5
      <4>2. last_ids'[s] = N - 1 - L + (n + F)
          BY <1>3, <4>1
      <4>3. ASSUME NEW i \in 1 .. Len(batch'[s]) PROVE batch'[s][i].id = last_ids'[s] - Len(batch'[s]) + i
        <5>1. batch'[s][i] = stream[s][n + i] /\ n + i \in 1 .. L
            BY <1>2, <2>3, <3>1, <3>2, <3>3
        <5>2. batch'[s][i].id = N - 1 - L + (n + i)
            BY <1>3, <5>1
        <5>3. N - 1 - L + (n + i) = N - 1 - L + (n + F) - F + i
            BY <1>2, <3>2, <3>3
        <5> QED
            BY <3>3, <4>2, <5>2, <5>3
      <4>4. N - 1 - L + (n + F) < nextId'[s] /\ F <= N - 1 - L + (n + F)
          BY <1>2, <1>3, <1>4, <3>2, <3>3, SMTT(60)
      <4> QED
          BY <3>3, <4>2, <4>3, <4>4
    <3> QED
        BY <3>4, <3>5
  <2>4. CASE batch[s] # << >> /\ Take(s) /\ UNCHANGED last_ids
    <3>1. PICK B \in Nat, K \in Nat : B = Len(batch[s]) /\ K = last_ids[s]
        BY <1>1
    <3>2. Len(batch'[s]) = B - 1 /\ last_ids'[s] = K /\ B > 0 /\ B <= K /\ K < N
        BY <1>3, <2>4, <3>1, TakeFacts DEF Ids
    <3>3. ASSUME NEW i \in 1 .. Len(batch'[s]) PROVE batch'[s][i].id = last_ids'[s] - Len(batch'[s]) + i
      <4>1. batch'[s][i] = batch[s][i + 1] /\ i + 1 \in 1 .. Len(batch[s])
          BY <2>4, TakeFacts
      <4>2. batch[s][i + 1].id = K - B + (i + 1)
          BY <3>1, <4>1 DEF Ids
      <4>3. K - B + (i + 1) = K - (B - 1) + i
        <5>1. i \in 1 .. (B - 1)
            BY <3>2
        <5> QED
            BY <5>1
      <4> QED
          BY <3>2, <4>1, <4>2, <4>3
    <3>4. B - 1 <= K /\ K < nextId'[s]
        BY <1>4, <3>2
    <3> QED
        BY <3>2, <3>3, <3>4
  <2> QED
      BY <2>1, <2>2, <2>3, <2>4, BatchMoves
<1> QED
    BY <1>5, <1>6

-----------------------------------------------------------------------------
(* Type correctness.                                                       *)

(* The message a watcher takes next was published. *)
LEMMA HeadPublished ==
    ASSUME Types, Batches, NEW s \in Stream, batch[s] # << >>, NEW m, m = Head(batch[s])
    PROVE  Published(s, m) /\ m \in Message /\ m = batch[s][1] /\ 1 \in 1 .. Len(batch[s])
<1>1. batch[s] \in Seq(Message)
    BY DEF Types
<1> DEFINE q == batch[s]
<1> HIDE DEF q
<1>2. q \in Seq(Message) /\ q # << >>
    BY <1>1 DEF q
<1>3. Head(q) = q[1] /\ 1 \in 1 .. Len(q) /\ Head(q) \in Message
    BY <1>2
<1> QED
    BY <1>3 DEF q, Batches

(* What a chunk does to the state of the output. *)
LEMMA ChunkFacts ==
    ASSUME NEW st \in [run : Run \cup {NoRun}, buf : Seq(Run \X Nat), seen_seq : SUBSET Nat],
           NEW m \in Message, m.sequence_no < Chunks
    PROVE  /\ OnChunk(st, m) \in [run : Run \cup {NoRun}, buf : Seq(Run \X Nat), seen_seq : SUBSET Nat]
           /\ OnChunk(st, m).run = st.run
           /\ OnChunk(st, m) = st
              \/ /\ st.run = m.run /\ m.sequence_no \notin st.seen_seq
                 /\ OnChunk(st, m).buf = Append(st.buf, <<m.run, m.sequence_no>>)
                 /\ OnChunk(st, m).seen_seq = st.seen_seq \cup {m.sequence_no}
<1>1. Output(m.run)[m.sequence_no + 1] = <<m.run, m.sequence_no>> /\ m.sequence_no \in Nat /\ m.run \in Run
  <2>1. m.sequence_no \in 0 .. Chunks /\ m.run \in Run /\ Chunks \in Nat
      BY DEF Message
  <2>2. m.sequence_no + 1 \in 1 .. Chunks /\ (m.sequence_no + 1) - 1 = m.sequence_no
      BY <2>1
  <2>3. Output(m.run)[m.sequence_no + 1] = <<m.run, (m.sequence_no + 1) - 1>>
      BY <2>2 DEF Output
  <2> QED
      BY <2>1, <2>2, <2>3
<1>2. PICK b, x, d : b = st.buf /\ x = <<m.run, m.sequence_no>> /\ d = st.seen_seq \cup {m.sequence_no}
    OBVIOUS
<1>3. st.buf \in Seq(Run \X Nat) /\ st.run \in Run \cup {NoRun} /\ st.seen_seq \in SUBSET Nat
    OBVIOUS
<1>4. Append(b, x) \in Seq(Run \X Nat) /\ d \in SUBSET Nat
  <2>1. x \in Run \X Nat /\ b \in Seq(Run \X Nat)
      BY <1>1, <1>2, <1>3
  <2> QED
      BY <1>1, <1>2, <1>3, <2>1, AppendProperties
<1>5. CASE st.run # m.run \/ m.sequence_no \in st.seen_seq
    BY <1>5 DEF OnChunk
<1>6. CASE ~(st.run # m.run \/ m.sequence_no \in st.seen_seq)
  <2>1. OnChunk(st, m) = [st EXCEPT !.seen_seq = d, !.buf = Append(b, x)]
      BY <1>1, <1>2, <1>6 DEF OnChunk
  <2>2. PICK y : y = Append(b, x)
      OBVIOUS
  <2>3. [st EXCEPT !.seen_seq = d, !.buf = y] = [run |-> st.run, buf |-> y, seen_seq |-> d]
    <3>1. PICK u, v, w : st = [run |-> u, buf |-> v, seen_seq |-> w]
        OBVIOUS
    <3>2. [st EXCEPT !.seen_seq = d] = [run |-> u, buf |-> v, seen_seq |-> d]
        BY <3>1
    <3>3. [[run |-> u, buf |-> v, seen_seq |-> d] EXCEPT !.buf = y] = [run |-> u, buf |-> y, seen_seq |-> d]
        OBVIOUS
    <3>4. [st EXCEPT !.seen_seq = d, !.buf = y] = [[st EXCEPT !.seen_seq = d] EXCEPT !.buf = y]
        OBVIOUS
    <3>5. st.run = u
        BY <3>1
    <3> QED
        BY <3>2, <3>3, <3>4, <3>5
  <2>4. PICK o : o = [run |-> st.run, buf |-> y, seen_seq |-> d]
      OBVIOUS
  <2>5. o \in [run : Run \cup {NoRun}, buf : Seq(Run \X Nat), seen_seq : SUBSET Nat]
        /\ o.run = st.run /\ o.buf = y /\ o.seen_seq = d
      BY <1>3, <1>4, <2>2, <2>4
  <2>6. OnChunk(st, m) = o
      BY <2>1, <2>2, <2>3, <2>4
  <2> QED
      BY <1>2, <1>6, <2>2, <2>5, <2>6
<1> QED
    BY <1>5, <1>6

LEMMA TypesStep ==
    ASSUME Types, Ids, Batches, [Next]_vars
    PROVE  Types'
<1> USE DEF vars, runVars, redisVars, watchVars, dispVars, rowVars, histVars
<1>0. Chunks \in Nat /\ DOMAIN Program = Part /\ "log" \in Stream /\ "status" \in Stream /\ "output" \in Stream
    BY ProgramText DEF Stream
<1>1. /\ part' \in [Run -> Part \cup {"idle", "over", "dead"}] /\ pos' \in [Run -> Nat]
      /\ \A r \in Run : pos'[r] >= 1
  <2>0. /\ part \in [Run -> Part \cup {"idle", "over", "dead"}] /\ pos \in [Run -> Nat]
        /\ \A r \in Run : pos[r] >= 1
      BY DEF Types
  <2>1. ASSUME NEW r \in Run, NEW p \in Part \cup {"idle", "over", "dead"}, Goto(r, p)
        PROVE  /\ part' \in [Run -> Part \cup {"idle", "over", "dead"}] /\ pos' \in [Run -> Nat]
               /\ \A q \in Run : pos'[q] >= 1
      BY <2>0, <2>1 DEF Goto
  <2>2. ASSUME NEW r \in Run, Deliver(r) \/ Received(r) \/ Raise(r)
        PROVE  \E p \in Part \cup {"idle", "over", "dead"} : Goto(r, p)
      BY <2>2 DEF Deliver, Received, Raise, Part
  <2>3. ASSUME NEW r \in Run, Publish(r)
        PROVE  /\ part' \in [Run -> Part \cup {"idle", "over", "dead"}] /\ pos' \in [Run -> Nat]
               /\ \A q \in Run : pos'[q] >= 1
    <3>1. part' = part /\ pos' = [pos EXCEPT ![r] = @ + 1]
        BY <2>3 DEF Publish
    <3> QED
        BY <2>0, <3>1
  <2>4. ASSUME WorkerCrash
        PROVE  /\ part' \in [Run -> Part \cup {"idle", "over", "dead"}] /\ pos' \in [Run -> Nat]
               /\ \A q \in Run : pos'[q] >= 1
      BY <2>0, <2>4 DEF WorkerCrash
  <2>5. ASSUME \/ DispatcherRead \/ DispatcherCrash \/ DispatcherRestart \/ RedisRestart
               \/ WatcherRead \/ HandleLog \/ HandleStatus \/ HandleOutput \/ WriteFile \/ SaveOutput
               \/ Cleanup \/ WatcherError \/ UNCHANGED vars
        PROVE  UNCHANGED <<part, pos>>
      BY <2>5 DEF DispatcherRead, DispatcherCrash, DispatcherRestart, RedisRestart, WatcherRead, HandleLog,
          HandleStatus, HandleOutput, WriteFile, SaveOutput, Cleanup, WatcherError
  <2> QED
      BY <2>0, <2>1, <2>2, <2>3, <2>4, <2>5 DEF Next
<1>2. lines' \in [Run -> Seq(Line)] /\ stream' \in [Stream -> Seq(Message)] /\ nextId' \in [Stream -> Nat]
  <2>0. lines \in [Run -> Seq(Line)] /\ stream \in [Stream -> Seq(Message)] /\ nextId \in [Stream -> Nat]
      BY DEF Types
  <2>1. ASSUME NEW r \in Run, Publish(r)
        PROVE  lines' \in [Run -> Seq(Line)] /\ stream' \in [Stream -> Seq(Message)] /\ nextId' \in [Stream -> Nat]
    <3>1. PICK p, i, m, c : Publishing(r, p, i, m, c)
        BY <2>1, PublishEffect
    <3>2. /\ p \in Part /\ i \in 1 .. Len(Program[p]) /\ m = Program[p][i]
          /\ stream' \in [Stream -> Seq(Message)] /\ nextId' \in [Stream -> Nat]
          /\ lines' = IF m.type = "LOG" THEN [lines EXCEPT ![r] = Append(@, m.line)] ELSE lines
        BY <3>1 DEF Publishing
    <3>3. m.type = "LOG" => m.line \in Line
      <4>1. p \in Part /\ i \in 1 .. Len(Program[p]) /\ m = Program[p][i]
          BY <3>2
      <4>2. m.type = "LOG" => m.to = "log"
          BY <4>1, StepFields
      <4>3. m.to = "log" => m.line \in Line
          BY <4>1, StepFields DEF Line
      <4> QED
          BY <4>2, <4>3
    <3>4. m.line \in Line => Append(lines[r], m.line) \in Seq(Line)
        BY <2>0, AppendProperties
    <3> QED
        BY <2>0, <3>2, <3>3, <3>4
  <2>2. CASE stream' = [x \in Stream |-> << >>] /\ UNCHANGED <<nextId, lines>>
    <3>1. << >> \in Seq(Message)
        OBVIOUS
    <3> QED
        BY <2>0, <2>2, <3>1
  <2> QED
      BY <2>0, <2>1, <2>2, Frames
<1>3. announced' \in Nat /\ lastId' \in Nat /\ up' \in BOOLEAN
  <2>0. announced \in Nat /\ lastId \in Nat /\ up \in BOOLEAN
      BY DEF Types
  <2>1. ASSUME NEW r \in Run, Deliver(r) \/ Publish(r) \/ Received(r) \/ Raise(r)
        PROVE  announced' \in {announced, announced + 1} /\ UNCHANGED <<lastId, up>>
      BY <2>1 DEF Deliver, Publish, Received, Raise
  <2>2. CASE WorkerCrash
      BY <2>0, <2>2 DEF WorkerCrash
  <2>3. CASE DispatcherRead
      BY <2>0, <2>3 DEF DispatcherRead
  <2>4. CASE DispatcherCrash
      BY <2>0, <2>4 DEF DispatcherCrash
  <2>5. CASE DispatcherRestart
      BY <2>0, <2>5 DEF DispatcherRestart
  <2>6. CASE RedisRestart
      BY <2>0, <2>6 DEF RedisRestart
  <2>7. ASSUME \/ WatcherRead \/ HandleLog \/ HandleStatus \/ HandleOutput \/ WriteFile \/ SaveOutput
               \/ Cleanup \/ WatcherError \/ UNCHANGED vars
        PROVE  UNCHANGED <<announced, lastId, up>>
      BY <2>7 DEF WatcherRead, HandleLog, HandleStatus, HandleOutput, WriteFile, SaveOutput, Cleanup, WatcherError
  <2> QED
      BY <2>0, <2>1, <2>2, <2>3, <2>4, <2>5, <2>6, <2>7 DEF Next
<1>4. wpc' \in {"none", "loop", "write", "save"} /\ log_seq' \in Nat /\ watchers' \in Nat
  <2>0. wpc \in {"none", "loop", "write", "save"} /\ log_seq \in Nat /\ watchers \in Nat /\ Len(batch["log"]) \in Nat
      BY <1>0, LenProperties DEF Types
  <2>1. CASE WatcherRead \/ HandleLog \/ HandleStatus
      BY <2>0, <2>1 DEF WatcherRead, HandleLog, HandleStatus
  <2>2. CASE HandleOutput \/ WriteFile \/ SaveOutput
      BY <2>0, <2>2 DEF HandleOutput, WriteFile, SaveOutput
  <2> QED
      BY <2>0, <2>1, <2>2, Frames
<1>5. batch' \in [Stream -> Seq(Message)] /\ last_ids' \in [Stream -> Nat]
  <2>0. batch \in [Stream -> Seq(Message)] /\ last_ids \in [Stream -> Nat] /\ << >> \in Seq(Message)
      BY DEF Types
  <2>1. CASE WatcherRead
    <3>1. \A s \in Stream : FirstOf(s) \in Seq(Message) /\ IdAfter(s) \in Nat
        BY ReadFacts
    <3> QED
        BY <2>1, <3>1 DEF WatcherRead
  <2>2. CASE HandleLog
      BY <2>0, <2>2 DEF HandleLog
  <2>3. CASE HandleStatus
    <3>1. batch["status"] # << >> /\ Take("status") /\ UNCHANGED last_ids
        BY <2>3 DEF HandleStatus, Drained
    <3> QED
        BY <1>0, <2>0, <3>1, TakeFacts
  <2>4. CASE HandleOutput
    <3>1. batch["output"] # << >> /\ Take("output") /\ UNCHANGED last_ids
        BY <2>4 DEF HandleOutput, Drained
    <3> QED
        BY <1>0, <2>0, <3>1, TakeFacts
  <2>5. CASE WriteFile \/ SaveOutput
      BY <2>0, <2>5 DEF WriteFile, SaveOutput
  <2>6. CASE last_ids' = [s \in Stream |-> 0] /\ batch' = [s \in Stream |-> << >>]
      BY <2>0, <2>6
  <2> QED
      BY <2>0, <2>1, <2>2, <2>3, <2>4, <2>5, <2>6, Frames
<1>6. output_state' \in [run : Run \cup {NoRun}, buf : Seq(Run \X Nat), seen_seq : SUBSET Nat]
  <2> DEFINE S == [run : Run \cup {NoRun}, buf : Seq(Run \X Nat), seen_seq : SUBSET Nat]
  <2>0. output_state \in S
      BY DEF Types
  <2>1. \A q \in Run \cup {NoRun} : [run |-> q, buf |-> << >>, seen_seq |-> {}] \in S
    <3>1. << >> \in Seq(Run \X Nat) /\ {} \in SUBSET Nat
        OBVIOUS
    <3> QED
        BY <3>1
  <2>2. NotStarted \in S
      BY <2>1 DEF NotStarted
  <2>3. CASE HandleOutput
    <3>1. batch["output"] # << >>
        BY <2>3 DEF HandleOutput, Drained
    <3>2. PICK m : m = Head(batch["output"])
        OBVIOUS
    <3>3. Published("output", m) /\ m \in Message
        BY <1>0, <3>1, <3>2, HeadPublished
    <3>4. \/ output_state' = OnStart(m) \/ output_state' = output_state \/ output_state' = NotStarted
          \/ m.type = "DATA_CHUNK" /\ output_state' = OnChunk(output_state, m)
        BY <2>3, <3>2 DEF HandleOutput
    <3>5. OnStart(m) \in S
        BY <2>1, <3>3 DEF OnStart, Message
    <3>6. m.type = "DATA_CHUNK" => OnChunk(output_state, m) \in S
        BY <2>0, <3>3, ChunkFacts DEF Published
    <3> QED
        BY <2>0, <2>2, <3>4, <3>5, <3>6
  <2>4. CASE WatcherRead \/ HandleLog \/ HandleStatus \/ WriteFile \/ SaveOutput
      BY <2>0, <2>2, <2>4 DEF WatcherRead, HandleLog, HandleStatus, WriteFile, SaveOutput
  <2> HIDE DEF S
  <2>5. output_state' = output_state \/ output_state' = NotStarted
        \/ WatcherRead \/ HandleLog \/ HandleStatus \/ HandleOutput \/ WriteFile \/ SaveOutput
      BY Frames
  <2>6. output_state' \in S
      BY <2>0, <2>2, <2>3, <2>4, <2>5, Zenon DEF S
  <2> QED
      BY <2>6 DEF S
<1>7. /\ status' \in TERMINAL_STATUSES \cup {"OPEN"} /\ output_checksum' \in Run \cup {NoRun}
      /\ verdict' \in [run : Run \cup {NoRun}, type : Type \cup {"none"}]
  <2>0. /\ status \in TERMINAL_STATUSES \cup {"OPEN"} /\ output_checksum \in Run \cup {NoRun}
        /\ verdict \in [run : Run \cup {NoRun}, type : Type \cup {"none"}] /\ output_state.run \in Run \cup {NoRun}
      BY DEF Types
  <2>1. CASE HandleStatus
    <3>1. batch["status"] # << >>
        BY <2>1 DEF HandleStatus, Drained
    <3>2. PICK m : m = Head(batch["status"])
        OBVIOUS
    <3>3. m.run \in Run /\ m.type \in Type
        BY <1>0, <3>1, <3>2, HeadPublished DEF Message
    <3>4. \/ UNCHANGED <<status, verdict>>
          \/ /\ m.type \in DOMAIN STATUS_MAPPING /\ status' = STATUS_MAPPING[m.type]
             /\ verdict' = [run |-> m.run, type |-> m.type]
        BY <2>1, <3>2 DEF HandleStatus
    <3>5. m.type \in DOMAIN STATUS_MAPPING => STATUS_MAPPING[m.type] \in TERMINAL_STATUSES \cup {"OPEN"}
        BY DEF STATUS_MAPPING, TERMINAL_STATUSES
    <3>6. output_checksum' = output_checksum
        BY <2>1 DEF HandleStatus
    <3> QED
        BY <2>0, <3>3, <3>4, <3>5, <3>6
  <2>2. CASE HandleOutput
      BY <2>0, <2>2 DEF HandleOutput, TERMINAL_STATUSES, Type
  <2>3. CASE SaveOutput
      BY <2>0, <2>3 DEF SaveOutput, TERMINAL_STATUSES, Type
  <2>4. CASE WriteFile
      BY <2>0, <2>4 DEF WriteFile
  <2> QED
      BY <2>0, <2>1, <2>2, <2>3, <2>4, Frames
<1>8. rows' \in Seq([watcher : Nat, seq : Nat, run : Run, line : Line, id : Nat])
  <2> DEFINE R == [watcher : Nat, seq : Nat, run : Run, line : Line, id : Nat]
             new == [i \in DOMAIN batch["log"] |->
                       [watcher |-> watchers, seq |-> log_seq + i, run |-> batch["log"][i].run,
                        line |-> batch["log"][i].line, id |-> batch["log"][i].id]]
  <2>0. rows \in Seq(R) /\ watchers \in Nat /\ log_seq \in Nat /\ batch["log"] \in Seq(Message)
      BY <1>0 DEF Types
  <2>1. DOMAIN batch["log"] = 1 .. Len(batch["log"]) /\ Len(batch["log"]) \in Nat
      BY <2>0, LenProperties
  <2>2. ASSUME NEW i \in 1 .. Len(batch["log"]) PROVE new[i] \in R
    <3>1. batch["log"][i] \in Message /\ batch["log"][i].line \in Line
        BY <1>0 DEF Batches, Published
    <3> QED
        BY <2>0, <2>1, <3>1, SMTT(60) DEF Message
  <2>3. new \in Seq(R)
    <3> HIDE DEF R
    <3>1. new \in [1 .. Len(batch["log"]) -> R]
        BY <2>1, <2>2
    <3> HIDE DEF new
    <3> QED
        BY <2>1, <3>1
  <2>4. HandleLog => rows' = rows \o new
      BY DEF HandleLog
  <2> HIDE DEF R, new
  <2>5. rows' \in Seq(R)
      BY <2>0, <2>3, <2>4, Frames, ConcatProperties
  <2> QED
      BY <2>5 DEF R
<1>9. lossy' \in BOOLEAN /\ behind' \in BOOLEAN /\ torn' \in BOOLEAN
  <2>0. lossy \in BOOLEAN /\ behind \in BOOLEAN /\ torn \in BOOLEAN
      BY DEF Types
  <2>1. ASSUME NEW r \in Run, Deliver(r) \/ Publish(r) \/ Received(r) \/ Raise(r)
        PROVE  UNCHANGED <<lossy, behind, torn>>
      BY <2>1 DEF Deliver, Publish, Received, Raise
  <2>2. CASE \/ WorkerCrash \/ DispatcherRead \/ DispatcherRestart
             \/ HandleLog \/ HandleStatus \/ HandleOutput \/ WriteFile \/ Cleanup \/ WatcherError \/ UNCHANGED vars
      BY <2>0, <2>2 DEF WorkerCrash, DispatcherRead, DispatcherRestart, HandleLog, HandleStatus, HandleOutput,
          WriteFile, Cleanup, WatcherError
  <2>3. CASE RedisRestart \/ SaveOutput
      BY <2>0, <2>3 DEF RedisRestart, SaveOutput
  <2>4. CASE DispatcherCrash
      BY <2>0, <2>4, Zenon DEF DispatcherCrash
  <2>5. CASE WatcherRead
    <3>1. behind' = (Len(Unread("log")) > WatchBatch) /\ UNCHANGED <<lossy, torn>>
        BY <2>5 DEF WatcherRead
    <3>2. (Len(Unread("log")) > WatchBatch) \in BOOLEAN
        OBVIOUS
    <3> QED
        BY <2>0, <3>1, <3>2, Zenon
  <2> QED
      BY <2>0, <2>1, <2>2, <2>3, <2>4, <2>5 DEF Next
<1> QED
    BY <1>1, <1>2, <1>3, <1>4, <1>5, <1>6, <1>7, <1>8, <1>9 DEF Types

Core == Types /\ Streams /\ Batches /\ Ids

LEMMA CoreInit == Init => Core
<1> SUFFICES ASSUME Init PROVE Core
    OBVIOUS
<1>1. \A S : << >> \in Seq(S)
    OBVIOUS
<1>2. NotStarted \in [run : Run \cup {NoRun}, buf : Seq(Run \X Nat), seen_seq : SUBSET Nat]
  <2>1. << >> \in Seq(Run \X Nat) /\ {} \in SUBSET Nat
      OBVIOUS
  <2> QED
      BY <2>1 DEF NotStarted
<1>3. Types
  <2>1. lines \in [Run -> Seq(Line)] /\ stream \in [Stream -> Seq(Message)] /\ batch \in [Stream -> Seq(Message)]
      BY <1>1 DEF Init
  <2>2. rows \in Seq([watcher : Nat, seq : Nat, run : Run, line : Line, id : Nat])
      BY <1>1 DEF Init
  <2>3. output_state \in [run : Run \cup {NoRun}, buf : Seq(Run \X Nat), seen_seq : SUBSET Nat]
      BY <1>2 DEF Init
  <2>4. verdict \in [run : Run \cup {NoRun}, type : Type \cup {"none"}]
      BY DEF Init
  <2>5. /\ part \in [Run -> Part \cup {"idle", "over", "dead"}] /\ pos \in [Run -> Nat]
        /\ \A r \in Run : pos[r] >= 1
        /\ nextId \in [Stream -> Nat] /\ announced \in Nat /\ lastId \in Nat
        /\ wpc \in {"none", "loop", "write", "save"} /\ last_ids \in [Stream -> Nat] /\ log_seq \in Nat
        /\ watchers \in Nat /\ status \in TERMINAL_STATUSES \cup {"OPEN"} /\ output_checksum \in Run \cup {NoRun}
      BY DEF Init
  <2>6. up \in BOOLEAN /\ lossy \in BOOLEAN /\ behind \in BOOLEAN /\ torn \in BOOLEAN
      BY Zenon DEF Init
  <2> QED
      BY <2>1, <2>2, <2>3, <2>4, <2>5, <2>6, Zenon DEF Types
<1>4. Streams /\ Batches /\ Ids
    BY DEF Init, Streams, Batches, Ids
<1> QED
    BY <1>3, <1>4 DEF Core

LEMMA CoreStep == ASSUME Core, [Next]_vars PROVE Core'
    BY TypesStep, StreamsStep, BatchesStep, IdsStep DEF Core

LEMMA CoreHolds == Spec => []Core
    BY CoreInit, CoreStep, PTL DEF Spec

(* Type correctness: what the worker publishes, what the watcher holds and *)
(* every row of Execution and ExecutionLog is always what it should be; a  *)
(* row of the log, for one, always has a run and a line.                   *)
THEOREM TypeCorrect == Spec => []TypeOK
<1>1. Core => TypeOK
    BY ProgramText DEF Core, Types, TypeOK
<1> QED
    BY <1>1, CoreHolds, PTL

-----------------------------------------------------------------------------
(* The file and the row.                                                   *)

LEMMA StoringStep ==
    ASSUME Core, Storing, [Next]_vars
    PROVE  Storing'
<1>0. /\ Types /\ Batches /\ "output" \in Stream /\ "log" \in Stream
      /\ wpc \in {"none", "loop", "write", "save"} /\ batch \in [Stream -> Seq(Message)]
    BY DEF Core, Stream, Types
<1>1. PICK st : st = output_state
    OBVIOUS
<1>2. ASSUME st.run \in Run, part[st.run] # "idle", Past(st.run, "DATA_END")
      PROVE  part'[st.run] # "idle" /\ Past(st.run, "DATA_END")'
    BY <1>0, <1>2, PastKept
<1>3. ASSUME output_state' = st, st.run \in Run, Valid(st), Past(st.run, "DATA_END")', part'[st.run] # "idle",
             batch'["log"] = << >>, wpc' = "save" => file' = st.buf
      PROVE  Storing'
    BY <1>3 DEF Storing, Valid, Past, Output
<1>4. CASE wpc' \in {"none", "loop"}
    BY <1>4 DEF Storing
<1>5. CASE WriteFile
  <2>1. /\ wpc = "write" /\ wpc' = "save" /\ file' = st.buf /\ output_state' = st /\ batch' = batch
      BY <1>1, <1>5 DEF WriteFile
  <2>2. st.run \in Run /\ Valid(st) /\ Past(st.run, "DATA_END") /\ part[st.run] # "idle" /\ batch["log"] = << >>
      BY <1>1, <2>1 DEF Storing
  <2> QED
      BY <1>2, <1>3, <2>1, <2>2
<1>6. CASE HandleOutput /\ wpc' = "write"
  <2>1. PICK m : m = Head(batch["output"])
      OBVIOUS
  <2>2. /\ batch["output"] # << >> /\ batch["log"] = << >> /\ wpc = "loop" /\ Take("output")
      BY <1>6 DEF HandleOutput, Drained
  <2>3. m.type = "DATA_END" /\ m.run = st.run /\ Valid(st) /\ output_state' = st
      BY <1>1, <1>6, <2>1, <2>2 DEF HandleOutput
  <2>4. Published("output", m)
      BY <1>0, <2>1, <2>2, HeadPublished
  <2>5. st.run \in Run /\ part[st.run] # "idle" /\ Past(st.run, "DATA_END")
      BY <2>3, <2>4 DEF Published, Message, Final
  <2>6. batch'["log"] = << >>
      BY <1>0, <2>2 DEF Take
  <2> QED
      BY <1>2, <1>3, <1>6, <2>3, <2>5, <2>6
<1>7. CASE UNCHANGED <<wpc, last_ids, batch, log_seq, output_state, watchers>> /\ wpc \in {"write", "save"}
  <2>1. st.run \in Run /\ Valid(st) /\ Past(st.run, "DATA_END") /\ part[st.run] # "idle" /\ batch["log"] = << >>
        /\ (wpc = "save" => file = st.buf)
      BY <1>1, <1>7 DEF Storing
  <2>2. file' = file \/ WriteFile
    <3>1. ~HandleOutput /\ (SaveOutput => wpc' = "loop")
        BY <1>7 DEF HandleOutput, SaveOutput
    <3> QED
        BY <1>7, <3>1, Frames
  <2>3. ~WriteFile
      BY <1>7 DEF WriteFile
  <2> QED
      BY <1>1, <1>2, <1>3, <1>7, <2>1, <2>2, <2>3
<1>8. /\ WatcherRead \/ HandleLog \/ HandleStatus => wpc' = "loop"
      /\ SaveOutput => wpc' = "loop"
      /\ HandleOutput => wpc' \in {"loop", "write"}
    BY DEF WatcherRead, HandleLog, HandleStatus, SaveOutput, HandleOutput
<1> QED
    BY <1>0, <1>4, <1>5, <1>6, <1>7, <1>8, Frames

(* A terminal status was concluded by a run that is past its conclusion. *)
LEMMA ConcludedStep ==
    ASSUME Core, Storing, Concluded, [Next]_vars
    PROVE  Concluded'
<1>0. Types /\ Batches /\ "output" \in Stream /\ "status" \in Stream
    BY DEF Core, Stream
<1>1. SUFFICES ASSUME Terminal'
               PROVE  (/\ verdict.run \in Run /\ part[verdict.run] # "idle"
                       /\ verdict.type \in Final /\ Past(verdict.run, verdict.type))'
    BY DEF Concluded
<1>2. ASSUME NEW r \in Run, NEW t \in Final, part[r] # "idle", Past(r, t), verdict'.run = r, verdict'.type = t
      PROVE  (/\ verdict.run \in Run /\ part[verdict.run] # "idle"
              /\ verdict.type \in Final /\ Past(verdict.run, verdict.type))'
  <2>1. part'[r] # "idle" /\ Past(r, t)'
      BY <1>0, <1>2, PastKept
  <2> QED
      BY <1>2, <2>1 DEF Past
<1>3. CASE UNCHANGED <<status, verdict>>
  <2>1. PICK r, t : r = verdict.run /\ t = verdict.type
      OBVIOUS
  <2>2. r \in Run /\ t \in Final /\ part[r] # "idle" /\ Past(r, t)
      BY <1>1, <1>3, <2>1 DEF Concluded, Terminal
  <2> QED
      BY <1>2, <1>3, <2>1, <2>2
<1>4. CASE HandleStatus /\ ~UNCHANGED <<status, verdict>>
  <2>1. PICK m : m = Head(batch["status"])
      OBVIOUS
  <2>2. batch["status"] # << >>
      BY <1>4 DEF HandleStatus, Drained
  <2>3. /\ m.type \in DOMAIN STATUS_MAPPING /\ status' = STATUS_MAPPING[m.type]
        /\ verdict' = [run |-> m.run, type |-> m.type]
      BY <1>4, <2>1 DEF HandleStatus
  <2>4. m.type \in Final
      BY <1>1, <2>3 DEF Terminal, STATUS_MAPPING, TERMINAL_STATUSES, Final
  <2>5. Published("status", m)
      BY <1>0, <2>1, <2>2, HeadPublished
  <2>6. m.run \in Run /\ part[m.run] # "idle" /\ Past(m.run, m.type) /\ verdict'.run = m.run /\ verdict'.type = m.type
      BY <2>3, <2>4, <2>5 DEF Published, Message
  <2> QED
      BY <1>2, <2>4, <2>6
<1>5. CASE HandleOutput /\ ~UNCHANGED <<status, verdict>>
  <2>1. PICK m, st : m = Head(batch["output"]) /\ st = output_state
      OBVIOUS
  <2>2. batch["output"] # << >>
      BY <1>5 DEF HandleOutput, Drained
  <2>3. m.type = "DATA_END" /\ m.run = st.run /\ verdict' = [run |-> st.run, type |-> "DATA_END"]
      BY <1>5, <2>1 DEF HandleOutput
  <2>4. Published("output", m)
      BY <1>0, <2>1, <2>2, HeadPublished
  <2>5. /\ m.run \in Run /\ part[m.run] # "idle" /\ Past(m.run, "DATA_END") /\ "DATA_END" \in Final
        /\ verdict'.run = m.run /\ verdict'.type = "DATA_END"
      BY <2>3, <2>4 DEF Published, Message, Final
  <2> QED
      BY <1>2, <2>5
<1>6. CASE SaveOutput
  <2>1. PICK st : st = output_state
      OBVIOUS
  <2>2. wpc = "save" /\ verdict' = [run |-> st.run, type |-> "DATA_END"]
      BY <1>6, <2>1 DEF SaveOutput
  <2>3. /\ st.run \in Run /\ part[st.run] # "idle" /\ Past(st.run, "DATA_END") /\ "DATA_END" \in Final
        /\ verdict'.run = st.run /\ verdict'.type = "DATA_END"
      BY <2>1, <2>2 DEF Storing, Final
  <2> QED
      BY <1>2, <2>3
<1> QED
    BY <1>3, <1>4, <1>5, <1>6, Frames

LEMMA FileStep ==
    ASSUME Core, Storing, FileMatchesRow, [Next]_vars
    PROVE  FileMatchesRow'
<1>0. wpc \in {"none", "loop", "write", "save"}
    BY DEF Core, Types
<1>1. CASE SaveOutput
  <2>1. PICK st : st = output_state
      OBVIOUS
  <2>2. wpc = "save" /\ output_checksum' = st.run /\ file' = file
      BY <1>1, <2>1 DEF SaveOutput
  <2>3. file = st.buf /\ Valid(st)
      BY <2>1, <2>2 DEF Storing
  <2>4. file' = Output(st.run)
      BY <2>2, <2>3 DEF Valid
  <2> QED
      BY <2>2, <2>4 DEF FileMatchesRow, Output
<1>2. CASE WriteFile
    BY <1>2 DEF WriteFile, FileMatchesRow
<1>3. CASE HandleOutput
    BY <1>0, <1>3 DEF HandleOutput, FileMatchesRow, Output
<1>4. CASE DispatcherCrash
    BY <1>0, <1>4 DEF DispatcherCrash, FileMatchesRow, Output, rowVars, WatcherAt
<1>5. CASE UNCHANGED <<file, output_checksum, torn>> /\ (wpc' = wpc \/ wpc = "none" \/ wpc = "loop")
    BY <1>5 DEF FileMatchesRow, Output
<1>6. ASSUME NEW r \in Run, Deliver(r) \/ Publish(r) \/ Received(r) \/ Raise(r)
      PROVE  UNCHANGED <<file, output_checksum, torn, wpc>>
    BY <1>6 DEF Deliver, Publish, Received, Raise, rowVars, histVars, watchVars
<1>7. CASE WorkerCrash \/ DispatcherRead \/ DispatcherRestart \/ RedisRestart \/ UNCHANGED vars
    BY <1>5, <1>7 DEF WorkerCrash, DispatcherRead, DispatcherRestart, RedisRestart, vars, rowVars, histVars, watchVars
<1>8. CASE WatcherRead \/ HandleLog \/ HandleStatus \/ Cleanup \/ WatcherError
    BY <1>5, <1>8 DEF WatcherRead, HandleLog, HandleStatus, Cleanup, WatcherError, rowVars, histVars, watchVars
<1> QED
    BY <1>1, <1>2, <1>3, <1>4, <1>5, <1>6, <1>7, <1>8 DEF Next

(* What is stored is what was sent: the file is the whole output of the    *)
(* run whose checksum the row has, unless the dispatcher died while it     *)
(* stored another.  Storing is what makes it inductive: between open() and *)
(* save() the watcher holds the valid output it is about to record.        *)
THEOREM FileIsOutput == Spec => []FileMatchesRow
<1>1. Init => Storing /\ FileMatchesRow
    BY DEF Init, Storing, FileMatchesRow
<1>2. Core /\ Storing /\ FileMatchesRow /\ [Next]_vars => Storing' /\ FileMatchesRow'
    BY StoringStep, FileStep
<1> QED
    BY <1>1, <1>2, CoreHolds, PTL DEF Spec

-----------------------------------------------------------------------------
(* The log.                                                                *)

(* The rows after a batch of lines was written. *)
NewRow(i) ==
    [watcher |-> watchers, seq |-> log_seq + i, run |-> batch["log"][i].run,
     line |-> batch["log"][i].line, id |-> batch["log"][i].id]

LEMMA RowsGrow ==
    ASSUME Types, HandleLog
    PROVE  /\ Len(rows) \in Nat /\ Len(batch["log"]) \in Nat /\ Len(rows') = Len(rows) + Len(batch["log"])
           /\ \A k \in 1 .. Len(rows) : k \in 1 .. Len(rows') /\ rows'[k] = rows[k]
           /\ \A k \in 1 .. Len(batch["log"]) : /\ Len(rows) + k \in 1 .. Len(rows')
                                                /\ rows'[Len(rows) + k] = NewRow(k)
           /\ \A j \in 1 .. Len(rows') : \/ j \in 1 .. Len(rows)
                                         \/ \E k \in 1 .. Len(batch["log"]) : j = Len(rows) + k
<1> DEFINE new == [i \in DOMAIN batch["log"] |-> NewRow(i)]
           R == [watcher : Nat, seq : Nat, run : Run, line : Line, id : Nat]
           T == {NewRow(i) : i \in DOMAIN batch["log"]}
           B == Len(batch["log"])
<1>1. batch["log"] \in Seq(Message) /\ B \in Nat /\ DOMAIN batch["log"] = 1 .. B
    BY LenProperties DEF Types, Stream
<1>2. rows' = rows \o new
    BY DEF HandleLog, NewRow
<1>3. rows \in Seq(R) /\ Len(rows) \in Nat
    BY LenProperties DEF Types
<1>4. new \in Seq(T) /\ Len(new) = B /\ \A k \in 1 .. B : new[k] = NewRow(k)
  <2>1. new \in [1 .. B -> T] /\ \A k \in 1 .. B : new[k] = NewRow(k)
      BY <1>1
  <2>2. DOMAIN new = 1 .. B
      BY <1>1
  <2> HIDE DEF new, T, B
  <2> QED
      BY <1>1, <2>1, <2>2
<1> DEFINE U == R \cup T
<1>5. rows \in Seq(U) /\ new \in Seq(U)
  <2> HIDE DEF new, R, T
  <2> QED
      BY <1>3, <1>4
<1> HIDE DEF new, R, T, B, U
<1>6. /\ Len(rows \o new) = Len(rows) + Len(new)
      /\ \A i \in 1 .. (Len(rows) + Len(new)) : (rows \o new)[i] = IF i <= Len(rows) THEN rows[i] ELSE new[i - Len(rows)]
    BY <1>5, ConcatProperties, Zenon
<1>7. PICK L \in Nat : L = Len(rows)
    BY <1>3
<1>8. Len(rows') = L + B /\ \A i \in 1 .. (L + B) : rows'[i] = IF i <= L THEN rows[i] ELSE new[i - L]
    BY <1>2, <1>4, <1>6, <1>7
<1>9. \A k \in 1 .. L : k \in 1 .. (L + B) /\ k <= L
    BY <1>1
<1>10. \A k \in 1 .. B : L + k \in 1 .. (L + B) /\ ~(L + k <= L) /\ (L + k) - L = k
    BY <1>1
<1>11. \A j \in 1 .. (L + B) : j \in 1 .. L \/ \E k \in 1 .. B : j = L + k
  <2> TAKE j \in 1 .. (L + B)
  <2>1. ~(j \in 1 .. L) => j - L \in 1 .. B /\ j = L + (j - L)
      BY <1>1
  <2> QED
      BY <2>1
<1>12. \A k \in 1 .. L : rows'[k] = rows[k]
    BY <1>8, <1>9
<1>13. \A k \in 1 .. B : rows'[L + k] = NewRow(k)
    BY <1>4, <1>8, <1>10
<1>14. Len(rows) \in Nat /\ Len(batch["log"]) \in Nat /\ Len(rows') = Len(rows) + Len(batch["log"])
    BY <1>1, <1>3, <1>7, <1>8 DEF B
<1>15. \A k \in 1 .. Len(rows) : k \in 1 .. Len(rows') /\ rows'[k] = rows[k]
    BY <1>7, <1>8, <1>9, <1>12
<1>16. \A k \in 1 .. Len(batch["log"]) : /\ Len(rows) + k \in 1 .. Len(rows')
                                          /\ rows'[Len(rows) + k] = NewRow(k)
    BY <1>7, <1>8, <1>10, <1>13 DEF B
<1>17. \A j \in 1 .. Len(rows') : \/ j \in 1 .. Len(rows)
                                   \/ \E k \in 1 .. Len(batch["log"]) : j = Len(rows) + k
    BY <1>7, <1>8, <1>11 DEF B
<1> QED
    BY <1>14, <1>15, <1>16, <1>17

LEMMA RowFields ==
    ASSUME Types, NEW i \in 1 .. Len(rows)
    PROVE  /\ rows[i].watcher \in Nat /\ rows[i].seq \in Nat /\ rows[i].id \in Nat
           /\ rows[i].run \in Run /\ rows[i].line \in Line
<1> DEFINE R == [watcher : Nat, seq : Nat, run : Run, line : Line, id : Nat]
<1>1. rows \in Seq(R)
    BY DEF Types
<1> HIDE DEF R
<1>2. rows[i] \in R
    BY <1>1
<1> QED
    BY <1>2 DEF R

LEMMA RowsStep ==
    ASSUME Core, RowsKnown, RowsInOrder, [Next]_vars
    PROVE  RowsKnown' /\ RowsInOrder'
<1>0. /\ Types /\ Ids /\ "log" \in Stream /\ Len(rows) \in Nat /\ watchers \in Nat /\ log_seq \in Nat
      /\ last_ids["log"] \in Nat /\ Len(batch["log"]) \in Nat /\ nextId["log"] \in Nat
    BY LenProperties DEF Core, Stream, Types
<1>1. \A i \in 1 .. Len(rows) : /\ rows[i].watcher \in Nat /\ rows[i].seq \in Nat /\ rows[i].id \in Nat
    BY <1>0, RowFields
<1>2. nextId'["log"] \in Nat /\ nextId'["log"] >= nextId["log"]
    BY <1>0, NextIdGrows
<1>3. CASE HandleLog
  <2> DEFINE L == Len(rows)
             B == Len(batch["log"])
             K == last_ids["log"]
  <2>1. wpc = "loop" /\ wpc' = "loop" /\ watchers' = watchers /\ log_seq' = log_seq + B /\ batch'["log"] = << >>
        /\ last_ids' = last_ids
      BY <1>0, <1>3 DEF HandleLog, Types
  <2>2. /\ Len(rows') = L + B /\ \A k \in 1 .. L : rows'[k] = rows[k]
        /\ \A k \in 1 .. B : rows'[L + k] = NewRow(k)
        /\ \A j \in 1 .. Len(rows') : j \in 1 .. L \/ \E k \in 1 .. B : j = L + k
      BY <1>0, <1>3, RowsGrow
  <2>3. ASSUME NEW k \in 1 .. B
        PROVE  NewRow(k).watcher = watchers /\ NewRow(k).seq = log_seq + k /\ NewRow(k).id = K - B + k
    <3>1. batch["log"][k].id = K - B + k
        BY <1>0 DEF Ids
    <3> QED
        BY <3>1 DEF NewRow
  <2>4. B <= K /\ K < nextId["log"] /\ B \in Nat /\ K \in Nat /\ L \in Nat
      BY <1>0 DEF Ids
  <2>5. \A i \in 1 .. L : /\ rows[i].watcher <= watchers /\ rows[i].id < nextId["log"]
                          /\ rows[i].watcher = watchers => rows[i].seq <= log_seq /\ rows[i].id <= K - B
      BY <2>1 DEF RowsKnown
  <2>6. \A i, j \in 1 .. L : i < j /\ rows[i].watcher = rows[j].watcher =>
                                rows[i].seq < rows[j].seq /\ rows[i].id < rows[j].id
      BY DEF RowsInOrder
  <2> HIDE DEF L, B, K
  <2>7. RowsKnown'
    <3> SUFFICES ASSUME NEW j \in 1 .. Len(rows')
                 PROVE  /\ rows'[j].watcher <= watchers /\ rows'[j].id < nextId'["log"]
                        /\ rows'[j].watcher = watchers => rows'[j].seq <= log_seq + B /\ rows'[j].id <= K
      <4>1. K - 0 = K /\ Len(batch'["log"]) = 0
          BY <2>1, <2>4
      <4> QED
          BY <2>1, <4>1 DEF RowsKnown, K
    <3>1. CASE j \in 1 .. L
      <4>1. rows'[j] = rows[j]
          BY <2>2, <3>1
      <4>2. /\ rows[j].watcher \in Nat /\ rows[j].seq \in Nat /\ rows[j].id \in Nat
          BY <1>1, <3>1 DEF L
      <4> QED
          BY <1>0, <1>2, <2>4, <2>5, <3>1, <4>1, <4>2, SMTT(60)
    <3>2. CASE \E k \in 1 .. B : j = L + k
      <4>1. PICK k \in 1 .. B : j = L + k
          BY <3>2
      <4>2. rows'[j].watcher = watchers /\ rows'[j].seq = log_seq + k /\ rows'[j].id = K - B + k
          BY <2>2, <2>3, <4>1
      <4>3. K - B + k <= K /\ K < nextId'["log"]
          BY <1>0, <1>2, <2>4
      <4>4. K - B + k < nextId'["log"] /\ log_seq + k <= log_seq + B /\ watchers <= watchers
          BY <1>0, <1>2, <2>4, <4>3
      <4> QED
          BY <4>2, <4>3, <4>4
    <3> QED
        BY <2>2, <3>1, <3>2
  <2>8. RowsInOrder'
    <3> SUFFICES ASSUME NEW i \in 1 .. Len(rows'), NEW j \in 1 .. Len(rows'), i < j, rows'[i].watcher = rows'[j].watcher
                 PROVE  rows'[i].seq < rows'[j].seq /\ rows'[i].id < rows'[j].id
        BY DEF RowsInOrder
    <3>1. CASE j \in 1 .. L
      <4>1. i \in 1 .. L
          BY <2>2, <2>4, <3>1
      <4> QED
          BY <2>2, <2>6, <3>1, <4>1
    <3>2. ASSUME NEW k \in 1 .. B, j = L + k PROVE rows'[i].seq < rows'[j].seq /\ rows'[i].id < rows'[j].id
      <4>1. rows'[j].watcher = watchers /\ rows'[j].seq = log_seq + k /\ rows'[j].id = K - B + k
          BY <2>2, <2>3, <3>2
      <4>2. CASE i \in 1 .. L
        <5>1. rows'[i] = rows[i] /\ rows[i].watcher = watchers /\ rows[i].seq \in Nat /\ rows[i].id \in Nat
            BY <1>1, <2>2, <4>1, <4>2 DEF L
        <5>2. rows[i].seq <= log_seq /\ rows[i].id <= K - B
            BY <2>5, <4>2, <5>1
        <5> QED
            BY <1>0, <2>4, <4>1, <5>1, <5>2, SMTT(60)
      <4>3. ASSUME NEW h \in 1 .. B, i = L + h PROVE rows'[i].seq < rows'[j].seq /\ rows'[i].id < rows'[j].id
        <5>1. rows'[i].seq = log_seq + h /\ rows'[i].id = K - B + h
            BY <2>2, <2>3, <4>3
        <5>2. h < k
            BY <2>4, <3>2, <4>3
        <5> QED
            BY <1>0, <2>4, <4>1, <5>1, <5>2
      <4> QED
          BY <2>2, <4>2, <4>3
    <3> QED
        BY <2>2, <3>1, <3>2
  <2> QED
      BY <2>7, <2>8
<1>4. ASSUME rows' = rows
      PROVE  RowsInOrder'
    BY <1>4 DEF RowsInOrder
<1>5. ASSUME rows' = rows, watchers' \in Nat, watchers' >= watchers,
             wpc' # "none" /\ watchers' = watchers =>
                 /\ wpc # "none" /\ log_seq' = log_seq
                 /\ last_ids'["log"] - Len(batch'["log"]) \in Int
                 /\ last_ids'["log"] - Len(batch'["log"]) >= last_ids["log"] - Len(batch["log"])
      PROVE  RowsKnown'
  <2> SUFFICES ASSUME NEW i \in 1 .. Len(rows)
               PROVE  /\ rows[i].watcher <= watchers' /\ rows[i].id < nextId'["log"]
                      /\ wpc' # "none" /\ rows[i].watcher = watchers' =>
                            rows[i].seq <= log_seq' /\ rows[i].id <= last_ids'["log"] - Len(batch'["log"])
      BY <1>5 DEF RowsKnown
  <2>1. /\ rows[i].watcher <= watchers /\ rows[i].id < nextId["log"]
        /\ wpc # "none" /\ rows[i].watcher = watchers =>
              rows[i].seq <= log_seq /\ rows[i].id <= last_ids["log"] - Len(batch["log"])
      BY DEF RowsKnown
  <2>2. rows[i].watcher \in Nat /\ rows[i].seq \in Nat /\ rows[i].id \in Nat
      BY <1>1
  <2>3. rows[i].watcher <= watchers' /\ rows[i].id < nextId'["log"]
      BY <1>0, <1>2, <1>5, <2>1, <2>2, SMTT(60)
  <2>4. ASSUME wpc' # "none", rows[i].watcher = watchers'
        PROVE  rows[i].seq <= log_seq' /\ rows[i].id <= last_ids'["log"] - Len(batch'["log"])
    <3>1. watchers' = watchers
        BY <1>0, <1>5, <2>1, <2>2, <2>4
    <3>2. rows[i].seq <= log_seq /\ rows[i].id <= last_ids["log"] - Len(batch["log"])
        BY <1>5, <2>1, <2>4, <3>1
    <3>3. PICK x \in Int, y \in Int : x = last_ids["log"] - Len(batch["log"]) /\ y = last_ids'["log"] - Len(batch'["log"])
        BY <1>0, <1>5, <2>4, <3>1
    <3>4. y >= x /\ rows[i].id <= x
        BY <1>5, <2>4, <3>1, <3>2, <3>3
    <3>5. rows[i].id <= y
        BY <2>2, <3>4
    <3> QED
        BY <1>5, <2>4, <3>1, <3>2, <3>3, <3>5
  <2> QED
      BY <2>3, <2>4
<1>6. ASSUME UNCHANGED <<rows, watchers, log_seq, last_ids, batch, wpc>>
      PROVE  RowsKnown'
  <2>1. last_ids["log"] - Len(batch["log"]) \in Int
      BY <1>0
  <2> QED
      BY <1>0, <1>5, <1>6, <2>1
<1>7. CASE wpc' = "loop" /\ wpc = "none" /\ watchers' = watchers + 1 /\ rows' = rows
    BY <1>0, <1>4, <1>5, <1>7
<1>8. CASE wpc' = "none" /\ watchers' = watchers /\ rows' = rows
    BY <1>0, <1>4, <1>5, <1>8
<1>9. CASE WatcherRead
  <2>1. /\ wpc = "loop" /\ batch["log"] = << >> /\ UNCHANGED <<watchers, log_seq, wpc, rows>>
        /\ batch'["log"] = FirstOf("log") /\ last_ids'["log"] = IdAfter("log")
      BY <1>0, <1>9 DEF WatcherRead, AllDrained, Drained, rowVars
  <2>2. last_ids["log"] <= last_ids'["log"] - Len(batch'["log"]) /\ last_ids'["log"] - Len(batch'["log"]) \in Int
    <3>1. PICK L \in Nat, N \in Nat : L = Len(stream["log"]) /\ N = nextId["log"]
        BY <1>0, LenProperties DEF Types
    <3>2. L < N /\ last_ids["log"] < N /\ \A i \in 1 .. L : stream["log"][i].id = N - 1 - L + i
        BY <1>0, <3>1 DEF Ids
    <3>3. PICK n \in 0 .. Len(stream["log"]) :
              /\ \A i \in 1 .. Len(stream["log"]) : i <= n <=> stream["log"][i].id <= last_ids["log"]
              /\ n + Len(FirstOf("log")) <= Len(stream["log"]) /\ Len(FirstOf("log")) \in Nat
              /\ IdAfter("log") = IF Len(FirstOf("log")) = 0 THEN last_ids["log"]
                                  ELSE stream["log"][n + Len(FirstOf("log"))].id
        BY <1>0, ReadFacts
    <3>4. PICK F \in Nat : F = Len(FirstOf("log"))
        BY <3>3
    <3>5. n \in Nat /\ n + F <= L
        BY <3>1, <3>3, <3>4
    <3>6. CASE F = 0
      <4>1. last_ids'["log"] = last_ids["log"] /\ Len(batch'["log"]) = 0
          BY <2>1, <3>3, <3>4, <3>6
      <4> QED
          BY <1>0, <4>1
    <3>7. CASE F # 0
      <4>1. last_ids'["log"] = stream["log"][n + F].id /\ Len(batch'["log"]) = F
          BY <2>1, <3>3, <3>4, <3>7
      <4>2. n + F \in 1 .. L /\ n + 1 \in 1 .. L /\ ~(n + 1 <= n)
          BY <3>5, <3>7
      <4>3. stream["log"][n + F].id = N - 1 - L + (n + F) /\ stream["log"][n + 1].id = N - 1 - L + (n + 1)
          BY <3>2, <4>2
      <4>4. ~(N - 1 - L + (n + 1) <= last_ids["log"])
          BY <3>1, <3>3, <4>2, <4>3
      <4>5. last_ids["log"] <= N - 1 - L + (n + F) - F /\ N - 1 - L + (n + F) - F \in Int
          BY <1>0, <3>5, <4>4
      <4> QED
          BY <4>1, <4>3, <4>5
    <3> QED
        BY <3>6, <3>7
  <2>3. last_ids["log"] - Len(batch["log"]) = last_ids["log"]
    <3>1. Len(batch["log"]) = 0
        BY <2>1
    <3> QED
        BY <1>0, <3>1
  <2> QED
      BY <1>0, <1>4, <1>5, <2>1, <2>2, <2>3
<1>10. CASE HandleStatus
  <2>1. batch'["log"] = batch["log"] /\ UNCHANGED <<rows, watchers, log_seq, last_ids, wpc>>
      BY <1>0, <1>10 DEF HandleStatus, Take, Types
  <2>2. last_ids["log"] - Len(batch["log"]) \in Int
      BY <1>0
  <2>3. wpc # "none"
      BY <1>10 DEF HandleStatus
  <2> QED
      BY <1>0, <1>4, <1>5, <2>1, <2>2, <2>3
<1>11. CASE HandleOutput
  <2>1. batch'["log"] = batch["log"] /\ UNCHANGED <<rows, watchers, log_seq, last_ids>>
      BY <1>0, <1>11 DEF HandleOutput, Take, Types
  <2>2. last_ids["log"] - Len(batch["log"]) \in Int
      BY <1>0
  <2>3. wpc # "none"
      BY <1>11 DEF HandleOutput
  <2> QED
      BY <1>0, <1>4, <1>5, <2>1, <2>2, <2>3
<1>12. CASE WriteFile \/ SaveOutput
  <2>1. UNCHANGED <<batch, rows, watchers, log_seq, last_ids>> /\ wpc # "none"
      BY <1>12 DEF WriteFile, SaveOutput
  <2>2. last_ids["log"] - Len(batch["log"]) \in Int
      BY <1>0
  <2> QED
      BY <1>0, <1>4, <1>5, <2>1, <2>2
<1> QED
    BY <1>3, <1>4, <1>6, <1>7, <1>8, <1>9, <1>10, <1>11, <1>12, Frames

(* The log of one watcher reads in the order in which the lines were       *)
(* published, with nothing twice.  RowsKnown makes it inductive: the rows  *)
(* of the watcher at work come before what it holds and has yet to read.   *)
THEOREM LogReadsInOrder == Spec => []LogInOrder
<1>1. Init => RowsKnown /\ RowsInOrder
    BY DEF Init, RowsKnown, RowsInOrder
<1>2. Core /\ RowsKnown /\ RowsInOrder /\ [Next]_vars => RowsKnown' /\ RowsInOrder'
    BY RowsStep
<1>3. Core /\ RowsInOrder => LogInOrder
  <2> SUFFICES ASSUME Core, RowsInOrder, NEW i \in DOMAIN rows, NEW j \in DOMAIN rows,
                      rows[i].watcher = rows[j].watcher
               PROVE  rows[i].seq < rows[j].seq <=> rows[i].id < rows[j].id
      BY DEF LogInOrder
  <2>1. rows \in Seq([watcher : Nat, seq : Nat, run : Run, line : Line, id : Nat])
      BY DEF Core, Types
  <2>2. DOMAIN rows = 1 .. Len(rows) /\ Len(rows) \in Nat
      BY <2>1, LenProperties
  <2>4. rows[i].seq \in Nat /\ rows[i].id \in Nat /\ rows[j].seq \in Nat /\ rows[j].id \in Nat
      BY <2>2, RowFields DEF Core
  <2>5. i = j \/ i < j \/ j < i
      BY <2>2
  <2>6. (i < j => rows[i].seq < rows[j].seq /\ rows[i].id < rows[j].id)
        /\ (j < i => rows[j].seq < rows[i].seq /\ rows[j].id < rows[i].id)
      BY <2>2 DEF RowsInOrder
  <2> QED
      BY <2>4, <2>5, <2>6
<1> QED
    BY <1>1, <1>2, <1>3, CoreHolds, PTL DEF Spec

-----------------------------------------------------------------------------
(* What stays in Redis.                                                    *)

(* A run past its conclusion publishes only what follows it. *)
LEMMA PastPublishes ==
    ASSUME NEW p \in Part, NEW i \in 1 .. Len(Program[p]), NEW m, m = Program[p][i],
           NEW r \in Run, part[r] = p, pos[r] = i, NEW t \in Final, Past(r, t)
    PROVE  /\ m.to # "output"
           /\ m.to = "log" => m.line \in {"output_sent", "task_failed", "giving_up"}
           /\ m.to = "status" => m.type \in {"TASK_SUCCEEDED", "TASK_FAILED"}
<1>0. Chunks \in Nat
    OBVIOUS
<1>1. \/ p = "except"
      \/ p = "body" /\ i > Chunks + 3
      \/ p = "give_up" /\ i > 1
    BY DEF Past, Part
<1>2. m.to = "output" => p = "body" /\ i \in 2 .. (Chunks + 3)
    BY StepFields
<1>3. m.to # "output"
    BY <1>0, <1>1, <1>2
<1>4. m.to = "log" => m.line \in {"output_sent", "task_failed", "giving_up"}
  <2>1. m.to = "log" =>
           \/ p = "prepare" \/ m.line = "giving_up" \/ m.line = "output_sent" \/ m.line = "task_failed"
      BY StepFields
  <2> QED
      BY <1>1, <2>1
<1>5. m.to = "status" => m.type \in {"TASK_SUCCEEDED", "TASK_FAILED"}
  <2>1. m.to = "status" =>
           \/ p = "prepare"
           \/ p = "give_up" /\ i = 1
           \/ p = "body" /\ i = 1
           \/ m.type = "TASK_SUCCEEDED"
           \/ m.type = "TASK_FAILED"
      BY StepFields
  <2> QED
      BY <1>0, <1>1, <2>1
<1> QED
    BY <1>3, <1>4, <1>5

LEMMA AnnouncedStep ==
    ASSUME Core, Announced, [Next]_vars
    PROVE  Announced'
<1> USE DEF vars, runVars, redisVars, watchVars, dispVars, rowVars, histVars
<1>0. announced \in Nat /\ part \in [Run -> Part \cup {"idle", "over", "dead"}] /\ 1 \in Run
    BY DEF Core, Types, Run
<1>1. ASSUME NEW r \in Run, Deliver(r) PROVE announced' >= 1
    BY <1>0, <1>1 DEF Deliver
<1>2. ASSUME NEW r \in Run, Publish(r) \/ Received(r) \/ Raise(r)
      PROVE  (part[1] # "idle" \/ part'[1] = part[1]) /\ UNCHANGED <<announced, lossy>>
  <2>1. r # 1 => part'[1] = part[1]
      BY <1>0, <1>2 DEF Publish, Received, Raise, Goto
  <2>2. r = 1 => part[1] # "idle"
      BY <1>2, ProgramText DEF Publish, Received, Raise, Running, AtEnd, Part
  <2>3. UNCHANGED <<announced, lossy>>
      BY <1>2 DEF Publish, Received, Raise
  <2> QED
      BY <2>1, <2>2, <2>3
<1>3. CASE WorkerCrash
  <2>1. part'[1] = part[1] \/ Running(1)
      BY <1>0, <1>3 DEF WorkerCrash
  <2>2. Running(1) => part[1] # "idle"
      BY ProgramText DEF Running, Part
  <2> QED
      BY <1>3, <2>1, <2>2 DEF WorkerCrash, Announced
<1>4. CASE RedisRestart
    BY <1>4 DEF RedisRestart, Announced
<1>5. ASSUME \/ DispatcherRead \/ DispatcherCrash \/ DispatcherRestart
             \/ WatcherRead \/ HandleLog \/ HandleStatus \/ HandleOutput \/ WriteFile \/ SaveOutput
             \/ Cleanup \/ WatcherError \/ UNCHANGED vars
      PROVE  UNCHANGED <<part, announced, lossy>>
    BY <1>5 DEF DispatcherRead, DispatcherCrash, DispatcherRestart, WatcherRead, HandleLog, HandleStatus,
        HandleOutput, WriteFile, SaveOutput, Cleanup, WatcherError
<1>6. ASSUME (part[1] # "idle" \/ part'[1] = part[1]) /\ UNCHANGED <<announced, lossy>> PROVE Announced'
    BY <1>6 DEF Announced
<1>7. ASSUME announced' >= 1 PROVE Announced'
    BY <1>7 DEF Announced
<1> QED
    BY <1>1, <1>2, <1>3, <1>4, <1>5, <1>6, <1>7 DEF Next

LEMMA LeakStep ==
    ASSUME Core, Concluded, Announced, LeakIsTail, [Next]_vars
    PROVE  LeakIsTail'
<1> USE DEF vars, runVars, redisVars, watchVars, dispVars, rowVars, histVars
<1>0. /\ Types /\ 1 \in Run /\ 2 \in Run /\ \A r \in Run : r = 1 \/ r = 2
      /\ part \in [Run -> Part \cup {"idle", "over", "dead"}]
      /\ "log" \in Stream /\ "status" \in Stream /\ "output" \in Stream
    BY DEF Core, Types, Run, Stream
<1>1. stream \in [Stream -> Seq(Message)] /\ \A s \in Stream : DOMAIN stream[s] = 1 .. Len(stream[s])
    BY <1>0, LenProperties DEF Types
<1> SUFFICES ASSUME CleanedUp', ~undeleted', part'[2] = "idle", ~lossy'
             PROVE  (/\ stream["output"] = << >>
                     /\ \A i \in DOMAIN stream["log"] :
                           stream["log"][i].line \in {"output_sent", "task_failed", "giving_up"}
                     /\ \A i \in DOMAIN stream["status"] :
                           stream["status"][i].type \in {"TASK_SUCCEEDED", "TASK_FAILED"})'
    BY DEF LeakIsTail
<1>2. part[2] = "idle" /\ Terminal' /\ up' /\ wpc' = "none" /\ lastId' = announced'
    BY <1>0, PastKept DEF CleanedUp
<1>3. Terminal => part[1] # "idle" /\ \E t \in Final : Past(1, t)
    BY <1>0, <1>2 DEF Concluded
<1>4. ASSUME UNCHANGED <<stream, status, up, wpc, lastId, announced, undeleted, lossy>>
      PROVE  (/\ stream["output"] = << >>
              /\ \A i \in DOMAIN stream["log"] :
                    stream["log"][i].line \in {"output_sent", "task_failed", "giving_up"}
              /\ \A i \in DOMAIN stream["status"] :
                    stream["status"][i].type \in {"TASK_SUCCEEDED", "TASK_FAILED"})'
    BY <1>2, <1>4 DEF LeakIsTail, CleanedUp, Terminal
<1>5. ASSUME NEW r \in Run, Deliver(r) PROVE FALSE
  <2>1. part[r] = "idle" /\ part'[r] = "prepare" /\ status' = status
      BY <1>0, <1>5 DEF Deliver, Goto
  <2>2. r = 1
      BY <1>0, <1>2, <2>1
  <2> QED
      BY <1>2, <1>3, <2>1, <2>2 DEF Terminal
<1>6. ASSUME NEW r \in Run, Publish(r)
      PROVE  (/\ stream["output"] = << >>
              /\ \A i \in DOMAIN stream["log"] :
                    stream["log"][i].line \in {"output_sent", "task_failed", "giving_up"}
              /\ \A i \in DOMAIN stream["status"] :
                    stream["status"][i].type \in {"TASK_SUCCEEDED", "TASK_FAILED"})'
  <2>1. PICK p, i, m, c : Publishing(r, p, i, m, c)
      BY <1>0, <1>6, PublishEffect
  <2>2. /\ p \in Part /\ i \in 1 .. Len(Program[p]) /\ m = Program[p][i] /\ c \in 1 .. 2
        /\ part[r] = p /\ pos[r] = i /\ Wrote(r, m, c) /\ stream' \in [Stream -> Seq(Message)]
        /\ UNCHANGED <<status, up, wpc, lastId, announced, lossy>>
      BY <2>1 DEF Publishing
  <2>3. r = 1
      BY <1>0, <1>2, <2>2 DEF Part
  <2>4. CleanedUp /\ ~undeleted /\ Terminal /\ ~lossy
    <3>1. undeleted' = undeleted
        BY <1>6 DEF Publish
    <3> QED
        BY <1>2, <2>2, <3>1 DEF CleanedUp, Terminal
  <2>5. PICK t \in Final : Past(1, t)
      BY <1>3, <2>4
  <2>6. /\ m.to # "output"
        /\ m.to = "log" => m.line \in {"output_sent", "task_failed", "giving_up"}
        /\ m.to = "status" => m.type \in {"TASK_SUCCEEDED", "TASK_FAILED"}
      BY <2>2, <2>3, <2>5, PastPublishes
  <2>7. m.to \in Stream
      BY <2>2, StepFields
  <2>8. /\ stream["output"] = << >>
        /\ \A k \in 1 .. Len(stream["log"]) : stream["log"][k].line \in {"output_sent", "task_failed", "giving_up"}
        /\ \A k \in 1 .. Len(stream["status"]) : stream["status"][k].type \in {"TASK_SUCCEEDED", "TASK_FAILED"}
      BY <1>0, <1>1, <1>2, <2>4 DEF LeakIsTail
  <2>9. stream'["output"] = << >>
      BY <1>0, <2>2, <2>6, <2>8 DEF Wrote
  <2>10. \A s \in Stream : DOMAIN stream'[s] = 1 .. Len(stream'[s])
      BY <2>2, LenProperties
  <2>11. ASSUME NEW s \in Stream, NEW k \in 1 .. Len(stream'[s])
         PROVE  \/ k \in 1 .. Len(stream[s]) /\ stream'[s][k] = stream[s][k]
                \/ s = m.to /\ \E j : stream'[s][k] = NewMessage(r, m, j)
    <3>1. \/ k \in 1 .. Len(stream[s]) /\ stream'[s][k] = stream[s][k]
          \/ s = m.to /\ \E j \in 1 .. c : /\ k = Len(stream[s]) + j
                                           /\ stream'[s][k] = NewMessage(r, m, nextId[s] + j - 1)
      <4>1. Types /\ c \in 1 .. 2 /\ Wrote(r, m, c)
          BY <1>0, <2>2
      <4> QED
          BY <2>7, <4>1, WroteAt, SMTT(30)
    <3> QED
        BY <3>1, Zenon
  <2>12. ASSUME NEW k \in 1 .. Len(stream'["log"])
         PROVE  stream'["log"][k].line \in {"output_sent", "task_failed", "giving_up"}
    <3>1. \A j : NewMessage(r, m, j).line = m.line
        BY DEF NewMessage
    <3> QED
        BY <1>0, <2>6, <2>8, <2>11, <3>1
  <2>13. ASSUME NEW k \in 1 .. Len(stream'["status"])
         PROVE  stream'["status"][k].type \in {"TASK_SUCCEEDED", "TASK_FAILED"}
    <3>1. \A j : NewMessage(r, m, j).type = m.type
        BY DEF NewMessage
    <3> QED
        BY <1>0, <2>6, <2>8, <2>11, <3>1
  <2> QED
      BY <1>0, <2>9, <2>10, <2>12, <2>13
<1>7. ASSUME NEW r \in Run, Received(r) \/ Raise(r)
      PROVE  UNCHANGED <<stream, status, up, wpc, lastId, announced, undeleted, lossy>>
    BY <1>7 DEF Received, Raise
<1>8. ASSUME WorkerCrash \/ UNCHANGED vars
      PROVE  UNCHANGED <<stream, status, up, wpc, lastId, announced, undeleted, lossy>>
    BY <1>8 DEF WorkerCrash
<1>9. ~DispatcherRead /\ ~DispatcherCrash /\ ~RedisRestart /\ ~WatcherError
    BY <1>2 DEF DispatcherRead, DispatcherCrash, RedisRestart, WatcherError, WatcherAt
<1>10. ~DispatcherRestart
  <2> SUFFICES ASSUME DispatcherRestart PROVE FALSE
      OBVIOUS
  <2>1. announced = 0 /\ Terminal /\ ~lossy
      BY <1>2 DEF DispatcherRestart, Terminal
  <2> QED
      BY <1>3, <2>1 DEF Announced
<1>11. ~WatcherRead /\ ~HandleLog /\ ~HandleStatus /\ ~HandleOutput /\ ~WriteFile /\ ~SaveOutput
    BY <1>2 DEF WatcherRead, HandleLog, HandleStatus, HandleOutput, WriteFile, SaveOutput
<1>12. CASE Cleanup
    BY <1>0, <1>12 DEF Cleanup
<1> QED
    BY <1>4, <1>5, <1>6, <1>7, <1>8, <1>9, <1>10, <1>11, <1>12 DEF Next

(* With one run, what is left in Redis after a DEL that was executed is    *)
(* what the run published after its conclusion.  Concluded makes it        *)
(* inductive (the run that concluded is past its conclusion, and has       *)
(* nothing else left to say), Announced keeps a restarted dispatcher from  *)
(* missing the announcement.                                               *)
THEOREM OnlyTailLeaks == Spec => []LeakIsTail
<1>1. Init => Storing /\ Concluded /\ Announced /\ LeakIsTail
    BY DEF Init, Storing, Concluded, Announced, LeakIsTail, Terminal, TERMINAL_STATUSES, CleanedUp, Run
<1>2. Core /\ (Storing /\ Concluded /\ Announced /\ LeakIsTail) /\ [Next]_vars
      => (Storing /\ Concluded /\ Announced /\ LeakIsTail)'
    BY StoringStep, ConcludedStep, AnnouncedStep, LeakStep
<1> QED
    BY <1>1, <1>2, CoreHolds, PTL DEF Spec

-----------------------------------------------------------------------------
(* What is logged when an execution is over.                               *)

(* Lines are deleted only with the streams, and only XREAD can leave some  *)
(* behind.                                                                 *)
LEMMA ErasedFrames ==
    ASSUME [Next]_vars
    PROVE  /\ \/ erased' = erased
              \/ stream' = [s \in Stream |-> << >>] /\ erased' = erased \cup UnreadLog /\ UNCHANGED <<lines, rows>>
           /\ behind' = behind \/ WatcherRead
           /\ (\E r \in Run : Publish(r)) => UNCHANGED <<rows, batch, wpc, last_ids, output_state, status, verdict>>
<1> USE DEF vars, runVars, redisVars, watchVars, dispVars, rowVars, histVars
<1>1. ASSUME NEW r \in Run, Deliver(r) \/ Publish(r) \/ Received(r) \/ Raise(r)
      PROVE  UNCHANGED <<erased, behind, rows, batch, wpc, last_ids, output_state, status, verdict>>
    BY <1>1 DEF Deliver, Publish, Received, Raise
<1>2. CASE WorkerCrash \/ DispatcherRead \/ DispatcherCrash \/ DispatcherRestart \/ RedisRestart
    BY <1>1, <1>2 DEF WorkerCrash, DispatcherRead, DispatcherCrash, DispatcherRestart, RedisRestart
<1>3. CASE WatcherRead \/ HandleLog \/ HandleStatus \/ HandleOutput
    BY <1>1, <1>3 DEF WatcherRead, HandleLog, HandleStatus, HandleOutput
<1>4. CASE WriteFile \/ SaveOutput \/ Cleanup \/ WatcherError \/ UNCHANGED vars
    BY <1>1, <1>4 DEF WriteFile, SaveOutput, Cleanup, WatcherError
<1> QED
    BY <1>1, <1>2, <1>3, <1>4 DEF Next

(* A row stays, and handling the log makes rows of what the watcher holds. *)
LEMMA RecordedKept ==
    ASSUME Types, [Next]_vars, NEW r, NEW l
    PROVE  /\ Recorded(r, l) => Recorded(r, l)'
           /\ HandleLog /\ InBatch(r, l) => Recorded(r, l)'
<1>1. CASE HandleLog
  <2>1. ASSUME Recorded(r, l) PROVE Recorded(r, l)'
    <3>1. PICK k \in 1 .. Len(rows) : rows[k].run = r /\ rows[k].line = l
        BY <2>1 DEF Recorded
    <3>2. k \in 1 .. Len(rows') /\ rows'[k] = rows[k]
        BY <1>1, RowsGrow
    <3> QED
        BY <3>1, <3>2 DEF Recorded
  <2>2. ASSUME InBatch(r, l) PROVE Recorded(r, l)'
    <3>1. PICK k \in 1 .. Len(batch["log"]) : batch["log"][k].run = r /\ batch["log"][k].line = l
        BY <2>2 DEF InBatch
    <3>2. Len(rows) + k \in 1 .. Len(rows') /\ rows'[Len(rows) + k] = NewRow(k)
        BY <1>1, RowsGrow
    <3>3. rows'[Len(rows) + k].run = r /\ rows'[Len(rows) + k].line = l
        BY <3>1, <3>2 DEF NewRow
    <3> QED
        BY <3>2, <3>3 DEF Recorded
  <2> QED
      BY <2>1, <2>2
<1>2. CASE rows' = rows /\ ~HandleLog
    BY <1>2 DEF Recorded
<1> QED
    BY <1>1, <1>2, Frames

(* An id of the log stands for one message. *)
LEMMA LogIdsUnique ==
    ASSUME Types, Ids, NEW s \in Stream, NEW i \in 1 .. Len(stream[s]), NEW j \in 1 .. Len(stream[s])
    PROVE  /\ stream[s][i].id = stream[s][j].id => i = j
           /\ stream[s][i].id < stream[s][j].id <=> i < j
           /\ stream[s][i].id \in Nat /\ stream[s][i].id >= 1
<1>1. PICK L \in Nat, N \in Nat : L = Len(stream[s]) /\ N = nextId[s]
    BY LenProperties DEF Types
<1>2. L < N /\ stream[s][i].id = N - 1 - L + i /\ stream[s][j].id = N - 1 - L + j
    BY <1>1 DEF Ids
<1>3. i \in 1 .. L /\ j \in 1 .. L
    BY <1>1
<1> QED
    BY <1>2, <1>3

LEMMA OneLineStep ==
    ASSUME Core, RowsKnown, OneLine, [Next]_vars
    PROVE  OneLine'
<1>0. Types /\ Ids /\ Streams /\ "log" \in Stream /\ Len(rows) \in Nat /\ Len(batch["log"]) \in Nat
      /\ nextId["log"] \in Nat /\ last_ids["log"] \in Nat
    BY LenProperties DEF Core, Stream, Types
<1> SUFFICES ASSUME NEW i \in 1 .. Len(stream'["log"]), NEW a, a = stream'["log"][i]
             PROVE  /\ \A k \in 1 .. Len(rows') : rows'[k].id = a.id => rows'[k].run = a.run /\ rows'[k].line = a.line
                    /\ \A k \in 1 .. Len(batch'["log"]) : batch'["log"][k].id = a.id =>
                          batch'["log"][k].run = a.run /\ batch'["log"][k].line = a.line
    BY DEF OneLine
<1> DEFINE RowsOK == \A k \in 1 .. Len(rows) : rows[k].id = a.id => rows[k].run = a.run /\ rows[k].line = a.line
           BatchOK == \A k \in 1 .. Len(batch["log"]) : batch["log"][k].id = a.id =>
                          batch["log"][k].run = a.run /\ batch["log"][k].line = a.line
<1>1. (\E j \in 1 .. Len(stream["log"]) : a = stream["log"][j]) => RowsOK /\ BatchOK
    BY DEF OneLine
<1>2. ASSUME NEW r \in Run, Publish(r)
      PROVE  RowsOK /\ BatchOK
  <2>1. PICK p, q, m, c : Publishing(r, p, q, m, c)
      BY <1>0, <1>2, PublishEffect
  <2>2. c \in 1 .. 2 /\ Wrote(r, m, c) /\ p \in Part /\ q \in 1 .. Len(Program[p]) /\ m = Program[p][q]
      BY <2>1 DEF Publishing
  <2>3. m.to \in Stream
      BY <2>2, StepFields
  <2>4. \/ i \in 1 .. Len(stream["log"]) /\ stream'["log"][i] = stream["log"][i]
        \/ "log" = m.to /\ \E k \in 1 .. c : /\ i = Len(stream["log"]) + k
                                             /\ stream'["log"][i] = NewMessage(r, m, nextId["log"] + k - 1)
    <3>1. PICK s \in Stream : s = "log"
        BY <1>0
    <3>2. \/ i \in 1 .. Len(stream[s]) /\ stream'[s][i] = stream[s][i]
          \/ s = m.to /\ \E k \in 1 .. c : /\ i = Len(stream[s]) + k
                                           /\ stream'[s][i] = NewMessage(r, m, nextId[s] + k - 1)
      <4>1. Types /\ c \in 1 .. 2 /\ Wrote(r, m, c) /\ i \in 1 .. Len(stream'[s])
          BY <1>0, <2>2, <3>1
      <4> QED
          BY <2>3, <4>1, WroteAt, SMTT(30)
    <3> QED
        BY <3>1, <3>2
  <2>5. CASE i \in 1 .. Len(stream["log"]) /\ stream'["log"][i] = stream["log"][i]
      BY <1>1, <2>5
  <2>6. ASSUME NEW k \in 1 .. c, a = NewMessage(r, m, nextId["log"] + k - 1)
        PROVE  RowsOK /\ BatchOK
    <3>1. a.id = nextId["log"] + k - 1
        BY <2>6 DEF NewMessage
    <3>2. a.id >= nextId["log"] /\ a.id \in Nat
        BY <1>0, <2>2, <3>1
    <3>3. \A h \in 1 .. Len(rows) : rows[h].id # a.id
      <4>1. \A h \in 1 .. Len(rows) : rows[h].id \in Nat /\ rows[h].id < nextId["log"]
          BY <1>0, RowFields DEF RowsKnown
      <4> QED
          BY <1>0, <3>2, <4>1
    <3>4. \A h \in 1 .. Len(batch["log"]) : batch["log"][h].id # a.id
      <4>1. /\ last_ids["log"] < nextId["log"] /\ Len(batch["log"]) <= last_ids["log"]
            /\ \A h \in 1 .. Len(batch["log"]) : batch["log"][h].id = last_ids["log"] - Len(batch["log"]) + h
          BY <1>0 DEF Ids
      <4>2. PICK B \in Nat : B = Len(batch["log"])
          BY <1>0
      <4>3. \A h \in 1 .. B : last_ids["log"] - B + h <= last_ids["log"] /\ last_ids["log"] - B + h \in Int
          BY <1>0
      <4> QED
          BY <1>0, <3>2, <4>1, <4>2, <4>3, SMTT(60)
    <3> QED
        BY <3>3, <3>4
  <2> QED
      BY <2>4, <2>5, <2>6
<1>3. RowsOK /\ BatchOK
  <2>1. CASE UNCHANGED <<stream, nextId, lines>>
      BY <1>1, <2>1
  <2>2. CASE stream' = [s \in Stream |-> << >>]
      BY <1>0, <2>2
  <2> QED
      BY <1>2, <2>1, <2>2, Frames
<1>4. \A k \in 1 .. Len(rows') : rows'[k].id = a.id => rows'[k].run = a.run /\ rows'[k].line = a.line
  <2>1. CASE HandleLog
    <3>1. ASSUME NEW k \in 1 .. Len(rows'), rows'[k].id = a.id PROVE rows'[k].run = a.run /\ rows'[k].line = a.line
      <4>1. CASE k \in 1 .. Len(rows)
        <5>1. rows'[k] = rows[k]
            BY <1>0, <2>1, <4>1, RowsGrow
        <5> QED
            BY <1>3, <3>1, <4>1, <5>1
      <4>2. ASSUME NEW h \in 1 .. Len(batch["log"]), k = Len(rows) + h
            PROVE  rows'[k].run = a.run /\ rows'[k].line = a.line
        <5>1. rows'[k] = NewRow(h)
            BY <1>0, <2>1, <4>2, RowsGrow
        <5>2. /\ rows'[k].id = batch["log"][h].id /\ rows'[k].run = batch["log"][h].run
              /\ rows'[k].line = batch["log"][h].line
            BY <5>1 DEF NewRow
        <5> QED
            BY <1>3, <3>1, <5>2
      <4> QED
          BY <1>0, <2>1, <4>1, <4>2, RowsGrow
    <3> QED
        BY <3>1
  <2>2. CASE rows' = rows
      BY <1>3, <2>2
  <2> QED
      BY <2>1, <2>2, Frames
<1>5. \A k \in 1 .. Len(batch'["log"]) : batch'["log"][k].id = a.id =>
          batch'["log"][k].run = a.run /\ batch'["log"][k].line = a.line
  <2>1. CASE batch'["log"] = batch["log"]
      BY <1>3, <2>1
  <2>2. CASE batch'["log"] = << >>
      BY <2>2
  <2>3. CASE WatcherRead /\ batch'["log"] = FirstOf("log")
    <3>1. stream' = stream
        BY <2>3 DEF WatcherRead, redisVars
    <3>2. PICK n \in 0 .. Len(stream["log"]) :
              /\ n + Len(FirstOf("log")) <= Len(stream["log"]) /\ Len(FirstOf("log")) \in Nat
              /\ \A k \in 1 .. Len(FirstOf("log")) : FirstOf("log")[k] = stream["log"][n + k]
        BY <1>0, ReadFacts
    <3>3. Len(stream["log"]) \in Nat
        BY <1>0, LenProperties DEF Types
    <3>4. ASSUME NEW k \in 1 .. Len(batch'["log"]), batch'["log"][k].id = a.id
          PROVE  batch'["log"][k] = a
      <4>1. n + k \in 1 .. Len(stream["log"]) /\ batch'["log"][k] = stream["log"][n + k]
          BY <2>3, <3>2, <3>3
      <4>2. i \in 1 .. Len(stream["log"]) /\ a = stream["log"][i]
          BY <3>1
      <4>3. n + k = i
          BY <1>0, <3>4, <4>1, <4>2, LogIdsUnique, SMTT(60)
      <4> QED
          BY <4>1, <4>2, <4>3
    <3> QED
        BY <3>4
  <2>4. CASE HandleStatus \/ HandleOutput
    <3>1. batch'["log"] = batch["log"]
        BY <1>0, <2>4 DEF HandleStatus, HandleOutput, Take, Types
    <3> QED
        BY <2>1, <3>1
  <2>5. CASE HandleLog \/ WriteFile \/ SaveOutput
    <3>1. batch'["log"] = batch["log"] \/ batch'["log"] = << >>
        BY <1>0, <2>5 DEF HandleLog, WriteFile, SaveOutput, Types
    <3> QED
        BY <2>1, <2>2, <3>1
  <2>6. CASE WatcherRead
      BY <1>0, <2>3, <2>6 DEF WatcherRead
  <2>7. CASE UNCHANGED <<wpc, last_ids, batch, log_seq, output_state, watchers>>
      BY <2>1, <2>7
  <2>8. CASE batch' = [s \in Stream |-> << >>]
      BY <1>0, <2>2, <2>8
  <2> QED
      BY <2>4, <2>5, <2>6, <2>7, <2>8, Frames
<1> QED
    BY <1>4, <1>5

(* An XREAD takes the log up to the new last_ids, and all of it unless it  *)
(* leaves some behind.                                                     *)
LEMMA LogRead ==
    ASSUME Types, Ids, WatcherRead, NEW j \in 1 .. Len(stream["log"]), NEW a, a = stream["log"][j]
    PROVE  /\ a.id <= last_ids'["log"] => a.id <= last_ids["log"] \/ InBatch(a.run, a.line)'
           /\ ~behind' => a.id <= last_ids'["log"]
<1>1. PICK s \in Stream : s = "log"
    BY DEF Stream
<1>2. /\ batch'[s] = FirstOf(s) /\ last_ids'[s] = IdAfter(s) /\ (behind' <=> Len(Unread(s)) > WatchBatch)
    BY <1>1 DEF WatcherRead
<1>3. PICK L \in Nat, K \in Nat : L = Len(stream[s]) /\ K = last_ids[s]
    BY LenProperties DEF Types
<1>4. PICK n \in 0 .. Len(stream[s]) :
          /\ \A i \in 1 .. Len(stream[s]) : i <= n <=> stream[s][i].id <= last_ids[s]
          /\ Len(Unread(s)) = Len(stream[s]) - n
          /\ n + Len(FirstOf(s)) <= Len(stream[s]) /\ Len(FirstOf(s)) \in Nat
          /\ Len(Unread(s)) <= WatchBatch => n + Len(FirstOf(s)) = Len(stream[s])
          /\ \A i \in 1 .. Len(FirstOf(s)) : FirstOf(s)[i] = stream[s][n + i]
          /\ IdAfter(s) = IF Len(FirstOf(s)) = 0 THEN last_ids[s] ELSE stream[s][n + Len(FirstOf(s))].id
    BY ReadFacts
<1>5. PICK F \in Nat : F = Len(FirstOf(s))
    BY <1>4
<1>6. n \in 0 .. L /\ n + F <= L /\ j \in 1 .. L /\ j \in Nat
    BY <1>1, <1>3, <1>4, <1>5
<1>7. a.id \in Nat /\ (j <= n <=> a.id <= K)
    BY <1>1, <1>3, <1>4, LogIdsUnique
<1>8. /\ F = 0 => last_ids'[s] = K
      /\ F # 0 => /\ n + F \in 1 .. L /\ last_ids'[s] = stream[s][n + F].id /\ last_ids'[s] \in Nat
                  /\ j <= n + F <=> a.id <= last_ids'[s]
  <2>1. F = 0 => last_ids'[s] = K
      BY <1>2, <1>3, <1>4, <1>5
  <2>2. ASSUME F # 0
        PROVE  /\ n + F \in 1 .. L /\ last_ids'[s] = stream[s][n + F].id /\ last_ids'[s] \in Nat
               /\ j <= n + F <=> a.id <= last_ids'[s]
    <3>1. n + F \in 1 .. L /\ n + F \in 1 .. Len(stream[s]) /\ j \in 1 .. Len(stream[s])
        BY <1>3, <1>6, <2>2
    <3>2. last_ids'[s] = stream[s][n + F].id
        BY <1>2, <1>4, <1>5, <2>2
    <3>3. /\ stream[s][n + F].id < stream[s][j].id <=> n + F < j
          /\ stream[s][n + F].id \in Nat
        BY <3>1, LogIdsUnique
    <3>4. (stream[s][n + F].id < a.id <=> n + F < j) /\ stream[s][n + F].id \in Nat
        BY <1>1, <3>3
    <3>5. PICK x \in Nat, y \in Nat : x = stream[s][n + F].id /\ y = a.id
        BY <1>7, <3>4
    <3>6. (x < y <=> n + F < j) => (j <= n + F <=> y <= x)
        BY <1>6
    <3> QED
        BY <3>1, <3>2, <3>4, <3>5, <3>6
  <2> QED
      BY <2>1, <2>2
<1>9. ASSUME a.id <= last_ids'[s], ~(a.id <= K) PROVE InBatch(a.run, a.line)'
  <2>1. F # 0 /\ n < j /\ j <= n + F
      BY <1>6, <1>7, <1>8, <1>9
  <2>2. j - n \in 1 .. F /\ n + (j - n) = j
      BY <1>6, <2>1
  <2>3. PICK k \in 1 .. F : n + k = j
      BY <2>2
  <2>4. FirstOf(s)[k] = stream[s][n + k]
      BY <1>4, <1>5, <2>3
  <2>5. batch'["log"][k] = a /\ k \in 1 .. Len(batch'["log"])
      BY <1>1, <1>2, <1>5, <2>3, <2>4
  <2> QED
      BY <2>5 DEF InBatch
<1>10. ASSUME ~behind' PROVE a.id <= last_ids'[s]
  <2>1. n + F = L
    <3>1. Len(Unread(s)) = L - n /\ ~(L - n > WatchBatch)
        BY <1>2, <1>3, <1>4, <1>10
    <3>2. L - n <= WatchBatch
        BY <1>6, <3>1
    <3> QED
        BY <1>3, <1>4, <1>5, <3>1, <3>2
  <2> QED
      BY <1>6, <1>7, <1>8, <2>1
<1> QED
    BY <1>1, <1>3, <1>9, <1>10

LEMMA LinesKeptStep ==
    ASSUME Core, OneLine, LinesKept, [Next]_vars
    PROVE  LinesKept'
<1>0. Types /\ Ids /\ "log" \in Stream /\ Len(rows) \in Nat /\ Len(batch["log"]) \in Nat
      /\ nextId["log"] \in Nat /\ last_ids["log"] \in Nat /\ lines \in [Run -> Seq(Line)]
    BY LenProperties DEF Core, Stream, Types
<1> SUFFICES ASSUME erased' = {}
             PROVE  /\ \A r \in Run : \A i \in 1 .. Len(lines'[r]) :
                           InStream(r, lines[r][i])' \/ Recorded(r, lines[r][i])'
                    /\ wpc' # "none" => \A i \in 1 .. Len(stream'["log"]) :
                          stream'["log"][i].id <= last_ids'["log"] =>
                              \/ Recorded(stream["log"][i].run, stream["log"][i].line)'
                              \/ InBatch(stream["log"][i].run, stream["log"][i].line)'
    BY DEF LinesKept
<1>1. /\ erased = {}
      /\ \/ erased' = erased
         \/ stream' = [s \in Stream |-> << >>] /\ UnreadLog = {} /\ UNCHANGED <<lines, rows>>
    BY ErasedFrames
<1>2. \A r \in Run : \A i \in 1 .. Len(lines[r]) : InStream(r, lines[r][i]) \/ Recorded(r, lines[r][i])
    BY <1>1 DEF LinesKept
<1>3. wpc # "none" => \A i \in 1 .. Len(stream["log"]) :
          stream["log"][i].id <= last_ids["log"] =>
              \/ Recorded(stream["log"][i].run, stream["log"][i].line)
              \/ InBatch(stream["log"][i].run, stream["log"][i].line)
    BY <1>1 DEF LinesKept
<1>4. \A r, l : Recorded(r, l) => Recorded(r, l)'
    BY <1>0, RecordedKept
<1>5. ASSUME NEW r \in Run, NEW i \in 1 .. Len(lines'[r]), NEW l, l = lines'[r][i]
      PROVE  InStream(r, l)' \/ Recorded(r, l)'
  <2>1. ASSUME UNCHANGED <<stream, lines>> PROVE InStream(r, l)' \/ Recorded(r, l)'
    <3>1. InStream(r, l) \/ Recorded(r, l)
        BY <1>2, <2>1, <1>5
    <3>2. InStream(r, l) => InStream(r, l)'
        BY <2>1 DEF InStream
    <3> QED
        BY <1>4, <3>1, <3>2
  <2>2. ASSUME NEW q \in Run, Publish(q) PROVE InStream(r, l)' \/ Recorded(r, l)'
    <3>1. PICK p, n, m, c : Publishing(q, p, n, m, c)
        BY <1>0, <2>2, PublishEffect
    <3>2. /\ p \in Part /\ n \in 1 .. Len(Program[p]) /\ m = Program[p][n] /\ c \in 1 .. 2 /\ Wrote(q, m, c)
          /\ lines' = IF m.type = "LOG" THEN [lines EXCEPT ![q] = Append(@, m.line)] ELSE lines
        BY <3>1 DEF Publishing
    <3>3. m.to = "log" <=> m.type = "LOG"
        BY <3>2, StepFields
    <3>4. PICK L \in Nat : L = Len(stream["log"])
        BY <1>0, LenProperties DEF Types
    <3>5. ASSUME InStream(r, l) PROVE InStream(r, l)'
      <4>1. PICK k \in 1 .. Len(stream["log"]) : stream["log"][k].run = r /\ stream["log"][k].line = l
          BY <3>5 DEF InStream
      <4>2. k \in 1 .. Len(stream'["log"]) /\ stream'["log"][k] = stream["log"][k]
        <5>1. CASE m.to = "log"
          <6>1. Len(stream'["log"]) = L + c /\ stream'["log"][k] = stream["log"][k]
              BY <3>2, <3>4, <4>1, <5>1 DEF Wrote
          <6>2. k \in 1 .. (L + c)
              BY <3>2, <3>4, <4>1
          <6> QED
              BY <6>1, <6>2
        <5>2. CASE m.to # "log"
            BY <1>0, <3>2, <4>1, <5>2 DEF Wrote
        <5> QED
            BY <5>1, <5>2
      <4> QED
          BY <4>1, <4>2 DEF InStream
    <3>6. CASE i \in 1 .. Len(lines[r]) /\ l = lines[r][i]
        BY <1>2, <1>4, <3>5, <3>6
    <3>7. CASE m.type = "LOG" /\ r = q /\ l = m.line
      <4>1. stream'["log"][L + 1] = NewMessage(q, m, nextId["log"] + 1 - 1) /\ Len(stream'["log"]) = L + c
        <5>1. 1 \in 1 .. c
            BY <3>2
        <5>2. m.to = "log"
            BY <3>3, <3>7
        <5> QED
            BY <3>2, <3>4, <5>1, <5>2 DEF Wrote
      <4>2. L + 1 \in 1 .. (L + c)
          BY <3>2
      <4>3. PICK k : k = L + 1 /\ k \in 1 .. Len(stream'["log"]) /\ stream'["log"][k].run = r /\ stream'["log"][k].line = l
          BY <3>7, <4>1, <4>2 DEF NewMessage
      <4> QED
          BY <4>3 DEF InStream
    <3>8. \/ i \in 1 .. Len(lines[r]) /\ l = lines[r][i]
          \/ m.type = "LOG" /\ r = q /\ l = m.line
      <4>1. CASE lines'[r] = lines[r]
          BY <1>5, <4>1
      <4>2. CASE m.type = "LOG" /\ r = q /\ lines'[r] = Append(lines[r], m.line)
        <5>1. m.line \in Line
          <6>1. m.to = "log" => m.line \in Line
              BY <3>2, StepFields DEF Line
          <6> QED
              BY <3>3, <4>2, <6>1
        <5>2. PICK w \in Seq(Line) : w = lines[r]
            BY <1>0
        <5>3. /\ Len(Append(w, m.line)) = Len(w) + 1 /\ Len(w) \in Nat
              /\ \A k \in 1 .. Len(w) : Append(w, m.line)[k] = w[k]
              /\ Append(w, m.line)[Len(w) + 1] = m.line
            BY <5>1, AppendProperties, LenProperties
        <5>4. i \in 1 .. (Len(w) + 1)
            BY <4>2, <5>2, <5>3
        <5>5. i \in 1 .. Len(w) \/ i = Len(w) + 1
            BY <5>3, <5>4
        <5> QED
            BY <1>5, <4>2, <5>2, <5>3, <5>5
      <4> QED
          BY <1>0, <3>2, <4>1, <4>2
    <3> QED
        BY <3>6, <3>7, <3>8
  <2>3. CASE stream' = [s \in Stream |-> << >>] /\ erased' = erased \cup UnreadLog /\ UNCHANGED <<nextId, lines>>
    <3>1. UnreadLog = {}
        BY <2>3
    <3>2. InStream(r, l) => Recorded(r, l)
      <4> SUFFICES ASSUME InStream(r, l) PROVE Recorded(r, l)
          OBVIOUS
      <4>1. PICK k \in 1 .. Len(stream["log"]) : stream["log"][k].run = r /\ stream["log"][k].line = l
          BY DEF InStream
      <4>2. DOMAIN stream["log"] = 1 .. Len(stream["log"]) /\ DOMAIN rows = 1 .. Len(rows)
          BY <1>0, LenProperties DEF Types
      <4>3. stream["log"][k].id \in {rows[h].id : h \in DOMAIN rows}
          BY <3>1, <4>1, <4>2 DEF UnreadLog
      <4>4. PICK h \in 1 .. Len(rows) : rows[h].id = stream["log"][k].id
          BY <4>2, <4>3
      <4>5. rows[h].run = r /\ rows[h].line = l
          BY <4>1, <4>4 DEF OneLine
      <4> QED
          BY <4>5 DEF Recorded
    <3>3. InStream(r, l) \/ Recorded(r, l)
        BY <1>2, <1>5, <2>3
    <3> QED
        BY <1>4, <3>2, <3>3
  <2> QED
      BY <2>1, <2>2, <2>3, Frames
<1>6. ASSUME wpc' # "none", NEW i \in 1 .. Len(stream'["log"]), NEW a, a = stream'["log"][i], a.id <= last_ids'["log"]
      PROVE  Recorded(a.run, a.line)' \/ InBatch(a.run, a.line)'
  <2>1. ASSUME NEW r \in Run, Publish(r)
        PROVE  UNCHANGED <<batch, last_ids, wpc>> /\ \E j \in 1 .. Len(stream["log"]) : a = stream["log"][j]
    <3>1. PICK p, n, m, c : Publishing(r, p, n, m, c)
        BY <1>0, <2>1, PublishEffect
    <3>2. c \in 1 .. 2 /\ Wrote(r, m, c) /\ p \in Part /\ n \in 1 .. Len(Program[p]) /\ m = Program[p][n]
        BY <3>1 DEF Publishing
    <3>3. m.to \in Stream
        BY <3>2, StepFields
    <3>4. UNCHANGED <<batch, last_ids, wpc>>
        BY <2>1, ErasedFrames
    <3>5. \/ i \in 1 .. Len(stream["log"]) /\ stream'["log"][i] = stream["log"][i]
          \/ "log" = m.to /\ \E k \in 1 .. c : stream'["log"][i] = NewMessage(r, m, nextId["log"] + k - 1)
      <4>1. PICK s \in Stream : s = "log"
          BY <1>0
      <4>2. Types /\ c \in 1 .. 2 /\ Wrote(r, m, c) /\ i \in 1 .. Len(stream'[s])
          BY <1>0, <3>2, <4>1
      <4>3. \/ i \in 1 .. Len(stream[s]) /\ stream'[s][i] = stream[s][i]
            \/ s = m.to /\ \E k \in 1 .. c : /\ i = Len(stream[s]) + k
                                             /\ stream'[s][i] = NewMessage(r, m, nextId[s] + k - 1)
          BY <3>3, <4>2, WroteAt, SMTT(60)
      <4> QED
          BY <4>1, <4>3
    <3>6. ASSUME NEW k \in 1 .. c, a = NewMessage(r, m, nextId["log"] + k - 1) PROVE FALSE
      <4>1. a.id = nextId["log"] + k - 1
          BY <3>6 DEF NewMessage
      <4>2. last_ids["log"] < nextId["log"] /\ a.id <= last_ids["log"]
          BY <1>0, <1>6, <3>4 DEF Ids
      <4>3. k \in Nat /\ k >= 1
          BY <3>2
      <4> QED
          BY <1>0, <4>1, <4>2, <4>3
    <3> QED
        BY <1>6, <3>4, <3>5, <3>6
  <2>2. CASE stream' = [s \in Stream |-> << >>]
      BY <1>0, <1>6, <2>2
  <2>3. ASSUME UNCHANGED <<batch, last_ids, wpc>>, NEW j \in 1 .. Len(stream["log"]), a = stream["log"][j]
        PROVE  Recorded(a.run, a.line)' \/ InBatch(a.run, a.line)'
    <3>1. Recorded(a.run, a.line) \/ InBatch(a.run, a.line)
        BY <1>3, <1>6, <2>3
    <3>2. InBatch(a.run, a.line) => InBatch(a.run, a.line)'
        BY <2>3 DEF InBatch
    <3> QED
        BY <1>4, <3>1, <3>2
  <2>4. ASSUME stream' = stream
        PROVE  Recorded(a.run, a.line)' \/ InBatch(a.run, a.line)'
    <3>0. PICK j \in 1 .. Len(stream["log"]) : a = stream["log"][j]
        BY <1>6, <2>4
    <3>1. CASE UNCHANGED <<wpc, last_ids, batch, log_seq, output_state, watchers>>
        BY <2>3, <3>0, <3>1
    <3>2. CASE last_ids' = [s \in Stream |-> 0]
      <4>1. a.id \in Nat /\ a.id >= 1
          BY <1>0, <3>0, LogIdsUnique
      <4>2. a.id <= 0
          BY <1>0, <1>6, <3>2
      <4> QED
          BY <4>1, <4>2
    <3>3. CASE WatcherRead
      <4>1. wpc # "none" /\ batch["log"] = << >>
          BY <1>0, <3>3 DEF WatcherRead, AllDrained, Drained
      <4>2. ~InBatch(a.run, a.line)
          BY <4>1 DEF InBatch
      <4>3. a.id <= last_ids["log"] \/ InBatch(a.run, a.line)'
          BY <1>0, <1>6, <3>0, <3>3, LogRead
      <4>4. a.id <= last_ids["log"] => Recorded(a.run, a.line)
          BY <1>3, <3>0, <4>1, <4>2
      <4> QED
          BY <1>4, <4>3, <4>4
    <3>4. CASE HandleLog
      <4>1. wpc # "none" /\ last_ids' = last_ids
          BY <3>4 DEF HandleLog
      <4>2. Recorded(a.run, a.line) \/ InBatch(a.run, a.line)
          BY <1>3, <1>6, <3>0, <4>1
      <4>3. InBatch(a.run, a.line) => Recorded(a.run, a.line)'
          BY <1>0, <3>4, RecordedKept
      <4> QED
          BY <1>4, <4>2, <4>3
    <3>5. CASE HandleStatus \/ HandleOutput \/ WriteFile \/ SaveOutput
      <4>1. wpc # "none" /\ last_ids' = last_ids /\ batch'["log"] = batch["log"]
          BY <1>0, <3>5 DEF HandleStatus, HandleOutput, WriteFile, SaveOutput, Take, Types
      <4>2. Recorded(a.run, a.line) \/ InBatch(a.run, a.line)
          BY <1>3, <1>6, <3>0, <4>1
      <4>3. InBatch(a.run, a.line) => InBatch(a.run, a.line)'
          BY <4>1 DEF InBatch
      <4> QED
          BY <1>4, <4>2, <4>3
    <3> QED
        BY <3>1, <3>2, <3>3, <3>4, <3>5, Frames
  <2> QED
      BY <2>1, <2>2, <2>3, <2>4, Frames
<1>7. \A r \in Run : \A i \in 1 .. Len(lines'[r]) : InStream(r, lines[r][i])' \/ Recorded(r, lines[r][i])'
  <2> SUFFICES ASSUME NEW r \in Run, NEW i \in 1 .. Len(lines'[r]), NEW l, l = lines'[r][i]
               PROVE  InStream(r, l)' \/ Recorded(r, l)'
      BY SMTT(60) DEF InStream, Recorded
  <2> QED
      BY <1>5
<1>8. wpc' # "none" => \A i \in 1 .. Len(stream'["log"]) :
          stream'["log"][i].id <= last_ids'["log"] =>
              \/ Recorded(stream["log"][i].run, stream["log"][i].line)'
              \/ InBatch(stream["log"][i].run, stream["log"][i].line)'
  <2> SUFFICES ASSUME wpc' # "none", NEW i \in 1 .. Len(stream'["log"]), NEW a, a = stream'["log"][i],
                      a.id <= last_ids'["log"]
               PROVE  Recorded(a.run, a.line)' \/ InBatch(a.run, a.line)'
      BY DEF InBatch, Recorded
  <2> QED
      BY <1>6
<1> QED
    BY <1>7, <1>8

(* What a run says after its conclusion does not precede it. *)
LEMMA BeforeKept ==
    ASSUME Types, [Next]_vars, NEW r \in Run, NEW t \in Final, Past(r, t), NEW l, l \in Before(r, t)'
    PROVE  l \in Before(r, t)
<1>0. lines \in [Run -> Seq(Line)] /\ Chunks \in Nat
    BY DEF Types
<1>1. l \notin After(t) /\ \E i \in 1 .. Len(lines'[r]) : l = lines'[r][i]
    BY DEF Before, After
<1>2. CASE lines'[r] = lines[r]
    BY <1>1, <1>2 DEF Before
<1>3. ASSUME NEW q \in Run, Publish(q), lines'[r] # lines[r] PROVE l \in Before(r, t)
  <2>1. PICK p, n, m, c : Publishing(q, p, n, m, c)
      BY <1>3, PublishEffect
  <2>2. /\ p \in Part /\ n \in 1 .. Len(Program[p]) /\ m = Program[p][n] /\ part[q] = p /\ pos[q] = n
        /\ lines' = IF m.type = "LOG" THEN [lines EXCEPT ![q] = Append(@, m.line)] ELSE lines
      BY <2>1 DEF Publishing
  <2>3. q = r /\ m.type = "LOG" /\ lines'[r] = Append(lines[r], m.line)
      BY <1>0, <1>3, <2>2
  <2>4. m.to = "log"
      BY <2>2, <2>3, StepFields
  <2>5. \/ p = "prepare" /\ m.line = "progress"
        \/ p = "give_up" /\ n = 2 /\ m.line = "giving_up"
        \/ p = "body" /\ n = Chunks + 4 /\ m.line = "output_sent"
        \/ p = "except" /\ n = 1 /\ m.line = "task_failed"
      BY <2>2, <2>4, StepFields
  <2>6. m.line \in After(t) /\ m.line \in Line
    <3>1. \/ t = "DATA_END" /\ (p = "except" \/ (p = "body" /\ n > Chunks + 3))
          \/ t = "TRANSFER_FAILED" /\ p = "give_up" /\ n > 1
          \/ t = "TASK_FAILED" /\ p = "except" /\ n > 2
        BY <2>2, <2>3 DEF Past, Part
    <3> QED
        BY <2>5, <3>1 DEF After, Line
  <2>7. PICK w \in Seq(Line) : w = lines[r]
      BY <1>0
  <2>8. /\ Len(Append(w, m.line)) = Len(w) + 1 /\ Len(w) \in Nat
        /\ \A k \in 1 .. Len(w) : Append(w, m.line)[k] = w[k]
        /\ Append(w, m.line)[Len(w) + 1] = m.line
      BY <2>6, AppendProperties, LenProperties
  <2>9. \A i \in 1 .. (Len(w) + 1) : i \in 1 .. Len(w) \/ i = Len(w) + 1
      BY <2>8
  <2>10. PICK i \in 1 .. (Len(w) + 1) : l = lines'[r][i]
      BY <1>1, <2>3, <2>7, <2>8
  <2>11. l = m.line \/ (i \in 1 .. Len(w) /\ l = w[i])
      BY <2>3, <2>7, <2>8, <2>9, <2>10
  <2>12. i \in 1 .. Len(w) /\ l = w[i]
      BY <1>1, <2>6, <2>11
  <2> QED
      BY <1>1, <2>7, <2>12 DEF Before
<1> QED
    BY <1>2, <1>3, Frames

LEMMA BatchLoggedStep ==
    ASSUME Core, Storing, Concluded, LinesKept, BatchLogged, [Next]_vars
    PROVE  BatchLogged'
<1>0. Types /\ Ids /\ Batches /\ Streams /\ "log" \in Stream /\ "status" \in Stream /\ "output" \in Stream
      /\ lines \in [Run -> Seq(Line)]
    BY DEF Core, Stream, Types
<1> SUFFICES ASSUME erased' = {}, ~behind'
             PROVE  (/\ wpc # "none" => \A s \in Stream : \A i \in 1 .. Len(batch[s]) : batch[s][i].type \in Final =>
                           \A l \in Before(batch[s][i].run, batch[s][i].type) :
                               Recorded(batch[s][i].run, l) \/ InBatch(batch[s][i].run, l)
                     /\ wpc \in {"write", "save"} =>
                           \A l \in Before(output_state.run, "DATA_END") : Recorded(output_state.run, l)
                     /\ Terminal => \A l \in Before(verdict.run, verdict.type) : Recorded(verdict.run, l))'
    BY DEF BatchLogged
<1>1. erased = {} /\ (behind' = behind \/ WatcherRead)
    BY ErasedFrames
<1>2. \A r, l : Recorded(r, l) => Recorded(r, l)'
    BY <1>0, RecordedKept
<1>3. ASSUME NEW r \in Run, NEW t \in Final, Past(r, t),
             \A l \in Before(r, t) : Recorded(r, l) \/ Recorded(r, l)'
      PROVE  \A l \in Before(r, t)' : Recorded(r, l)'
  <2> TAKE l \in Before(r, t)'
  <2>1. l \in Before(r, t)
      BY <1>0, <1>3, BeforeKept
  <2> QED
      BY <1>2, <1>3, <2>1
<1>4. ASSUME wpc' # "none", NEW s \in Stream, NEW i \in 1 .. Len(batch'[s]), NEW a, a = batch'[s][i], a.type \in Final
      PROVE  \A l \in Before(a.run, a.type)' : Recorded(a.run, l)' \/ InBatch(a.run, l)'
  <2>1. ASSUME Published(s, a), \A l \in Before(a.run, a.type) : Recorded(a.run, l)' \/ InBatch(a.run, l)'
        PROVE  \A l \in Before(a.run, a.type)' : Recorded(a.run, l)' \/ InBatch(a.run, l)'
    <3>1. a.run \in Run /\ Past(a.run, a.type)
        BY <1>4, <2>1 DEF Published, Message
    <3> TAKE l \in Before(a.run, a.type)'
    <3>2. PICK r, t : r = a.run /\ t = a.type
        OBVIOUS
    <3>3. l \in Before(r, t)' /\ r \in Run /\ t \in Final /\ Past(r, t)
        BY <1>4, <3>1, <3>2
    <3>4. l \in Before(r, t)
        BY <1>0, <3>3, BeforeKept
    <3> QED
        BY <2>1, <3>2, <3>4
  <2>2. ASSUME WatcherRead
        PROVE  \A l \in Before(a.run, a.type)' : Recorded(a.run, l)' \/ InBatch(a.run, l)'
    <3>1. wpc # "none" /\ batch["log"] = << >> /\ batch'[s] = FirstOf(s)
        BY <1>0, <2>2 DEF WatcherRead, AllDrained, Drained
    <3>2. PICK n \in 0 .. Len(stream[s]) :
              /\ n + Len(FirstOf(s)) <= Len(stream[s]) /\ Len(FirstOf(s)) \in Nat
              /\ \A k \in 1 .. Len(FirstOf(s)) : FirstOf(s)[k] = stream[s][n + k]
        BY <1>0, ReadFacts
    <3>3. Published(s, a)
      <4>1. Len(stream[s]) \in Nat
          BY <1>0, LenProperties DEF Types
      <4>2. n + i \in 1 .. Len(stream[s]) /\ a = stream[s][n + i]
          BY <1>4, <3>1, <3>2, <4>1
      <4> QED
          BY <1>0, <4>2 DEF Streams
    <3>4. a.run \in Run
        BY <3>3 DEF Published, Message
    <3>5. ASSUME NEW l \in Before(a.run, a.type)
          PROVE  Recorded(a.run, l)' \/ InBatch(a.run, l)'
      <4>1. PICK k \in 1 .. Len(lines[a.run]) : l = lines[a.run][k]
          BY <3>5 DEF Before
      <4>2. InStream(a.run, l) \/ Recorded(a.run, l)
          BY <1>1, <3>4, <4>1 DEF LinesKept
      <4>3. ASSUME InStream(a.run, l) PROVE Recorded(a.run, l)' \/ InBatch(a.run, l)'
        <5>1. PICK j \in 1 .. Len(stream["log"]) : stream["log"][j].run = a.run /\ stream["log"][j].line = l
            BY <4>3 DEF InStream
        <5>2. PICK b : b = stream["log"][j]
            OBVIOUS
        <5>3. b.id <= last_ids'["log"] /\ (b.id <= last_ids["log"] \/ InBatch(b.run, b.line)')
            BY <1>0, <2>2, <5>1, <5>2, LogRead
        <5>4. b.id <= last_ids["log"] => Recorded(b.run, b.line) \/ InBatch(b.run, b.line)
            BY <1>1, <3>1, <5>2 DEF LinesKept
        <5>5. ~InBatch(b.run, b.line)
            BY <3>1 DEF InBatch
        <5>6. b.run = a.run /\ b.line = l
            BY <5>1, <5>2
        <5>7. InBatch(b.run, b.line)' => InBatch(a.run, l)'
            BY <5>6 DEF InBatch
        <5> QED
            BY <1>2, <5>3, <5>4, <5>5, <5>6, <5>7
      <4> QED
          BY <1>2, <4>2, <4>3
    <3> QED
        BY <2>1, <3>3, <3>5
  <2>3. ASSUME ~WatcherRead, wpc # "none", NEW j \in 1 .. Len(batch[s]), a = batch[s][j],
               batch'["log"] = batch["log"] \/ HandleLog
        PROVE  \A l \in Before(a.run, a.type)' : Recorded(a.run, l)' \/ InBatch(a.run, l)'
    <3>1. Published(s, a)
        BY <1>0, <2>3 DEF Batches
    <3>2. ~behind
        BY <1>1, <2>3
    <3>3. \A l \in Before(a.run, a.type) : Recorded(a.run, l) \/ InBatch(a.run, l)
        BY <1>1, <1>4, <2>3, <3>2 DEF BatchLogged
    <3>4. ASSUME NEW l, InBatch(a.run, l) PROVE Recorded(a.run, l)' \/ InBatch(a.run, l)'
      <4>1. CASE HandleLog
          BY <1>0, <3>4, <4>1, RecordedKept
      <4>2. CASE batch'["log"] = batch["log"]
          BY <3>4, <4>2 DEF InBatch
      <4> QED
          BY <2>3, <4>1, <4>2
    <3> QED
        BY <1>2, <2>1, <3>1, <3>3, <3>4
  <2>4. CASE UNCHANGED <<wpc, last_ids, batch, log_seq, output_state, watchers>> /\ ~WatcherRead
      BY <1>4, <2>3, <2>4
  <2>5. CASE batch' = [x \in Stream |-> << >>]
      BY <1>4, <2>5
  <2>6. CASE HandleLog
    <3>1. s # "log" /\ batch'[s] = batch[s] /\ wpc # "none" /\ ~WatcherRead
      <4>1. batch' = [batch EXCEPT !["log"] = << >>] /\ wpc # "none" /\ batch["log"] # << >>
          BY <2>6 DEF HandleLog, Drained
      <4>2. ~WatcherRead
          BY <1>0, <4>1 DEF WatcherRead, AllDrained, Drained
      <4> QED
          BY <1>0, <1>4, <4>1, <4>2 DEF Types
    <3> QED
        BY <1>4, <2>3, <2>6, <3>1
  <2>7. ASSUME NEW x \in Stream, x # "log", batch[x] # << >>, Take(x), wpc # "none"
        PROVE  \A l \in Before(a.run, a.type)' : Recorded(a.run, l)' \/ InBatch(a.run, l)'
    <3>1. batch'["log"] = batch["log"] /\ ~WatcherRead
      <4>1. ~WatcherRead
          BY <2>7 DEF WatcherRead, AllDrained, Drained
      <4> QED
          BY <1>0, <2>7, <4>1, TakeFacts
    <3>2. \E j \in 1 .. Len(batch[s]) : a = batch[s][j]
      <4>1. CASE s = x
          BY <1>0, <1>4, <2>7, <4>1, TakeFacts
      <4>2. CASE s # x
        <5>1. batch'[s] = batch[s]
            BY <1>0, <2>7, <4>2, TakeFacts
        <5> QED
            BY <1>4, <5>1
      <4> QED
          BY <4>1, <4>2
    <3> QED
        BY <2>3, <2>7, <3>1, <3>2
  <2>8. CASE HandleStatus
    <3>1. "status" # "log" /\ batch["status"] # << >> /\ Take("status") /\ wpc # "none"
        BY <2>8 DEF HandleStatus, Drained
    <3> QED
        BY <1>0, <2>7, <3>1
  <2>9. CASE HandleOutput
    <3>1. "output" # "log" /\ batch["output"] # << >> /\ Take("output") /\ wpc # "none"
        BY <2>9 DEF HandleOutput, Drained
    <3> QED
        BY <1>0, <2>7, <3>1
  <2>10. CASE WriteFile \/ SaveOutput
    <3>1. batch' = batch /\ wpc \in {"write", "save"}
        BY <2>10 DEF WriteFile, SaveOutput
    <3>2. ~WatcherRead
        BY <3>1 DEF WatcherRead
    <3> QED
        BY <1>4, <2>3, <3>1, <3>2
  <2> QED
      BY <2>2, <2>4, <2>5, <2>6, <2>8, <2>9, <2>10, Frames
(* What the watcher takes after the log: all that precedes it has a row. *)
<1>5. ASSUME NEW s \in Stream, wpc = "loop", batch["log"] = << >>, batch[s] # << >>, NEW m, m = Head(batch[s]),
             m.type \in Final, ~WatcherRead
      PROVE  /\ m.run \in Run /\ Past(m.run, m.type) /\ \A l \in Before(m.run, m.type) : Recorded(m.run, l)
  <2>1. Published(s, m) /\ m = batch[s][1] /\ 1 \in 1 .. Len(batch[s])
      BY <1>0, <1>5, HeadPublished
  <2>2. m.run \in Run /\ Past(m.run, m.type)
      BY <1>5, <2>1 DEF Published, Message
  <2>3. \A l \in Before(m.run, m.type) : Recorded(m.run, l) \/ InBatch(m.run, l)
    <3>1. batch[s][1].type \in Final => \A l \in Before(batch[s][1].run, batch[s][1].type) :
                               Recorded(batch[s][1].run, l) \/ InBatch(batch[s][1].run, l)
        BY <1>1, <1>5, <2>1 DEF BatchLogged
    <3> QED
        BY <1>5, <2>1, <3>1
  <2>4. \A l : ~InBatch(m.run, l)
      BY <1>5 DEF InBatch
  <2> QED
      BY <2>2, <2>3, <2>4
<1>6. ASSUME wpc' \in {"write", "save"}, NEW st, st = output_state'
      PROVE  \A l \in Before(st.run, "DATA_END")' : Recorded(st.run, l)'
  <2>0. "DATA_END" \in Final
      BY DEF Final
  <2>1. CASE HandleOutput
    <3>1. PICK m : m = Head(batch["output"])
        OBVIOUS
    <3>2. wpc = "loop" /\ batch["log"] = << >> /\ batch["output"] # << >>
        BY <2>1 DEF HandleOutput, Drained
    <3>3. m.type = "DATA_END" /\ m.run = st.run
        BY <1>6, <2>1, <3>1, <3>2 DEF HandleOutput
    <3>4. ~WatcherRead
        BY <1>0, <3>2 DEF WatcherRead, AllDrained, Drained
    <3>5. m.run \in Run /\ Past(m.run, m.type) /\ \A l \in Before(m.run, m.type) : Recorded(m.run, l)
        BY <1>0, <1>5, <2>0, <3>1, <3>2, <3>3, <3>4
    <3> QED
        BY <1>3, <2>0, <3>3, <3>5
  <2>2. CASE wpc \in {"write", "save"} /\ output_state' = output_state /\ ~WatcherRead
    <3>1. st.run \in Run /\ Past(st.run, "DATA_END")
        BY <1>6, <2>2 DEF Storing
    <3>2. \A l \in Before(st.run, "DATA_END") : Recorded(st.run, l)
        BY <1>1, <1>6, <2>2 DEF BatchLogged
    <3>3. PICK r : r = st.run
        OBVIOUS
    <3> QED
        BY <1>3, <2>0, <3>1, <3>2, <3>3
  <2>3. /\ WriteFile => wpc \in {"write", "save"} /\ output_state' = output_state
        /\ ~WatcherRead /\ ~HandleLog /\ ~HandleStatus /\ ~SaveOutput
      BY <1>6 DEF WriteFile, WatcherRead, HandleLog, HandleStatus, SaveOutput
  <2> QED
      BY <1>6, <2>1, <2>2, <2>3, Frames
<1>7. ASSUME Terminal', NEW v, v = verdict'
      PROVE  \A l \in Before(v.run, v.type)' : Recorded(v.run, l)'
  <2>1. CASE UNCHANGED <<status, verdict>>
    <3>1. Terminal /\ v = verdict
        BY <1>7, <2>1 DEF Terminal
    <3>2. v.run \in Run /\ v.type \in Final /\ Past(v.run, v.type) /\ ~WatcherRead
        BY <3>1 DEF Concluded, WatcherRead
    <3>3. \A l \in Before(v.run, v.type) : Recorded(v.run, l)
        BY <1>1, <3>1, <3>2 DEF BatchLogged
    <3>4. PICK r, t : r = v.run /\ t = v.type
        OBVIOUS
    <3> QED
        BY <1>3, <3>2, <3>3, <3>4
  <2>2. ASSUME NEW s \in Stream, wpc = "loop", batch["log"] = << >>, batch[s] # << >>, NEW m, m = Head(batch[s]),
               m.type \in Final, v.run = m.run, v.type = m.type
        PROVE  \A l \in Before(v.run, v.type)' : Recorded(v.run, l)'
    <3>1. ~WatcherRead
        BY <2>2 DEF WatcherRead, AllDrained, Drained
    <3>2. m.run \in Run /\ Past(m.run, m.type) /\ \A l \in Before(m.run, m.type) : Recorded(m.run, l)
        BY <1>5, <2>2, <3>1
    <3>3. PICK r, t : r = m.run /\ t = m.type
        OBVIOUS
    <3> QED
        BY <1>3, <2>2, <3>2, <3>3
  <2>3. CASE HandleStatus /\ ~UNCHANGED <<status, verdict>>
    <3>1. PICK m : m = Head(batch["status"])
        OBVIOUS
    <3>2. wpc = "loop" /\ batch["log"] = << >> /\ batch["status"] # << >>
        BY <2>3 DEF HandleStatus, Drained
    <3>3. /\ m.type \in DOMAIN STATUS_MAPPING /\ status' = STATUS_MAPPING[m.type]
          /\ verdict' = [run |-> m.run, type |-> m.type]
        BY <2>3, <3>1 DEF HandleStatus
    <3>4. m.type \in Final
        BY <1>7, <3>3 DEF Terminal, STATUS_MAPPING, TERMINAL_STATUSES, Final
    <3> QED
        BY <1>0, <1>7, <2>2, <3>1, <3>2, <3>3, <3>4
  <2>4. CASE HandleOutput /\ ~UNCHANGED <<status, verdict>>
    <3>1. PICK m, st : m = Head(batch["output"]) /\ st = output_state
        OBVIOUS
    <3>2. wpc = "loop" /\ batch["log"] = << >> /\ batch["output"] # << >>
        BY <2>4 DEF HandleOutput, Drained
    <3>3. m.type = "DATA_END" /\ m.run = st.run /\ verdict' = [run |-> st.run, type |-> "DATA_END"]
        BY <2>4, <3>1 DEF HandleOutput
    <3>4. m.type \in Final /\ v.run = m.run /\ v.type = m.type
        BY <1>7, <3>3 DEF Final
    <3> QED
        BY <1>0, <2>2, <3>1, <3>2, <3>4
  <2>5. CASE SaveOutput
    <3>1. PICK st : st = output_state
        OBVIOUS
    <3>2. wpc = "save" /\ verdict' = [run |-> st.run, type |-> "DATA_END"]
        BY <2>5, <3>1 DEF SaveOutput
    <3>3. ~WatcherRead
        BY <3>2 DEF WatcherRead
    <3>4. st.run \in Run /\ Past(st.run, "DATA_END") /\ "DATA_END" \in Final
        BY <3>1, <3>2 DEF Storing, Final
    <3>5. \A l \in Before(st.run, "DATA_END") : Recorded(st.run, l)
        BY <1>1, <3>1, <3>2, <3>3 DEF BatchLogged
    <3>6. v.run = st.run /\ v.type = "DATA_END"
        BY <1>7, <3>2
    <3>7. PICK r : r = st.run
        OBVIOUS
    <3> QED
        BY <1>3, <3>4, <3>5, <3>6, <3>7
  <2> QED
      BY <2>1, <2>3, <2>4, <2>5, Frames
<1>8. wpc' # "none" => \A s \in Stream : \A i \in 1 .. Len(batch'[s]) : batch'[s][i].type \in Final =>
          \A l \in Before(batch[s][i].run, batch[s][i].type)' :
              Recorded(batch[s][i].run, l)' \/ InBatch(batch[s][i].run, l)'
  <2> SUFFICES ASSUME wpc' # "none", NEW s \in Stream, NEW i \in 1 .. Len(batch'[s]), batch'[s][i].type \in Final,
                      NEW l \in Before(batch[s][i].run, batch[s][i].type)'
               PROVE  Recorded(batch[s][i].run, l)' \/ InBatch(batch[s][i].run, l)'
      OBVIOUS
  <2>1. PICK a : a = batch'[s][i]
      OBVIOUS
  <2>2. l \in Before(a.run, a.type)'
      BY <2>1 DEF Before, After
  <2>3. Recorded(a.run, l)' \/ InBatch(a.run, l)'
      BY <1>4, <2>1, <2>2
  <2> QED
      BY <2>1, <2>3 DEF Recorded, InBatch
<1>9. wpc' \in {"write", "save"} => \A l \in Before(output_state.run, "DATA_END")' : Recorded(output_state.run, l)'
  <2> SUFFICES ASSUME wpc' \in {"write", "save"}, NEW st, st = output_state'
               PROVE  \A l \in Before(st.run, "DATA_END")' : Recorded(st.run, l)'
      BY DEF Before, After, Recorded
  <2> QED
      BY <1>6
<1>10. Terminal' => \A l \in Before(verdict.run, verdict.type)' : Recorded(verdict.run, l)'
  <2> SUFFICES ASSUME Terminal', NEW v, v = verdict'
               PROVE  \A l \in Before(v.run, v.type)' : Recorded(v.run, l)'
      BY DEF Before, After, Recorded
  <2> QED
      BY <1>7
<1> QED
    BY <1>8, <1>9, <1>10

(* Whoever finds a terminal status finds the lines that preceded it.       *)
(* LinesKept, OneLine and BatchLogged make it inductive: no published line *)
(* is ever neither in Redis, nor with the watcher, nor a row, and what an  *)
(* XREAD returns with a conclusion has the lines before it.                *)
THEOREM ConclusionIsLogged == Spec => []ConcludedIsLogged
<1> DEFINE LogInv == /\ Storing /\ Concluded /\ RowsKnown /\ RowsInOrder
                     /\ OneLine /\ LinesKept /\ BatchLogged
<1>1. Init => LogInv
  <2> SUFFICES ASSUME Init PROVE LogInv
      OBVIOUS
  <2>1. ~Terminal /\ wpc = "none"
      BY DEF Init, Terminal, TERMINAL_STATUSES
  <2>2. Storing /\ Concluded /\ BatchLogged
      BY <2>1 DEF Storing, Concluded, BatchLogged
  <2>3. RowsKnown /\ RowsInOrder
      BY DEF Init, RowsKnown, RowsInOrder
  <2>4. \A s \in Stream : Len(stream[s]) = 0
      BY DEF Init
  <2>5. \A r \in Run : Len(lines[r]) = 0
      BY DEF Init
  <2>6. OneLine
      BY <2>4 DEF OneLine, Stream
  <2>7. LinesKept
      BY <2>1, <2>5 DEF LinesKept
  <2> QED
      BY <2>2, <2>3, <2>6, <2>7
<1>2. Core /\ LogInv /\ [Next]_vars => LogInv'
    BY StoringStep, ConcludedStep, RowsStep, OneLineStep, LinesKeptStep, BatchLoggedStep
<1>3. Core /\ LogInv => ConcludedIsLogged
  <2> SUFFICES ASSUME Core, LogInv, Terminal, ~behind, erased = {}, NEW l \in Preceding(verdict)
               PROVE  \E i \in DOMAIN rows : rows[i].run = verdict.run /\ rows[i].line = l
      BY DEF ConcludedIsLogged
  <2>1. verdict.run \in Run /\ lines \in [Run -> Seq(Line)] /\ DOMAIN rows = 1 .. Len(rows)
      BY LenProperties DEF Core, Types, Concluded
  <2>2. DOMAIN lines[verdict.run] = 1 .. Len(lines[verdict.run])
      BY <2>1, LenProperties
  <2>3. l \in Before(verdict.run, verdict.type)
      BY <2>2 DEF Preceding, Before
  <2>4. Recorded(verdict.run, l)
      BY <2>3 DEF BatchLogged
  <2> QED
      BY <2>1, <2>4 DEF Recorded
<1> QED
    BY <1>1, <1>2, <1>3, CoreHolds, PTL DEF Spec

-----------------------------------------------------------------------------
(* The output.                                                             *)

(* The i-th message of stream Q is the one of rank n of run r. *)
At(Q, r, i, n) == Q[i].run = r /\ Rank(Q[i]) = n

(* The output of a run goes through the stream in the order of its ranks,  *)
(* each as often as Redis was told, and from DATA_START on without a gap.  *)
Ordered(Q, r, j) ==
    /\ \A i \in 1 .. j : Q[i].run = r => Rank(Q[i]) <= Rank(Q[j])
    /\ \A i \in 1 .. j : At(Q, r, i, 0) => \A n \in 0 .. Rank(Q[j]) : \E k \in i .. j : At(Q, r, k, n)

(* ... and a run at step i of part p has sent what comes before. *)
Sent(Q, r, j, p, i) ==
    /\ p \notin {"idle", "prepare", "give_up"}
    /\ p = "body" => Rank(Q[j]) < i - 2
    /\ p = "body" /\ i <= Chunks + 3 /\ At(Q, r, j, 0) => \E k \in j .. Len(Q) : At(Q, r, k, i - 3)

OutputInOrder ==
    \A r \in Run : \A j \in 1 .. Len(stream["output"]) : stream["output"][j].run = r =>
        Ordered(stream["output"], r, j) /\ Sent(stream["output"], r, j, part[r], pos[r])

(* Unless Redis lost it, what the watcher holds is in the stream. *)
BatchInStream ==
    ~lossy => \A i \in 1 .. Len(batch["output"]) :
        \E k \in 1 .. Len(stream["output"]) : stream["output"][k] = batch["output"][i]

(* From messages with ids up to h the watcher has assembled the first c    *)
(* chunks of a run.                                                        *)
AssembledUpTo(Q, h, st, c) ==
    /\ Len(st.buf) = c /\ \A i \in 1 .. c : st.buf[i] = <<st.run, i - 1>>
    /\ st.seen_seq = 0 .. (c - 1)
    /\ \E i \in 1 .. Len(Q) : Q[i].id <= h /\ At(Q, st.run, i, 0)
    /\ \E i \in 1 .. Len(Q) : Q[i].id <= h /\ At(Q, st.run, i, c)
    /\ \A i \in 1 .. Len(Q) : Q[i].id <= h /\ Q[i].run = st.run => Rank(Q[i]) <= c

Assembly ==
    ~lossy /\ wpc = "loop" /\ output_state.run # NoRun =>
        \E c \in 0 .. Chunks :
            AssembledUpTo(stream["output"], last_ids["output"] - Len(batch["output"]), output_state, c)

LEMMA RankFacts ==
    ASSUME NEW m, Published("output", m)
    PROVE  /\ Rank(m) \in 0 .. (Chunks + 1)
           /\ m.type = "DATA_START" => Rank(m) = 0
           /\ m.type = "DATA_CHUNK" => Rank(m) = m.sequence_no + 1 /\ m.sequence_no \in 0 .. (Chunks - 1)
           /\ m.type = "DATA_END" => Rank(m) = Chunks + 1
           /\ m.type \in OutputType
<1>1. Chunks \in Nat /\ m.type \in OutputType /\ m.sequence_no \in 0 .. Chunks
      /\ (m.type = "DATA_CHUNK" => m.sequence_no < Chunks)
    BY DEF Published, Message
<1> QED
    BY <1>1 DEF Rank, OutputType

(* Where a step takes a run. *)
LEMMA RunMoves ==
    ASSUME Types, [Next]_vars, NEW r \in Run
    PROVE  \/ part'[r] = part[r] /\ pos'[r] = pos[r]
           \/ part[r] \in {"idle", "prepare"} /\ UNCHANGED stream
           \/ part'[r] \in {"except", "over", "dead"} /\ UNCHANGED stream
           \/ Publish(r)
<1> USE DEF vars, runVars, redisVars
<1>1. part \in [Run -> Part \cup {"idle", "over", "dead"}] /\ pos \in [Run -> Nat]
    BY DEF Types
<1>2. ASSUME NEW q \in Run, q # r, Deliver(q) \/ Publish(q) \/ Received(q) \/ Raise(q)
      PROVE  part'[r] = part[r] /\ pos'[r] = pos[r]
    BY <1>1, <1>2 DEF Deliver, Publish, Received, Raise, Goto
<1>3. CASE Deliver(r) \/ Received(r)
    BY <1>3 DEF Deliver, Received
<1>4. CASE Raise(r)
    BY <1>1, <1>4 DEF Raise, Goto
<1>5. CASE WorkerCrash
    BY <1>1, <1>5 DEF WorkerCrash
<1>6. ASSUME \/ DispatcherRead \/ DispatcherCrash \/ DispatcherRestart \/ RedisRestart
             \/ WatcherRead \/ HandleLog \/ HandleStatus \/ HandleOutput \/ WriteFile \/ SaveOutput
             \/ Cleanup \/ WatcherError \/ UNCHANGED vars
      PROVE  UNCHANGED <<part, pos>>
    BY <1>6 DEF DispatcherRead, DispatcherCrash, DispatcherRestart, RedisRestart, WatcherRead, HandleLog,
        HandleStatus, HandleOutput, WriteFile, SaveOutput, Cleanup, WatcherError
<1> QED
    BY <1>2, <1>3, <1>4, <1>5, <1>6 DEF Next

(* Messages added at the end of a stream leave the order before it alone. *)
Longer(Q, T, L, M) ==
    /\ L \in Nat /\ L = Len(Q) /\ M \in Nat /\ M = Len(T) /\ L <= M
    /\ \A i \in 1 .. L : T[i] = Q[i]

LEMMA OrderedKept ==
    ASSUME NEW Q, NEW T, NEW L, NEW M, Longer(Q, T, L, M), NEW r, NEW j \in 1 .. L
    PROVE  /\ Ordered(Q, r, j) => Ordered(T, r, j)
           /\ \A n : (\E k \in j .. L : At(Q, r, k, n)) => \E k \in j .. M : At(T, r, k, n)
           /\ \A n : At(T, r, j, n) <=> At(Q, r, j, n)
<1>1. \A i \in 1 .. L : T[i] = Q[i] /\ Rank(T[i]) = Rank(Q[i]) /\ \A n : At(T, r, i, n) <=> At(Q, r, i, n)
    BY DEF At, Longer
<1>2. 1 .. j \subseteq 1 .. L /\ j .. L \subseteq j .. M /\ j .. L \subseteq 1 .. L
    BY DEF Longer
<1>3. ASSUME Ordered(Q, r, j) PROVE Ordered(T, r, j)
  <2>1. \A i \in 1 .. j : T[i].run = r => Rank(T[i]) <= Rank(T[j])
      BY <1>1, <1>2, <1>3 DEF Ordered
  <2>2. ASSUME NEW i \in 1 .. j, At(T, r, i, 0), NEW n \in 0 .. Rank(T[j]) PROVE \E k \in i .. j : At(T, r, k, n)
    <3>1. At(Q, r, i, 0) /\ n \in 0 .. Rank(Q[j])
        BY <1>1, <1>2, <2>2
    <3>2. PICK k \in i .. j : At(Q, r, k, n)
        BY <1>3, <3>1 DEF Ordered
    <3>3. k \in 1 .. L
        BY DEF Longer
    <3> QED
        BY <1>1, <3>2, <3>3
  <2> QED
      BY <2>1, <2>2 DEF Ordered
<1>4. ASSUME NEW n, NEW k \in j .. L, At(Q, r, k, n) PROVE \E x \in j .. M : At(T, r, x, n)
    BY <1>1, <1>2, <1>4
<1> QED
    BY <1>1, <1>3, <1>4

LEMMA OutputInOrderStep ==
    ASSUME Core, OutputInOrder, [Next]_vars
    PROVE  OutputInOrder'
<1>0. Types /\ Streams /\ "output" \in Stream /\ Chunks \in Nat
    BY DEF Core, Stream
<1> SUFFICES ASSUME NEW r \in Run, NEW T, T = stream'["output"], NEW j \in 1 .. Len(T), T[j].run = r,
                    NEW p2, p2 = part'[r], NEW i2, i2 = pos'[r]
             PROVE  Ordered(T, r, j) /\ Sent(T, r, j, p2, i2)
  <2>1. PICK T : T = stream'["output"]
      OBVIOUS
  <2>2. ASSUME NEW r \in Run, NEW j \in 1 .. Len(T), T[j].run = r
        PROVE  Ordered(T, r, j) /\ Sent(T, r, j, part'[r], pos'[r])
    <3>1. PICK p2, i2 : p2 = part'[r] /\ i2 = pos'[r]
        OBVIOUS
    <3>2. Ordered(T, r, j) /\ Sent(T, r, j, p2, i2)
        BY <2>1, <2>2, <3>1
    <3> QED
        BY <3>1, <3>2
  <2>3. \A r \in Run : \A j \in 1 .. Len(T) : T[j].run = r =>
            Ordered(T, r, j) /\ Sent(T, r, j, part'[r], pos'[r])
      BY <2>2
  <2>4. \A r \in Run : \A j \in 1 .. Len(stream'["output"]) : stream'["output"][j].run = r =>
            Ordered(stream'["output"], r, j) /\ Sent(stream'["output"], r, j, part'[r], pos'[r])
      BY <2>1, <2>3, Zenon
  <2> QED
      BY <2>4, Zenon DEF OutputInOrder
<1>1. PICK Q : Q = stream["output"]
    OBVIOUS
<1>2. PICK L \in Nat : L = Len(Q)
    BY <1>0, <1>1, LenProperties DEF Types
<1>3. PICK p1, i1 : p1 = part[r] /\ i1 = pos[r]
    OBVIOUS
<1>4. i1 \in Nat /\ p1 \in Part \cup {"idle", "over", "dead"}
    BY <1>0, <1>3 DEF Types
<1>5. \A i \in 1 .. L : Q[i].run = r => Ordered(Q, r, i) /\ Sent(Q, r, i, p1, i1)
    BY <1>1, <1>2, <1>3 DEF OutputInOrder
<1>6. \A i \in 1 .. L : Rank(Q[i]) \in 0 .. (Chunks + 1)
  <2> TAKE i \in 1 .. L
  <2>1. PICK m : m = Q[i]
      OBVIOUS
  <2>2. Published("output", m)
      BY <1>0, <1>1, <1>2, <2>1 DEF Streams
  <2> QED
      BY <2>1, <2>2, RankFacts
<1>7. ASSUME T = Q, ~Publish(r) PROVE Ordered(T, r, j) /\ Sent(T, r, j, p2, i2)
  <2>1. Ordered(T, r, j) /\ Sent(T, r, j, p1, i1)
      BY <1>2, <1>5, <1>7
  <2>2. p1 \notin {"idle", "prepare"}
      BY <2>1 DEF Sent
  <2>3. (p2 = p1 /\ i2 = i1) \/ p2 \in {"except", "over", "dead"}
      BY <1>0, <1>3, <1>7, <2>2, RunMoves
  <2>4. p2 \in {"except", "over", "dead"} => Sent(T, r, j, p2, i2)
      BY DEF Sent
  <2> QED
      BY <2>1, <2>3, <2>4
<1>8. CASE UNCHANGED <<stream, nextId, lines>> /\ ~Publish(r)
    BY <1>1, <1>7, <1>8
<1>9. CASE stream' = [s \in Stream |-> << >>]
    BY <1>0, <1>9
<1>10. ASSUME NEW q \in Run, Publish(q) PROVE Ordered(T, r, j) /\ Sent(T, r, j, p2, i2)
  <2>1. PICK p, i, m, c : Publishing(q, p, i, m, c)
      BY <1>0, <1>10, PublishEffect
  <2>2. /\ p \in Part /\ i \in 1 .. Len(Program[p]) /\ m = Program[p][i] /\ c \in 1 .. 2 /\ c \in Nat
        /\ part[q] = p /\ pos[q] = i /\ Wrote(q, m, c) /\ pos' = [pos EXCEPT ![q] = i + 1] /\ part' = part
      BY <2>1 DEF Publishing
  <2>3. m.to \in Stream
      BY <2>2, StepFields
  <2>4. p2 = p1 /\ (q = r => p1 = p /\ i1 = i /\ i2 = i + 1) /\ (q # r => i2 = i1)
      BY <1>0, <1>3, <2>2 DEF Types
  <2>5. i \in Nat
      BY <1>0, <2>2 DEF Types
  <2>6. CASE m.to # "output"
    <3>1. T = Q
        BY <1>0, <1>1, <2>2, <2>6 DEF Wrote
    <3>2. Ordered(Q, r, j) /\ Sent(Q, r, j, p1, i1)
        BY <1>2, <1>5, <3>1
    <3>3. CASE q # r
        BY <2>4, <3>1, <3>2, <3>3
    <3>4. CASE q = r
      <4>1. p = "body" => i = 1 \/ i > Chunks + 3
        <5>1. m.to = "log" => \/ p = "prepare"
                              \/ p = "give_up"
                              \/ p = "body" /\ i = Chunks + 4
                              \/ p = "except"
            BY <2>2, StepFields
        <5>2. m.to = "status" => \/ p = "prepare"
                                 \/ p = "give_up"
                                 \/ p = "body" /\ i = 1
                                 \/ p = "body" /\ i = Chunks + 5
                                 \/ p = "except"
            BY <2>2, StepFields
        <5> QED
            BY <1>0, <2>3, <2>6, <5>1, <5>2 DEF Stream
      <4>2. Rank(Q[j]) \in Nat
          BY <1>2, <1>6, <3>1
      <4>3. p1 \notin {"idle", "prepare", "give_up"} /\ (p1 = "body" => Rank(Q[j]) < i1 - 2)
          BY <3>2 DEF Sent
      <4>4. p1 = "body" => i > Chunks + 3 /\ Rank(Q[j]) < (i + 1) - 2 /\ ~(i + 1 <= Chunks + 3)
          BY <1>0, <2>4, <2>5, <3>4, <4>1, <4>2, <4>3
      <4>5. Sent(Q, r, j, p1, i + 1)
          BY <4>3, <4>4 DEF Sent
      <4> QED
          BY <2>4, <3>1, <3>2, <3>4, <4>5
    <3> QED
        BY <3>3, <3>4
  <2>7. CASE m.to = "output"
    <3>1. p = "body" /\ i \in 2 .. (Chunks + 3) /\ Rank(m) = i - 2
        BY <2>2, <2>7, StepFields
    <3>2. PICK M \in Nat : M = Len(T) /\ M = L + c /\ L <= M
        BY <1>1, <1>2, <2>2, <2>7 DEF Wrote
    <3>3. \A k \in 1 .. L : T[k] = Q[k]
        BY <1>1, <1>2, <2>2, <2>7 DEF Wrote
    <3>4. \A k \in (L + 1) .. M : T[k].run = q /\ Rank(T[k]) = i - 2
      <4> TAKE k \in (L + 1) .. M
      <4>1. PICK x \in 1 .. c : k = L + x
        <5>1. k - L \in 1 .. c /\ k = L + (k - L)
            BY <2>2, <3>2
        <5> QED
            BY <5>1
      <4>2. T[L + x] = NewMessage(q, m, nextId["output"] + x - 1)
          BY <1>1, <1>2, <2>2, <2>7 DEF Wrote
      <4>3. PICK y : y = nextId["output"] + x - 1
          OBVIOUS
      <4>4. NewMessage(q, m, y).run = q /\ Rank(NewMessage(q, m, y)) = Rank(m)
          BY DEF NewMessage, Rank
      <4> QED
          BY <3>1, <4>1, <4>2, <4>3, <4>4
    <3>5. ASSUME j \in 1 .. L, q # r PROVE Ordered(T, r, j) /\ Sent(T, r, j, p2, i2)
      <4>1. Q[j].run = r
          BY <3>3, <3>5
      <4>2. Ordered(Q, r, j) /\ Sent(Q, r, j, p1, i1)
          BY <1>5, <3>5, <4>1
      <4>0. Longer(Q, T, L, M)
          BY <1>2, <3>2, <3>3 DEF Longer
      <4>3. /\ Ordered(Q, r, j) => Ordered(T, r, j)
            /\ \A n : (\E k \in j .. L : At(Q, r, k, n)) => \E k \in j .. M : At(T, r, k, n)
            /\ \A n : At(T, r, j, n) <=> At(Q, r, j, n)
          BY <3>5, <4>0, OrderedKept, Zenon
      <4>4. Sent(T, r, j, p1, i1)
        <5>1. T[j] = Q[j]
            BY <3>3, <3>5
        <5>2. Rank(T[j]) = Rank(Q[j])
            BY <5>1
        <5> QED
            BY <1>2, <3>2, <4>2, <4>3, <5>2 DEF Sent
      <4> QED
          BY <2>4, <3>5, <4>2, <4>3, <4>4
    <3>6. CASE q # r
      <4>1. j \in 1 .. L \/ j \in (L + 1) .. M
          BY <3>2
      <4> QED
          BY <3>4, <3>5, <3>6, <4>1
    <3>7. CASE q = r
      <4>0. /\ p1 = "body" /\ i1 = i /\ p2 = "body" /\ i2 = i + 1 /\ (i + 1) - 3 = i - 2 /\ L + 1 \in 1 .. M
            /\ L + 1 \in (L + 1) .. M /\ i - 2 \in Nat
          BY <1>2, <2>2, <2>4, <2>5, <3>1, <3>2, <3>7, SMTT(60)
      <4>1. \A k \in 1 .. L : Q[k].run = r =>
                /\ Rank(Q[k]) < i - 2
                /\ At(Q, r, k, 0) => \E x \in k .. L : At(Q, r, x, i - 3)
          BY <1>2, <1>5, <3>1, <4>0, SMTT(60) DEF Sent
      <4>2. CASE j \in 1 .. L
        <5>1. Q[j].run = r
            BY <3>3, <4>2
        <5>2. Ordered(Q, r, j)
            BY <1>5, <4>2, <5>1
        <5>3. Longer(Q, T, L, M)
            BY <1>2, <3>2, <3>3 DEF Longer
        <5>4. Ordered(Q, r, j) => Ordered(T, r, j)
            BY <4>2, <5>3, OrderedKept, Zenon
        <5>5. T[j] = Q[j]
            BY <3>3, <4>2
        <5>6. Ordered(T, r, j) /\ Rank(T[j]) = Rank(Q[j])
            BY <5>2, <5>4, <5>5
        <5>7. Rank(Q[j]) < i - 2 /\ Rank(Q[j]) \in Nat
            BY <1>6, <4>1, <4>2, <5>1
        <5>8. Rank(T[j]) < (i + 1) - 2
            BY <2>5, <5>6, <5>7
        <5>9. \E k \in j .. Len(T) : At(T, r, k, (i + 1) - 3)
          <6>1. At(T, r, L + 1, i - 2)
              BY <3>4, <3>7, <4>0 DEF At
          <6>2. L + 1 \in j .. Len(T)
              BY <3>2, <4>0, <4>2
          <6> QED
              BY <4>0, <6>1, <6>2
        <5> QED
            BY <4>0, <5>2, <5>6, <5>8, <5>9 DEF Sent
      <4>3. CASE j \in (L + 1) .. M
        <5>1. Rank(T[j]) = i - 2 /\ At(T, r, j, i - 2) /\ j \in j .. Len(T)
            BY <3>2, <3>4, <3>7, <4>3 DEF At
        <5>2. Sent(T, r, j, "body", i + 1)
          <6>1. i - 2 < (i + 1) - 2
              BY <2>5
          <6> QED
              BY <4>0, <5>1, <6>1 DEF Sent
        <5>3. ASSUME NEW k \in 1 .. j, T[k].run = r PROVE Rank(T[k]) <= Rank(T[j])
          <6>1. CASE k \in 1 .. L
            <7>1. T[k] = Q[k] /\ Rank(Q[k]) < i - 2 /\ Rank(Q[k]) \in Nat
                BY <1>6, <3>3, <4>1, <5>3, <6>1
            <7> QED
                BY <4>0, <5>1, <7>1
          <6>2. CASE k \in (L + 1) .. M
              BY <3>4, <4>0, <5>1, <6>2
          <6>3. k \in 1 .. L \/ k \in (L + 1) .. M
              BY <3>2, <4>3
          <6> QED
              BY <6>1, <6>2, <6>3
        <5>4. ASSUME NEW k \in 1 .. j, At(T, r, k, 0), NEW n \in 0 .. Rank(T[j])
              PROVE  \E x \in k .. j : At(T, r, x, n)
          <6>1. CASE k \in 1 .. L
            <7>1. T[k] = Q[k] /\ Q[k].run = r /\ Rank(Q[k]) = 0 /\ At(Q, r, k, 0)
                BY <3>3, <5>4, <6>1 DEF At
            <7>2. 0 < i - 2
                BY <4>1, <6>1, <7>1
            <7>3. PICK y \in k .. L : At(Q, r, y, i - 3)
                BY <4>1, <6>1, <7>1
            <7>4. CASE n = i - 2
                BY <5>1, <6>1, <7>4
            <7>5. CASE n # i - 2
              <8>1. n \in 0 .. (i - 3) /\ y \in 1 .. L /\ k \in 1 .. y
                  BY <2>5, <5>1, <6>1, <7>2, <7>3, <7>5
              <8>2. Q[y].run = r /\ Rank(Q[y]) = i - 3
                  BY <7>3 DEF At
              <8>3. Ordered(Q, r, y)
                  BY <1>5, <8>1, <8>2
              <8>4. PICK x \in k .. y : At(Q, r, x, n)
                  BY <7>1, <8>1, <8>2, <8>3 DEF Ordered
              <8>5. x \in 1 .. L /\ x \in k .. j
                  BY <4>3, <6>1, <8>1, <8>4
              <8>6. At(T, r, x, n)
                  BY <3>3, <8>4, <8>5 DEF At
              <8> QED
                  BY <8>5, <8>6
            <7> QED
                BY <7>4, <7>5
          <6>2. CASE k \in (L + 1) .. M
            <7>1. Rank(T[k]) = i - 2 /\ Rank(T[k]) = 0
                BY <3>4, <5>4, <6>2 DEF At
            <7>2. n = 0 /\ k \in k .. j
                BY <5>1, <7>1
            <7> QED
                BY <5>4, <7>2
          <6>3. k \in 1 .. L \/ k \in (L + 1) .. M
              BY <3>2, <4>3
          <6> QED
              BY <6>1, <6>2, <6>3
        <5>5. Ordered(T, r, j)
            BY <5>3, <5>4 DEF Ordered
        <5> QED
            BY <4>0, <5>2, <5>5
      <4>4. j \in 1 .. L \/ j \in (L + 1) .. M
          BY <3>2
      <4> QED
          BY <4>2, <4>3, <4>4
    <3> QED
        BY <3>6, <3>7
  <2> QED
      BY <2>6, <2>7
<1> QED
    BY <1>8, <1>9, <1>10, Frames

(* What becomes of the output stream. *)
LEMMA OutputMoves ==
    ASSUME Core, [Next]_vars
    PROVE  /\ ~lossy' => ~lossy
           /\ \/ UNCHANGED stream
              \/ /\ Longer(stream["output"], stream'["output"], Len(stream["output"]), Len(stream'["output"]))
                 /\ \A k \in (Len(stream["output"]) + 1) .. Len(stream'["output"]) :
                       stream'["output"][k].id >= nextId["output"]
                 /\ UNCHANGED <<watchVars, status, verdict, lossy>>
              \/ lossy'
              \/ wpc' = "none" /\ \A s \in Stream : batch'[s] = << >>
<1> USE DEF vars, runVars, redisVars, watchVars, dispVars, rowVars, histVars
<1>0. Types /\ "output" \in Stream
    BY DEF Core, Stream
<1>1. ASSUME NEW r \in Run, Deliver(r) \/ Received(r) \/ Raise(r) PROVE UNCHANGED <<stream, lossy>>
    BY <1>1 DEF Deliver, Received, Raise
<1>2. ASSUME \/ WorkerCrash \/ DispatcherRead \/ DispatcherCrash \/ DispatcherRestart
             \/ WatcherRead \/ HandleLog \/ HandleStatus \/ HandleOutput \/ WriteFile \/ SaveOutput
             \/ WatcherError \/ UNCHANGED vars
      PROVE  UNCHANGED <<stream, lossy>>
  <2>1. CASE WorkerCrash \/ WatcherError \/ UNCHANGED vars
      BY <2>1 DEF WorkerCrash, WatcherError
  <2>2. CASE DispatcherRead \/ DispatcherCrash \/ DispatcherRestart
      BY <2>2 DEF DispatcherRead, DispatcherCrash, DispatcherRestart
  <2>3. CASE WatcherRead \/ HandleLog
      BY <2>3 DEF WatcherRead, HandleLog
  <2>4. CASE HandleStatus \/ HandleOutput
      BY <2>4 DEF HandleStatus, HandleOutput
  <2>5. CASE WriteFile \/ SaveOutput
      BY <2>5 DEF WriteFile, SaveOutput
  <2> QED
      BY <1>2, <2>1, <2>2, <2>3, <2>4, <2>5
<1>3. CASE RedisRestart
    BY <1>3 DEF RedisRestart
<1>4. CASE Cleanup
    BY <1>4 DEF Cleanup, WatcherAt
<1>5. ASSUME NEW r \in Run, Publish(r)
      PROVE  /\ Longer(stream["output"], stream'["output"], Len(stream["output"]), Len(stream'["output"]))
             /\ \A k \in (Len(stream["output"]) + 1) .. Len(stream'["output"]) :
                   stream'["output"][k].id >= nextId["output"]
             /\ UNCHANGED <<watchVars, status, verdict, lossy>>
  <2>1. PICK p, i, m, c : Publishing(r, p, i, m, c)
      BY <1>0, <1>5, PublishEffect
  <2>2. /\ p \in Part /\ i \in 1 .. Len(Program[p]) /\ m = Program[p][i] /\ c \in 1 .. 2 /\ c \in Nat
        /\ Wrote(r, m, c) /\ stream' \in [Stream -> Seq(Message)]
        /\ UNCHANGED <<watchVars, status, verdict, lossy>>
      BY <2>1 DEF Publishing
  <2>3. m.to \in Stream
      BY <2>2, StepFields
  <2>4. PICK Q, T, L, M, n : Q = stream["output"] /\ T = stream'["output"] /\ L = Len(Q) /\ M = Len(T)
                             /\ n = nextId["output"]
      OBVIOUS
  <2>5. L \in Nat /\ M \in Nat /\ n \in Nat /\ Q \in Seq(Message)
      BY <1>0, <2>2, <2>4, LenProperties DEF Types
  <2>6. ASSUME NEW k \in 1 .. M PROVE (k \in 1 .. L /\ T[k] = Q[k]) \/ (k > L /\ T[k].id >= n)
    <3>1. \/ k \in 1 .. L /\ T[k] = Q[k]
          \/ \E x \in 1 .. c : k = L + x /\ T[k] = NewMessage(r, m, n + x - 1)
      <4>1. PICK s \in Stream : s = "output"
          BY <1>0
      <4>2. Types /\ m.to \in Stream /\ c \in 1 .. 2 /\ Wrote(r, m, c) /\ k \in 1 .. Len(stream'[s])
          BY <1>0, <2>2, <2>3, <2>4, <4>1
      <4>3. \/ k \in 1 .. Len(stream[s]) /\ stream'[s][k] = stream[s][k]
            \/ s = m.to /\ \E x \in 1 .. c : /\ k = Len(stream[s]) + x
                                            /\ stream'[s][k] = NewMessage(r, m, nextId[s] + x - 1)
          BY <4>2, WroteAt, SMTT(30)
      <4> QED
          BY <2>4, <4>1, <4>3
    <3>2. ASSUME NEW x \in 1 .. c, k = L + x, T[k] = NewMessage(r, m, n + x - 1) PROVE k > L /\ T[k].id >= n
      <4>1. PICK y : y = n + x - 1
          OBVIOUS
      <4>2. T[k].id = y
          BY <3>2, <4>1 DEF NewMessage
      <4> QED
          BY <2>2, <2>5, <3>2, <4>1, <4>2
    <3> QED
        BY <3>1, <3>2
  <2>7. M = L \/ M = L + c
      BY <1>0, <2>2, <2>4 DEF Wrote
  <2>8. Longer(Q, T, L, M)
    <3>1. L <= M
        BY <2>2, <2>5, <2>7
    <3>2. \A k \in 1 .. L : k \in 1 .. M /\ ~(k > L)
        BY <2>5, <3>1
    <3> QED
        BY <2>4, <2>5, <2>6, <3>1, <3>2 DEF Longer
  <2>9. \A k \in (L + 1) .. M : T[k].id >= n
    <3>1. \A k \in (L + 1) .. M : k \in 1 .. M /\ ~(k \in 1 .. L)
        BY <2>5
    <3> QED
        BY <2>6, <3>1
  <2> QED
      BY <2>2, <2>4, <2>8, <2>9
<1> QED
    BY <1>1, <1>2, <1>3, <1>4, <1>5 DEF Next

LEMMA BatchInStreamStep ==
    ASSUME Core, BatchInStream, [Next]_vars
    PROVE  BatchInStream'
<1>0. Types /\ Ids /\ "output" \in Stream
    BY DEF Core, Stream
<1> SUFFICES ASSUME ~lossy', NEW i \in 1 .. Len(batch'["output"])
             PROVE  \E k \in 1 .. Len(stream'["output"]) : stream'["output"][k] = batch'["output"][i]
    BY DEF BatchInStream
<1>1. PICK a : a = batch'["output"][i]
    OBVIOUS
<1>2. ASSUME NEW j \in 1 .. Len(batch["output"]), a = batch["output"][j]
      PROVE  \E k \in 1 .. Len(stream["output"]) : stream["output"][k] = a
    BY <1>2, OutputMoves DEF BatchInStream
<1>3. CASE UNCHANGED stream
  <2>1. CASE UNCHANGED <<batch["output"], last_ids["output"]>>
      BY <1>1, <1>2, <1>3, <2>1
  <2>2. CASE batch'["output"] = << >>
      BY <2>2
  <2>3. CASE WatcherRead /\ batch'["output"] = FirstOf("output")
    <3>1. PICK n \in 0 .. Len(stream["output"]) :
              /\ n + Len(FirstOf("output")) <= Len(stream["output"]) /\ Len(FirstOf("output")) \in Nat
              /\ \A k \in 1 .. Len(FirstOf("output")) : FirstOf("output")[k] = stream["output"][n + k]
        BY <1>0, ReadFacts
    <3>2. Len(stream["output"]) \in Nat
        BY <1>0, LenProperties DEF Types
    <3>3. n + i \in 1 .. Len(stream["output"]) /\ a = stream["output"][n + i]
        BY <1>1, <2>3, <3>1, <3>2
    <3> QED
        BY <1>1, <1>3, <3>3
  <2>4. CASE batch["output"] # << >> /\ Take("output")
    <3>1. a = batch["output"][i + 1] /\ i + 1 \in 1 .. Len(batch["output"])
        BY <1>0, <1>1, <2>4, TakeFacts
    <3> QED
        BY <1>1, <1>2, <1>3, <3>1
  <2> QED
      BY <1>0, <2>1, <2>2, <2>3, <2>4, BatchMoves
<1>4. CASE /\ Longer(stream["output"], stream'["output"], Len(stream["output"]), Len(stream'["output"]))
           /\ UNCHANGED watchVars
  <2>1. batch' = batch
      BY <1>4 DEF watchVars
  <2>2. PICK k \in 1 .. Len(stream["output"]) : stream["output"][k] = a
      BY <1>1, <1>2, <2>1
  <2>3. stream'["output"][k] = stream["output"][k] /\ k \in 1 .. Len(stream'["output"])
      BY <1>4, <2>2 DEF Longer
  <2> QED
      BY <1>1, <2>2, <2>3
<1>5. CASE wpc' = "none" /\ \A s \in Stream : batch'[s] = << >>
    BY <1>0, <1>5
<1> QED
    BY <1>3, <1>4, <1>5, OutputMoves

(* What is assembled does not depend on messages that are still to come. *)
LEMMA AssembledKept ==
    ASSUME NEW Q, NEW T, Longer(Q, T, Len(Q), Len(T)), NEW h, NEW st, NEW c, AssembledUpTo(Q, h, st, c),
           \A k \in (Len(Q) + 1) .. Len(T) : ~(T[k].id <= h)
    PROVE  AssembledUpTo(T, h, st, c)
<1>1. PICK L, M : L = Len(Q) /\ M = Len(T)
    OBVIOUS
<1>2. L \in Nat /\ M \in Nat /\ L <= M /\ \A i \in 1 .. L : T[i] = Q[i] /\ i \in 1 .. M
    BY <1>1 DEF Longer
<1>3. ASSUME NEW n, NEW i \in 1 .. L, Q[i].id <= h, At(Q, st.run, i, n)
      PROVE  \E j \in 1 .. M : T[j].id <= h /\ At(T, st.run, j, n)
  <2>1. T[i].id <= h /\ i \in 1 .. M /\ At(T, st.run, i, n)
      BY <1>2, <1>3 DEF At
  <2> QED
      BY <2>1
<1>4. ASSUME NEW i \in 1 .. M, T[i].id <= h PROVE i \in 1 .. L
    BY <1>1, <1>2, <1>4
<1>5. \A i \in 1 .. M : T[i].id <= h /\ T[i].run = st.run => Rank(T[i]) <= c
  <2>1. \A i \in 1 .. L : Q[i].id <= h /\ Q[i].run = st.run => Rank(Q[i]) <= c
      BY <1>1 DEF AssembledUpTo
  <2> QED
      BY <1>2, <1>4, <2>1
<1>6. \E i \in 1 .. M : T[i].id <= h /\ At(T, st.run, i, 0)
    BY <1>1, <1>3 DEF AssembledUpTo
<1>7. \E i \in 1 .. M : T[i].id <= h /\ At(T, st.run, i, c)
    BY <1>1, <1>3 DEF AssembledUpTo
<1> QED
    BY <1>1, <1>5, <1>6, <1>7 DEF AssembledUpTo

(* The next message to handle is the k-th of stream Q: those with ids up   *)
(* to h come before it.                                                    *)
Reading(Q, h, k) ==
    /\ Len(Q) \in Nat /\ k \in 1 .. Len(Q)
    /\ \A i \in 1 .. Len(Q) : /\ Rank(Q[i]) \in 0 .. (Chunks + 1)
                              /\ Q[i].id <= h <=> i < k
                              /\ Q[i].id <= h + 1 <=> i <= k
    /\ Ordered(Q, Q[k].run, k)

(* The next message of the run that is assembled is the last one again, or *)
(* the one after it.                                                       *)
LEMMA NextRank ==
    ASSUME NEW Q, NEW h, NEW k, Reading(Q, h, k), NEW st, NEW c \in 0 .. Chunks, AssembledUpTo(Q, h, st, c),
           Q[k].run = st.run
    PROVE  Rank(Q[k]) = c \/ Rank(Q[k]) = c + 1
<1>0. Chunks \in Nat /\ c \in Nat
    OBVIOUS
<1>1. PICK L \in Nat : L = Len(Q)
    BY DEF Reading
<1>2. k \in 1 .. L /\ \A i \in 1 .. L : Rank(Q[i]) \in Nat /\ (Q[i].id <= h <=> i < k)
    BY <1>0, <1>1 DEF Reading
<1>3. Ordered(Q, st.run, k)
    BY DEF Reading
<1>4. PICK a \in 1 .. L : a < k /\ At(Q, st.run, a, c)
    BY <1>1, <1>2 DEF AssembledUpTo
<1>5. PICK b \in 1 .. L : b < k /\ At(Q, st.run, b, 0)
    BY <1>1, <1>2 DEF AssembledUpTo
<1>6. c <= Rank(Q[k])
  <2>1. a \in 1 .. k
      BY <1>2, <1>4
  <2> QED
      BY <1>3, <1>4, <2>1 DEF Ordered, At
<1>7. ASSUME c + 1 < Rank(Q[k]) PROVE FALSE
  <2>1. b \in 1 .. k /\ c + 1 \in 0 .. Rank(Q[k])
      BY <1>0, <1>2, <1>5, <1>7
  <2>2. PICK x \in b .. k : At(Q, st.run, x, c + 1)
      BY <1>3, <1>5, <2>1 DEF Ordered
  <2>3. x \in 1 .. L
      BY <1>2, <1>5
  <2>4. x # k
      BY <1>0, <1>2, <1>7, <2>2 DEF At
  <2>5. Q[x].id <= h
      BY <1>2, <1>5, <2>3, <2>4
  <2>6. Rank(Q[x]) <= c
      BY <1>1, <2>2, <2>3, <2>5 DEF At, AssembledUpTo
  <2> QED
      BY <1>0, <2>2, <2>6 DEF At
<1>8. Rank(Q[k]) \in Nat
    BY <1>2
<1> QED
    BY <1>0, <1>6, <1>7, <1>8

LEMMA AcceptStart ==
    ASSUME NEW Q, NEW h, NEW k, Reading(Q, h, k), NEW m, m = Q[k], m.type = "DATA_START"
    PROVE  AssembledUpTo(Q, h + 1, OnStart(m), 0)
<1>1. PICK st : st = OnStart(m)
    OBVIOUS
<1>2. st.run = m.run /\ st.buf = << >> /\ st.seen_seq = {}
    BY <1>1 DEF OnStart
<1>3. Rank(m) = 0 /\ k \in 1 .. Len(Q) /\ Q[k].id <= h + 1
    BY DEF Reading, Rank
<1>4. At(Q, st.run, k, 0)
    BY <1>2, <1>3 DEF At
<1>5. ASSUME NEW i \in 1 .. Len(Q), Q[i].id <= h + 1, Q[i].run = st.run PROVE Rank(Q[i]) <= 0
  <2>1. i \in 1 .. k
      BY <1>5 DEF Reading
  <2> QED
      BY <1>2, <1>3, <1>5, <2>1 DEF Reading, Ordered
<1>6. Len(st.buf) = 0 /\ st.seen_seq = 0 .. (0 - 1) /\ (\A i \in 1 .. 0 : st.buf[i] = <<st.run, i - 1>>)
    BY <1>2
<1> QED
    BY <1>1, <1>3, <1>4, <1>5, <1>6 DEF AssembledUpTo

LEMMA AcceptOther ==
    ASSUME NEW Q, NEW h, NEW k, Reading(Q, h, k), NEW st, NEW c \in 0 .. Chunks, AssembledUpTo(Q, h, st, c),
           Q[k].run = st.run => Rank(Q[k]) = c
    PROVE  AssembledUpTo(Q, h + 1, st, c)
<1>1. PICK L \in Nat : L = Len(Q) /\ k \in 1 .. L
    BY DEF Reading
<1>2. \A i \in 1 .. L : (Q[i].id <= h <=> i < k) /\ (Q[i].id <= h + 1 <=> i <= k)
    BY <1>1 DEF Reading
<1>3. \A i \in 1 .. L : Q[i].id <= h => Q[i].id <= h + 1
    BY <1>1, <1>2
<1>4. \A i \in 1 .. L : Q[i].id <= h + 1 => Q[i].id <= h \/ i = k
    BY <1>1, <1>2
<1>5. c <= c
    OBVIOUS
<1> QED
    BY <1>1, <1>3, <1>4, <1>5 DEF AssembledUpTo

LEMMA AcceptChunk ==
    ASSUME NEW Q, NEW h, NEW k, Reading(Q, h, k),
           NEW st \in [run : Run \cup {NoRun}, buf : Seq(Run \X Nat), seen_seq : SUBSET Nat],
           NEW c \in 0 .. Chunks, AssembledUpTo(Q, h, st, c),
           NEW m \in Message, m = Q[k], m.type = "DATA_CHUNK", m.sequence_no < Chunks, m.run = st.run
    PROVE  \E d \in 0 .. Chunks : AssembledUpTo(Q, h + 1, OnChunk(st, m), d)
<1>0. Chunks \in Nat /\ c \in Nat /\ m.sequence_no \in Nat /\ Rank(m) = m.sequence_no + 1
    BY DEF Message, Rank
<1>1. Rank(m) = c \/ Rank(m) = c + 1
    BY NextRank
<1>2. st.seen_seq = 0 .. (c - 1) /\ Len(st.buf) = c /\ \A i \in 1 .. c : st.buf[i] = <<st.run, i - 1>>
    BY DEF AssembledUpTo
<1>3. CASE Rank(m) = c
  <2>1. m.sequence_no \in st.seen_seq
      BY <1>0, <1>2, <1>3
  <2>2. OnChunk(st, m) = st
      BY <2>1 DEF OnChunk
  <2>3. AssembledUpTo(Q, h + 1, st, c)
      BY <1>3, AcceptOther
  <2> QED
      BY <2>2, <2>3
<1>4. CASE Rank(m) = c + 1
  <2>1. m.sequence_no = c /\ c + 1 \in 0 .. Chunks /\ c \notin st.seen_seq
      BY <1>0, <1>2, <1>4
  <2>2. PICK o, b : o = OnChunk(st, m) /\ b = st.buf
      OBVIOUS
  <2>3. o.run = st.run /\ o.buf = Append(b, <<st.run, c>>) /\ o.seen_seq = st.seen_seq \cup {c}
    <3>1. OnChunk(st, m) = [st EXCEPT !.seen_seq = @ \cup {c}, !.buf = Append(@, Output(m.run)[c + 1])]
        BY <2>1 DEF OnChunk
    <3>2. o # st
      <4>1. c \in OnChunk(st, m).seen_seq
        <5>1. PICK y : y = Append(st.buf, Output(m.run)[c + 1])
            OBVIOUS
        <5>2. OnChunk(st, m) = [[st EXCEPT !.seen_seq = @ \cup {c}] EXCEPT !.buf = y]
            BY <3>1, <5>1
        <5> QED
            BY <5>2
      <4> QED
          BY <2>1, <2>2, <4>1
    <3> QED
        BY <2>1, <2>2, <3>2, ChunkFacts, SMTT(60)
  <2>4. b \in Seq(Run \X Nat) /\ Len(b) = c /\ st.run \in Run
      BY <1>2, <2>2 DEF Message
  <2>5. PICK x : x = <<st.run, c>>
      OBVIOUS
  <2>6. x \in Run \X Nat
      BY <1>0, <2>4, <2>5
  <2>7. Len(o.buf) = c + 1 /\ (\A i \in 1 .. c : o.buf[i] = b[i]) /\ o.buf[c + 1] = x
      BY <2>3, <2>4, <2>5, <2>6, AppendProperties
  <2>8. \A i \in 1 .. (c + 1) : o.buf[i] = <<o.run, i - 1>>
    <3>1. \A i \in 1 .. c : o.buf[i] = <<o.run, i - 1>>
        BY <1>2, <2>2, <2>3, <2>7, SMTT(60)
    <3>2. o.buf[c + 1] = <<o.run, (c + 1) - 1>>
        BY <1>0, <2>3, <2>5, <2>7
    <3>3. \A i \in 1 .. (c + 1) : i \in 1 .. c \/ i = c + 1
        BY <1>0
    <3> QED
        BY <3>1, <3>2, <3>3
  <2>9. o.seen_seq = 0 .. ((c + 1) - 1)
    <3>1. 0 .. (c - 1) \cup {c} = 0 .. ((c + 1) - 1)
        BY <1>0
    <3> QED
        BY <1>2, <2>3, <3>1
  <2>10. PICK L \in Nat : L = Len(Q) /\ k \in 1 .. L
      BY DEF Reading
  <2>11. \A i \in 1 .. L : (Q[i].id <= h <=> i < k) /\ (Q[i].id <= h + 1 <=> i <= k) /\ Rank(Q[i]) \in Nat
      BY <1>0, <2>10 DEF Reading
  <2>12. PICK a \in 1 .. L : Q[a].id <= h /\ At(Q, st.run, a, 0)
      BY <2>10 DEF AssembledUpTo
  <2>13. a \in 1 .. Len(Q) /\ Q[a].id <= h + 1 /\ At(Q, o.run, a, 0)
      BY <2>3, <2>10, <2>11, <2>12
  <2>14. k \in 1 .. Len(Q) /\ Q[k].id <= h + 1 /\ At(Q, o.run, k, c + 1)
      BY <1>4, <2>3, <2>10, <2>11 DEF At
  <2>15. ASSUME NEW i \in 1 .. Len(Q), Q[i].id <= h + 1, Q[i].run = o.run PROVE Rank(Q[i]) <= c + 1
    <3>1. CASE i = k
        BY <1>0, <1>4, <3>1
    <3>2. CASE i # k
      <4>1. Q[i].id <= h
          BY <2>10, <2>11, <2>15, <3>2
      <4>2. Rank(Q[i]) <= c
          BY <2>3, <2>15, <4>1 DEF AssembledUpTo
      <4> QED
          BY <1>0, <2>10, <2>11, <4>2
    <3> QED
        BY <3>1, <3>2
  <2>16. AssembledUpTo(Q, h + 1, o, c + 1)
      BY <2>7, <2>8, <2>9, <2>13, <2>14, <2>15 DEF AssembledUpTo
  <2> QED
      BY <2>1, <2>2, <2>16
<1> QED
    BY <1>1, <1>3, <1>4

(* When the end comes, nothing is missing. *)
LEMMA AcceptEnd ==
    ASSUME NEW Q, NEW h, NEW k, Reading(Q, h, k),
           NEW st \in [run : Run \cup {NoRun}, buf : Seq(Run \X Nat), seen_seq : SUBSET Nat],
           NEW c \in 0 .. Chunks, AssembledUpTo(Q, h, st, c),
           NEW m, m = Q[k], m.type = "DATA_END", m.run = st.run
    PROVE  Valid(st)
<1>1. Rank(m) = c \/ Rank(m) = c + 1
    BY NextRank
<1>2. Rank(m) = Chunks + 1 /\ Chunks \in Nat
    BY DEF Rank
<1>3. c = Chunks
    BY <1>1, <1>2
<1>4. PICK b, r : b = st.buf /\ r = st.run
    OBVIOUS
<1>5. b \in Seq(Run \X Nat) /\ Len(b) = Chunks /\ \A i \in 1 .. Chunks : b[i] = <<r, i - 1>>
    BY <1>3, <1>4 DEF AssembledUpTo
<1>6. b = [i \in 1 .. Chunks |-> <<r, i - 1>>]
    BY <1>5
<1> QED
    BY <1>4, <1>6 DEF Valid, Output

(* The watcher is at a place of the stream, and takes the next message.    *)
LEMMA ReadingOutput ==
    ASSUME Core, OutputInOrder, BatchInStream, ~lossy, batch["output"] # << >>,
           NEW h, h = last_ids["output"] - Len(batch["output"]), NEW m, m = Head(batch["output"]),
           NEW Q, Q = stream["output"]
    PROVE  \E k \in 1 .. Len(Q) : Reading(Q, h, k) /\ Q[k] = m
<1>0. Types /\ Ids /\ Streams /\ Batches /\ "output" \in Stream /\ Chunks \in Nat
    BY DEF Core, Stream
<1>1. PICK L, N, l, b : L = Len(Q) /\ N = nextId["output"] /\ l = last_ids["output"] /\ b = Len(batch["output"])
    OBVIOUS
<1>2. L \in Nat /\ N \in Nat /\ l \in Nat /\ b \in Nat /\ L < N /\ b <= l /\ h = l - b
  <2>1. stream["output"] \in Seq(Message) /\ batch["output"] \in Seq(Message)
      BY <1>0 DEF Types
  <2>2. L \in Nat /\ b \in Nat
      BY <1>1, <2>1, LenProperties
  <2>3. N \in Nat /\ l \in Nat
      BY <1>0, <1>1 DEF Types
  <2> QED
      BY <1>0, <1>1, <2>2, <2>3 DEF Ids
<1>3. m = batch["output"][1] /\ 1 \in 1 .. b
    BY <1>0, <1>1, HeadPublished
<1>4. PICK k \in 1 .. L : Q[k] = m
    BY <1>1, <1>3 DEF BatchInStream
<1>5. \A i \in 1 .. L : Q[i].id = N - 1 - L + i
    BY <1>0, <1>1 DEF Ids
<1>6. m.id = h + 1
  <2>1. m.id = l - b + 1
      BY <1>0, <1>1, <1>3 DEF Ids
  <2> QED
      BY <1>2, <2>1
<1>7. N - 1 - L + k = h + 1
    BY <1>4, <1>5, <1>6
<1>8. \A i \in 1 .. L : (Q[i].id <= h <=> i < k) /\ (Q[i].id <= h + 1 <=> i <= k)
  <2> TAKE i \in 1 .. L
  <2>1. Q[i].id = N - 1 - L + i
      BY <1>5
  <2> QED
      BY <1>2, <1>7, <2>1
<1>9. \A i \in 1 .. L : Rank(Q[i]) \in 0 .. (Chunks + 1)
  <2> TAKE i \in 1 .. L
  <2>1. PICK x : x = Q[i]
      OBVIOUS
  <2>2. Published("output", x)
      BY <1>0, <1>1, <2>1 DEF Streams
  <2> QED
      BY <2>1, <2>2, RankFacts
<1>10. Ordered(Q, Q[k].run, k)
  <2>1. PICK r : r = Q[k].run
      OBVIOUS
  <2>2. r \in Run
    <3>1. Published("output", m)
        BY <1>0, <1>1, <1>4 DEF Streams
    <3> QED
        BY <1>4, <2>1, <3>1 DEF Published, Message
  <2> QED
      BY <1>1, <2>1, <2>2 DEF OutputInOrder
<1> QED
    BY <1>1, <1>2, <1>4, <1>8, <1>9, <1>10 DEF Reading

LEMMA AssemblyStep ==
    ASSUME Core, OutputInOrder, BatchInStream, Assembly, [Next]_vars
    PROVE  Assembly'
<1>0. /\ Types /\ Ids /\ Batches /\ "output" \in Stream /\ "log" \in Stream /\ "status" \in Stream /\ Chunks \in Nat
      /\ batch \in [Stream -> Seq(Message)]
    BY DEF Core, Stream, Types
<1> SUFFICES ASSUME ~lossy', wpc' = "loop", output_state'.run # NoRun, NEW T, T = stream'["output"],
                    NEW g, g = last_ids'["output"] - Len(batch'["output"]), NEW o, o = output_state'
             PROVE  \E c \in 0 .. Chunks : AssembledUpTo(T, g, o, c)
  <2>1. PICK T, g, o : T = stream'["output"] /\ g = last_ids'["output"] - Len(batch'["output"]) /\ o = output_state'
      OBVIOUS
  <2>2. ~lossy' /\ wpc' = "loop" /\ output_state'.run # NoRun => \E c \in 0 .. Chunks : AssembledUpTo(T, g, o, c)
      BY <2>1
  <2>3. ~lossy' /\ wpc' = "loop" /\ output_state'.run # NoRun => \E c \in 0 .. Chunks :
            AssembledUpTo(stream'["output"], last_ids'["output"] - Len(batch'["output"]), output_state', c)
      BY <2>1, <2>2, Zenon
  <2> QED
      BY <2>3, Zenon DEF Assembly
<1>1. PICK Q, h, st : Q = stream["output"] /\ h = last_ids["output"] - Len(batch["output"]) /\ st = output_state
    OBVIOUS
<1>2. ~lossy
    BY OutputMoves
<1>3. /\ Len(Q) \in Nat /\ last_ids["output"] \in Nat /\ Len(batch["output"]) \in Nat /\ nextId["output"] \in Nat
      /\ last_ids["output"] < nextId["output"] /\ h \in Int /\ h < nextId["output"]
      /\ st \in [run : Run \cup {NoRun}, buf : Seq(Run \X Nat), seen_seq : SUBSET Nat]
  <2>1. stream["output"] \in Seq(Message) /\ batch["output"] \in Seq(Message) /\ last_ids["output"] \in Nat
        /\ nextId["output"] \in Nat
      BY <1>0 DEF Types
  <2>2. Len(Q) \in Nat /\ Len(batch["output"]) \in Nat
      BY <1>1, <2>1, LenProperties
  <2>3. last_ids["output"] < nextId["output"]
      BY <1>0 DEF Ids
  <2>4. st \in [run : Run \cup {NoRun}, buf : Seq(Run \X Nat), seen_seq : SUBSET Nat]
      BY <1>0, <1>1 DEF Types
  <2> QED
      BY <1>1, <2>1, <2>2, <2>3, <2>4
<1>4. ASSUME wpc = "loop", st.run # NoRun PROVE \E c \in 0 .. Chunks : AssembledUpTo(Q, h, st, c)
    BY <1>1, <1>2, <1>4 DEF Assembly
<1>5. CASE /\ Longer(stream["output"], stream'["output"], Len(stream["output"]), Len(stream'["output"]))
           /\ \A k \in (Len(stream["output"]) + 1) .. Len(stream'["output"]) :
                 stream'["output"][k].id >= nextId["output"]
           /\ UNCHANGED <<watchVars, status, verdict, lossy>>
  <2>1. wpc = "loop" /\ o = st /\ g = h /\ st.run # NoRun
      BY <1>1, <1>5 DEF watchVars
  <2>2. PICK c \in 0 .. Chunks : AssembledUpTo(Q, h, st, c)
      BY <1>4, <2>1
  <2>3. Longer(Q, T, Len(Q), Len(T))
      BY <1>1, <1>5
  <2>4. \A k \in (Len(Q) + 1) .. Len(T) : ~(T[k].id <= h)
    <3> TAKE k \in (Len(Q) + 1) .. Len(T)
    <3>1. T[k].id >= nextId["output"]
        BY <1>1, <1>5
    <3>2. T[k].id \in Nat
      <4>1. Types'
          BY CoreStep DEF Core
      <4>2. T \in Seq(Message) /\ k \in 1 .. Len(T)
          BY <1>0, <1>3, <4>1, SMTT(60) DEF Types
      <4>3. T[k] \in Message
          BY <4>2
      <4> QED
          BY <4>3 DEF Message
    <3> QED
        BY <1>3, <3>1, <3>2
  <2>5. AssembledUpTo(T, h, st, c)
      BY <2>2, <2>3, <2>4, AssembledKept
  <2> QED
      BY <2>1, <2>5
<1>6. ASSUME UNCHANGED stream PROVE \E c \in 0 .. Chunks : AssembledUpTo(T, g, o, c)
  <2>0. T = Q
      BY <1>1, <1>6
  <2>1. CASE UNCHANGED <<wpc, output_state, last_ids>> /\ batch'["output"] = batch["output"]
    <3>1. wpc = "loop" /\ o = st /\ g = h /\ st.run # NoRun
        BY <1>1, <2>1
    <3> QED
        BY <1>4, <2>0, <3>1
  <2>2. CASE output_state' = NotStarted
      BY <2>2 DEF NotStarted
  <2>3. CASE WatcherRead
    <3>1. wpc = "loop" /\ o = st /\ st.run # NoRun /\ batch["output"] = << >>
          /\ batch'["output"] = FirstOf("output") /\ last_ids'["output"] = IdAfter("output")
        BY <1>0, <1>1, <2>3 DEF WatcherRead, AllDrained, Drained
    <3>2. h = last_ids["output"]
        BY <1>1, <1>3, <3>1
    <3>3. PICK n \in 0 .. Len(Q) :
              /\ \A i \in 1 .. Len(Q) : i <= n <=> Q[i].id <= h
              /\ n + Len(FirstOf("output")) <= Len(Q) /\ Len(FirstOf("output")) \in Nat
              /\ IdAfter("output") = IF Len(FirstOf("output")) = 0 THEN h
                                     ELSE Q[n + Len(FirstOf("output"))].id
      <4>1. "output" \in Stream /\ Types /\ Ids
          BY <1>0 DEF Stream
      <4>2. Len(FirstOf("output")) \in Nat
          BY <4>1, ReadFacts
      <4>3. PICK n \in 0 .. Len(Q) :
                /\ \A i \in 1 .. Len(Q) : i <= n <=> Q[i].id <= last_ids["output"]
                /\ n + Len(FirstOf("output")) <= Len(Q)
                /\ IdAfter("output") = IF Len(FirstOf("output")) = 0 THEN last_ids["output"]
                                       ELSE Q[n + Len(FirstOf("output"))].id
          BY <1>1, <4>1, ReadFacts
      <4> QED
          BY <3>2, <4>2, <4>3
    <3>4. PICK f : f = Len(FirstOf("output"))
        OBVIOUS
    <3>5. PICK B \in Int : \A i \in 1 .. Len(Q) : Q[i].id = B + i
      <4>1. nextId["output"] - 1 - Len(Q) \in Int
          BY <1>3
      <4> QED
          BY <1>0, <1>1, <4>1 DEF Ids
    <3>6. g = IF f = 0 THEN h ELSE B + n
      <4>1. CASE f = 0
          BY <1>3, <3>1, <3>2, <3>3, <3>4, <4>1
      <4>2. CASE f # 0
        <5>1. n + f \in 1 .. Len(Q)
            BY <1>3, <3>3, <3>4, <4>2
        <5>2. last_ids'["output"] = B + (n + f)
            BY <3>1, <3>3, <3>4, <3>5, <4>2, <5>1
        <5> QED
            BY <3>1, <3>3, <3>4, <4>2, <5>2
      <4> QED
          BY <4>1, <4>2
    <3>7. \A i \in 1 .. Len(Q) : Q[i].id <= g <=> Q[i].id <= h
      <4> TAKE i \in 1 .. Len(Q)
      <4>1. Q[i].id = B + i /\ (i <= n <=> Q[i].id <= h)
          BY <3>3, <3>5
      <4> QED
          BY <1>3, <3>3, <3>6, <4>1
    <3>8. PICK c \in 0 .. Chunks : AssembledUpTo(Q, h, st, c)
        BY <1>4, <3>1
    <3>9. AssembledUpTo(Q, g, st, c)
        BY <3>7, <3>8 DEF AssembledUpTo
    <3> QED
        BY <2>0, <3>1, <3>9
  <2>4. CASE HandleLog
      BY <1>0, <2>1, <2>4 DEF HandleLog
  <2>5. CASE HandleStatus
      BY <1>0, <2>1, <2>5 DEF HandleStatus, Take
  <2>6. CASE HandleOutput
    <3>1. PICK m : m = Head(batch["output"])
        OBVIOUS
    <3>2. wpc = "loop" /\ batch["output"] # << >> /\ Take("output") /\ UNCHANGED last_ids
        BY <2>6 DEF HandleOutput, Drained
    <3>3. PICK k \in 1 .. Len(Q) : Reading(Q, h, k) /\ Q[k] = m
        BY <1>1, <1>2, <3>1, <3>2, ReadingOutput
    <3>4. g = h + 1
      <4>1. Len(batch'["output"]) = Len(batch["output"]) - 1
          BY <1>0, <3>2, TakeFacts
      <4> QED
          BY <1>1, <1>3, <3>2, <4>1, SMTT(60)
    <3>5. Published("output", m) /\ m \in Message
        BY <1>0, <3>1, <3>2, HeadPublished
    <3>6. \/ m.type = "DATA_START" /\ o = OnStart(m)
          \/ m.type = "DATA_CHUNK" /\ o = OnChunk(st, m)
          \/ m.type = "DATA_END" /\ m.run # st.run /\ o = st
        BY <1>1, <2>6, <3>1 DEF HandleOutput, NotStarted
    <3>7. CASE m.type = "DATA_START" /\ o = OnStart(m)
      <4>1. AssembledUpTo(Q, h + 1, OnStart(m), 0)
          BY <3>3, <3>7, AcceptStart
      <4>2. 0 \in 0 .. Chunks
          BY <1>0
      <4> QED
          BY <2>0, <3>4, <3>7, <4>1, <4>2
    <3>8. CASE m.run # st.run /\ o = st
      <4>1. PICK c \in 0 .. Chunks : AssembledUpTo(Q, h, st, c)
          BY <1>4, <3>2, <3>8
      <4>2. AssembledUpTo(Q, h + 1, st, c)
          BY <3>3, <3>8, <4>1, AcceptOther
      <4> QED
          BY <2>0, <3>4, <3>8, <4>2
    <3>9. CASE m.type = "DATA_CHUNK" /\ m.run = st.run /\ o = OnChunk(st, m)
      <4>1. m.run # NoRun /\ m.sequence_no < Chunks
          BY <3>5, <3>9 DEF Published, Message, Run, NoRun
      <4>2. PICK c \in 0 .. Chunks : AssembledUpTo(Q, h, st, c)
          BY <1>4, <3>2, <3>9, <4>1
      <4>3. \E d \in 0 .. Chunks : AssembledUpTo(Q, h + 1, OnChunk(st, m), d)
          BY <1>3, <3>3, <3>5, <3>9, <4>1, <4>2, AcceptChunk
      <4> QED
          BY <2>0, <3>4, <3>9, <4>3
    <3>10. m.run # st.run => OnChunk(st, m) = st
        BY DEF OnChunk
    <3> QED
        BY <3>6, <3>7, <3>8, <3>9, <3>10
  <2>7. (WriteFile => wpc' = "save") /\ (SaveOutput => output_state' = NotStarted)
      BY DEF WriteFile, SaveOutput
  <2> QED
      BY <2>1, <2>2, <2>3, <2>4, <2>5, <2>6, <2>7, Frames
<1> QED
    BY <1>5, <1>6, OutputMoves

(* An output is found invalid only if Redis lost a part of it.  Assembly   *)
(* is what makes it inductive: the watcher holds the chunks of the run up  *)
(* to the last it has handled, whatever another run sends in between, so   *)
(* that with DATA_END it has them all.                                     *)
THEOREM OnlyLossFails == Spec => []OnlyLossFailsOutput
<1> DEFINE OutputInv == OutputInOrder /\ BatchInStream /\ Assembly /\ OnlyLossFailsOutput
<1>1. Init => OutputInv
  <2> SUFFICES ASSUME Init PROVE OutputInv
      OBVIOUS
  <2>1. Len(stream["output"]) = 0 /\ Len(batch["output"]) = 0 /\ status = "OPEN" /\ wpc = "none"
      BY DEF Init, Stream
  <2> QED
      BY <2>1 DEF OutputInOrder, BatchInStream, Assembly, OnlyLossFailsOutput
<1>2. ASSUME Core, OutputInv, [Next]_vars PROVE OnlyLossFailsOutput'
  <2>0. Types /\ Batches /\ "output" \in Stream
      BY <1>2 DEF Core, Stream
  <2>1. SUFFICES ASSUME ~lossy', status' = "FAILED", verdict'.type = "DATA_END" PROVE FALSE
      BY DEF OnlyLossFailsOutput
  <2>2. ~lossy
      BY <1>2, <2>1, OutputMoves
  <2>3. CASE UNCHANGED <<status, verdict>>
      BY <1>2, <2>1, <2>2, <2>3 DEF OnlyLossFailsOutput
  <2>4. CASE HandleStatus /\ ~UNCHANGED <<status, verdict>>
    <3>1. PICK m : m = Head(batch["status"])
        OBVIOUS
    <3>2. m.type \in DOMAIN STATUS_MAPPING /\ verdict' = [run |-> m.run, type |-> m.type]
        BY <2>4, <3>1 DEF HandleStatus
    <3> QED
        BY <2>1, <3>2 DEF STATUS_MAPPING
  <2>5. CASE HandleOutput /\ ~UNCHANGED <<status, verdict>>
    <3>1. PICK m, st, Q, h : /\ m = Head(batch["output"]) /\ st = output_state /\ Q = stream["output"]
                             /\ h = last_ids["output"] - Len(batch["output"])
        OBVIOUS
    <3>2. /\ wpc = "loop" /\ batch["output"] # << >> /\ m.type = "DATA_END" /\ m.run = st.run /\ ~Valid(st)
        BY <2>5, <3>1 DEF HandleOutput, Drained
    <3>3. PICK k \in 1 .. Len(Q) : Reading(Q, h, k) /\ Q[k] = m
        BY <1>2, <2>2, <3>1, <3>2, ReadingOutput
    <3>4. Published("output", m) /\ m \in Message
        BY <2>0, <3>1, <3>2, HeadPublished
    <3>5. st.run # NoRun
        BY <3>2, <3>4 DEF Message, Run, NoRun
    <3>6. PICK c \in 0 .. Chunks : AssembledUpTo(Q, h, st, c)
        BY <1>2, <2>2, <3>1, <3>2, <3>5 DEF Assembly
    <3>7. st \in [run : Run \cup {NoRun}, buf : Seq(Run \X Nat), seen_seq : SUBSET Nat]
        BY <2>0, <3>1 DEF Types
    <3>8. Valid(st)
        BY <3>2, <3>3, <3>6, <3>7, AcceptEnd
    <3> QED
        BY <3>2, <3>8
  <2>6. CASE SaveOutput
      BY <2>1, <2>6 DEF SaveOutput
  <2> QED
      BY <1>2, <2>3, <2>4, <2>5, <2>6, Frames
<1>3. Core /\ OutputInv /\ [Next]_vars => OutputInv'
    BY <1>2, OutputInOrderStep, BatchInStreamStep, AssemblyStep
<1> QED
    BY <1>1, <1>3, CoreHolds, PTL DEF Spec
=============================================================================
