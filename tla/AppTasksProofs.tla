---------------------------- MODULE AppTasksProofs ----------------------------
(***************************************************************************)
(* Proofs about AppTasks, for every queue length of at least two, every     *)
(* frame length and every number of frames and restarts.                   *)
(***************************************************************************)
EXTENDS AppTasks, SequenceTheorems, TLAPS

\* The requests in the queue cover the wake-up taken and the one pending, and
\* no wake-up is pending while vControlTask waits.
RequestsCover ==
  /\ control = "take" => Len(cmdQueue) >= 1
  /\ available => Len(cmdQueue) >= 1
  /\ control = "take" /\ available => Len(cmdQueue) >= 2
  /\ control = "wait" => ~available

\* A snapshot is torn only inside its writer's critical section.
SnapshotsWhole ==
  /\ critical # "app" => snapshot["sensor"][1] = snapshot["sensor"][2]
  /\ critical # "monitor" => snapshot["diag"][1] = snapshot["diag"][2]
  /\ AnswerIsWhole

\* No one else's critical section begins while vCommTask sends.
CommFirst ==
  /\ RepliesAreWhole
  /\ critical # "none" => left["comm"] = 0

IInv == TypeOK /\ RequestsCover /\ SnapshotsWhole /\ CommFirst

\* What scheduling implies: vCommTask runs outside critical sections, and the
\* others run when it has nothing to send.
LEMMA Scheduled ==
  ASSUME TypeOK, CommFirst, NEW t \in Task, Runs(t)
  PROVE  /\ critical \in {"none", t}
         /\ t = "comm" => critical = "none"
         /\ t # "comm" => left["comm"] = 0
<1>1. critical \in {"none", t} /\ critical # "comm"
  BY DEF Runs, TypeOK
<1>2. ASSUME critical = "none", t # "comm"
      PROVE  left["comm"] = 0
  <2>1. Priority["comm"] > Priority[t] /\ "comm" \in Task
    BY <1>2 DEF Priority, Task
  <2>2. ~Ready("comm")
    BY <1>2, <2>1 DEF Runs
  <2>3. ~(left["comm"] > 0)
    BY <2>2 DEF Ready
  <2>4. left["comm"] \in 0..FrameLen /\ FrameLen \in Nat
    BY <2>1, AppAssumption DEF TypeOK
  <2> QED BY <2>3, <2>4
<1> QED BY <1>1, <1>2 DEF CommFirst

\* Sending and its first bytes.
LEMMA SendsType ==
  ASSUME TypeOK, NEW t \in Task, Sends(t) \/ UNCHANGED line
  PROVE  /\ left' \in [Task -> 0..FrameLen] /\ split' \in [Task -> BOOLEAN]
         /\ RepliesAreWhole => RepliesAreWhole'
         /\ t # "comm" => left'["comm"] = left["comm"]
<1>1. /\ left \in [Task -> 0..FrameLen] /\ split \in [Task -> BOOLEAN]
      /\ FrameLen \in 0..FrameLen /\ "comm" \in Task
  BY AppAssumption DEF TypeOK, Task
<1>2. CASE Sends(t)
  BY <1>1, <1>2 DEF Sends, RepliesAreWhole
<1>3. CASE UNCHANGED line
  BY <1>1, <1>3 DEF line, RepliesAreWhole
<1> QED BY <1>2, <1>3

\* An announcement leaves queue and event consistent, whatever room there is.
LEMMA AnnouncementKept ==
  ASSUME TypeOK, RequestsCover, NEW v \in Version, Enqueue(v), Signal
  PROVE  /\ cmdQueue' \in Seq(Version) /\ Len(cmdQueue') <= CmdQueueLength
         /\ available' \in BOOLEAN /\ control' \in {control, "take"}
         /\ RequestsCover'
<1>1. /\ cmdQueue \in Seq(Version) /\ Len(cmdQueue) \in Nat /\ Len(cmdQueue) <= CmdQueueLength
      /\ CmdQueueLength \in Nat /\ CmdQueueLength >= 2 /\ available \in BOOLEAN
  BY AppAssumption, LenProperties DEF TypeOK
<1>2. /\ cmdQueue' \in Seq(Version) /\ Len(cmdQueue') <= CmdQueueLength
      /\ Len(cmdQueue') \in Nat
      /\ Len(cmdQueue') >= 2 \/ Len(cmdQueue') = Len(cmdQueue) + 1
  <2>1. CASE Full
    BY <1>1, <2>1 DEF Enqueue, Full
  <2>2. CASE ~Full
    <3>1. cmdQueue' = Append(cmdQueue, v)
      BY <2>2 DEF Enqueue
    <3>2. cmdQueue' \in Seq(Version) /\ Len(cmdQueue') = Len(cmdQueue) + 1
      BY <1>1, <3>1, AppendProperties
    <3> QED BY <1>1, <2>2, <3>2 DEF Full
  <2> QED BY <2>1, <2>2
<1>3. CASE control = "wait"
  <2>1. control' = "take" /\ available' = available /\ ~available
    BY <1>3 DEF Signal, RequestsCover
  <2> QED BY <1>1, <1>2, <2>1 DEF RequestsCover
<1>4. CASE control # "wait"
  <2>1. control' = control /\ available' = TRUE
    BY <1>4 DEF Signal
  <2> QED BY <1>1, <1>2, <1>4, <2>1 DEF RequestsCover
<1> QED BY <1>3, <1>4

-----------------------------------------------------------------------------
LEMMA StartType ==
  /\ "sensor" \in {"sensor", "diag"} /\ "diag" \in {"sensor", "diag"}
  /\ <<0, 0>> \in {0, 1} \X {0, 1} /\ <<0, 0>>[1] = <<0, 0>>[2]
  /\ [sensor |-> <<0, 0>>, diag |-> <<0, 0>>] \in [{"sensor", "diag"} -> {0, 1} \X {0, 1}]
  /\ [t \in Task |-> 0] \in [Task -> 0..FrameLen] /\ [t \in Task |-> FALSE] \in [Task -> BOOLEAN]
  /\ 0 \in 0..DataQueueLength /\ 0 \in 0..MaxFrames /\ 0 \in 0..MaxBoots
  /\ <<>> \in Seq(Frame) /\ <<>> \in Seq(Version) /\ Len(<<>>) = 0 /\ 0 <= CmdQueueLength
<1>1. <<>> \in Seq(Frame) /\ <<>> \in Seq(Version) /\ Len(<<>>) = 0
  BY EmptySeq
<1>2. [sensor |-> <<0, 0>>, diag |-> <<0, 0>>] \in [{"sensor", "diag"} -> {0, 1} \X {0, 1}]
  <2> DEFINE r == [sensor |-> <<0, 0>>, diag |-> <<0, 0>>]
  <2>1. r = [s \in {"sensor", "diag"} |-> <<0, 0>>]
    OBVIOUS
  <2>2. <<0, 0>> \in {0, 1} \X {0, 1}
    OBVIOUS
  <2> QED BY <2>1, <2>2
<1> QED BY <1>1, <1>2, AppAssumption

LEMMA InitIInv == Init => IInv
<1> SUFFICES ASSUME Init PROVE IInv
  OBVIOUS
<1>1. /\ snapshot \in [{"sensor", "diag"} -> {0, 1} \X {0, 1}] /\ answer \in {0, 1} \X {0, 1}
      /\ left \in [Task -> 0..FrameLen] /\ split \in [Task -> BOOLEAN]
      /\ dataQueue \in 0..DataQueueLength /\ frames \in 0..MaxFrames /\ boots \in 0..MaxBoots
      /\ inbox \in Seq(Frame) /\ cmdQueue \in Seq(Version) /\ Len(cmdQueue) <= CmdQueueLength
  BY StartType, Zenon DEF Init
<1>2. TypeOK
  BY <1>1 DEF Init, TypeOK
<1>3. RequestsCover /\ SnapshotsWhole /\ CommFirst
  BY DEF Init, RequestsCover, SnapshotsWhole, AnswerIsWhole, CommFirst, RepliesAreWhole, Task
<1> QED BY <1>2, <1>3 DEF IInv

LEMMA BootsKeepsIInv == IInv /\ Boots => IInv'
<1> SUFFICES ASSUME IInv, Boots PROVE IInv'
  OBVIOUS
<1>1. /\ snapshot' \in [{"sensor", "diag"} -> {0, 1} \X {0, 1}] /\ answer' \in {0, 1} \X {0, 1}
      /\ left' \in [Task -> 0..FrameLen] /\ split' \in [Task -> BOOLEAN]
      /\ dataQueue' \in 0..DataQueueLength
      /\ inbox' \in Seq(Frame) /\ cmdQueue' \in Seq(Version) /\ Len(cmdQueue') <= CmdQueueLength
  BY StartType, Zenon DEF Boots, Starts
<1>2. frames' \in 0..MaxFrames /\ boots' \in 0..MaxBoots
  BY AppAssumption DEF IInv, TypeOK, Boots
<1>3. TypeOK'
  BY <1>1, <1>2 DEF Boots, Starts, TypeOK
<1>4. RequestsCover' /\ SnapshotsWhole' /\ CommFirst'
  BY DEF Boots, Starts, RequestsCover, SnapshotsWhole, AnswerIsWhole, CommFirst, RepliesAreWhole, Task
<1> QED BY <1>3, <1>4 DEF IInv

\* Only the task that runs sends; vCommTask is never in the middle of a frame then.
LEMMA SendByteKeepsIInv ==
  ASSUME IInv, NEW t \in Task, SendByte(t)
  PROVE  IInv'
<1> USE DEF IInv
<1>1. /\ left' = [left EXCEPT ![t] = @ - 1] /\ left[t] > 0 /\ Runs(t)
      /\ split' = [u \in Task |-> IF u = t THEN split[t] /\ left[t] > 1
                                  ELSE split[u] \/ left[u] \in 1..(FrameLen - 1)]
      /\ UNCHANGED <<running, inbox, comm, control, app, monitor, memory, queues, failed, bounds>>
  BY DEF SendByte
<1>2. /\ left \in [Task -> 0..FrameLen] /\ split \in [Task -> BOOLEAN] /\ FrameLen \in Nat
      /\ "comm" \in Task
  BY AppAssumption DEF TypeOK, Task
<1>3. left' \in [Task -> 0..FrameLen]
  BY <1>1, <1>2
<1>4. split' \in [Task -> BOOLEAN]
  BY <1>1, <1>2
<1>5. TypeOK' /\ RequestsCover' /\ SnapshotsWhole'
  BY <1>1, <1>3, <1>4 DEF TypeOK, RequestsCover, SnapshotsWhole, AnswerIsWhole, memory, queues, bounds
<1>6. ~split'["comm"]
  <2>1. CASE t = "comm"
    BY <1>1, <1>2, <2>1 DEF CommFirst, RepliesAreWhole
  <2>2. CASE t # "comm"
    <3>1. left["comm"] = 0 /\ ~split["comm"]
      BY <1>1, <2>2, Scheduled DEF CommFirst, RepliesAreWhole
    <3>2. split'["comm"] = (split["comm"] \/ left["comm"] \in 1..(FrameLen - 1))
      BY <1>1, <1>2, <2>2
    <3>3. ~(left["comm"] \in 1..(FrameLen - 1))
      BY <1>2, <3>1
    <3> QED BY <3>1, <3>2, <3>3
  <2> QED BY <2>1, <2>2
<1>7. critical' # "none" => left'["comm"] = 0
  <2>1. SUFFICES ASSUME critical # "none" PROVE left'["comm"] = 0
    BY <1>1 DEF memory
  <2>2. t # "comm"
    BY <1>1, <2>1, Scheduled
  <2> QED BY <1>1, <1>2, <2>1, <2>2 DEF CommFirst
<1> QED BY <1>5, <1>6, <1>7 DEF CommFirst, RepliesAreWhole

\* A reset ends everything as it stands.
LEMMA StopsKeepsIInv ==
  ASSUME IInv, Stops
  PROVE  IInv'
<1>1. /\ running' = FALSE
      /\ UNCHANGED <<inbox, comm, control, app, monitor, memory, queues, line, failed, bounds>>
  BY DEF Stops
<1>2. TypeOK'
  BY <1>1 DEF IInv, TypeOK, memory, queues, line, bounds
<1>3. RequestsCover'
  BY <1>1 DEF IInv, RequestsCover, queues
<1>4. SnapshotsWhole' /\ CommFirst'
  BY <1>1 DEF IInv, SnapshotsWhole, AnswerIsWhole, CommFirst, RepliesAreWhole, memory, line
<1> QED BY <1>2, <1>3, <1>4 DEF IInv

LEMMA CommKeepsIInv ==
  ASSUME IInv, Comm
  PROVE  IInv'
<1> USE DEF IInv
<1>0. /\ "comm" \in Task /\ (Runs("comm") => critical = "none")
      /\ left["comm"] \in 0..FrameLen
  BY Scheduled DEF Task, TypeOK
<1>a. ASSUME NEW f, Next1(f)
      PROVE  inbox' \in Seq(Frame) /\ f \in Frame
  BY <1>a, HeadTailProperties DEF Next1, TypeOK
<1>1. ASSUME NEW v \in Version, DispatchOtaAvailable(v)
      PROVE  IInv'
  <2>1. /\ Next1(<<"available", v>>) /\ Enqueue(v) /\ Signal
        /\ UNCHANGED <<comm, dataQueue, line, answer>> /\ RestComm
    BY <1>1 DEF DispatchOtaAvailable
  <2>2. /\ cmdQueue' \in Seq(Version) /\ Len(cmdQueue') <= CmdQueueLength
        /\ available' \in BOOLEAN /\ control' \in {control, "take"} /\ RequestsCover'
    BY <2>1, AnnouncementKept
  <2>3. inbox' \in Seq(Frame)
    BY <1>a, <2>1
  <2>4. TypeOK'
    BY <2>1, <2>2, <2>3 DEF TypeOK, RestComm, line, bounds
  <2>5. SnapshotsWhole' /\ CommFirst'
    BY <2>1 DEF SnapshotsWhole, AnswerIsWhole, CommFirst, RepliesAreWhole, RestComm, line
  <2> QED BY <2>2, <2>4, <2>5
<1>2. CASE DispatchShort
  <2>1. /\ Next1(<<"short">>) /\ UNCHANGED <<available, control, cmdQueue, comm, dataQueue, line, answer>>
        /\ RestComm
    BY <1>2 DEF DispatchShort, Ignore
  <2>2. inbox' \in Seq(Frame)
    BY <1>a, <2>1
  <2> QED BY <2>1, <2>2 DEF TypeOK, RequestsCover, SnapshotsWhole, AnswerIsWhole, CommFirst,
            RepliesAreWhole, RestComm, line, bounds
<1>3. CASE DispatchAppMsg
  <2>1. /\ Next1(<<"message">>) /\ UNCHANGED <<available, control, cmdQueue, comm, line, answer>>
        /\ RestComm
        /\ dataQueue' = IF dataQueue = DataQueueLength THEN dataQueue ELSE dataQueue + 1
    BY <1>3 DEF DispatchAppMsg
  <2>2. inbox' \in Seq(Frame)
    BY <1>a, <2>1
  <2>3. dataQueue' \in 0..DataQueueLength
    BY <2>1, AppAssumption DEF TypeOK
  <2> QED BY <2>1, <2>2, <2>3 DEF TypeOK, RequestsCover, SnapshotsWhole, AnswerIsWhole, CommFirst,
            RepliesAreWhole, RestComm, line, bounds
<1>4. CASE DispatchQuery
  <2>1. /\ Next1(<<"query">>) /\ UNCHANGED <<control, queues, answer>> /\ RestComm
        /\ comm' = "reply" /\ Sends("comm") /\ critical = "none"
    BY <1>0, <1>4 DEF DispatchQuery, Continues
  <2>2. inbox' \in Seq(Frame)
    BY <1>a, <2>1
  <2>3. left' \in [Task -> 0..FrameLen] /\ split' \in [Task -> BOOLEAN] /\ RepliesAreWhole'
    BY <1>0, <2>1, SendsType DEF CommFirst
  <2> QED BY <2>1, <2>2, <2>3 DEF TypeOK, RequestsCover, SnapshotsWhole, AnswerIsWhole, CommFirst,
            RestComm, queues, bounds
<1>5. ASSUME NEW s \in {"sensor", "diag"}, DispatchSnapshot(s)
      PROVE  IInv'
  <2>1. /\ Next1(<<"snapshot", s>>) /\ UNCHANGED <<control, queues>> /\ RestComm
        /\ comm' = "reply" /\ Sends("comm") /\ critical = "none" /\ answer' = snapshot[s]
    BY <1>0, <1>5 DEF DispatchSnapshot, Continues
  <2>2. inbox' \in Seq(Frame)
    BY <1>a, <2>1
  <2>3. left' \in [Task -> 0..FrameLen] /\ split' \in [Task -> BOOLEAN] /\ RepliesAreWhole'
    BY <1>0, <2>1, SendsType DEF CommFirst
  <2>4. answer' \in {0, 1} \X {0, 1} /\ answer'[1] = answer'[2]
    BY <2>1 DEF TypeOK, SnapshotsWhole
  <2> QED BY <2>1, <2>2, <2>3, <2>4 DEF TypeOK, RequestsCover, SnapshotsWhole, AnswerIsWhole,
            CommFirst, RestComm, queues, bounds
<1>6. CASE DispatchReset
  BY <1>6, StopsKeepsIInv DEF DispatchReset
<1>7. CASE Replied
  <2>1. /\ UNCHANGED <<control, inbox, queues, line>> /\ RestComm
        /\ comm' = "wait" /\ answer' = <<0, 0>>
    BY <1>7 DEF Replied
  <2> QED BY <2>1, StartType DEF TypeOK, RequestsCover, SnapshotsWhole, AnswerIsWhole, CommFirst,
            RepliesAreWhole, RestComm, queues, line, bounds
<1> QED BY <1>1, <1>2, <1>3, <1>4, <1>5, <1>6, <1>7 DEF Comm

LEMMA ControlKeepsIInv ==
  ASSUME IInv, Control
  PROVE  IInv'
<1> USE DEF IInv
<1>0. "control" \in Task /\ "control" # "comm"
  BY DEF Task
\* Steps that touch neither queue nor event, and do not end in "take" or "wait".
<1>a. ASSUME Sends("control") \/ UNCHANGED line,
             control' \in {"reported", "delay", "check", "ready", "settle"},
             failed' \in BOOLEAN, UNCHANGED <<cmdQueue, available>>, RestControl
      PROVE  IInv'
  <2>1. /\ left' \in [Task -> 0..FrameLen] /\ split' \in [Task -> BOOLEAN] /\ RepliesAreWhole'
        /\ left'["comm"] = left["comm"]
    BY <1>0, <1>a, SendsType DEF CommFirst
  <2>2. UNCHANGED <<running, inbox, comm, app, monitor, memory, dataQueue, bounds, cmdQueue, available>>
    BY <1>a DEF RestControl
  <2>3. TypeOK'
    BY <1>a, <2>1, <2>2 DEF TypeOK, memory, bounds
  <2>4. RequestsCover'
    BY <1>a, <2>2 DEF RequestsCover
  <2>5. SnapshotsWhole' /\ CommFirst'
    BY <2>1, <2>2 DEF SnapshotsWhole, AnswerIsWhole, CommFirst, memory
  <2> QED BY <2>3, <2>4, <2>5
\* Steps that leave the line alone.
<1>b. ASSUME UNCHANGED line, UNCHANGED failed, RestControl, RequestsCover',
             control' \in {"take", "wait", "check", "record"}, available' \in BOOLEAN,
             cmdQueue' \in Seq(Version), Len(cmdQueue') <= CmdQueueLength
      PROVE  IInv'
  <2>1. UNCHANGED <<running, inbox, comm, app, monitor, memory, dataQueue, bounds, left, split, failed>>
    BY <1>b DEF RestControl, line
  <2>2. TypeOK'
    BY <1>b, <2>1 DEF TypeOK, memory, bounds
  <2>3. SnapshotsWhole' /\ CommFirst'
    BY <2>1 DEF SnapshotsWhole, AnswerIsWhole, CommFirst, RepliesAreWhole, memory
  <2> QED BY <1>b, <2>2, <2>3
<1>1. CASE Reports
  BY <1>1, <1>a DEF Reports, TypeOK
<1>2. CASE Confirms
  BY <1>2, <1>a DEF Confirms, TypeOK
<1>3. CASE Waits
  <2>1. /\ control = "check" /\ control' = IF available THEN "take" ELSE "wait"
        /\ available' = FALSE /\ UNCHANGED cmdQueue
    BY <1>3 DEF Waits
  <2>2. RequestsCover'
    BY <2>1 DEF RequestsCover
  <2> QED BY <1>3, <1>b, <2>1, <2>2 DEF Waits, TypeOK
<1>4. CASE Takes
  <2>1. control = "take" /\ cmdQueue # <<>> /\ cmdQueue \in Seq(Version) /\ available \in BOOLEAN
    BY <1>4 DEF Takes, RequestsCover, TypeOK
  <2>2. control' = "record" /\ cmdQueue' = Tail(cmdQueue) /\ available' = available
    BY <1>4, <2>1 DEF Takes
  <2>3. cmdQueue' \in Seq(Version) /\ Len(cmdQueue') = Len(cmdQueue) - 1 /\ Len(cmdQueue) \in Nat
    BY <2>1, <2>2, HeadTailProperties, LenProperties
  <2>4. RequestsCover' /\ Len(cmdQueue') <= CmdQueueLength
    BY <2>1, <2>2, <2>3, AppAssumption DEF RequestsCover, TypeOK
  <2> QED BY <1>4, <1>b, <2>1, <2>2, <2>3, <2>4 DEF Takes
<1>5. CASE Records
  BY <1>5, <1>a DEF Records, TypeOK
<1>6. CASE ReadySent
  BY <1>6, <1>a DEF ReadySent, TypeOK
<1>7. CASE Resets
  BY <1>7, StopsKeepsIInv DEF Resets
<1> QED BY <1>1, <1>2, <1>3, <1>4, <1>5, <1>6, <1>7 DEF Control

\* The writers of the snapshots: each in its critical section, which begins when
\* vCommTask has nothing to send.
LEMMA WritersKeepIInv ==
  ASSUME IInv, App \/ Monitor
  PROVE  IInv'
<1> USE DEF IInv
<1>0. /\ "app" \in Task /\ "monitor" \in Task
      /\ Runs("app") => critical \in {"none", "app"} /\ left["comm"] = 0
      /\ Runs("monitor") => critical \in {"none", "monitor"} /\ left["comm"] = 0
  BY Scheduled DEF Task
<1>a. ASSUME NEW t \in {"app", "monitor"}, Sends(t) \/ UNCHANGED line, left["comm"] = 0,
             app' \in {"publish", "loop", "wait", "copy"}, monitor' \in {"sample", "copy", "wait"},
             critical' \in {"none", "app", "monitor"}, dataQueue' \in 0..DataQueueLength,
             snapshot' \in [{"sensor", "diag"} -> {0, 1} \X {0, 1}], SnapshotsWhole', RestApp
      PROVE  IInv'
  <2>1. /\ left' \in [Task -> 0..FrameLen] /\ split' \in [Task -> BOOLEAN] /\ RepliesAreWhole'
        /\ left'["comm"] = 0
    BY <1>0, <1>a, SendsType DEF CommFirst
  <2>2. UNCHANGED <<running, inbox, comm, control, cmdQueue, available, answer, failed, bounds>>
    BY <1>a DEF RestApp
  <2>3. TypeOK'
    BY <1>a, <2>1, <2>2 DEF TypeOK, bounds
  <2>4. RequestsCover' /\ CommFirst'
    BY <2>1, <2>2 DEF RequestsCover, CommFirst
  <2> QED BY <1>a, <2>3, <2>4
<1>b. ASSUME NEW s \in {"sensor", "diag"}, CopiesFirst(s) \/ CopiesRest(s)
      PROVE  /\ snapshot' \in [{"sensor", "diag"} -> {0, 1} \X {0, 1}]
             /\ \A r \in {"sensor", "diag"} \ {s} : snapshot'[r] = snapshot[r]
             /\ CopiesRest(s) => snapshot'[s][1] = snapshot'[s][2]
  <2>1. /\ snapshot \in [{"sensor", "diag"} -> {0, 1} \X {0, 1}]
    BY DEF TypeOK
  <2>2. snapshot[s][1] \in {0, 1} /\ snapshot[s][2] \in {0, 1}
    BY <2>1
  <2>3. /\ <<1 - snapshot[s][1], snapshot[s][2]>> \in {0, 1} \X {0, 1}
        /\ <<snapshot[s][1], snapshot[s][1]>> \in {0, 1} \X {0, 1}
    BY <2>2
  <2> QED BY <1>b, <2>1, <2>3 DEF CopiesFirst, CopiesRest
<1>1. CASE AppReceives
  <2>1. dataQueue' \in 0..DataQueueLength
    BY <1>1, AppAssumption DEF AppReceives, TypeOK
  <2> QED BY <1>0, <1>1, <1>a, <2>1
          DEF AppReceives, Continues, TypeOK, SnapshotsWhole, AnswerIsWhole, RestApp
<1>2. CASE AppSkips
  BY <1>0, <1>2, <1>a DEF AppSkips, Continues, TypeOK, SnapshotsWhole, AnswerIsWhole, RestApp
<1>3. CASE AppPublishes
  <2>1. SnapshotsWhole'
    BY <1>0, <1>3, <1>b
       DEF AppPublishes, Continues, EntersCritical, SnapshotsWhole, AnswerIsWhole, RestApp
  <2> QED BY <1>0, <1>3, <1>a, <1>b, <2>1 DEF AppPublishes, Continues, EntersCritical, TypeOK
<1>4. CASE AppPublished
  <2>1. SnapshotsWhole'
    BY <1>0, <1>4, <1>b DEF AppPublished, Continues, SnapshotsWhole, AnswerIsWhole, RestApp
  <2> QED BY <1>0, <1>4, <1>a, <1>b, <2>1 DEF AppPublished, Continues, TypeOK
<1>5. CASE MonitorSamples
  <2>1. SnapshotsWhole'
    BY <1>0, <1>5, <1>b
       DEF MonitorSamples, Continues, EntersCritical, SnapshotsWhole, AnswerIsWhole, RestApp
  <2> QED BY <1>0, <1>5, <1>a, <1>b, <2>1 DEF MonitorSamples, Continues, EntersCritical, TypeOK
<1>6. CASE MonitorFeeds
  BY <1>0, <1>6, <1>a DEF MonitorFeeds, Continues, TypeOK, SnapshotsWhole, AnswerIsWhole, RestApp
<1>7. CASE MonitorSampled
  <2>1. SnapshotsWhole'
    BY <1>0, <1>7, <1>b DEF MonitorSampled, Continues, SnapshotsWhole, AnswerIsWhole, RestApp
  <2> QED BY <1>0, <1>7, <1>a, <1>b, <2>1 DEF MonitorSampled, Continues, TypeOK
<1> QED BY <1>1, <1>2, <1>3, <1>4, <1>5, <1>6, <1>7 DEF App, Monitor

\* What happens outside the tasks.
LEMMA OutsideKeepsIInv ==
  ASSUME IInv, Wakes \/ (\E f \in Frame : FrameArrives(f)) \/ UNCHANGED vars
  PROVE  IInv'
<1> USE DEF IInv
<1>1. CASE Wakes
  <2>1. /\ UNCHANGED <<running, inbox, comm, memory, queues, line, failed, bounds>>
        /\ app' \in {app, "loop"} /\ monitor' \in {monitor, "sample"}
        /\ control' \in {control, "confirm", "reset"}
    BY <1>1 DEF Wakes
  <2> QED BY <2>1 DEF TypeOK, RequestsCover, SnapshotsWhole, AnswerIsWhole, CommFirst,
            RepliesAreWhole, memory, queues, line, bounds
<1>2. ASSUME NEW f \in Frame, FrameArrives(f)
      PROVE  IInv'
  <2>1. /\ frames < MaxFrames /\ frames' = frames + 1 /\ inbox' = Append(inbox, f)
        /\ UNCHANGED <<running, comm, control, app, monitor, memory, queues, line, failed, boots>>
    BY <1>2 DEF FrameArrives
  <2>2. inbox' \in Seq(Frame)
    BY <2>1, AppendProperties DEF TypeOK
  <2>3. frames' \in 0..MaxFrames
    BY <2>1, AppAssumption DEF TypeOK
  <2> QED BY <2>1, <2>2, <2>3 DEF TypeOK, RequestsCover, SnapshotsWhole, AnswerIsWhole, CommFirst,
            RepliesAreWhole, memory, queues, line
<1>3. CASE UNCHANGED vars
  BY <1>3 DEF TypeOK, RequestsCover, SnapshotsWhole, AnswerIsWhole, CommFirst,
       RepliesAreWhole, memory, queues, line, bounds, vars
<1> QED BY <1>1, <1>2, <1>3

LEMMA NextKeepsIInv == IInv /\ [Next]_vars => IInv'
  BY SendByteKeepsIInv, CommKeepsIInv, ControlKeepsIInv, WritersKeepIInv, OutsideKeepsIInv,
     BootsKeepsIInv DEF Next, Sending

\* Every variable has its type, and no queue overflows.
THEOREM TypeCorrect == Spec => []TypeOK
<1>1. IInv => TypeOK
  BY DEF IInv
<1> QED BY <1>1, InitIInv, NextKeepsIInv, PTL DEF Spec

\* A wake-up of vControlTask finds a request, whatever was announced while it was
\* busy and however full the queue was.
THEOREM WakeUpsFindRequests == Spec => []WakeFindsRequest
<1>1. IInv => WakeFindsRequest
  BY LenProperties DEF IInv, TypeOK, RequestsCover, WakeFindsRequest
<1> QED BY <1>1, InitIInv, NextKeepsIInv, PTL DEF Spec

\* A snapshot query is answered with one snapshot.
THEOREM AnswersWhole == Spec => []AnswerIsWhole
<1>1. IInv => AnswerIsWhole
  BY DEF IInv, SnapshotsWhole
<1> QED BY <1>1, InitIInv, NextKeepsIInv, PTL DEF Spec

\* A reply of vCommTask is not cut in two by another task's frame.
THEOREM RepliesWhole == Spec => []RepliesAreWhole
<1>1. IInv => RepliesAreWhole
  BY DEF IInv, CommFirst
<1> QED BY <1>1, InitIInv, NextKeepsIInv, PTL DEF Spec

================================================================================
