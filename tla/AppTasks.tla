------------------------------- MODULE AppTasks -------------------------------
(***************************************************************************)
(* The tasks of the application (application/Core/Src/main.c): vCommTask,   *)
(* vControlTask, vAppTask and vMonitorTask under FreeRTOS' preemptive       *)
(* scheduler, the queues and the event bit between them, and the line they  *)
(* all write to without a lock.                                            *)
(*                                                                         *)
(* A task runs if no task of a higher priority is ready; interrupts come    *)
(* between any two steps.  The host's frames arrive whole (modules UartRx   *)
(* and FrameParser are about their bytes); frames sent are counted down     *)
(* byte by byte, since a preemption between two bytes is what matters.  A   *)
(* snapshot is two words of one generation, written one after the other.    *)
(***************************************************************************)
EXTENDS Naturals, Sequences

CONSTANTS
  Version,          \* versions the host may announce
  CmdQueueLength,   \* QUEUE_CMD_LENGTH
  DataQueueLength,  \* QUEUE_DATA_LENGTH
  FrameLen,         \* bytes of a frame sent
  MaxFrames,        \* bound of the model: frames of the host
  MaxBoots          \* bound of the model: restarts of the application

ASSUME AppAssumption ==
  /\ CmdQueueLength \in Nat \ {0, 1} /\ DataQueueLength \in Nat \ {0}
  /\ FrameLen \in Nat \ {0}
  /\ MaxFrames \in Nat /\ MaxBoots \in Nat

VARIABLES
  running,   \* the application runs, not the bootloader
  inbox,     \* frames received and not yet dispatched
  comm,      \* vCommTask: "wait" for a byte or "reply"
  control,   \* vControlTask
  app,       \* vAppTask
  monitor,   \* vMonitorTask
  critical,  \* the task in a critical section, or "none"
  cmdQueue,  \* g_cmd_queue
  dataQueue, \* g_data_queue: messages in it
  available, \* EVENT_OTA_AVAILABLE
  snapshot,  \* g_sensor_snapshot, g_diag_snapshot
  answer,    \* the snapshot vCommTask answers with, while it does
  left,      \* bytes of its frame each task has yet to send
  split,     \* another task has sent a byte in the middle of its frame
  failed,    \* history: an update could not be recorded
  frames, boots

queues == <<cmdQueue, dataQueue, available>>
line == <<left, split>>
memory == <<critical, snapshot, answer>>
bounds == <<frames, boots>>
vars == <<running, inbox, comm, control, app, monitor, memory, queues, line,
          failed, bounds>>

Task == {"comm", "control", "app", "monitor"}

\* Mutant: the task that must not miss an announcement comes first.
PriorityControl == [comm |-> 2, control |-> 3, app |-> 1, monitor |-> 1]

Priority == [comm |-> 3, control |-> 2, app |-> 1, monitor |-> 1]

Starts ==
  /\ running' = TRUE /\ inbox' = <<>>
  /\ comm' = "wait" /\ control' = "report" /\ app' = "publish" /\ monitor' = "sample"
  /\ critical' = "none" /\ cmdQueue' = <<>> /\ dataQueue' = 0 /\ available' = FALSE
  /\ snapshot' = [sensor |-> <<0, 0>>, diag |-> <<0, 0>>]
  /\ answer' = <<0, 0>>
  /\ left' = [t \in Task |-> 0] /\ split' = [t \in Task |-> FALSE]
  /\ failed' = FALSE

Init ==
  /\ running = TRUE /\ inbox = <<>>
  /\ comm = "wait" /\ control = "report" /\ app = "publish" /\ monitor = "sample"
  /\ critical = "none" /\ cmdQueue = <<>> /\ dataQueue = 0 /\ available = FALSE
  /\ snapshot = [sensor |-> <<0, 0>>, diag |-> <<0, 0>>]
  /\ answer = <<0, 0>>
  /\ left = [t \in Task |-> 0] /\ split = [t \in Task |-> FALSE]
  /\ failed = FALSE /\ frames = 0 /\ boots = 0

-----------------------------------------------------------------------------
(* Scheduling.                                                             *)

\* Sending is a busy wait.
Ready(t) ==
  left[t] > 0 \/ CASE t = "comm" -> comm = "reply" \/ inbox # <<>>
                   [] t = "control" -> control \notin {"delay", "settle", "wait"}
                   [] t = "app" -> app # "wait" \/ dataQueue > 0
                   [] t = "monitor" -> monitor # "wait"

Runs(t) ==
  /\ running /\ Ready(t)
  /\ IF critical = "none"
     THEN \A u \in Task : Priority[u] > Priority[t] => ~Ready(u)
     ELSE critical = t

\* The task goes on, its frame being out.
Continues(t) == Runs(t) /\ left[t] = 0

Sends(t) == left' = [left EXCEPT ![t] = FrameLen] /\ split' = [split EXCEPT ![t] = FALSE]

\* cmd_handler_send_frame(): no lock, so a frame under way is cut in two.
SendByte(t) ==
  /\ Runs(t) /\ left[t] > 0
  /\ left' = [left EXCEPT ![t] = @ - 1]
  /\ split' = [u \in Task |-> IF u = t THEN split[t] /\ left[t] > 1
                              ELSE split[u] \/ left[u] \in 1..(FrameLen - 1)]
  /\ UNCHANGED <<running, inbox, comm, control, app, monitor, memory, queues, failed, bounds>>

Interrupt == running /\ critical = "none"

FrameArrives(f) ==
  /\ Interrupt /\ frames < MaxFrames
  /\ frames' = frames + 1 /\ inbox' = Append(inbox, f)
  /\ UNCHANGED <<running, comm, control, app, monitor, memory, queues, line, failed, boots>>

\* The ticks a task waits for have passed.
Wakes ==
  /\ Interrupt
  /\ \/ control = "delay" /\ control' = "confirm" /\ UNCHANGED <<app, monitor>>
     \/ control = "settle" /\ control' = "reset" /\ UNCHANGED <<app, monitor>>
     \/ app = "wait" /\ app' = "loop" /\ UNCHANGED <<control, monitor>>
     \/ monitor = "wait" /\ monitor' = "sample" /\ UNCHANGED <<control, app>>
  /\ UNCHANGED <<running, inbox, comm, memory, queues, line, failed, bounds>>

-----------------------------------------------------------------------------
(* vCommTask(): cmd_handler_dispatch().                                     *)

RestComm == UNCHANGED <<running, app, monitor, critical, snapshot, failed, bounds>>

Next1(f) == comm = "wait" /\ inbox # <<>> /\ Head(inbox) = f /\ inbox' = Tail(inbox)

Full == Len(cmdQueue) = CmdQueueLength

\* Mutant: the length of the queue is not looked at.
EnqueueAlways(v) == cmdQueue' = Append(cmdQueue, v)

\* A full queue drops the request.
Enqueue(v) == cmdQueue' = IF Full THEN cmdQueue ELSE Append(cmdQueue, v)

\* Mutant: a notification that only a task already waiting gets.
SignalWaiting ==
  /\ control' = IF control = "wait" THEN "take" ELSE control
  /\ UNCHANGED available

\* xEventGroupSetBits(): a task that waits takes the bit with it.
Signal ==
  IF control = "wait" THEN control' = "take" /\ UNCHANGED available
                      ELSE available' = TRUE /\ UNCHANGED control

DispatchOtaAvailable(v) ==
  /\ Continues("comm") /\ Next1(<<"available", v>>)
  /\ Enqueue(v) /\ Signal
  /\ UNCHANGED <<comm, dataQueue, line, answer>> /\ RestComm

\* Mutant: the length guards the request, not the event.
IgnoreButSignal == Signal /\ UNCHANGED cmdQueue

Ignore == UNCHANGED <<available, control, cmdQueue>>

\* An announcement without a version, or a command unknown here.
DispatchShort ==
  /\ Continues("comm") /\ Next1(<<"short">>)
  /\ Ignore
  /\ UNCHANGED <<comm, dataQueue, line, answer>> /\ RestComm

DispatchAppMsg ==
  /\ Continues("comm") /\ Next1(<<"message">>)
  /\ dataQueue' = IF dataQueue = DataQueueLength THEN dataQueue ELSE dataQueue + 1
  /\ UNCHANGED <<comm, control, cmdQueue, available, line, answer>> /\ RestComm

\* CMD_RECOVERY_CHECK and CMD_GET_STATUS.
DispatchQuery ==
  /\ Continues("comm") /\ Next1(<<"query">>)
  /\ comm' = "reply" /\ Sends("comm")
  /\ UNCHANGED <<control, queues, answer>> /\ RestComm

\* CMD_GET_SENSOR_SNAPSHOT and CMD_DIAG_SNAPSHOT.
DispatchSnapshot(s) ==
  /\ Continues("comm") /\ Next1(<<"snapshot", s>>)
  /\ answer' = snapshot[s] /\ comm' = "reply" /\ Sends("comm")
  /\ UNCHANGED <<control, queues>> /\ RestComm

Replied ==
  /\ Continues("comm") /\ comm = "reply" /\ comm' = "wait"
  /\ answer' = <<0, 0>>
  /\ UNCHANGED <<control, inbox, queues, line>> /\ RestComm

\* CMD_RESET, and NVIC_SystemReset() of vControlTask.
Stops ==
  /\ running' = FALSE
  /\ UNCHANGED <<inbox, comm, control, app, monitor, memory, queues, line, failed, bounds>>

DispatchReset == Continues("comm") /\ comm = "wait" /\ inbox # <<>>
                 /\ Head(inbox) = <<"reset">> /\ Stops

Comm ==
  \/ \E v \in Version : DispatchOtaAvailable(v)
  \/ \E s \in {"sensor", "diag"} : DispatchSnapshot(s)
  \/ DispatchShort \/ DispatchAppMsg \/ DispatchQuery \/ DispatchReset \/ Replied

-----------------------------------------------------------------------------
(* vControlTask().                                                         *)

RestControl ==
  UNCHANGED <<running, inbox, comm, app, monitor, memory, dataQueue, bounds>>

\* The version is reported if there is a configuration, then three seconds pass.
Reports ==
  /\ Continues("control")
  /\ \/ control = "report" /\ Sends("control") /\ control' = "reported"
     \/ control \in {"report", "reported"} /\ control' = "delay" /\ UNCHANGED line
  /\ UNCHANGED <<cmdQueue, available, failed>> /\ RestControl

\* CMD_OTA_COMMITTED, CMD_NAK if the confirmation fails, nothing if there is no
\* configuration to read then.
Confirms ==
  /\ Continues("control") /\ control = "confirm" /\ control' = "check"
  /\ Sends("control") \/ UNCHANGED line
  /\ UNCHANGED <<cmdQueue, available, failed>> /\ RestControl

\* xEventGroupWaitBits(): with the bit, or blocked until it is set.
Waits ==
  /\ Continues("control") /\ control = "check"
  /\ control' = IF available THEN "take" ELSE "wait"
  /\ available' = FALSE
  /\ UNCHANGED <<cmdQueue, line, failed>> /\ RestControl

Takes ==
  /\ Continues("control") /\ control = "take"
  /\ IF cmdQueue = <<>>
     THEN control' = "check" /\ UNCHANGED cmdQueue
     ELSE control' = "record" /\ cmdQueue' = Tail(cmdQueue)
  /\ UNCHANGED <<available, line, failed>> /\ RestControl

\* ota_config_request_update(); a failure is not answered.
Records ==
  /\ Continues("control") /\ control = "record"
  /\ \/ control' = "ready" /\ Sends("control") /\ UNCHANGED failed
     \/ control' = "check" /\ failed' = TRUE /\ UNCHANGED line
  /\ UNCHANGED <<cmdQueue, available>> /\ RestControl

ReadySent ==
  /\ Continues("control") /\ control = "ready" /\ control' = "settle"
  /\ UNCHANGED <<cmdQueue, available, line, failed>> /\ RestControl

Resets == Continues("control") /\ control = "reset" /\ Stops

Control == Reports \/ Confirms \/ Waits \/ Takes \/ Records \/ ReadySent \/ Resets

-----------------------------------------------------------------------------
(* vAppTask() and vMonitorTask(), which share a priority, as far as others    *)
(* see them.                                                               *)

RestApp == UNCHANGED <<running, inbox, comm, control, cmdQueue, available, answer, failed, bounds>>

\* Mutant: the structure is assigned outside a critical section.
CopiesOpenly(t) == UNCHANGED critical

EntersCritical(t) == critical' = t

\* The copy of a new snapshot begins and ends.
CopiesFirst(s) == snapshot' = [snapshot EXCEPT ![s] = <<1 - @[1], @[2]>>]
CopiesRest(s) == snapshot' = [snapshot EXCEPT ![s] = <<@[1], @[1]>>]

\* One message each time round, answered by a frame of this task.
AppReceives ==
  /\ Continues("app") /\ app = "wait" /\ dataQueue > 0
  /\ dataQueue' = dataQueue - 1 /\ app' = "loop"
  /\ Sends("app") \/ UNCHANGED line
  /\ UNCHANGED <<monitor, critical, snapshot>> /\ RestApp

\* The snapshot is published once every 200 ms, and before the first round.
AppPublishes ==
  /\ Continues("app") /\ app \in {"loop", "publish"} /\ app' = "copy"
  /\ EntersCritical("app") /\ CopiesFirst("sensor")
  /\ UNCHANGED <<monitor, dataQueue, line>> /\ RestApp

AppSkips ==
  /\ Continues("app") /\ app = "loop" /\ app' = "wait"
  /\ UNCHANGED <<monitor, critical, snapshot, dataQueue, line>> /\ RestApp

AppPublished ==
  /\ Continues("app") /\ app = "copy" /\ app' = "wait"
  /\ critical' = "none" /\ CopiesRest("sensor")
  /\ UNCHANGED <<monitor, dataQueue, line>> /\ RestApp

MonitorSamples ==
  /\ Continues("monitor") /\ monitor = "sample" /\ monitor' = "copy"
  /\ EntersCritical("monitor") /\ CopiesFirst("diag")
  /\ UNCHANGED <<app, dataQueue, line>> /\ RestApp

\* Not yet time for a sample; the watchdog is fed either way.
MonitorFeeds ==
  /\ Continues("monitor") /\ monitor = "sample" /\ monitor' = "wait"
  /\ UNCHANGED <<app, critical, snapshot, dataQueue, line>> /\ RestApp

MonitorSampled ==
  /\ Continues("monitor") /\ monitor = "copy" /\ monitor' = "wait"
  /\ critical' = "none" /\ CopiesRest("diag")
  /\ UNCHANGED <<app, dataQueue, line>> /\ RestApp

App == AppReceives \/ AppPublishes \/ AppSkips \/ AppPublished
Monitor == MonitorSamples \/ MonitorFeeds \/ MonitorSampled

-----------------------------------------------------------------------------
\* The bootloader starts the application again.
Boots ==
  /\ ~running /\ boots < MaxBoots /\ boots' = boots + 1
  /\ Starts /\ UNCHANGED frames

Frame ==
  {<<"available", v>> : v \in Version} \cup {<<"snapshot", s>> : s \in {"sensor", "diag"}}
    \cup {<<"short">>, <<"message">>, <<"query">>, <<"reset">>}

Sending == \E t \in Task : SendByte(t)

Next ==
  \/ Sending \/ Comm \/ Control \/ App \/ Monitor \/ Wakes \/ Boots
  \/ \E f \in Frame : FrameArrives(f)

\* The scheduler runs a ready task, and time passes: a tick that comes during a
\* critical section is pending until its end.  The host owes nothing.
Spec ==
  /\ Init /\ [][Next]_vars
  /\ WF_vars(SendByte("comm") \/ Comm) /\ WF_vars(SendByte("control") \/ Control)
  /\ WF_vars(SendByte("app") \/ App) /\ WF_vars(SendByte("monitor") \/ Monitor)
  /\ SF_vars(Wakes /\ control' # control)

-----------------------------------------------------------------------------
\* Every variable has its type, and no queue is longer than it was made.
TypeOK ==
  /\ running \in BOOLEAN /\ available \in BOOLEAN /\ failed \in BOOLEAN
  /\ inbox \in Seq(Frame)
  /\ comm \in {"wait", "reply"}
  /\ control \in {"report", "reported", "delay", "confirm", "check", "wait", "take", "record",
                  "ready", "settle", "reset"}
  /\ app \in {"publish", "loop", "wait", "copy"}
  /\ monitor \in {"sample", "copy", "wait"}
  /\ critical \in {"none", "app", "monitor"}
  /\ cmdQueue \in Seq(Version) /\ Len(cmdQueue) <= CmdQueueLength
  /\ dataQueue \in 0..DataQueueLength
  /\ snapshot \in [{"sensor", "diag"} -> {0, 1} \X {0, 1}]
  /\ answer \in {0, 1} \X {0, 1}
  /\ left \in [Task -> 0..FrameLen] /\ split \in [Task -> BOOLEAN]
  /\ frames \in 0..MaxFrames /\ boots \in 0..MaxBoots

\* "The event bit was just set, so there must be data in the queue": whatever
\* the order of announcements, full queues and failures, a wake-up of
\* vControlTask always finds a request.
WakeFindsRequest ==
  control = "take" => cmdQueue # <<>>

\* The answer to a snapshot query is one snapshot, not the halves of two.
AnswerIsWhole == answer[1] = answer[2]

\* Replies of vCommTask reach the line in one piece; of the other tasks' frames,
\* CMD_OTA_READY and CMD_OTA_COMMITTED among them, the code does not ensure it.
RepliesAreWhole == ~split["comm"]

\* An announcement that got into the queue leads to the reset that starts the
\* update, even if it came before vControlTask was there to hear it, unless a
\* configuration could not be written.
AnnouncementServed == (running /\ cmdQueue # <<>>) ~> (~running \/ failed)

=============================================================================
