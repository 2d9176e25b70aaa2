------------------------------ MODULE OtaSystem ------------------------------
(***************************************************************************)
(* The bridge (esp32-comm-bridge/src/main.cpp) and the device of module    *)
(* Bootloader on one line: the transfer of a staged image, the sensor poll *)
(* that turns into a recovery, and the golden image.  Every step of the    *)
(* device is a step of Bootloader with its frames made explicit.           *)
(*                                                                         *)
(* The line carries one frame to the device at a time, since the bridge    *)
(* waits for an answer, and a sequence of frames to the bridge, which its  *)
(* driver buffers.  A frame in transit is at most some 200 ms away and all *)
(* waits of the bridge last longer: a wait times out only when nothing is  *)
(* under way (Quiet).  Of the device's waits the bridge's own once-a-second *)
(* poll keeps those of 10 s and 30 s from timing out as long as the bridge *)
(* runs.                                                                   *)
(*                                                                         *)
(* The staging file and its variables are not locked: pushes over          *)
(* Bluetooth, downloads and closed connections change them at any time,    *)
(* also in the middle of a transfer that reads them.  One of these writers *)
(* is active at a time (several at once, and the blocks of a copy, are     *)
(* module Bridge's), a block of a push is a page, and a few reads of these *)
(* variables with no call in between are one step.                         *)
(***************************************************************************)
EXTENDS Naturals, Sequences

CONSTANTS
  Image, Crashy, Size, AppPages, Blank, Torn, NoConfig, BootAttemptLimit,
  AttemptCap,   \* as in Bootloader
  NoImage,      \* no file, nothing pending
  MaxRetries,   \* OTA_MAX_RETRIES
  Staged,       \* what may be staged and verified when the device is switched
                \* on, NoImage if nothing is
  Budget        \* bound of the model: how many faults (frames lost, flash
                \* faults, resets) with how many pushes and downloads

VARIABLES
  pc, region, cfg, attempts, status, ota, acked, told, runs,  \* Bootloader
  req,       \* the application's g_cmd_queue: version and size announced
  down,      \* the frame on its way to the device, <<>> if none
  up,        \* frames on their way to the bridge, or in its driver
  bpc,       \* what the bridge waits for
  file,      \* the staging file: block k is page k - 1 of image file[k]
  fw,        \* g_fw_staged, g_fw_size, g_fw_crc32, g_fw_version
  load,      \* the push or download under way, <<>> if none
  handle,    \* the transfer's open file, "orphan" once it is unlinked
  buf,       \* chunk_payload of the transfer
  golden,    \* image in the golden file
  seq,       \* seq in transfer_to_stm32_impl
  retry,     \* its retry
  misses,    \* consecutive_failures of the sensor poll, 3 for more
  asks,      \* the poll task waits for the mutex to start a recovery
  restoring, \* the transfer is the poll task's own
  committed, \* committed in the poll task
  verdict,   \* what the last transfer returned
  faults, uploads,
  sent,      \* history: the image (CRC) the last CMD_OTA_BEGIN announced
  intact,    \* history: the file is still as it was when the transfer opened it,
             \*          and no page of an earlier one was being programmed then
  clean      \* history: it met a running application, no fault and no writer

Dev == INSTANCE Bootloader

ASSUME OtaAssumption ==
  /\ Dev!BootAssumption
  /\ NoImage \notin Image
  /\ MaxRetries \in Nat \ {0}
  /\ Staged \subseteq Image \cup {NoImage} /\ Budget \subseteq Nat \X Nat

device == <<pc, region, cfg, attempts, status, ota, acked, told, runs>>
stage == <<file, fw, load, handle, buf, intact>>
polling == <<misses, asks, restoring, committed>>
bridge == <<bpc, stage, golden, seq, retry, polling, verdict, uploads, sent>>
vars == <<device, req, down, up, bridge, faults, clean>>

Transfer == {"open", "ready", "pause", "begun", "read", "chunk", "ended"}

Whole(i) == [k \in 1..Size[i] |-> i]
FileIs(i) == i \in Image /\ file = Whole(i)

\* The CRC of some content: that of an image, or of none.
CrcOf(f) ==
  IF \E i \in Image : f = Whole(i) THEN CHOOSE i \in Image : f = Whole(i) ELSE Blank

NoFw == [staged |-> FALSE, size |-> 0, crc |-> Blank, version |-> NoImage]

FwOf(i) == [staged |-> TRUE, size |-> Size[i], crc |-> i, version |-> i]

\* g_fw_receiving; stuck once a transfer has rewritten the sizes of a push.
Receiving == load \in {<<"push">>, <<"stuck">>}
Downloading == load # <<>> /\ ~Receiving

\* verify_staged_firmware().
Verified == ~Receiving /\ FileIs(fw.crc) /\ fw.size = Size[fw.crc]

Fault ==
  faults' = faults + 1 /\ <<faults', uploads>> \in Budget /\ clean' = FALSE
NoFault == UNCHANGED <<faults, clean>>

Reply(f) == up' = Append(up, f)

Init ==
  /\ Dev!Init
  /\ req = <<>> /\ down = <<>> /\ up = <<>>
  /\ bpc = "idle" /\ load = <<>>
  /\ \E i \in Staged :
       IF i = NoImage THEN file = <<>> /\ fw = NoFw ELSE file = Whole(i) /\ fw = FwOf(i)
  /\ handle = "none" /\ buf = NoImage /\ intact = FALSE
  /\ golden \in {NoImage} \cup (Image \ Crashy)
  /\ seq = 0 /\ retry = 0
  /\ misses = 0 /\ asks = FALSE /\ restoring = FALSE /\ committed = FALSE
  /\ verdict = "none" /\ faults = 0 /\ uploads = 0 /\ sent = Blank /\ clean = FALSE

-----------------------------------------------------------------------------
(* The device takes a frame.                                               *)

\* The queue of the application does not survive a reset.
QueueAfter == req' = IF pc' = "boot" THEN <<>> ELSE req

\* What the application answers; Comm runs from the start, the request waits
\* for Control.  A frame of a transfer is ignored.
AppReceives ==
  /\ pc \in {"app", "confirming", "running"}
  /\ req' = IF down[1] = "AVAILABLE" /\ req = <<>> THEN <<down[2], down[3]>> ELSE req
  /\ \/ CASE down[1] = "POLL" -> Reply(<<"SNAPSHOT">>)
          [] down[1] = "CHECK" -> Reply(<<"RECOVERY_RSP", "NORMAL">>)
          [] OTHER -> UNCHANGED up
     \/ Dev!DiesEarly /\ UNCHANGED up
  /\ UNCHANGED device /\ NoFault

ReceivesBegin ==
  /\ down[1] = "BEGIN"
  /\ \/ down[3] > 0 /\ Dev!ProcessOtaBegin(down[2], down[3]) /\ Reply(<<"BEGIN_ACK">>)
     \/ down[3] = 0 /\ Dev!OtaBeginRefused /\ Reply(<<"NAK">>)
  /\ UNCHANGED req /\ NoFault

WindowReceivesCheck ==
  /\ down[1] = "CHECK" /\ pc = "window"
  /\ Dev!WindowPolled
  /\ Reply(<<"RECOVERY_RSP", status>>) /\ UNCHANGED req /\ NoFault

WindowReceivesOther ==
  /\ \/ pc = "window" /\ down[1] \notin {"BEGIN", "CHECK"} /\ Dev!WindowCloses
     \/ pc = "window2" /\ down[1] # "BEGIN" /\ Dev!SecondWindowCloses
  /\ UNCHANGED <<req, up>> /\ NoFault

MaintReceives ==
  /\ pc = "maint" /\ down[1] # "BEGIN"
  /\ IF down[1] = "CHECK" THEN Reply(<<"RECOVERY_RSP", status>>) ELSE UNCHANGED up
  /\ UNCHANGED <<device, req>> /\ NoFault

\* The acknowledgement follows when the page is programmed.
ReceivesChunk ==
  /\ down[1] = "CHUNK"
  /\ Dev!EraseChunkPage(down[2], down[3])
  /\ UNCHANGED <<req, up>> /\ NoFault

EraseFault ==
  /\ down[1] = "CHUNK"
  /\ Dev!EraseChunkPageFails(down[2])
  /\ Reply(<<"NAK">>) /\ UNCHANGED req /\ Fault

RefusesChunk ==
  /\ pc = "active" /\ down[1] = "CHUNK" /\ ~Dev!ChunkAccepted(down[2])
  /\ Reply(<<"NAK">>)
  /\ UNCHANGED <<device, req>> /\ NoFault

ReceivesEnd ==
  /\ down[1] = "END"
  /\ \/ /\ Dev!OtaEndShort \/ Dev!OtaEndCorrupt
        /\ Reply(<<"RESULT", "fail">>) /\ NoFault
     \/ Dev!OtaEndCommits /\ UNCHANGED up /\ NoFault
     \/ /\ Dev!OtaEndUnrecorded /\ Reply(<<"RESULT", "fail">>)
        /\ IF cfg = NoConfig THEN NoFault ELSE Fault
  /\ UNCHANGED req

ReceivesAbort ==
  /\ down[1] = "ABORT" /\ Dev!OtaAborted
  /\ Reply(<<"NAK">>) /\ QueueAfter /\ NoFault

\* Polls too: they count as activity of the host.
ActiveReceivesOther ==
  /\ pc = "active" /\ down[1] \notin {"CHUNK", "END", "ABORT"}
  /\ Reply(<<"NAK">>)
  /\ UNCHANGED <<device, req>> /\ NoFault

\* Nobody reads the line.
Unheard ==
  /\ pc \in {"boot", "error", "committed", "halt"}
  /\ UNCHANGED <<device, req, up>> /\ NoFault

DeviceReceives ==
  /\ down # <<>> /\ down' = <<>>
  /\ \/ AppReceives \/ ReceivesBegin \/ WindowReceivesCheck \/ WindowReceivesOther
     \/ MaintReceives \/ ReceivesChunk \/ EraseFault \/ RefusesChunk
     \/ ReceivesEnd \/ ReceivesAbort \/ ActiveReceivesOther \/ Unheard
  /\ UNCHANGED bridge

-----------------------------------------------------------------------------
(* The device on its own.                                                  *)

\* The windows of 200 ms and 2 s pass while the bridge does something else,
\* but its pause before BEGIN is shorter, and so is, of 2 s, the way of READY;
\* the window of 10 s passes only if the bridge is off.
WindowTimesOut ==
  /\ IF status \in {"NORMAL", "OTA_PENDING"}
     THEN bpc # "pause" /\ ~(bpc = "ready" /\ status = "OTA_PENDING" /\ up # <<>>)
     ELSE bpc = "off"
  /\ Dev!WindowCloses
  /\ UNCHANGED <<req, up>> /\ NoFault

LongWaitTimesOut ==
  /\ bpc = "off"
  /\ Dev!SecondWindowCloses \/ Dev!OtaAborted
  /\ UNCHANGED up /\ QueueAfter /\ NoFault

Programs ==
  \/ Dev!ProgramChunk /\ Reply(<<"CHUNK_ACK", ota.seq>>) /\ UNCHANGED req /\ NoFault
  \/ Dev!ProgramChunkFails /\ Reply(<<"NAK">>) /\ UNCHANGED req /\ Fault

Runs ==
  /\ \/ Dev!BootDecision \/ Dev!AfterError \/ Dev!WatchdogReset \/ Dev!AppDies
     \/ (cfg # NoConfig /\ Dev!ConfirmClearsAttempts)
  /\ UNCHANGED up /\ QueueAfter /\ NoFault

SendsResult ==
  Dev!SendResultAndJump /\ Reply(<<"RESULT", "ok">>) /\ UNCHANGED req /\ NoFault

\* Announced with the version recorded, or a NAK.
Confirms ==
  /\ UNCHANGED req
  /\ \/ Dev!ConfirmClearsAttempts /\ cfg = NoConfig /\ Reply(<<"NAK">>) /\ NoFault
     \/ /\ Dev!ConfirmWrites
        /\ IF cfg'.confirmed THEN Reply(<<"COMMITTED", cfg.crc>>) /\ NoFault
                             ELSE Reply(<<"NAK">>) /\ Fault

RequestsUpdate ==
  /\ req # <<>> /\ pc = "running" /\ req' = <<>>
  /\ \/ Dev!AppRequestsUpdate(req[2]) /\ Reply(<<"READY", req[1]>>) /\ NoFault
     \/ /\ UNCHANGED <<device, up>>
        /\ IF cfg = NoConfig THEN NoFault ELSE Fault

DeviceStep ==
  /\ \/ (down = <<>> /\ (WindowTimesOut \/ LongWaitTimesOut))
     \/ Programs \/ Runs \/ SendsResult \/ Confirms \/ RequestsUpdate
  /\ UNCHANGED <<down, bridge>>

-----------------------------------------------------------------------------
(* The transfer, transfer_to_stm32_impl().                                 *)

Busy == pc \in {"programming", "committed"} \/ (pc = "running" /\ req # <<>>)
Quiet == down = <<>> /\ up = <<>> /\ ~Busy

\* The transfer begins: the mutex is taken and the staging verified.
Begins ==
  /\ bpc' = "open" /\ verdict' = "none" /\ seq' = 0 /\ retry' = 0
  /\ UNCHANGED <<device, req, down, uploads, sent, faults>>

\* SEND over Bluetooth, or start on the web page.
UserSends ==
  /\ bpc = "idle" /\ down = <<>> /\ fw.staged /\ Verified
  /\ Begins
  /\ clean' = (pc = "running" /\ req = <<>> /\ cfg # NoConfig)
  /\ UNCHANGED <<up, stage, golden, polling>>

Returns(v) ==
  /\ bpc' = "idle" /\ verdict' = v /\ restoring' = FALSE
  /\ handle' = "none" /\ buf' = NoImage
  /\ UNCHANGED <<golden, intact, seq, retry, misses, asks, committed, uploads, sent>>

Fails == Returns("fail") /\ UNCHANGED <<file, fw, load>>

Keeps == UNCHANGED <<stage, golden, polling, verdict, uploads>>

\* Mutant: frames from before the transfer stay in the driver.
AnnounceUnflushed == down' = <<"AVAILABLE", fw.version, fw.size>> /\ UNCHANGED up

\* The driver's input is flushed first.
Announce == down' = <<"AVAILABLE", fw.version, fw.size>> /\ up' = <<>>

Announces ==
  /\ bpc = "open" /\ down = <<>>
  /\ \/ /\ bpc' = "ready" /\ Announce /\ handle' = "open"
        /\ intact' = (FileIs(fw.crc) /\ pc # "programming")
        /\ UNCHANGED <<file, fw, load, buf, golden, seq, retry, polling, verdict,
                       uploads, sent>>
     \/ file = <<>> /\ UNCHANGED <<down, up>> /\ Fails

\* The wait for an answer ends: the frame, a NAK, or the timeout.  Other
\* frames are skipped.
Answered(c) == up # <<>> /\ Head(up)[1] = c /\ up' = Tail(up) /\ UNCHANGED down
Refused == up # <<>> /\ Head(up)[1] = "NAK" /\ up' = Tail(up)
TimedOut == Quiet /\ UNCHANGED up
NoAnswer == (Refused \/ TimedOut) /\ down = <<>>

Awaited ==
  CASE bpc = "ready" -> "READY" [] bpc = "begun" -> "BEGIN_ACK"
    [] bpc = "chunk" -> "CHUNK_ACK" [] bpc = "ended" -> "RESULT"
    [] bpc = "poll" -> "SNAPSHOT" [] OTHER -> "none"

Skips ==
  /\ bpc \in {"ready", "begun", "chunk", "ended", "poll"}
  /\ up # <<>> /\ Head(up)[1] \notin {Awaited, "NAK"}
  /\ up' = Tail(up)
  /\ UNCHANGED <<device, req, down, bridge>> /\ NoFault

ReadyArrives ==
  /\ bpc = "ready" /\ Answered("READY")
  /\ IF Head(up)[2] = fw.version THEN bpc' = "pause" /\ UNCHANGED <<seq, retry, sent>> /\ Keeps
                           ELSE Fails

\* 150 ms later the device is in its bootloader.
SendsBegin ==
  /\ bpc = "pause" /\ pc # "boot" /\ down = <<>>
  /\ bpc' = "begun" /\ down' = <<"BEGIN", fw.crc, fw.size>> /\ up' = <<>>
  /\ sent' = fw.crc
  /\ UNCHANGED <<seq, retry>> /\ Keeps

BeginAcked ==
  /\ bpc = "begun" /\ Answered("BEGIN_ACK")
  /\ bpc' = "read"
  /\ UNCHANGED <<seq, retry, sent>> /\ Keeps

SendsChunk(b) == down' = <<"CHUNK", seq, b>>

\* The next chunk of the file, up to the size as it is now.
ReadsChunk ==
  /\ bpc = "read" /\ down = <<>> /\ UNCHANGED up
  /\ \/ /\ seq < fw.size /\ handle = "open" /\ seq < Len(file)
        /\ bpc' = "chunk" /\ buf' = file[seq + 1] /\ SendsChunk(buf')
        /\ UNCHANGED <<file, fw, load, handle, intact, golden, seq, retry,
                       polling, verdict, uploads, sent>>
     \/ seq < fw.size /\ (handle # "open" \/ seq >= Len(file))
        /\ UNCHANGED down /\ Fails
     \/ /\ seq >= fw.size /\ bpc' = "ended" /\ down' = <<"END">>
        /\ UNCHANGED <<seq, retry, sent>> /\ Keeps

ChunkAcked ==
  /\ bpc = "chunk" /\ Answered("CHUNK_ACK") /\ Head(up)[2] = seq
  /\ bpc' = "read" /\ seq' = seq + 1 /\ retry' = 0 /\ buf' = NoImage
  /\ UNCHANGED <<file, fw, load, handle, intact, golden, polling, verdict,
                 uploads, sent>>

\* Mutant: after the last try the transfer goes on.
NeverGivesUp == SendsChunk(buf) /\ UNCHANGED <<bpc, seq, retry, sent>> /\ Keeps

GivesUp == down' = <<"ABORT">> /\ Fails

\* Mutant: one try too many.
ChunkRetriedOnceMore ==
  /\ bpc = "chunk"
  /\ \/ NoAnswer
     \/ /\ up # <<>> /\ Head(up)[1] = "CHUNK_ACK" /\ Head(up)[2] # seq
        /\ up' = Tail(up)
  /\ IF retry + 1 <= MaxRetries
     THEN SendsChunk(buf) /\ retry' = retry + 1 /\ UNCHANGED <<bpc, seq, sent>> /\ Keeps
     ELSE GivesUp

\* A NAK, silence, or the acknowledgement of another chunk.
ChunkRetried ==
  /\ bpc = "chunk"
  /\ \/ NoAnswer
     \/ /\ up # <<>> /\ Head(up)[1] = "CHUNK_ACK" /\ Head(up)[2] # seq
        /\ up' = Tail(up)
  /\ IF retry + 1 < MaxRetries
     THEN SendsChunk(buf) /\ retry' = retry + 1 /\ UNCHANGED <<bpc, seq, sent>> /\ Keeps
     ELSE GivesUp

\* Anything but the OK is a failure; a success deletes the file and clears
\* the size, under a push as well.
ResultArrives ==
  /\ bpc = "ended" /\ Answered("RESULT")
  /\ IF Head(up)[2] = "ok"
     THEN /\ Returns("ok") /\ file' = <<>>
          /\ fw' = [fw EXCEPT !.staged = FALSE, !.size = 0, !.crc = Blank]
          /\ load' = IF Receiving THEN <<"stuck">> ELSE load
     ELSE Fails

\* Mutant: silence after CMD_OTA_END is taken for success.
ResultMissing ==
  /\ bpc \in {"ready", "begun", "ended"} /\ NoAnswer /\ UNCHANGED down
  /\ IF bpc = "ended" THEN Returns("ok") /\ UNCHANGED <<file, fw, load>> ELSE Fails

\* Mutant: the transfer goes on without the answer to its announcements.
AnswersAssumed ==
  /\ bpc \in {"ready", "begun", "ended"} /\ NoAnswer /\ UNCHANGED down
  /\ IF bpc = "ended" THEN Fails
     ELSE /\ bpc' = IF bpc = "ready" THEN "pause" ELSE "read"
          /\ UNCHANGED <<seq, retry, sent>> /\ Keeps

AnswerMissing ==
  bpc \in {"ready", "begun", "ended"} /\ NoAnswer /\ UNCHANGED down /\ Fails

TransferStep ==
  /\ \/ Announces \/ ReadyArrives \/ SendsBegin \/ BeginAcked
     \/ ReadsChunk \/ ChunkAcked \/ ChunkRetried
     \/ ResultArrives \/ AnswerMissing
  /\ UNCHANGED <<device, req>> /\ NoFault

-----------------------------------------------------------------------------
(* sensor_poll_task().                                                     *)

\* 600 ms, longer than the device needs from reset to its window.
PollTimedOut == TimedOut /\ pc # "boot"

Rest == UNCHANGED <<device, req, stage, golden, seq, retry, verdict, uploads, sent>> /\ NoFault

Polls ==
  /\ bpc = "idle" /\ down = <<>> /\ ~asks /\ ~committed
  /\ bpc' = "poll" /\ down' = <<"POLL">>
  /\ UNCHANGED <<up, polling>> /\ Rest

PollAnswered ==
  /\ bpc = "poll" /\ Answered("SNAPSHOT")
  /\ bpc' = "idle" /\ misses' = 0
  /\ UNCHANGED <<asks, restoring, committed>> /\ Rest

Missed == misses' = IF misses < 3 THEN misses + 1 ELSE 3

PollFails ==
  /\ bpc = "poll" /\ (Refused \/ PollTimedOut) /\ UNCHANGED down
  /\ bpc' = "idle" /\ Missed /\ asks' = (misses' = 2)
  /\ UNCHANGED <<restoring, committed>> /\ Rest

\* While a transfer holds the mutex every period counts as a failed poll.
PollBlocked ==
  /\ bpc \in Transfer /\ ~restoring /\ misses < 3 /\ ~asks /\ ~committed
  /\ Missed /\ asks' = (misses' = 2)
  /\ UNCHANGED <<bpc, down, up, restoring, committed>> /\ Rest

\* The mutex was not free within 200 ms.
RecoverySkipped ==
  /\ bpc \in Transfer /\ asks
  /\ asks' = FALSE
  /\ UNCHANGED <<bpc, down, up, misses, restoring, committed>> /\ Rest

SendsCheck ==
  /\ bpc = "idle" /\ down = <<>> /\ asks
  /\ bpc' = "check" /\ down' = <<"CHECK">> /\ asks' = FALSE
  /\ UNCHANGED <<up, misses, restoring, committed>> /\ Rest

CheckReads ==
  /\ bpc = "check" /\ up # <<>> /\ Head(up)[1] # "RECOVERY_RSP"
  /\ up' = Tail(up)
  /\ committed' = (committed \/ Head(up)[1] = "COMMITTED")
  /\ UNCHANGED <<bpc, down, misses, asks, restoring>> /\ Rest

\* No answer counts as NORMAL; with no golden image there is nothing to do.
CheckEnds ==
  /\ bpc = "check" /\ bpc' = "idle"
  /\ \/ PollTimedOut
     \/ /\ up # <<>> /\ Head(up)[1] = "RECOVERY_RSP" /\ up' = Tail(up)
        /\ Head(up)[2] = "NORMAL" \/ golden = NoImage
  /\ UNCHANGED <<down, polling>> /\ Rest

\* The file and its sizes are overwritten; the version stays, which the
\* device only sends back.  A push under way keeps the transfer from starting.
Restores ==
  /\ bpc = "check" /\ up # <<>> /\ Head(up)[1] = "RECOVERY_RSP" /\ up' = Tail(up)
  /\ down = <<>> /\ Head(up)[2] # "NORMAL" /\ golden # NoImage
  /\ file' = Whole(golden) /\ intact' = FALSE /\ clean' = FALSE
  /\ fw' = [fw EXCEPT !.staged = ~Receiving, !.size = Size[golden], !.crc = golden]
  /\ IF Receiving
     THEN /\ load' = <<"stuck">> /\ bpc' = "idle"
          /\ UNCHANGED <<device, req, down, seq, retry, restoring, verdict, uploads,
                         sent, faults>>
     ELSE UNCHANGED load /\ restoring' = TRUE /\ Begins
  /\ UNCHANGED <<handle, buf, golden, misses, asks, committed>>

\* Dropped if the user has started a transfer in the meantime, or if there is
\* no file.  What is promoted is not looked at; here it is a whole image.
Promotes ==
  /\ committed /\ ~restoring /\ bpc \in Transfer \cup {"idle"}
  /\ committed' = FALSE
  /\ golden' = IF bpc = "idle" /\ CrcOf(file) # Blank THEN CrcOf(file) ELSE golden
  /\ UNCHANGED <<device, req, down, up, bpc, stage, seq, retry, misses, asks,
                 restoring, verdict, uploads, sent>> /\ NoFault

PollStep ==
  \/ Polls \/ PollAnswered \/ PollFails \/ SendsCheck \/ CheckReads \/ CheckEnds
  \/ Restores \/ Promotes

-----------------------------------------------------------------------------
(* User and faults.                                                        *)

\* A writer of the staging: nothing keeps it out while a transfer runs.
Meddles ==
  /\ bpc # "off" /\ intact' = FALSE /\ clean' = (clean /\ bpc \notin Transfer)
  /\ UNCHANGED <<device, req, down, up, bpc, buf, golden, seq, retry, polling,
                 verdict, sent, faults>>

Counts == uploads' = uploads + 1 /\ <<faults, uploads'>> \in Budget

\* FW; the web upload, which asks for a running transfer first, does the same.
PushBegins(i) ==
  /\ ~Downloading /\ Counts /\ Meddles
  /\ file' = <<>> /\ load' = <<"push">>
  /\ fw' = [staged |-> FALSE, size |-> 0, crc |-> i, version |-> i]
  /\ handle' = IF handle = "open" THEN "orphan" ELSE handle

\* DATA: the next block, in order.
PushData ==
  /\ load = <<"push">> /\ Meddles
  /\ file' = Append(file, fw.crc) /\ fw' = [fw EXCEPT !.size = @ + 1]
  /\ load' = IF fw'.size = Size[fw.crc] THEN <<>> ELSE load
  /\ UNCHANGED <<handle, uploads>>

\* VERIFY.  The running CRC is not kept: after a download it does not match.
Verifies ==
  /\ bpc # "off" /\ load = <<>>
  /\ \E v \in {Verified, FALSE} : fw' = [fw EXCEPT !.staged = v]
  /\ UNCHANGED <<device, req, down, up, bpc, file, load, handle, buf, intact,
                 golden, seq, retry, polling, verdict, uploads, sent>> /\ NoFault

\* The connection is lost during a push.
SppClosed ==
  /\ Receiving /\ Meddles
  /\ fw' = [fw EXCEPT !.staged = FALSE, !.size = 0] /\ load' = <<>>
  /\ UNCHANGED <<file, handle, uploads>>

\* The file is truncated and filled, its size set, its CRC taken.
DownloadStarts(i) ==
  /\ ~Downloading /\ Counts /\ Meddles
  /\ file' = <<>> /\ load' = <<"fetch", i>>
  /\ fw' = [fw EXCEPT !.staged = FALSE, !.size = 0]
  /\ UNCHANGED handle

DownloadWrites(i) ==
  /\ load = <<"fetch", i>> /\ Meddles
  /\ file' = Whole(i) \o SubSeq(file, Size[i] + 1, Len(file))
  /\ load' = <<"sized", i>> /\ fw' = [fw EXCEPT !.size = Size[i]]
  /\ UNCHANGED <<handle, uploads>>

DownloadEnds(i) ==
  /\ load = <<"sized", i>> /\ Meddles
  /\ load' = <<>>
  /\ fw' = [fw EXCEPT !.staged = TRUE, !.crc = CrcOf(file), !.version = i]
  /\ UNCHANGED <<file, handle, uploads>>

DownloadFails(i) ==
  /\ load = <<"fetch", i>> /\ Meddles
  /\ load' = <<>> /\ UNCHANGED <<file, fw, handle, uploads>>

UserStep ==
  \/ \E i \in Image : \/ PushBegins(i) \/ DownloadStarts(i)
                       \/ DownloadWrites(i) \/ DownloadEnds(i) \/ DownloadFails(i)
  \/ PushData \/ Verifies \/ SppClosed

LosesDown == down # <<>> /\ down' = <<>> /\ UNCHANGED <<device, req, up, bridge>> /\ Fault

LosesUp ==
  /\ \E k \in 1..Len(up) :
       up' = SubSeq(up, 1, k - 1) \o SubSeq(up, k + 1, Len(up))
  /\ UNCHANGED <<device, req, down, bridge>> /\ Fault

DeviceCut ==
  /\ Dev!Reset \/ Dev!PowerLoss
  /\ req' = <<>> /\ UNCHANGED <<down, up, bridge>> /\ Fault

\* The bridge's memory is gone, its files are not.
BridgeCut ==
  /\ bpc # "off" /\ bpc' = "off"
  /\ down' = <<>> /\ up' = <<>> /\ seq' = 0 /\ retry' = 0
  /\ fw' = NoFw /\ load' = <<>> /\ handle' = "none" /\ buf' = NoImage
  /\ misses' = 0 /\ asks' = FALSE /\ restoring' = FALSE /\ committed' = FALSE
  /\ verdict' = "none"
  /\ UNCHANGED <<device, req, file, intact, golden, uploads, sent>> /\ Fault

BridgeStarts ==
  /\ bpc = "off" /\ bpc' = "idle" /\ up' = <<>>
  /\ UNCHANGED <<down, polling>> /\ Rest

Next ==
  \/ DeviceReceives \/ DeviceStep
  \/ UserSends \/ TransferStep \/ Skips
  \/ PollStep \/ PollBlocked \/ RecoverySkipped
  \/ UserStep
  \/ LosesDown \/ LosesUp \/ DeviceCut \/ BridgeCut \/ BridgeStarts

\* Processor, driver and both tasks of the bridge run; users and faults owe
\* nothing.  A bridge that was cut off may stay off.
Fairness ==
  /\ WF_vars(DeviceReceives) /\ WF_vars(DeviceStep)
  /\ WF_vars(TransferStep) /\ WF_vars(Skips) /\ WF_vars(PollStep)

Spec == Init /\ [][Next]_vars /\ Fairness

-----------------------------------------------------------------------------
\* Every variable of the bridge has its type, also while the staging changes
\* under a transfer; the device's are Dev!TypeOK.
TypeOK ==
  /\ req = <<>> \/ req \in (Image \cup {NoImage}) \X (0..AppPages)
  /\ bpc \in Transfer \cup {"idle", "poll", "check", "off"}
  /\ file \in Seq(Image) /\ golden \in Image \cup {NoImage}
  /\ fw \in [staged : BOOLEAN, size : 0..AppPages, crc : Image \cup {Blank},
             version : Image \cup {NoImage}]
  /\ load \in {<<>>, <<"push">>, <<"stuck">>} \cup ({"fetch", "sized"} \X Image)
  /\ handle \in {"none", "open", "orphan"} /\ buf \in Image \cup {NoImage}
  /\ bpc = "chunk" => buf \in Image
  /\ seq \in 0..AppPages /\ retry < MaxRetries /\ misses \in 0..3
  /\ sent \in Image \cup {Blank} /\ verdict \in {"none", "ok", "fail"}

\* The bridge reports an update as done only if it is: whatever frames are
\* lost or left over in its driver from an earlier exchange, and whoever
\* rewrites the staging in mid-transfer, the device holds the whole image it
\* was announced and has it on record.
SuccessIsReal ==
  verdict = "ok" =>
    /\ told = "ok" /\ cfg # NoConfig /\ cfg.crc = sent
    /\ sent \in Image /\ Dev!Holds(sent)

\* A transfer to a running application fails only for a reason: a lost frame,
\* a flash error, a reset, or somebody who rewrites the staging meanwhile.
\* Polls, recovery checks and frames left over from earlier failures do not
\* disturb it.
CleanTransferSucceeds == verdict = "fail" => ~clean

\* One image at a time: unless the staging is rewritten in mid-transfer, which
\* nothing prevents, what the device programs is the image it was announced,
\* also when a transfer was broken off and another one started.
NeverMixed == pc = "programming" /\ intact => ota.chunk = ota.image

\* Every transfer ends, with a success or an error message.
TransferEnds == (bpc \in Transfer) ~> (bpc \notin Transfer)

=============================================================================
