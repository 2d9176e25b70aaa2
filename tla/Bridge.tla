-------------------------------- MODULE Bridge --------------------------------
(***************************************************************************)
(* The staging area of the bridge (esp32-comm-bridge/src/main.cpp): one    *)
(* file, a set of global variables about it and a golden copy, used without *)
(* a common lock by the Bluetooth task, the web server, the task of a web   *)
(* transfer, the poll task and the callback of the Bluetooth stack.         *)
(*                                                                         *)
(* A step is what a task does between two calls that may block: reading or  *)
(* writing a block of a file, the network, the line to the device, the      *)
(* mutex.  A block is identified by image and number; a CRC stands for the  *)
(* content it was computed over.  The device is reduced to what it promises *)
(* (module Bootloader): it accepts an image if number and CRC of the blocks *)
(* are those announced by CMD_OTA_BEGIN, and may refuse at any point.       *)
(***************************************************************************)
EXTENDS Naturals, Sequences

CONSTANTS
  Image,       \* what users upload
  Size,        \* Size[i]: blocks of image i
  Promoted,    \* the images that may be the golden one at first
  NoFile,      \* there is no such file
  MaxEvents    \* bound of the model: uploads, downloads and restarts of the bridge

ASSUME BridgeAssumption ==
  /\ Size \in [Image -> Nat \ {0}] /\ Promoted \subseteq Image
  /\ MaxEvents \in Nat

VARIABLES
  file,      \* FW_FILE_PATH, a sequence of blocks or NoFile
  golden,    \* GOLDEN_FILE_PATH
  fw,        \* g_fw_file: "none", "open", or "orphan" of a deleted file; where it
             \* writes next
  staged, receiving, size, expected, version, crc, running,  \* g_fw_...
  bt,        \* bt_recv_task: what it is doing
  btImage,   \* the image its client is sending
  web,       \* the web server's task
  webNext,   \* the block its client sends next
  webState,  \* g_web_ota_state
  webTasks,  \* web_ota_task: where each one that exists is
  poll,      \* sensor_poll_task
  mutex,     \* holder of g_ota_mutex, "free" if none
  busy,      \* g_ota_running
  xfer,      \* transfer_to_stm32_impl: where it is, what it announced and sent
  copy,      \* golden_promote, golden_restore: blocks copied, and to be copied
  handles,   \* on FW_FILE_PATH: of the transfer, the copy and the download, and the
             \* one with which a fwrite() of a client's block is under way
  btBlock,   \* the block bt_recv_task writes, or the last one of a download
  events

staging == <<staged, receiving, size, expected, version, crc, running>>
files == <<file, golden, fw, handles>>
btVars == <<bt, btImage, btBlock>>
webVars == <<web, webNext, webState, webTasks>>
line == <<mutex, busy, xfer>>
vars == <<files, staging, btVars, webVars, poll, line, copy, events>>

Whole(i) == [k \in 1..Size[i] |-> <<i, k>>]
NoXfer == [at |-> "none", version |-> 0, size |-> 0, crc |-> <<>>, sent |-> <<>>]

NoCopy == [n |-> 0, of |-> 0]
NoFw == [is |-> "none", pos |-> 0]
NoHandles == [transfer |-> "none", copy |-> "none", download |-> "none",
              bt |-> "none", web |-> "none"]

Init ==
  /\ file = NoFile /\ golden \in {NoFile} \cup {Whole(i) : i \in Promoted}
  /\ fw = NoFw
  /\ staged = FALSE /\ receiving = FALSE /\ size = 0 /\ expected = 0
  /\ version = 0 /\ crc = <<>> /\ running = <<>>
  /\ bt = "idle" /\ btImage = NoFile /\ btBlock = 0
  /\ web = "idle" /\ webNext = NoFile /\ webState = "IDLE" /\ webTasks = <<>>
  /\ poll = "idle"
  /\ mutex = "free" /\ busy = FALSE /\ xfer = NoXfer
  /\ copy = NoCopy
  /\ handles = NoHandles
  /\ events = 0

-----------------------------------------------------------------------------
(* Staging.                                                                *)

\* Handles of a deleted or closed file are useless from then on.
Orphaned(h) == IF h = "open" THEN "orphan" ELSE h
AllOrphaned == [h \in DOMAIN handles |-> Orphaned(handles[h])]
FwOrphaned == [fw EXCEPT !.is = Orphaned(@)]

\* discard_incoming_firmware() of task t, which has no fwrite() under way then.
\* v: the version, which the function itself leaves.
Discards(t, v) ==
  /\ file' = NoFile /\ handles' = [AllOrphaned EXCEPT ![t] = "none"] /\ fw' = NoFw
  /\ staged' = FALSE /\ receiving' = FALSE /\ size' = 0 /\ expected' = 0
  /\ version' = v /\ crc' = <<>> /\ running' = <<>>

\* The same, and the file opened for n blocks of a new upload.
Opens(v, n, c) ==
  /\ file' = <<>> /\ fw' = [is |-> "open", pos |-> 0] /\ handles' = AllOrphaned
  /\ staged' = FALSE /\ receiving' = TRUE /\ size' = 0 /\ expected' = n
  /\ version' = v /\ crc' = c /\ running' = <<>>

\* A handle writes at its own place, at the end if the file has become shorter.
WriteAt(n, b) == IF n < Len(file) THEN [file EXCEPT ![n + 1] = b] ELSE Append(file, b)

\* stage_firmware_data() in three steps: the check, fwrite() which blocks, and
\* the count.  Whatever happens to the staging in between, it goes on.
Takes ==
  receiving /\ fw.is # "none" /\ expected # 0 /\ size < expected

BeginsWrite(t) ==
  handles' = [handles EXCEPT ![t] = fw.is] /\ UNCHANGED <<file, fw, staging>>

\* When the file was closed or deleted since the check, the block is lost, or it
\* comes to the file open by now, for which the C library uses the handle again.
Writes(t, b) ==
  /\ \/ /\ fw.is = "open"
        /\ file' = WriteAt(fw.pos, b) /\ fw' = [fw EXCEPT !.pos = @ + 1]
     \/ handles[t] = "orphan" /\ UNCHANGED <<file, fw>>
  /\ UNCHANGED <<handles, staging>>

\* The file is closed with its last block, under the other writer as well.
Counts(t, b) ==
  /\ running' = Append(running, b) /\ size' = size + 1
  /\ receiving' = (receiving /\ size + 1 # expected)
  /\ IF size + 1 = expected
     THEN /\ fw' = NoFw
          /\ handles' = [handles EXCEPT !.bt = Orphaned(@), !.web = Orphaned(@),
                                        ![t] = "none"]
     ELSE handles' = [handles EXCEPT ![t] = "none"] /\ UNCHANGED fw
  /\ UNCHANGED <<file, expected, version>>

\* fwrite() comes short, or the fclose() after the last block fails.
StagingFails(at) == at = "write" \/ (at = "count" /\ size + 1 = expected)

\* verify_staged_firmware(), with the vectors in the first block of an image.
Verified ==
  /\ ~receiving /\ size # 0 /\ size = expected
  /\ file # NoFile /\ Len(file) = size /\ file = crc
  /\ Head(file)[2] = 1

-----------------------------------------------------------------------------
(* transfer_to_stm32_impl(), run by the holder of the mutex.               *)

\* The task of a web transfer ends with it.
WebTaskEnds(ok) ==
  webTasks' = Tail(webTasks) /\ webState' = IF ok THEN "COMPLETE" ELSE "FAILED"

Returns(t, ok) ==
  /\ mutex' = "free" /\ busy' = FALSE /\ xfer' = NoXfer
  /\ CASE t = "bt" -> bt' = "idle" /\ UNCHANGED <<poll, webState, webTasks>>
       [] t = "poll" -> poll' = "idle" /\ UNCHANGED <<bt, webState, webTasks>>
       [] t = "web" -> WebTaskEnds(ok) /\ UNCHANGED <<bt, poll>>

Elsewhere == UNCHANGED <<btImage, btBlock, web, webNext, golden, copy, events>>
Tasks == UNCHANGED <<bt, poll, webState, webTasks>> /\ Elsewhere

TransferFails(t) ==
  /\ mutex = t /\ busy
  /\ Returns(t, FALSE)
  /\ handles' = [handles EXCEPT !.transfer = "none"]
  /\ UNCHANGED <<file, fw, staging>> /\ Elsewhere

\* The staging file is checked, opened and announced.
TransferStarts(t) ==
  /\ mutex = t /\ busy /\ xfer.at = "none"
  /\ staged /\ Verified
  /\ xfer' = [NoXfer EXCEPT !.at = "ready", !.version = version]
  /\ handles' = [handles EXCEPT !.transfer = "open"]
  /\ UNCHANGED <<file, fw, staging, mutex, busy>> /\ Tasks

\* The device is ready for the version announced; it refuses an empty image.
BeginSent(t) ==
  /\ mutex = t /\ xfer.at = "ready" /\ xfer.version = version /\ size # 0
  /\ xfer' = [xfer EXCEPT !.at = "send", !.size = size, !.crc = crc]
  /\ UNCHANGED <<file, fw, handles, staging, mutex, busy>> /\ Tasks

\* The loop runs up to the size the variable has now.
ChunkAcked(t) ==
  /\ mutex = t /\ xfer.at = "send"
  /\ Len(xfer.sent) < size
  /\ handles.transfer = "open" /\ Len(file) > Len(xfer.sent)
  /\ xfer' = [xfer EXCEPT !.sent = Append(@, file[Len(@) + 1])]
  /\ UNCHANGED <<file, fw, handles, staging, mutex, busy>> /\ Tasks

\* The device has the blocks that were announced.
Accepted ==
  /\ xfer.at = "send" /\ Len(xfer.sent) >= size
  /\ xfer.size = Len(xfer.sent) /\ xfer.crc = xfer.sent

\* It says OK; the staging is cleared and the file deleted.
TransferSucceeds(t) ==
  /\ mutex = t /\ Accepted
  /\ staged' = FALSE /\ size' = 0 /\ expected' = 0 /\ crc' = <<>>
  /\ file' = NoFile /\ fw' = FwOrphaned
  /\ handles' = [AllOrphaned EXCEPT !.transfer = "none"]
  /\ Returns(t, TRUE)
  /\ UNCHANGED <<receiving, version, running>> /\ Elsewhere

Transfer ==
  \E t \in {"bt", "web", "poll"} :
    TransferStarts(t) \/ BeginSent(t) \/ ChunkAcked(t) \/ TransferSucceeds(t)
      \/ TransferFails(t)

-----------------------------------------------------------------------------
(* bt_recv_task(): one command at a time.                                  *)

RestBt == UNCHANGED <<golden, webVars, poll, line, copy>>

\* The file may not open.
FW(i) ==
  /\ bt = "idle" /\ events < MaxEvents
  /\ Opens(i, Size[i], Whole(i)) \/ Discards("bt", i)
  /\ btImage' = i /\ events' = events + 1
  /\ UNCHANGED <<bt, btBlock>> /\ RestBt

\* DATA at the offset of block k; a block that is there already is ignored.
DATA(k) ==
  /\ bt = "idle" /\ btImage # NoFile /\ k \in 1..Size[btImage]
  /\ expected > 0 /\ ~staged /\ k <= expected
  /\ size = k - 1 /\ size < expected
  /\ IF Takes THEN bt' = "write" /\ btBlock' = k /\ BeginsWrite("bt")
              ELSE Discards("bt", version) /\ UNCHANGED <<bt, btBlock>>
  /\ UNCHANGED <<btImage, events>> /\ RestBt

DataWritten ==
  /\ bt = "write" /\ bt' = "count"
  /\ Writes("bt", <<btImage, btBlock>>)
  /\ UNCHANGED <<btImage, btBlock, events>> /\ RestBt

DataCounted ==
  /\ bt = "count" /\ bt' = "idle" /\ btBlock' = 0
  /\ Counts("bt", <<btImage, btBlock>>)
  /\ UNCHANGED <<staged, crc, btImage, events>> /\ RestBt

DataFails ==
  /\ StagingFails(bt) /\ bt' = "idle" /\ btBlock' = 0
  /\ Discards("bt", version)
  /\ UNCHANGED <<btImage, events>> /\ RestBt

\* VERIFY: marked as staged, then checked.
VERIFY ==
  /\ bt = "idle"
  /\ IF receiving \/ size # expected THEN UNCHANGED <<staged, bt>>
     ELSE IF running # crc THEN staged' = FALSE /\ UNCHANGED bt
     ELSE staged' = TRUE /\ bt' = "verify"
  /\ UNCHANGED <<file, fw, receiving, size, expected, version, crc, running,
                 btImage, btBlock, handles, events>> /\ RestBt

VerifyEnds ==
  /\ bt = "verify" /\ bt' = "idle"
  /\ staged' = (staged /\ Verified)
  /\ UNCHANGED <<file, fw, receiving, size, expected, version, crc, running,
                 btImage, btBlock, handles, events>> /\ RestBt

SEND ==
  /\ bt = "idle" /\ staged /\ bt' = "wait"
  /\ UNCHANGED <<file, fw, staging, btImage, btBlock, handles, events>> /\ RestBt

\* OTA <url>: the file is truncated, not deleted; a handle on it stays good.  It
\* may not open.
DownloadStarts(i) ==
  /\ bt = "idle" /\ events < MaxEvents /\ events' = events + 1
  /\ \/ /\ bt' = "download" /\ btImage' = i /\ btBlock' = 0
        /\ file' = <<>> /\ handles' = [handles EXCEPT !.download = "open"]
     \/ UNCHANGED <<btVars, file, handles>>
  /\ staged' = FALSE /\ receiving' = FALSE /\ size' = 0 /\ expected' = 0
  /\ UNCHANGED <<fw, version, crc, running>> /\ RestBt

\* Mutant: the loop runs once more.
DownloadWritesOnceMore ==
  /\ bt = "download" /\ handles.download = "open" /\ btBlock <= Size[btImage]
  /\ file' = WriteAt(btBlock, <<btImage, btBlock + 1>>) /\ btBlock' = btBlock + 1
  /\ UNCHANGED <<fw, staging, bt, btImage, handles, events>> /\ RestBt

DownloadWrites ==
  /\ bt = "download" /\ handles.download = "open" /\ btBlock < Size[btImage]
  /\ file' = WriteAt(btBlock, <<btImage, btBlock + 1>>) /\ btBlock' = btBlock + 1
  /\ UNCHANGED <<fw, staging, bt, btImage, handles, events>> /\ RestBt

\* The CRC is taken from the file; nothing was announced to compare with.
DownloadEnds ==
  /\ bt = "download" /\ handles.download = "open" /\ btBlock = Size[btImage]
  /\ handles' = [handles EXCEPT !.download = "none"]
  /\ size' = Size[btImage] /\ expected' = Size[btImage] /\ crc' = file
  /\ version' = btImage /\ staged' = TRUE /\ bt' = "wait"
  /\ btBlock' = 0
  /\ UNCHANGED <<file, fw, receiving, running, btImage, events>> /\ RestBt

DownloadFails ==
  /\ bt = "download" /\ bt' = "idle" /\ btBlock' = 0
  /\ handles' = [handles EXCEPT !.download = "none"]
  /\ UNCHANGED <<file, fw, staging, btImage, events>> /\ RestBt

\* transfer_to_stm32(): the mutex within a second, or not at all.
BtGetsMutex ==
  /\ bt = "wait" /\ mutex = "free"
  /\ bt' = "xfer" /\ mutex' = "bt" /\ busy' = TRUE
  /\ UNCHANGED <<files, staging, btImage, btBlock, webVars, poll, xfer, copy, events>>

BtMutexTimesOut ==
  /\ bt = "wait" /\ mutex # "free" /\ bt' = "idle"
  /\ UNCHANGED <<file, fw, staging, btImage, btBlock, handles, events>> /\ RestBt

\* ESP_SPP_CLOSE_EVT, in the Bluetooth stack's task: the flags are reset, the
\* file stays open.
SppClosed ==
  /\ receiving
  /\ staged' = FALSE /\ receiving' = FALSE /\ size' = 0 /\ expected' = 0
  /\ UNCHANGED <<file, fw, version, crc, running, btVars, handles, events>> /\ RestBt

Bluetooth ==
  \/ \E i \in Image : FW(i) \/ DownloadStarts(i)
  \/ \E i \in Image : \E k \in 1..Size[i] : DATA(k)
  \/ DataWritten \/ DataCounted \/ DataFails
  \/ VERIFY \/ VerifyEnds \/ SEND \/ DownloadWrites \/ DownloadEnds
  \/ DownloadFails \/ BtGetsMutex \/ BtMutexTimesOut \/ SppClosed

-----------------------------------------------------------------------------
(* The web server: one request at a time.                                  *)

RestWeb == UNCHANGED <<golden, btVars, poll, line, copy>>

NotBusy == ~busy /\ ~receiving /\ webState # "TRANSFERRING"

UploadEnds(state) ==
  /\ web' = "idle" /\ webNext' = NoFile /\ webState' = state
  /\ UNCHANGED webTasks

\* If the file does not open, what was announced stays behind.
UploadStarts(i) ==
  /\ web = "idle" /\ events < MaxEvents /\ NotBusy /\ events' = events + 1
  /\ \/ /\ Opens(i, Size[i], <<>>)
        /\ web' = "receive" /\ webNext' = <<i, 1>> /\ webState' = "UPLOADING"
        /\ UNCHANGED webTasks
     \/ /\ file' = NoFile /\ fw' = NoFw /\ handles' = AllOrphaned
        /\ staged' = FALSE /\ receiving' = FALSE /\ size' = 0 /\ expected' = Size[i]
        /\ version' = i /\ crc' = <<>> /\ running' = <<>>
        /\ UploadEnds("FAILED")
  /\ RestWeb

UploadFails ==
  Discards("web", version) /\ UploadEnds("FAILED") /\ UNCHANGED events /\ RestWeb

UploadArrives ==
  /\ web = "receive" /\ Takes /\ web' = "write"
  /\ BeginsWrite("web")
  /\ UNCHANGED <<webNext, webState, webTasks, events>> /\ RestWeb

UploadRefused == web = "receive" /\ ~Takes /\ UploadFails

UploadInterrupted == (web = "receive" \/ StagingFails(web)) /\ UploadFails

UploadWritten ==
  /\ web = "write" /\ web' = "count"
  /\ Writes("web", webNext)
  /\ UNCHANGED <<webNext, webState, webTasks, events>> /\ RestWeb

\* After the last block, what the file must have is the CRC of all received.
UploadCounted ==
  /\ web = "count" /\ Counts("web", webNext)
  /\ IF webNext[2] = Size[webNext[1]]
     THEN web' = "verify" /\ crc' = running' /\ staged' = TRUE /\ UNCHANGED webNext
     ELSE /\ web' = "receive" /\ webNext' = [webNext EXCEPT ![2] = @ + 1]
          /\ UNCHANGED <<crc, staged>>
  /\ UNCHANGED <<webState, webTasks, events>> /\ RestWeb

UploadVerified ==
  /\ web = "verify"
  /\ IF Verified
     THEN /\ UploadEnds("STAGED")
          /\ UNCHANGED <<file, fw, handles, staging, events>> /\ RestWeb
     ELSE UploadFails

\* Mutant: the state is set by the task once it has the mutex.
StartsUnmarked ==
  /\ web = "idle" /\ staged /\ ~receiving /\ ~busy /\ webState # "TRANSFERRING"
  /\ Len(webTasks) < 2
  /\ webTasks' = Append(webTasks, "wait")
  /\ UNCHANGED <<file, fw, handles, staging, web, webNext, webState, events>>
  /\ RestWeb

\* web_start_handler() creates the task that transfers, if there is memory for it.
Starts ==
  /\ web = "idle" /\ staged /\ ~receiving /\ ~busy /\ webState # "TRANSFERRING"
  /\ \/ webState' = "TRANSFERRING" /\ webTasks' = Append(webTasks, "wait")
     \/ webState' = "FAILED" /\ UNCHANGED webTasks
  /\ UNCHANGED <<file, fw, handles, staging, web, webNext, events>> /\ RestWeb

WebGetsMutex ==
  /\ webTasks # <<>> /\ Head(webTasks) = "wait" /\ mutex = "free"
  /\ webTasks' = <<"run">> \o Tail(webTasks) /\ mutex' = "web" /\ busy' = TRUE
  /\ UNCHANGED <<files, staging, btVars, web, webNext, webState, poll, xfer,
                 copy, events>>

\* Mutant: the task ends without a word.
WebMutexSilent ==
  /\ webTasks # <<>> /\ Head(webTasks) = "wait" /\ mutex # "free"
  /\ webTasks' = Tail(webTasks)
  /\ UNCHANGED <<file, fw, handles, staging, web, webNext, webState, events>>
  /\ RestWeb

WebMutexTimesOut ==
  /\ webTasks # <<>> /\ Head(webTasks) = "wait" /\ mutex # "free"
  /\ WebTaskEnds(FALSE)
  /\ UNCHANGED <<file, fw, handles, staging, web, webNext, events>> /\ RestWeb

Web ==
  \/ \E i \in Image : UploadStarts(i)
  \/ UploadArrives \/ UploadRefused \/ UploadInterrupted \/ UploadWritten
  \/ UploadCounted \/ UploadVerified \/ Starts \/ WebGetsMutex \/ WebMutexTimesOut

-----------------------------------------------------------------------------
(* The poll task: recovery and the golden image.                           *)

RestPoll == UNCHANGED <<btVars, webVars, xfer, events>>

\* Mutant: the early return forgets the mutex.
KeepsMutex == UNCHANGED mutex /\ poll' = "idle"

Releases == mutex' = "free" /\ poll' = "idle"

Queries ==
  /\ poll = "idle" /\ mutex = "free"
  /\ poll' = "query" /\ mutex' = "poll"
  /\ UNCHANGED <<files, staging, busy, copy>> /\ RestPoll

\* Normal, or nothing to restore; the answer may come with CMD_OTA_COMMITTED.
Answered ==
  /\ poll = "query" /\ mutex' = "free" /\ poll' \in {"idle", "committed"}
  /\ UNCHANGED <<files, staging, busy, copy>> /\ RestPoll

PromoteSkipped ==
  /\ poll = "committed" /\ (busy \/ file = NoFile \/ file = <<>>)
  /\ poll' = "idle"
  /\ UNCHANGED <<files, staging, mutex, busy, copy>> /\ RestPoll

\* golden_promote(): the old copy is deleted first.
PromoteStarts ==
  /\ poll = "committed" /\ ~busy /\ file # NoFile /\ file # <<>>
  /\ poll' = "promote" /\ golden' = <<>>
  /\ copy' = [n |-> 0, of |-> Len(file)]
  /\ handles' = [handles EXCEPT !.copy = "open"]
  /\ UNCHANGED <<file, fw, staging, mutex, busy>> /\ RestPoll

HasNext == handles.copy = "open" /\ Len(file) > copy.n

PromoteCopies ==
  /\ poll = "promote" /\ HasNext
  /\ golden' = Append(golden, file[copy.n + 1])
  /\ copy' = [copy EXCEPT !.n = @ + 1]
  /\ UNCHANGED <<file, fw, handles, staging, poll, mutex, busy>> /\ RestPoll

\* The end of the file, as many blocks as it had at first, or an error.
PromoteEnds ==
  /\ poll = "promote" /\ poll' = "idle"
  /\ \/ ~HasNext /\ copy.n = copy.of /\ UNCHANGED golden
     \/ golden' = NoFile
  /\ handles' = [handles EXCEPT !.copy = "none"]
  /\ copy' = NoCopy
  /\ UNCHANGED <<file, fw, staging, mutex, busy>> /\ RestPoll

\* golden_restore(): over whatever is in the staging file.
RestoreStarts ==
  /\ poll = "query" /\ golden # NoFile /\ golden # <<>>
  /\ poll' = "restore" /\ file' = <<>>
  /\ copy' = [n |-> 0, of |-> Len(golden)]
  /\ handles' = [handles EXCEPT !.copy = "open"]
  /\ UNCHANGED <<golden, fw, staging, mutex, busy>> /\ RestPoll

RestoreCopies ==
  /\ poll = "restore" /\ copy.n < copy.of /\ handles.copy = "open"
  /\ file' = WriteAt(copy.n, golden[copy.n + 1])
  /\ copy' = [copy EXCEPT !.n = @ + 1]
  /\ UNCHANGED <<golden, fw, handles, staging, poll, mutex, busy>> /\ RestPoll

\* The bookkeeping is rebuilt from the blocks copied, not from the file, and the
\* file held against it.
RestoreEnds ==
  /\ poll = "restore" /\ copy.n = copy.of /\ handles.copy = "open"
  /\ size' = copy.of /\ expected' = copy.of /\ crc' = golden /\ running' = golden
  /\ IF ~receiving /\ file = golden /\ Head(file)[2] = 1
     THEN staged' = TRUE /\ busy' = TRUE /\ poll' = "xfer" /\ UNCHANGED mutex
     ELSE staged' = FALSE /\ UNCHANGED busy /\ Releases
  /\ handles' = [handles EXCEPT !.copy = "none"]
  /\ copy' = NoCopy
  /\ UNCHANGED <<file, golden, fw, receiving, version>> /\ RestPoll

RestoreFails ==
  /\ poll = "restore" /\ Releases
  /\ file' = NoFile /\ fw' = FwOrphaned
  /\ handles' = [AllOrphaned EXCEPT !.copy = "none"]
  /\ copy' = NoCopy
  /\ UNCHANGED <<golden, staging, busy>> /\ RestPoll

Poll ==
  \/ Queries \/ Answered \/ PromoteSkipped \/ PromoteStarts \/ PromoteCopies
  \/ PromoteEnds \/ RestoreStarts \/ RestoreCopies \/ RestoreEnds \/ RestoreFails

\* The memory is lost, the files stay as they are.
Cut ==
  /\ events < MaxEvents /\ events' = events + 1
  /\ fw' = NoFw /\ handles' = NoHandles
  /\ staged' = FALSE /\ receiving' = FALSE /\ size' = 0 /\ expected' = 0
  /\ version' = 0 /\ crc' = <<>> /\ running' = <<>>
  /\ bt' = "idle" /\ btImage' = NoFile /\ btBlock' = 0
  /\ web' = "idle" /\ webNext' = NoFile /\ webState' = "IDLE" /\ webTasks' = <<>>
  /\ poll' = "idle" /\ mutex' = "free" /\ busy' = FALSE /\ xfer' = NoXfer
  /\ copy' = NoCopy
  /\ UNCHANGED <<file, golden>>

Next == Transfer \/ Bluetooth \/ Web \/ Poll \/ Cut

\* The tasks run; users, their connections and the power owe nothing.
Spec ==
  /\ Init /\ [][Next]_vars
  /\ WF_vars(Transfer) /\ WF_vars(Poll) /\ WF_vars(WebGetsMutex \/ WebMutexTimesOut)

-----------------------------------------------------------------------------
\* Every variable has its type, and every file is made of blocks.
TypeOK ==
  /\ handles \in [DOMAIN NoHandles -> {"none", "open", "orphan"}]
  /\ fw \in [is : {"none", "open", "orphan"}, pos : Nat]
  /\ \A c \in {file, golden} \ {NoFile} : \A k \in 1..Len(c) :
       c[k][1] \in Image /\ c[k][2] \in 1..Size[c[k][1]]
  /\ bt \in {"idle", "write", "count", "verify", "wait", "download", "xfer"}
  /\ web \in {"idle", "receive", "write", "count", "verify"}
  /\ poll \in {"idle", "query", "committed", "promote", "restore", "xfer"}
  /\ mutex \in {"free", "bt", "web", "poll"}

IsWhole(c) == \E i \in Image : c = Whole(i)

\* The browser's button starts one transfer at a time, and a transfer runs
\* exactly while the page says so.
OneWebTransfer ==
  Len(webTasks) = IF webState = "TRANSFERRING" THEN 1 ELSE 0

\* The page does not say "transferring" for ever.
TransferringEnds ==
  (webState = "TRANSFERRING") ~> (webState # "TRANSFERRING")

\* Whoever takes the mutex gives it back, whatever the file has become.
MutexReleased == (mutex # "free") ~> (mutex = "free")

-----------------------------------------------------------------------------
(* Claims of the comments and documents that the code does not keep.       *)

\* "The bridge keeps the last known-good image": the golden file, if there is
\* one to restore from, is a whole image.
GoldenIsWhole ==
  poll = "restore" => IsWhole(golden)

=============================================================================
