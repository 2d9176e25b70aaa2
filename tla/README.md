# Formal model of the STM32 smart-home node and its OTA update

The repository is a smart-home node: an STM32F103 with a bootloader and a
FreeRTOS application, and an ESP32 bridge that stages firmware and talks to the
node over one UART. This directory holds TLA+ modules of its core, the TLC runs
that check them, and TLAPS proofs about them. Paths below are relative to
`src/`.

## 1. The system

| Component | State | Operations | Talks to |
|---|---|---|---|
| Configuration store, `shared/ota_config.c` | two flash pages holding copies of `BootConfig_t` with a sequence number and a CRC; the attempt counter in `BKP_DR1` | read, write (erase, program, read back), the transitions `request_update`, `mark_valid`, `mark_failed`, `confirm_boot`, `record_boot_attempt` | bootloader and application call it; both run on one core, never at once |
| Bootloader, `bootloader/Core/Src/main.c` | `g_state`, `g_recovery_status`, `g_ota`; the application region of the flash | boot decision, handshake windows, BEGIN / CHUNK / END / ABORT, maintenance mode, jump, error halt | host over the UART; configuration store |
| Application tasks, `application/Core/Src/main.c` | command queue, data queue, event group, sensor and diagnostics snapshots | Comm (parse, dispatch), Control (confirm the boot, request the update, reset), App (sensors, menu, light), Monitor (watchdog) | bridge over the UART; configuration store |
| Lamp and menu, `vAppTask` in `application/Core/Src/main.c` | level, percentage, mode, menu position, strip | commands, knob, buttons, light sensor, refresh of the strip | snapshots, drivers |
| Knob, `application/Core/Src/rotary_encoder.c` | previous sample, quarter steps, steps not yet fetched | pin interrupt, fetch by `vAppTask` | `vAppTask`; strip driver, which turns interrupts off |
| UART reception, `application/Core/Src/uart_comm.c` | circular DMA buffer, tail index, stream buffer | drain from the idle interrupt and once from a task | Comm task |
| Frame protocol, `shared/protocol.c` | parser state, partial frame, running CRC | feed a byte, build a frame | all three programs |
| Bridge, `esp32-comm-bridge/src/main.cpp` | staging file and its bookkeeping, golden file, OTA mutex, web state | upload (HTTP, Bluetooth, download), verify, send, promote, restore, sensor poll with recovery | node over the UART; phone, browser, broker |
| Other drivers, low-power probe, PC tools, FreeRTOS | | | see section 7 |

What is hard here: power may fail between any two flash operations; a reset
keeps the backup register and a power loss does not; the same record is
written by two programs that never see each other; frames are lost and sent
again, and late ones lie in a driver's buffer; the bridge's tasks share staging
variables, only partly under a mutex; interrupts, and tasks of four priorities,
share buffers and the line.

What makes each component correct:

- Store: a readable configuration is never lost; an update is atomic; the
  return value is honest; sequence numbers order the copies.
- Bootloader: an acknowledged chunk is in flash; a reported success is
  durable; an image is not started against the evidence; a bad image is given
  a bounded number of starts; the device never stops where nobody can reach it.
- Application: a wake-up finds its request, an announcement is served, answers
  are not torn and replies not cut in two.
- Lamp: level, percentage, mode and menu agree; the lamp comes to rest; the
  strip shows the level. Knob: steps are neither lost nor invented.
- Reception and parser: bytes leave in the order they came and once; exactly
  the frames of the format are returned; after noise the parser finds its way
  back.
- Bridge: a transfer ends, and reports a success only for one; the page does
  not hang, the mutex is given back.

## 2. Modules

| Module | Models | Role |
|---|---|---|
| `ConfigStore` | the promise of `ota_config.h` | abstract: one register, atomic update |
| `OtaConfig`, `OtaConfigProofs` | `ota_config_write()` and everything under it | detailed: pages, erase, half-words, read-back; refines `ConfigStore` |
| `Bootloader`, `MCBootloader`, `BootloaderProofs` | bootloader, and the application's two uses of the configuration | the device as any host sees it |
| `OtaSystem`, `MCOtaSystem`, `OtaSystemProofs` | the bridge's transfer, poll and recovery | composed with `Bootloader` (`Dev == INSTANCE Bootloader`) over a line that loses frames |
| `Bridge`, `MCBridge`, `BridgeProofs` | the bridge's tasks around the staging file | interleaving block by block, the device reduced to its promise |
| `AppTasks`, `MCAppTasks`, `AppTasksProofs` | the application's four tasks under FreeRTOS | scheduling, queues, event bit, snapshots, frames sent |
| `LightControl`, `MCLightControl`, `ControlsProofs` | lamp, menu and strip in `vAppTask` | a round of the loop as five steps |
| `RotaryEncoder`, `ControlsProofs` | the knob's interrupt and its reader | pins read one after the other while the shaft moves |
| `UartRx`, `UartRxProofs` | `uart_comm.c`, the stream buffer, the reading side of the comm task | the way of a byte from the line to the parser |
| `FrameParser`, `MCFrameParser`, `FrameParserProofs` | `protocol.c` | bytes to frames behind a disturbed line |

How they fit: `Bootloader` treats a configuration write as one step that
happens or does not, which is what `OtaConfig` shows of the writer
(`StoreSpec`). `OtaSystem` uses every action of `Bootloader` as it stands and
adds only frames, time and faults. `AppTasks` takes frames whole, as
`FrameParser` returns them from the bytes `UartRx` hands on. `Bridge` reduces
the device to accepting what was announced, which is `Bootloader`'s part.
`LightControl` takes the knob's steps one at a time, which `RotaryEncoder` counts.

### OtaConfig

`page[p]` is what `read_copy()` makes of page p: does it check, its number, its
contents (one element of `Value`). `pc` walks through `ota_config_write()`:
`idle`, `erase` (after `next_write_page()`), `program` (one step per
half-word), `verify`. `Transition` is any of the four functions that read,
change and write the record; `WritePrepared` a caller with a record that
`ota_config_prepare()` filled. Every flash step can fail (`fault` remembers
it), and `PowerLoss` may happen at any step: an interrupted erase leaves the old copy
or nothing, interrupted programming a copy that does not check. `ProgramLast`
may also succeed silently with a wrong bit, which only the read-back notices.

### Bootloader

`pc` is the place in `bootloader_run()` (`boot`, `window`, `window2`, `active`,
`programming`, `error`, `committed`, `halt`, `maint`) or in the application
(`app`: started, not yet confirmed; `confirming`: attempt counter cleared, record
not yet written; `running`). `region` maps pages to what they hold: the page
of an image, `Blank` (does not pass `app_is_valid()` as page 0) or `Torn`
(does: its first words may look like a vector table). The image stands for its
CRC. `cfg` is the stored record, `attempts` the backup register, `ota` is
`g_ota`. `acked`, `told` and `runs` are history variables: what has been
acknowledged, the last result sent, and how often the application was started.

The host is any host: whenever the code waits for a frame, any frame may come or
none. This covers loss, repetition and reordering and makes `HostStep`
free of assumptions, except that a chunk carries a whole page (the last one of
an image what is left of it). Both senders (`tools/ota_sender.py` and the bridge)
do so; a sender that does not is hazard `main.c:622`. Three kinds of interruption
are told apart as the hardware does: `Reset` keeps the attempt counter,
`PowerLoss` clears it, and both may tear the page being programmed. What an
image does is a constant: those in `Crashy`, and any region that is not a
whole image, die before they confirm.

### OtaSystem

`bpc` is where the bridge stands: `idle`; a place of `transfer_to_stm32_impl()`
(`open`, before the announcement; `ready`, `begun`, `chunk`, `ended`, waiting for an
answer; the `pause` before BEGIN; `read`, before the next block of the file); the
sensor poll (`poll`); the recovery check (`check`); `off` is a bridge without power.
`down` and `up` are the frames in transit and in the driver's buffer: `Announce`
flushes the latter as the code does, `Skips` passes over frames that are not the one
awaited. `misses`, `asks`, `committed` and `restoring` are the poll task's locals: two
failed polls lead to CMD_RECOVERY_CHECK, an answer other than NORMAL to a
restoration, a COMMITTED seen on the way to a promotion.

The staging is `file` (page by page), `fw` (the globals `g_fw_staged`, `g_fw_size`,
`g_fw_crc32`, `g_fw_version`), `load` (the push or download under way), and, of the
transfer, `handle` and `buf`. Nothing locks it: `UserStep` (FW, DATA, VERIFY, a lost
connection, the steps of a download) is possible at any time, also while a transfer
reads file, size, CRC and version, as in the code. The transfer reads them where the
code does: the size before every chunk, CRC and size at BEGIN, the version when
READY comes. One writer at a time is active here and a block of a push is a page;
several writers, and the blocks of a copy, are module `Bridge`'s. `sent`, `intact` and
`clean` are history: what the last BEGIN announced, whether the file is still what the
transfer opened, and whether the transfer met a running application, no fault and no
writer.

Time is modelled by what it orders: a wait of the bridge times out only when
nothing is under way, since all its timeouts are longer than the device takes;
the windows of 200 ms and 2 s may close before the bridge is there; the device's
waits of 10 s and more run out only with the bridge off, which polls every
second. `Fault` counts every lost frame, flash error, reset and power loss, of
the device (`DeviceCut`) and of the bridge (`BridgeCut`, which keeps the files).

### Bridge

A file is a sequence of blocks, a block is a pair of image and number, a CRC the
content it was taken over. The variables are the globals (`g_fw_staged`,
`g_fw_receiving`, `g_fw_size`, `g_fw_expected_size`, `g_fw_version`,
`g_fw_crc32`, the running CRC, `g_ota_running`, `g_web_ota_state`) and the place of
each task: `bt` (`bt_recv_task`), `web` and `webTasks` (the server, and the task
it makes for a transfer), `poll`, and `xfer` for whoever holds the mutex. A
step lies between two calls that may block, so that two tasks can be at the
same file at once. `stage_firmware_data()` is three: the check of receiving and size
(`Takes`, `BeginsWrite`), the `fwrite()` (`Writes`), the count (`Counts`); a closed
connection or a new FW may come between any two of them, and the count then goes on
from the size it finds, past the announced one too. Every file operation may fail
(`StagingFails`, and the opening of a file by FW, upload, download or transfer), and so
may `xTaskCreate()`. `handles` remembers who has the file open, and a handle on a file
that another task deletes is `orphan`: it fails from then on. `Cut` restarts the bridge
at any point; memory is gone and files stay.

### AppTasks

`comm`, `control`, `app` and `monitor` are the places of the four tasks.
`Runs(t)` is the scheduler: a task goes on only if it is ready and no ready
task has a higher priority, or if it is in a critical section. Interrupts
(`FrameArrives`, `Wakes`) come between any two steps. A frame sent is counted
down byte by byte (`left`), since sending is a busy wait without a lock, and
`split` remembers that another task got in between. A snapshot is two words that
are written one after the other. `Signal` is `xEventGroupSetBits()`, which hands the
bit to a waiting task or leaves it set. The request's effect on the
configuration is `Bootloader`'s `AppRequestsUpdate`.

### LightControl

A round of `vAppTask()` in the order of the code: a command, the knob, the
button, the back button, sensor and strip (`at` says which is next). `lamp` are
`g_light_auto_mode`, `g_light_manual_percent` and `g_light_brightness`, `strip` the
bookkeeping of `ws2812_*`, `shown` what the strip shows: nothing once relay 2
has taken its power. Both conversions between level and percentage are the
code's integer arithmetic with its rounding.

### RotaryEncoder

`shaft` is the position in quarter steps; it moves, or bounces, by one at
any time, also between the handler's reads of A and B. `latched` is `EXTI->PR`; the
handler reads it, clears it, reads A, reads B and decodes, each a step.
`quarter`, `delta`, `previous` and `detent` are the code's variables. The task
fetches (`Fetches`, `Fetched`) and sends strip frames (`SendsFrame`, `FrameSent`)
with interrupts off. `seen`, `skips` and `lost` are history: the position of the last
sample, how many samples were two positions apart (the table has no entry for
these), and whether more than that has happened, in which case no decoder can
know. `g_encoder_delta` is an integer here: the task empties it every
5 ms, long before 16 bits are full.

### UartRx

A byte is its number on the line. `rx` is the DMA's count, `tail` is
`g_dma_tail`; both are kept as counts of bytes and the code's indices are these
modulo `RingSize`. The ring needs no variable: place p holds the last byte put
there, which is stale if it has been published before and wrong if the DMA has
gone round. `isr` and `pc` are the positions in the interrupt and in the comm
task; one core, so the task stands still while the interrupt runs. Each
access of the task to `g_dma_tail` that the interrupt can separate from the next
is a step of its own, except those inside one argument list. `clashed` and
`lapped` are history: the interrupt published inside the task's drain; a
ring's worth of bytes was waiting at once. The vendored stream buffer on static
storage holds `StreamSize - 1` bytes and takes what fits.

### FrameParser

One action per thing a byte can do to `proto_parser_feed()`. A running CRC register
is a function of the bytes it has covered, so `calc` holds these, and `Crc` is any
function from them to `CrcSize` bytes. `wire` is what is left of the frame a
sender has built; the line delivers its bytes, loses them, changes them or adds
others. Command, payload and check bytes may contain the sync byte, which the code
does not escape. `taken`, `inStep` and `since` are history: the bytes since the parser
last left SYNC; that the frame on the line found the parser waiting and nothing
disturbed it; the bytes since the last disturbance or good frame, counted only behind
the last sync byte of a frame.

## 3. Runs

| Run | Checks | States |
|---|---|---|
| `ota_config` | `TypeOK`, `NewestIsSafe`, `CopiesOrdered`, `NeverLosesConfig`, `StoreSpec` | 733 |
| `bootloader` | `TypeOK`, `AckedPagesHold`, `OkIsDurable`, `TrialIsBounded`, `SilentJumpIsChecked`, `Settles` | 1 081 952 |
| `ota_system` | `TypeOK`, `SuccessIsReal`, `CleanTransferSucceeds`, `NeverMixed` | 4 281 644 |
| `ota_ends` | `TransferEnds` | 1 292 856 |
| `bridge` | `TypeOK`, `OneWebTransfer`, `TransferringEnds`, `MutexReleased` | 1 055 512 |
| `app_tasks` | `TypeOK`, `WakeFindsRequest`, `AnswerIsWhole`, `RepliesAreWhole`, `AnnouncementServed` | 315 640 |
| `light_control` | `TypeOK`, `ManualIsShown`, `EditingIsManual`, `Settles`, `StripFollows` | 782 370 |
| `rotary_encoder` | `TypeOK`, `InStep`, `SkipCostsTwo` | 7 377 972 |
| `uart_rx` | `TypeOK`, `InOrder`, `QuietIsDelivered` | 699 282 |
| `frame_parser` | `TypeOK`, `ExactlyFrames`, `InStepArrives`, `ResyncBounded` | 2 804 199 |
| `torn_image`, `golden_torn` | one claim of the documentation each; TLC finds it violated | |

`ota_config`: two contents, three half-words per copy (28 in the code; the
first, a middle and the last are what differs), five writes. Five writes visit
both pages at least twice, which is the longest memory the algorithm has: it
only ever compares two copies. The invariant is proved for any number.

`bootloader`: a region of two pages and three images, one shorter than the
region, two that fill it, one of which crashes. Two pages are the least for
which a region can be torn between two images; three images allow the
running image, the recorded one and the one in transfer to be all different.
`BootAttemptLimit` is 2 (3 in the code), so that an image fails, fails again
and is given up; `AttemptCap` is 3, the least above it.

- `AckedPagesHold`: an acknowledged chunk is in flash, whatever later chunks
  meet.
- `OkIsDurable`: after OTA_RESULT OK the recorded image is whole and will be
  started, across every crash and failed confirmation, until the next update.
- `SilentJumpIsChecked`: with nobody on the line an image is started only if
  the record vouches for it, or asks for an update, or says nothing.
- `TrialIsBounded`: an unconfirmed image gets at most `BOOT_ATTEMPT_LIMIT`
  starts from boots that found the device normal.
- `Settles`: once host and supply are quiet, the device ends in a running
  application or in maintenance mode, or restarts for ever only because its
  configuration is confirmed or gives no baseline to judge the image.

`ota_system`: two images, a good one of two pages (a chunk is followed by another
one, and by END) and a crashing one of one page; two tries for each chunk
(`OTA_MAX_RETRIES` is 3; the first, the last), limit 1 of starts with counter cap
2. The device is switched on when one of the images is staged and verified
(`Staged`), and then `Budget` allows two faults, or one push or download and no fault.
Two faults break a transfer and then meet its successor or the restoration: with
one, no frame of a broken transfer meets the next one. The push or download falls into
the transfer of the staged image at any place, or comes before or after it. The proofs hold
for every budget and whatever is staged.

- `SuccessIsReal`: the bridge reports a success only if the device holds the
  image of this transfer and has it on record, whatever is lost, left over, or
  rewritten in mid-transfer.
- `CleanTransferSucceeds`: a transfer to a running application fails only for a
  lost frame, a flash error, a reset, or somebody who rewrites the staging; polls and
  leftovers do not disturb it.
- `NeverMixed`: what the device programs is the image it was announced, as long as
  the file is what the transfer opened. Nothing in the code keeps it so; the property
  says what the frames and the device contribute.

`ota_ends` begins with nothing staged and has one fault and one push or download, in any
place and order. It is a run of its own because the graph a liveness check has to keep
is far more costly than a set of states.

- `TransferEnds`: every transfer ends.

`bridge`: an image of two blocks, which can be cut in the middle and may be the
golden one; two uploads, downloads or restarts (one of each of two clients, or an
upload and a restart). The properties are about tasks, mutex and file operations, not
about which image a block is of, so one is enough; `golden_torn` has a second one, of a
single block, which mixes with the first in one file.

- `OneWebTransfer`: a task for a web transfer exists exactly while the page
  says "transferring", and one only.
- `TransferringEnds`, `MutexReleased`: neither stays for ever, whatever becomes of
  the file meanwhile and wherever a file operation fails.

`app_tasks`: two versions, a command queue of two (`QUEUE_CMD_LENGTH` is 8; here
two announcements fill it), a data queue of one, frames of two bytes (a first
and a last one), three frames from the host and a restart. Three frames are a
full queue and one that is dropped. The run may stop: the application ends in the
bootloader when no restart is left, so deadlock is not checked.

- `WakeFindsRequest`: a wake-up of `vControlTask` always finds a request.
- `AnswerIsWhole`, `RepliesAreWhole`: a snapshot answer is one snapshot; a reply of
  the comm task reaches the line in one piece.
- `AnnouncementServed`: an announcement that got into the queue leads to the
  reset that starts the update, unless the configuration could not be written.

`light_control`: light at both ends of the scale and a failed reading, a command of
100 %, which differs from every start value, two menu entries, a refresh after
three updates, four inputs. Four inputs let a command, the knob, a mode and the
power interleave; the levels are the code's 160.

- `ManualIsShown`, `EditingIsManual`: level, percentage, mode and menu agree.
- `Settles`: with the light constant the lamp comes to rest in the dead band.
- `StripFollows`: a strip with power comes to show the level.

`rotary_encoder`: twelve quarter steps of the shaft in any direction at any time,
three full steps or a step with bounces at each contact. A step is counted over four,
so a skip in one step and its effect on the next are within reach. The shaft
stops after them, so deadlock is not checked.

- `InStep`: while no position is skipped, published steps and quarter steps
  are exactly where the shaft is whenever the handler is done.
- `SkipCostsTwo`: each skipped position costs two steps at most, and at
  a detent nothing of it is left in the running count.

`uart_rx`: a ring of three, a stream buffer of three (`StreamSize` 4) and seven
bytes: bursts of any length, up to more than two rounds of the ring, with the
stream buffer empty, partly full and full. A ring of two would have no wrapped
span of more than one byte before it is lapped.

- `InOrder`: unless the two drains met or the ring was lapped, the parser gets
  the bytes in order and once, and every byte up to the tail is fed, waiting,
  or was refused by a full stream buffer.
- `QuietIsDelivered`: when the line goes quiet, everything received reaches the
  parser without a further byte to push it, including what came before the
  interrupt was enabled.

`frame_parser`: bytes of three values, of which 2 is the sync byte, every payload of
up to three bytes, two commands, of which one is the sync byte too, a check of two
bytes. Lengths up to eight can be announced, more than the array holds; a header, with
a length that fits or not, can lie inside a payload.

- `ExactlyFrames`: a frame is returned exactly when the bytes since the sync byte
  are one, against a definition of the format without a parser.
- `InStepArrives`: a frame that finds the parser waiting is returned, also when it is
  full of sync bytes.
- `ResyncBounded`: a disturbance costs a bounded number of good bytes, less than
  the longest frame a header can announce and two of those sent. A byte counts if no
  sync byte is left in its frame behind it: as long as one is, the lost parser may
  open a further stray frame there, and no bound holds over such bytes. A frame without
  a sync byte inside counts as a whole, so polls, acknowledgements and most short
  commands bring the parser back within the bound, and from then on `InStepArrives`
  keeps it there through 1 KB of image. A stream of nothing but chunks promises
  less: each counts from its last 0xA5 on.

### Claims the code does not keep

Each of the two violation runs takes a sentence of a comment or document and
shows a behaviour that contradicts it; `PROJECT.json` quotes the lines.

- `torn_image`: a reset in the middle of a requested update leaves `boot_mode` at OTA;
  the next boot waits two seconds and jumps into the torn image, again and
  again (the attempt counter is not looked at in this mode).
- `golden_torn`: a restart of the bridge in the middle of a promotion, or a partial
  download that is promoted, leaves a golden image that is not whole.

Seen while modelling, reached by the modules, and kept here in words:

- The idle interrupt inside the task's drain at start-up makes the task send the ring
  from a tail that has moved: bytes twice, and stale ones. The comment that no lock is
  needed (`application/Core/Src/uart_comm.c:227`) overlooks it; `InOrder` of `UartRx`
  excludes it (`clashed`), and does not hold without that.
- CMD_OTA_END too early ends in a jump into the partly written region
  (`bootloader/Core/Src/main.c:715`; the comment at 698 rules it out).
- Without a valid copy in flash every write is refused, so a device flashed by
  debugger never gets a configuration (`shared/ota_config.c:256`).
- An update requested and given up before its first chunk leaves the new size
  beside the old CRC; the old image, whole and working, is refused at the
  next boot (`shared/ota_config.c:368`).
- The confirmation is stored for the recorded image, which after an unrecorded
  commit or an interrupted update is not the one running
  (`shared/ota_config.c:479`).
- A percentage set from the phone in automatic mode is forgotten when the mode goes
  to manual, since the level of the lamp replaces it
  (`application/Core/Src/main.c:745`, against the comment at 851).
- Recovery is tried at exactly the second missed poll. A transfer during which
  polls are counted as missed steps over it (`PollBlocked`, `RecoverySkipped`).
- A restoration begins with CMD_OTA_AVAILABLE and needs CMD_OTA_READY, which only
  the application sends: a device held in its bootloader cannot be restored. The
  bridge's polls keep a bootloader in its transfer from timing out.
- A golden image may be one that never ran: the staging file is promoted when a
  confirmation is noticed, whatever it holds by then.
- FW, DATA, a download and a lost connection ask neither for `g_ota_running` nor for
  the mutex, and a transfer reads size, CRC and version live
  (`esp32-comm-bridge/src/main.cpp:2137`). In mid-transfer they make one fail that
  nothing else disturbs, or have the device program chunks of another image than the
  one announced. The device's CRC check over what was announced is what remains
  (`SuccessIsReal`).
- A connection closed, or a new FW, during the `fwrite()` of a block resets the size,
  and the block is counted all the same: the count may pass the announced size
  (`main.cpp:764`). The next verification refuses it.
- A web upload and the Bluetooth command FW work on one file: two images may be mixed
  in it, and the verification of the upload accepts it, since it compares the CRC of
  what was received, not of what is in the file.
- `transfer_to_stm32_impl()` returns without CMD_OTA_ABORT when reading the file
  fails, and leaves the device in its transfer.
- A strip driver that fails once is given up until the next restart.

## 4. Fairness

`Bootloader` asks for `WF_vars(DeviceStep)` only: the processor executes, timeouts
expire (they are counted by SysTick), the watchdog bites (it is never stopped
once started). Nothing is asked of host, supply or resets; `Settles` speaks of
behaviours in which they have become quiet. `DeviceStep` contains both the
success and the failure of a flash operation, so no success is assumed.

`OtaSystem` asks for the steps of the device (`DeviceReceives`, `DeviceStep`), of
the bridge's transfer (`TransferStep`, and `Skips`, its loop over frames it does
not want) and of its poll task (`PollStep`). Timeouts are part of these. A user
need not upload or send, and a bridge switched off may stay off.

`Bridge` asks that a transfer goes on, that the poll task does, and that a waiting
web task gets the mutex or its timeout (`WebGetsMutex \/ WebMutexTimesOut`). Clients
owe nothing, so that an upload may stop in the middle.

`AppTasks` asks for weak fairness of each task, which is what the scheduler gives
to one that stays ready with none above it; and for strong fairness of the ticks
that wake `vControlTask`, since critical sections of others come and go and a
tick during one is pending until its end. The host owes nothing.

`LightControl` asks that the loop goes round (`WF(Idle \/ Update)`) and, as an
update is due once every 200 ms and the loop runs every 5 ms, `SF(Update)`.

`UartRx` asks for `WF_vars(Processor)` (the interrupt has priority and always
ends; the comm task is the one of highest priority) and `WF_vars(LineIdle)`: every
burst ends. Without the latter nothing is ever published, which is so in the
code: there is no interrupt at half or full ring.

`OtaConfig`, `FrameParser` and `RotaryEncoder` are about safety and ask for none.

## 5. Proofs

All theorems hold for every value of the constants under the named assumptions,
which TLC evaluates in the runs. `PROJECT.json` lists them with the property each
states.

`OtaConfigProofs` (every size of `Value`, `Halfwords`, `MaxSeq`, `MaxWrites`):

- `StoreInvariant`: `TypeOK` and `CopiesOrdered` are inductive together.
  `NewestIsSafe` alone is not: that the erased page is not the newest one
  depends on the record being written having a larger number than the copy
  left alone, and this on both copies never having the same number.
  `CopiesOrdered` says just that, and that numbers stay below the write count,
  so that the successor never wraps (assumption `MaxWrites < MaxSeq`).
  `StoreTypes` is its first half.
- `NewestSafe` and `ConfigNeverLost` follow from the invariant: only the target page
  changes, and it is not the one a read returns.
- `StoreRefinement`: each step is a step of `ConfigStore` under the mapping in
  `OtaConfig`, or a stutter; the copy is installed exactly at the last
  half-word.

`BootloaderProofs` (every set of images, region size, attempt limit and counter
width, under every order of frames, resets, power cuts and flash faults). The
inductive invariant `IInv` is `TypeOK` and four parts, one for each promise:

- `TransferInv`: chunks are accepted in order and within the announced size, and
  those acknowledged are in flash. `TypeOK` is not inductive without it: that
  the page counter stays inside the region takes the size check of the chunk
  and the order of the chunks together. `AckedSafe` follows.
- `DurableInv`: from the commit on the record describes the image in place. The
  step between commit and result frame needs the conjunct for
  `pc = "committed"`: the promise is made only in the step after it.
  `OkDurable` follows; `Reset` during `programming` is the one step that could
  tear a page, and there no result stands.
- `TrialInv`: starts never run ahead of the attempts counted, and between the
  decision and the start the boot has been counted already
  (`Saturating(runs) <= attempts`); a decision NORMAL keeps attempts within the
  limit until the start. `TrialsBounded` follows. The saturation of the counter
  matters: the proof uses `BootAttemptLimit < AttemptCap`.
- `DecisionInv`: in the first window the decision still fits the record and the
  region, since the first thing that happens leaves the window. `SilentJump`, an
  action property, follows from it.

`BootAssumption` is the only assumption: sizes lie in the region, the markers of
erased and torn pages are no images, the limit is at least one and below the
cap of the counter.

`OtaSystemProofs` (the same generality, any number of retries, and any number of
frames lost, flash errors, resets, power cuts on either side, pushes and downloads).
`OtaAssumption` is `BootAssumption`, that the marker of an empty file is no image, and
that there is at least one retry. The invariant `IInv` is what is proved of the device
alone (`DevP!IInv`, with `DevP == INSTANCE BootloaderProofs`) and `SafetyInv`:

- `TypeOK` with `PushInv`: a push has not yet reached its announced size, which keeps
  the sizes in their range while DATA, lost connections and a finishing transfer change
  them under each other.
- `FrameInv`: BEGIN, CHUNK and END are on the line only while the bridge waits for
  their answer, with the image and number it waits for. The code gets this from
  waiting until the line is quiet; without it a chunk of a transfer broken off
  could reach the next one.
- `IntactInv`: what an untouched file implies: its pages are those of the image
  announced, and so is the chunk in `buf`.
- `TransferInv`: a device that said READY is in no older transfer; between BEGIN and
  the result, the transfer the device is in is this one. `NeverMixed` follows from it
  and `IntactInv`: only while `intact`, since a rewritten file reaches the device.
- `ResultInv`: a RESULT that the bridge will read during a transfer answers this
  END, since BEGIN flushes the driver and the device sends a result for END only. If it
  says "ok", the image is on record (`Done`) and nothing is under way that would
  begin another update. `SuccessReal` follows, with the durability of Bootloader. It
  does not ask for an untouched file: the device compares what it got with the CRC
  it was announced.

`DeviceImplements` is the refinement this rests on, step by step: each action of
`OtaSystem` is a step of `Bootloader` or leaves the device alone. With it every
invariant of the device carries over (`DeviceKeepsPromises`) instead of being proved
again. For `CleanSucceeds` the invariant is extended by `CleanInv`: a transfer that met
a running application, no fault and no writer is in one of fourteen places (`InOrder`,
from `Opening` to `Reporting`), each fixing the device's state and both directions of
the line, and its staging is still sound (`Sound`); what is acknowledged there is of one
image, so that the CRC the device computes at END is the one recorded. Each step goes to
the same or the next place, and none of them fails.

`UartRxProofs` (every ring, stream buffer and number of bytes). `IInv` is `TypeOK`
and, as long as the drains have not met and the ring was not lapped, `Places`
(where tail, head and the limits of a span stand at each step of interrupt and
task) and `Account` (what has been fed, waits in the stream buffer or was refused
is what lies before the tail). `BytesInOrder` follows. The arithmetic of the ring,
that an index determines a count within one round, is in the first lemmas.

`FrameParserProofs` (every alphabet, payload limit, check function and traffic). The
assumptions are that a length fits in two bytes and that the check function yields
`CrcSize` bytes. `IInv` is `TypeOK` and `Known`: in each state, which part of a frame
the bytes taken are, and that they determine `cmd`, `len`, `payload` and what the CRC
has covered. `FramesExactly` follows, in both directions; a lemma takes a
concatenation apart at its seam.

- `BuiltFramesParse`: the format read from `proto_build_frame()` and the one of the
  parser are the same, length bytes included.
- `InStepFramesArrive`: with `Typed` (the types of parser and line), the invariant
  `Arriving` says that a parser in step stands before the frame (`AtFrame`) or at the
  place in it that the bytes left on the line call for (`InFrame`), or has just returned
  it. `EntersFrame` and `FollowsFrame` are the two kinds of step. No assumption on the
  bytes of a frame is needed: inside a frame the parser looks at none for a sync byte.
- `Resynchronises`: `ResyncBounded`, for any traffic. A byte with a sync byte to come
  behind it restarts the count, so the invariant is that the count is zero (`Fresh`) or the
  parser is in one of four phases, each with its share of the bound: inside a frame a
  stray byte opened (`Stray`), looking for a sync byte in the rest of the frame this one
  ended in (`Hunting`), in front of a whole frame (`Due`), or inside it in step with the
  sender (`Inside`). The lemma `StaysInStep` says that the parser does not leave a frame
  it is in step with, since the header it has read announces what is still to come.
  `LongestIsBound` shows that the quantifier in `ResyncBounded` is not empty.

`AppTasksProofs` (every queue length of at least two, frame length and number of
frames). `IInv` is `TypeOK` with `RequestsCover` (the queue holds a request for the
wake-up taken and for the one pending, and while the task waits no bit is set),
`SnapshotsWhole` (a snapshot is torn only inside its writer's critical section) and
`CommFirst` (no critical section is entered while the comm task sends). The lemma
`Scheduled` says what priorities imply. `WakeUpsFindRequests`, `AnswersWhole` and
`RepliesWhole` follow. The queue must hold two: with one, an announcement that is
dropped leaves a bit without a request.

`ControlsProofs`, the lamp (every set of readings and commanded percentages, every
refresh period): ranges, `ManualShown`, `EditingOnlyManual` and `LampNeverJumps`.
Their core are two lemmas about the conversions: a percentage survives the way to
a level and back, and a level the way to a percentage and back up to one.

`BridgeProofs` (every set of images and any number of blocks, uploads, downloads and
restarts):

- `WebTransferSingle`, from `WebTransfer`: the list of web tasks is empty or has one,
  the page says so, no upload runs beside it, and it holds the mutex exactly
  while it runs.
- `BridgeTypes`, from `BridgeTypeInv`. `TypeOK` is not inductive alone: that a write
  extends a file takes that an open handle is on a file that is there
  (`FileTypes`), that blocks of images are written takes what each client is
  about to send (`ClientTypes`), and that the copy in either direction stays in
  its source takes the length it was begun with (`CopyTypes`). It says that both files
  consist of blocks of images, whichever tasks write them and whatever happens to
  file, handle and counters between check, write and count of a block. It says
  nothing of the announced size: the count may pass it.
- `LineExclusive`, from `WebTransfer` and `LineOwned` together: who holds
  `g_ota_mutex` is the one task that talks to the device, and `g_ota_running` is set
  exactly while that is a transfer. The code has no single place that says so; it
  takes every way out of `transfer_to_stm32_impl()` and its three callers.

`ControlsProofs`, the knob (any number of movements). `KnobIInv` is `KnobTypeOK` with `HandlerAt`
(when no contact is latched the handler has seen the shaft's position, which is
what clearing before reading gives), `CountFits` (the running count is the way from
one of the two detents around the sample, or is short of it after a skip) and
`ErrorBounded` (the positions lost are at most eight for each skip, and three fewer
while the running count is known to be short, which is what a detent then
costs). `CountInStep` and `SkipsCostTwo` follow.

Every invariant and every action property of the runs is proved, and `NoJump`, that
switching to manual mode moves the lamp by one level at most (`LampNeverJumps`). Model-checked only is
liveness (`Settles` of the boot process and of the lamp, `TransferEnds`,
`TransferringEnds`, `MutexReleased`, `AnnouncementServed`, `StripFollows`,
`QuietIsDelivered`): fairness and ENABLED are outside TLAPS. The two sentences the code
does not keep are shown by TLC's counterexamples.

## 6. What is left

- A version of `Bridge` with the mutex around uploads, to show which of the mixed
  files it would prevent.
- `FrameParser` behind `UartRx`: what a refused byte costs in frames, and from it how
  many frames the line of `OtaSystem` may lose.
- `UartRx` with the interrupt held off during the drain at start-up, to show that
  `InOrder` then needs no exception for it.
- The debouncing of the two polled buttons.
- The steps of the liveness arguments that are not temporal: a measure that every
  fair step of a transfer decreases, as an action property.

## 7. Not modelled

- Bus and register I/O of the sensors and displays, the BMP280's compensation
  arithmetic, fonts, the buttons' polling. They keep no state that other parts
  depend on.
- Wi-Fi provisioning and reconnection, MQTT topics and HTTP formatting of the
  bridge: network I/O of the vendor's libraries.
- The low-power probe, a stand-alone measuring firmware, and the PC tools, which
  drive the system from outside; `Bootloader`'s host is freer than any of them.
- FreeRTOS itself. What the application relies on is modelled where it is used
  (choice of the task, queue, event bits, stream buffer from an interrupt). With
  its headers it is some 26 000 of the repository's 37 700 lines of
  implementation, which is why the modules map about a tenth of all lines, and
  about a third of those written for this product.
- The watchdog's starvation: `vMonitorTask` shares the lowest priority and every
  other task blocks in each round, so that there is nothing to show without
  modelling the drivers' waits.
- In `OtaConfig` a sequence number never wraps (flash wears out long before). In
  `Bootloader` flash that is programmed wrong without an error is left out: the CRC
  check over the whole image is there for it, and two contents with one CRC are not
  considered. Chunks shorter than a page are not sent (hazard `main.c:622`).
- The error flags of the UART other than overrun, which the handler does not
  clear.
