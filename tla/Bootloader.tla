------------------------------ MODULE Bootloader ------------------------------
(***************************************************************************)
(* bootloader/Core/Src/main.c with the parts of the application that share *)
(* state with it: the boot decision, the handshake windows, the transfer   *)
(* of an image page by page, the commit, maintenance mode, and on the      *)
(* application's side the boot confirmation and the update request.        *)
(*                                                                         *)
(* The host is not assumed to follow the protocol: any frame may arrive    *)
(* whenever a frame is waited for, which covers lost, repeated and         *)
(* reordered frames.  One thing is assumed of it, as both senders of the   *)
(* repository do it: a chunk carries a whole flash page (the last one of   *)
(* an image what is left), so that bytes and pages count the same.         *)
(* Frames that change nothing (every NAK that leaves the state alone, the  *)
(* answers to polls in maintenance mode) are left out.                     *)
(*                                                                         *)
(* The host's announcement need not fit what it sends: any size, and the   *)
(* CRC of some image or of none (Blank).                                   *)
(*                                                                         *)
(* The application region is a function from its pages to what they hold:  *)
(* the page of some image with that number, Blank (erased; the vector      *)
(* table does not check) or Torn (half programmed; it does).  The CRC-32   *)
(* of an image stands for the image: two contents have different CRCs.     *)
(* A configuration write is one step, which module OtaConfig justifies.    *)
(***************************************************************************)
EXTENDS Naturals, Sequences

CONSTANTS
  Image,       \* firmware images
  Crashy,      \* the ones that die before they confirm a boot
  Size,        \* Size[i]: pages of image i (54 KB / 1 KB in the code)
  AppPages,    \* pages of the application region (APP_PAGES)
  Blank, Torn, \* contents of a page that belong to no image
  NoConfig,    \* ota_config_read() returned false
  BootAttemptLimit,  \* BOOT_ATTEMPT_LIMIT
  AttemptCap   \* where the attempt counter saturates (0xFFFF in the code)

\* The fields of BootConfig_t that decide anything, sizes in pages.  Any size
\* beyond the region is represented by AppPages + 1.
ConfigType == [mode : {"APP", "OTA"}, size : 0..AppPages + 1,
               crc : Image \cup {Blank}, confirmed : BOOLEAN,
               status : {"NONE", "OK", "FAILED", "IN_PROGRESS"}]

ASSUME BootAssumption ==
  /\ Crashy \subseteq Image
  /\ AppPages \in Nat \ {0}
  /\ Size \in [Image -> 1..AppPages]
  /\ Blank # Torn /\ Blank \notin Image /\ Torn \notin Image
  /\ BootAttemptLimit \in Nat \ {0} /\ AttemptCap \in Nat
  /\ BootAttemptLimit < AttemptCap
  /\ NoConfig \notin ConfigType

VARIABLES
  pc,        \* where the processor is, see TypeOK
  region,    \* the application region of the flash
  cfg,       \* the stored configuration
  attempts,  \* BKP_DR1; 0 stands for "tag missing" as well
  status,    \* g_recovery_status
  ota,       \* g_ota: CRC and size BEGIN announced, next chunk, chunk in hand
  acked,     \* history: the chunks acknowledged in this transfer
  told,      \* history: last OTA_RESULT, "none" since an update began
  runs       \* history: starts of the application since attempts was cleared
             \*          or an image was committed, up to AttemptCap

vars == <<pc, region, cfg, attempts, status, ota, acked, told, runs>>

PageNo == 0..AppPages - 1
NoOta == [image |-> Blank, size |-> 0, seq |-> 0, chunk |-> Blank]

Holds(i) == \A p \in 0..Size[i] - 1 : region[p] = i

AppIsValid == region[0] # Blank

\* The size recorded is compared in pages; sizes that cannot be checked pass.
AppImageCrcOk ==
  \/ cfg.size = 0 \/ cfg.size > AppPages
  \/ cfg.crc \in Image /\ cfg.size = Size[cfg.crc] /\ Holds(cfg.crc)

-----------------------------------------------------------------------------
(* The transitions of ota_config.c, as functions from record to record.    *)

RequestUpdate(c, n) ==
  [c EXCEPT !.mode = "OTA", !.size = n, !.status = "IN_PROGRESS",
            !.confirmed = FALSE]
\* Mutant: the mode stays OTA when the image is committed.
MarkValidKeepsMode(c, i) ==
  [c EXCEPT !.size = Size[i], !.crc = i, !.status = "OK", !.confirmed = FALSE]

MarkValid(c, i) ==
  [c EXCEPT !.mode = "APP", !.size = Size[i], !.crc = i, !.status = "OK",
            !.confirmed = FALSE]
MarkFailed(c) == [c EXCEPT !.mode = "APP", !.status = "FAILED"]
ConfirmBoot(c) == [c EXCEPT !.confirmed = TRUE]

\* Read, modify, write.  Fails without a record, and on a flash fault.
Written(c) == cfg # NoConfig /\ cfg' = c
NotWritten == cfg' = cfg

-----------------------------------------------------------------------------
\* The first boot, with an image and perhaps a configuration in flash: one
\* that describes the image, or one from before sizes were recorded.
Init ==
  \E i \in Image, legacy \in BOOLEAN, ok \in BOOLEAN :
    /\ ok => i \notin Crashy
    /\ region = [p \in PageNo |-> IF p < Size[i] THEN i ELSE Blank]
    /\ cfg \in {NoConfig,
                [mode |-> "APP", size |-> IF legacy THEN 0 ELSE Size[i],
                 crc |-> IF legacy THEN Blank ELSE i, status |-> "NONE",
                 confirmed |-> ok]}
    /\ pc = "boot" /\ attempts = 0 /\ status = "NORMAL"
    /\ ota = NoOta /\ acked = <<>> /\ told = "none" /\ runs = 0

\* Mutant: the attempt counter does not saturate.
Unsaturated(n) == n + 1

Saturating(n) == IF n < AttemptCap THEN n + 1 ELSE n

\* Mutant: one boot too many before the image is given up.
DecisionLate(n) ==
  IF ~AppIsValid THEN "NO_APP"
  ELSE IF cfg = NoConfig THEN "NORMAL"
  ELSE IF cfg.mode = "OTA" THEN "OTA_PENDING"
  ELSE IF ~AppImageCrcOk THEN "IMAGE_INVALID"
  ELSE IF ~cfg.confirmed /\ n > BootAttemptLimit + 1 THEN "BOOT_UNCONFIRMED"
  ELSE "NORMAL"

Decision(n) ==
  IF ~AppIsValid THEN "NO_APP"
  ELSE IF cfg = NoConfig THEN "NORMAL"
  ELSE IF cfg.mode = "OTA" THEN "OTA_PENDING"
  ELSE IF ~AppImageCrcOk THEN "IMAGE_INVALID"
  ELSE IF ~cfg.confirmed /\ n > BootAttemptLimit THEN "BOOT_UNCONFIRMED"
  ELSE "NORMAL"

\* Count the boot, decide, open the window.
BootDecision ==
  /\ pc = "boot"
  /\ attempts' = Saturating(attempts)
  /\ status' = Decision(attempts')
  /\ pc' = "window"
  /\ UNCHANGED <<region, cfg, ota, acked, told, runs>>

\* Mutant: only a missing image keeps the bootloader from jumping.
BootableUnlessNoApp == status # "NO_APP"

Bootable == status \in {"NORMAL", "OTA_PENDING"}

\* The bootloader's own memory is gone with the jump.
JumpToApp ==
  /\ pc' = "app" /\ ota' = NoOta /\ acked' = <<>>
  /\ runs' = Saturating(runs)

Stay(p) == pc' = p /\ UNCHANGED <<ota, acked, runs>>

\* The window passes, or a frame arrives that is none of the three known.
WindowCloses ==
  /\ pc = "window"
  /\ IF AppIsValid /\ Bootable THEN JumpToApp ELSE Stay("maint")
  /\ UNCHANGED <<region, cfg, attempts, status, told>>

\* A poll is answered and opens a second window, for OTA_BEGIN only.
WindowPolled ==
  /\ pc = "window"
  /\ Stay("window2")
  /\ UNCHANGED <<region, cfg, attempts, status, told>>

\* What follows all the branches: start whatever is there, or halt.
FallThrough ==
  /\ IF AppIsValid THEN JumpToApp ELSE Stay("halt")
  /\ UNCHANGED <<region, cfg, attempts, status, told>>

SecondWindowCloses == pc = "window2" /\ FallThrough

\* Size and CRC are taken as announced, whether they belong to one image or not.
ProcessOtaBegin(i, n) ==
  /\ pc \in {"window", "window2", "maint"}
  /\ pc' = "active"
  /\ ota' = [image |-> i, size |-> n, seq |-> 0, chunk |-> Blank]
  /\ acked' = <<>> /\ told' = "none"
  /\ UNCHANGED <<region, cfg, attempts, status, runs>>

\* A BEGIN that is too short, or announces a size of zero or beyond the
\* region, is NAKed; the caller goes on as if there had been no other frame.
OtaBeginRefused == pc \in {"window", "window2", "maint"} /\ FallThrough

Restart == pc' = "boot" /\ ota' = NoOta /\ acked' = <<>>

MaintenanceReset ==
  /\ pc = "maint"
  /\ Restart
  /\ UNCHANGED <<region, cfg, attempts, status, told, runs>>

-----------------------------------------------------------------------------
(* Transfer.  The page is erased, programmed, and only then acknowledged.  *)

ChunkAccepted(s) == s = ota.seq /\ s + 1 <= ota.size

\* The CRC over the bytes received is the one announced.
Complete ==
  ota.image \in Image /\ ota.size = Size[ota.image] /\ Holds(ota.image)

EraseChunkPage(s, i) ==
  /\ pc = "active"
  /\ ChunkAccepted(s)
  /\ region' = [region EXCEPT ![s] = Blank]
  /\ ota' = [ota EXCEPT !.chunk = i]
  /\ pc' = "programming"
  /\ UNCHANGED <<cfg, attempts, status, acked, told, runs>>

EraseChunkPageFails(s) ==
  /\ pc = "active"
  /\ ChunkAccepted(s)
  /\ region' = [region EXCEPT ![s] = Blank]
  /\ UNCHANGED <<pc, cfg, attempts, status, ota, acked, told, runs>>

ProgramChunk ==
  /\ pc = "programming"
  /\ region' = [region EXCEPT ![ota.seq] = ota.chunk]
  /\ ota' = [ota EXCEPT !.seq = @ + 1, !.chunk = Blank]
  /\ acked' = Append(acked, ota.chunk)
  /\ pc' = "active"
  /\ UNCHANGED <<cfg, attempts, status, told, runs>>

\* Mutant: a programming error is acknowledged like a success.
ProgramChunkErrorIgnored ==
  /\ pc = "programming"
  /\ region' = [region EXCEPT ![ota.seq] = Torn]
  /\ ota' = [ota EXCEPT !.seq = @ + 1, !.chunk = Blank]
  /\ acked' = Append(acked, ota.chunk)
  /\ pc' = "active"
  /\ UNCHANGED <<cfg, attempts, status, told, runs>>

ProgramChunkFails ==
  /\ pc = "programming"
  /\ region' \in {region, [region EXCEPT ![ota.seq] = Torn]}
  /\ ota' = [ota EXCEPT !.chunk = Blank]
  /\ pc' = "active"
  /\ UNCHANGED <<cfg, attempts, status, acked, told, runs>>

\* process_ota_end: too few bytes.  Nothing is written to the configuration.
OtaEndShort ==
  /\ pc = "active"
  /\ ota.seq # ota.size
  /\ pc' = "error" /\ told' = "fail"
  /\ UNCHANGED <<region, cfg, attempts, status, ota, acked, runs>>

AfterError == pc = "error" /\ FallThrough

\* process_ota_end: all bytes, wrong CRC.
OtaEndCorrupt ==
  /\ pc = "active"
  /\ ota.seq = ota.size /\ ~Complete
  /\ Written(MarkFailed(cfg)) \/ NotWritten
  /\ pc' = "halt" /\ told' = "fail"
  /\ UNCHANGED <<region, attempts, status, ota, acked, runs>>

\* process_ota_end: committed.  The result frame is still to be sent.
OtaEndCommits ==
  /\ pc = "active"
  /\ ota.seq = ota.size /\ Complete
  /\ Written(MarkValid(cfg, ota.image))
  /\ pc' = "committed" /\ runs' = 0
  /\ UNCHANGED <<region, attempts, status, ota, acked, told>>

\* process_ota_end: the image is right, its record cannot be written.
OtaEndUnrecorded ==
  /\ pc = "active"
  /\ ota.seq = ota.size /\ Complete
  /\ Written(MarkFailed(cfg)) \/ NotWritten
  /\ pc' = "halt" /\ told' = "fail"
  /\ UNCHANGED <<region, attempts, status, ota, acked, runs>>

SendResultAndJump ==
  /\ pc = "committed"
  /\ told' = "ok"
  /\ JumpToApp
  /\ UNCHANGED <<region, cfg, attempts, status>>

\* CMD_OTA_ABORT, or 30 s without a frame: mark the update failed and reset.
OtaAborted ==
  /\ pc = "active"
  /\ Written(MarkFailed(cfg)) \/ NotWritten
  /\ Restart
  /\ UNCHANGED <<region, attempts, status, told, runs>>

\* Mutant: the error loop feeds the watchdog.
WatchdogFed == FALSE

\* bootloader_halt_error does not feed the watchdog.
WatchdogReset ==
  /\ pc = "halt"
  /\ Restart
  /\ UNCHANGED <<region, cfg, attempts, status, told, runs>>

-----------------------------------------------------------------------------
(* The application.                                                        *)

\* An image dies early if it is one of those, or if it is not whole.
DiesEarly == ~\E i \in Image \ Crashy : Holds(i)

AppDies ==
  /\ pc = "app" /\ DiesEarly
  /\ Restart
  /\ UNCHANGED <<region, cfg, attempts, status, told, runs>>

\* Three seconds after its start: the counter first, then the configuration.
ConfirmClearsAttempts ==
  /\ pc = "app" /\ ~DiesEarly
  /\ IF cfg = NoConfig THEN /\ pc' = "running"
                            /\ UNCHANGED <<attempts, runs>>
                       ELSE /\ pc' = "confirming"
                            /\ attempts' = 0 /\ runs' = 0
  /\ UNCHANGED <<region, cfg, status, ota, acked, told>>

ConfirmWrites ==
  /\ pc = "confirming"
  /\ IF cfg.confirmed THEN UNCHANGED cfg
                      ELSE Written(ConfirmBoot(cfg)) \/ NotWritten
  /\ pc' = "running"
  /\ UNCHANGED <<region, attempts, status, ota, acked, told, runs>>

\* OTA_AVAILABLE reaches the control task; n is 0 if the host sent no size.
AppRequestsUpdate(n) ==
  /\ pc = "running"
  /\ Written(RequestUpdate(cfg, n))
  /\ Restart /\ told' = "none"
  /\ UNCHANGED <<region, attempts, status, runs>>

-----------------------------------------------------------------------------
(* Resets and power.                                                       *)

RegionAfterCut ==
  IF pc = "programming" THEN {region, [region EXCEPT ![ota.seq] = Torn]}
                        ELSE {region}

\* Brown-out, reset button, CMD_RESET in the application, watchdog: the
\* backup domain, and with it the attempt counter, survives.
Reset ==
  /\ pc # "boot"
  /\ region' \in RegionAfterCut
  /\ Restart
  /\ UNCHANGED <<cfg, attempts, status, told, runs>>

PowerLoss ==
  /\ region' \in RegionAfterCut
  /\ Restart
  /\ attempts' = 0 /\ runs' = 0
  /\ UNCHANGED <<cfg, status, told>>

HostStep ==
  \/ WindowPolled
  \/ \E i \in Image \cup {Blank}, n \in 1..AppPages : ProcessOtaBegin(i, n)
  \/ OtaBeginRefused
  \/ MaintenanceReset
  \/ \E s \in 0..AppPages, i \in Image : EraseChunkPage(s, i)
  \/ \E s \in 0..AppPages : EraseChunkPageFails(s)
  \/ OtaEndShort \/ OtaEndCorrupt \/ OtaEndCommits \/ OtaEndUnrecorded
  \/ \E n \in 0..AppPages + 1 : AppRequestsUpdate(n)

\* What happens with no frame from the host and no reset from outside.
DeviceStep ==
  \/ BootDecision \/ WindowCloses \/ SecondWindowCloses
  \/ ProgramChunk \/ ProgramChunkFails
  \/ AfterError \/ SendResultAndJump \/ OtaAborted \/ WatchdogReset
  \/ AppDies \/ ConfirmClearsAttempts \/ ConfirmWrites

Next == HostStep \/ DeviceStep \/ Reset \/ PowerLoss

\* The processor runs whatever it has to run; host and power owe nothing.
Spec == Init /\ [][Next]_vars /\ WF_vars(DeviceStep)

-----------------------------------------------------------------------------
\* Every variable has its type; pc names the place in bootloader_run() or,
\* from "app" on, in the application.
TypeOK ==
  /\ pc \in {"boot", "window", "window2", "active", "programming", "error",
             "committed", "halt", "maint", "app", "confirming", "running"}
  /\ region \in [PageNo -> Image \cup {Blank, Torn}]
  /\ cfg \in ConfigType \cup {NoConfig}
  /\ attempts \in 0..AttemptCap
  /\ status \in {"NORMAL", "OTA_PENDING", "IMAGE_INVALID",
                 "BOOT_UNCONFIRMED", "NO_APP"}
  /\ ota \in [image : Image \cup {Blank}, size : 0..AppPages,
              seq : 0..AppPages, chunk : Image \cup {Blank}]
  /\ acked \in Seq(Image)
  /\ told \in {"none", "ok", "fail"}
  /\ runs \in 0..AttemptCap

\* CMD_CHUNK_ACK is a promise: as long as the transfer lasts every page
\* acknowledged holds the chunk that was sent for it, retries and flash
\* faults on later pages included, and all of them lie inside the region.
AckedPagesHold ==
  pc \in {"active", "programming"} =>
    /\ Len(acked) = ota.seq /\ ota.seq <= AppPages
    /\ \A p \in 0..ota.seq - 1 : region[p] = acked[p + 1]

\* OTA_RESULT OK is durable: until the next update begins the flash holds a
\* whole image, the one the configuration records, in normal boot mode,
\* across every crash, reset, power loss and failed confirmation.
OkIsDurable ==
  told = "ok" =>
    /\ cfg # NoConfig
    /\ cfg.mode = "APP" /\ cfg.status = "OK"
    /\ cfg.crc \in Image /\ cfg.size = Size[cfg.crc] /\ Holds(cfg.crc)

\* Left to itself in the first window, the bootloader starts an image only
\* if the recorded CRC matches it, the application asked for an update, or
\* there is nothing recorded to compare with.
SilentJumpIsChecked ==
  [][WindowCloses /\ pc' = "app" =>
       cfg = NoConfig \/ cfg.mode = "OTA" \/ AppImageCrcOk]_vars

\* An image that has not confirmed a boot is started at most
\* BOOT_ATTEMPT_LIMIT times by boots that found the device normal.
TrialIsBounded ==
  pc = "app" /\ status = "NORMAL" /\ cfg # NoConfig =>
    cfg.confirmed \/ runs <= BootAttemptLimit

\* A configuration with nothing to hold the image against, or one that
\* bypasses the comparison.
NoBaseline ==
  cfg = NoConfig \/ cfg.mode = "OTA" \/ cfg.size \notin 1..AppPages

\* Once host and supply are quiet the device comes to rest, in a running
\* application or reachable in maintenance mode.  It waits nowhere else for
\* ever, and an image restarts for ever only if its configuration vouches for
\* it (confirmed) or gives no baseline.
Settles ==
  <>[][DeviceStep]_vars =>
    \/ <>[](pc \in {"maint", "running"})
    \/ []<>(pc = "app") /\ <>[](NoBaseline \/ cfg.confirmed)

-----------------------------------------------------------------------------
(* Claims of the comments and documents that the code does not keep.       *)

\* No image of the set is whole.
RegionTorn == \A i \in Image : ~Holds(i)

\* "power loss in mid-transfer -> IMAGE_INVALID" (scenario C of the table in
\* bootloader_run): a torn region is never taken for a bootable one.
TornIsRecognised ==
  pc = "window" /\ RegionTorn /\ cfg # NoConfig /\ cfg.size # 0 => ~Bootable

==============================================================================
