--------------------------- MODULE BootloaderProofs ---------------------------
(***************************************************************************)
(* Proofs about Bootloader, for every set of images, every region size and *)
(* every limit of start attempts: types, what an acknowledgement and a     *)
(* result promise, how often an image is tried, and what may be started    *)
(* with nobody on the line.                                                *)
(***************************************************************************)
EXTENDS Bootloader, TLAPS

\* Chunks are written in order, none beyond the size announced.
TransferInv ==
  /\ pc \in {"active", "programming"} =>
       /\ ota.size \in 1..AppPages
       /\ ota.seq <= ota.size
       /\ Len(acked) = ota.seq
       /\ \A p \in 0..ota.seq - 1 : region[p] = acked[p + 1]
  /\ pc = "programming" =>
       /\ ota.seq \in PageNo
       /\ ota.seq < ota.size
       /\ ota.chunk \in Image

\* The record of a finished update, with the image it describes in place.
Recorded ==
  /\ cfg # NoConfig
  /\ cfg.mode = "APP" /\ cfg.status = "OK"
  /\ cfg.crc \in Image /\ cfg.size = Size[cfg.crc] /\ Holds(cfg.crc)

\* From the commit on, until another update begins, the record stays.
DurableInv ==
  /\ pc = "committed" => Recorded
  /\ told = "ok" =>
       pc \notin {"active", "programming", "error"} /\ Recorded

\* Where the boot has been counted and the application not yet started.
BeforeJump == {"window", "window2", "active", "programming", "error",
               "committed", "halt", "maint"}

\* Starts never run ahead of the attempts counted, and a start that is still
\* to come from this boot has been counted already.
TrialInv ==
  /\ runs <= attempts
  /\ pc \in BeforeJump => Saturating(runs) <= attempts
  /\ pc = "committed" => runs = 0
  /\ pc \in BeforeJump \ {"committed"} /\ status = "NORMAL" /\ cfg # NoConfig =>
       cfg.confirmed \/ attempts <= BootAttemptLimit
  /\ TrialIsBounded

\* While the first window is open the decision is still about this record.
DecisionInv ==
  pc = "window" =>
    /\ status = "NORMAL" => cfg = NoConfig \/ AppImageCrcOk
    /\ status = "OTA_PENDING" => cfg # NoConfig /\ cfg.mode = "OTA"

IInv == TypeOK /\ TransferInv /\ DurableInv /\ TrialInv /\ DecisionInv

-----------------------------------------------------------------------------
(* Types.                                                                  *)

LEMMA SaturatingType ==
  ASSUME BootAssumption, NEW n \in 0..AttemptCap
  PROVE  Saturating(n) \in 0..AttemptCap
  BY DEF BootAssumption, Saturating

\* The transitions of the configuration produce configurations.
LEMMA TransitionTypes ==
  ASSUME BootAssumption, NEW c \in ConfigType
  PROVE  /\ \A n \in 0..AppPages + 1 : RequestUpdate(c, n) \in ConfigType
         /\ \A i \in Image : MarkValid(c, i) \in ConfigType
         /\ MarkFailed(c) \in ConfigType
         /\ ConfirmBoot(c) \in ConfigType
<1>1. \A i \in Image : Size[i] \in 0..AppPages + 1
  BY DEF BootAssumption
<1>2. c.confirmed \in BOOLEAN
  BY Zenon DEF ConfigType
<1>3. \A n \in 0..AppPages + 1 : RequestUpdate(c, n) \in ConfigType
  BY Zenon DEF RequestUpdate, ConfigType
<1>4. \A i \in Image : MarkValid(c, i) \in ConfigType
  BY <1>1, Zenon DEF MarkValid, ConfigType
<1>5. MarkFailed(c) \in ConfigType
  BY Zenon DEF MarkFailed, ConfigType
<1>6. ConfirmBoot(c) \in ConfigType
  BY Zenon DEF ConfirmBoot, ConfigType
<1> QED BY <1>3, <1>4, <1>5, <1>6

\* Whatever the code does to the stored record, it remains a configuration.
LEMMA WriteTypes ==
  ASSUME BootAssumption, cfg \in ConfigType \cup {NoConfig},
         \/ Written(MarkFailed(cfg)) \/ NotWritten \/ UNCHANGED cfg
         \/ Written(ConfirmBoot(cfg))
         \/ \E i \in Image : Written(MarkValid(cfg, i))
         \/ \E n \in 0..AppPages + 1 : Written(RequestUpdate(cfg, n))
  PROVE  cfg' \in ConfigType \cup {NoConfig}
<1>1. CASE cfg' = cfg
  BY <1>1, Zenon
<1>2. CASE cfg # NoConfig /\ cfg' # cfg
  <2>1. cfg \in ConfigType
    BY <1>2, Zenon
  <2>2. \/ cfg' = MarkFailed(cfg) \/ cfg' = ConfirmBoot(cfg)
        \/ \E i \in Image : cfg' = MarkValid(cfg, i)
        \/ \E n \in 0..AppPages + 1 : cfg' = RequestUpdate(cfg, n)
    BY <1>2, Zenon DEF Written, NotWritten
  <2>3. cfg' \in ConfigType
    BY <2>1, <2>2, TransitionTypes, Zenon
  <2> QED BY <2>3, Zenon
<1> QED BY <1>1, <1>2, Zenon DEF Written, NotWritten

\* The first boot.
LEMMA InitTypes ==
  ASSUME BootAssumption, Init
  PROVE  TypeOK
<1>1. PICK i \in Image, legacy \in BOOLEAN, ok \in BOOLEAN :
        /\ region = [p \in PageNo |-> IF p < Size[i] THEN i ELSE Blank]
        /\ cfg \in {NoConfig,
                    [mode |-> "APP", size |-> IF legacy THEN 0 ELSE Size[i],
                     crc |-> IF legacy THEN Blank ELSE i, status |-> "NONE",
                     confirmed |-> ok]}
  BY Zenon DEF Init
<1>2. Size[i] \in 1..AppPages /\ AppPages \in Nat
  BY DEF BootAssumption
<1>3. region \in [PageNo -> Image \cup {Blank, Torn}]
  BY <1>1
<1>4. (IF legacy THEN 0 ELSE Size[i]) \in 0..AppPages + 1
  BY <1>2
<1>5. (IF legacy THEN Blank ELSE i) \in Image \cup {Blank}
  OBVIOUS
<1>6. cfg \in ConfigType \cup {NoConfig}
  <2> DEFINE s == IF legacy THEN 0 ELSE Size[i]
             c == IF legacy THEN Blank ELSE i
  <2> HIDE DEF s, c
  <2>1. [mode |-> "APP", size |-> s, crc |-> c, status |-> "NONE",
         confirmed |-> ok] \in ConfigType
    <3>1. s \in 0..AppPages + 1 /\ c \in Image \cup {Blank}
      BY <1>4, <1>5 DEF s, c
    <3> QED BY <3>1, Zenon DEF ConfigType
  <2>2. cfg \in {NoConfig, [mode |-> "APP", size |-> s, crc |-> c,
                           status |-> "NONE", confirmed |-> ok]}
    BY <1>1, Zenon DEF s, c
  <2> QED BY <2>1, <2>2, Zenon
<1>7. 0 \in 0..AttemptCap /\ 0 \in 0..AppPages
  BY <1>2 DEF BootAssumption
<1> QED BY <1>3, <1>6, <1>7 DEF Init, TypeOK, NoOta

\* Every step keeps the types; that the page count stays in range takes the
\* order of the chunks as well.
LEMMA NextTypes ==
  ASSUME BootAssumption, TypeOK, TransferInv, [Next]_vars
  PROVE  TypeOK'
<1> USE DEF TypeOK
<1>1. /\ Saturating(runs) \in 0..AttemptCap
      /\ Saturating(attempts) \in 0..AttemptCap
      /\ 0 \in 0..AttemptCap
  BY SaturatingType DEF BootAssumption
<1>2. NoOta \in [image : Image \cup {Blank}, size : 0..AppPages,
                 seq : 0..AppPages, chunk : Image \cup {Blank}] /\ <<>> \in Seq(Image)
  BY DEF NoOta, BootAssumption
<1>3. \/ Written(MarkFailed(cfg)) \/ NotWritten \/ UNCHANGED cfg
      \/ Written(ConfirmBoot(cfg))
      \/ \E i \in Image : Written(MarkValid(cfg, i))
      \/ \E n \in 0..AppPages + 1 : Written(RequestUpdate(cfg, n))
      => cfg' \in ConfigType \cup {NoConfig}
  BY WriteTypes
<1>4. \A p \in PageNo : p \in 0..AppPages
  BY DEF PageNo, BootAssumption
<1>5. RegionAfterCut \subseteq [PageNo -> Image \cup {Blank, Torn}]
  BY DEF RegionAfterCut
<1>6. CASE BootDecision
  BY <1>1, <1>6 DEF BootDecision, Decision
<1>7. CASE WindowCloses
  BY <1>1, <1>2, <1>7 DEF WindowCloses, JumpToApp, Stay
<1>8. CASE WindowPolled
  BY <1>8 DEF WindowPolled, Stay
<1>9. CASE FallThrough
  BY <1>1, <1>2, <1>9 DEF FallThrough, JumpToApp, Stay
<1>10. ASSUME NEW i \in Image \cup {Blank}, NEW n \in 1..AppPages,
              ProcessOtaBegin(i, n)
       PROVE  TypeOK'
  BY <1>2, <1>10 DEF ProcessOtaBegin, BootAssumption
<1>11. CASE MaintenanceReset
  BY <1>2, <1>11 DEF MaintenanceReset, Restart
<1>12. ASSUME NEW s \in 0..AppPages, NEW i \in Image, EraseChunkPage(s, i)
       PROVE  TypeOK'
  BY <1>12 DEF EraseChunkPage
<1>13. ASSUME NEW s \in 0..AppPages, EraseChunkPageFails(s) PROVE TypeOK'
  BY <1>13 DEF EraseChunkPageFails
<1>14. CASE ProgramChunk
  <2>1. ota.seq + 1 \in 0..AppPages /\ ota.chunk \in Image
    BY <1>14 DEF ProgramChunk, TransferInv, PageNo, BootAssumption
  <2>2. ota' \in [image : Image \cup {Blank}, size : 0..AppPages,
                  seq : 0..AppPages, chunk : Image \cup {Blank}]
    BY <2>1, <1>14 DEF ProgramChunk
  <2>3. region' \in [PageNo -> Image \cup {Blank, Torn}]
    BY <2>1, <1>14 DEF ProgramChunk
  <2>4. acked' \in Seq(Image)
    BY <2>1, <1>14 DEF ProgramChunk
  <2> QED BY <2>2, <2>3, <2>4, <1>14 DEF ProgramChunk
<1>15. CASE ProgramChunkFails
  BY <1>15 DEF ProgramChunkFails
<1>16. CASE OtaEndShort
  BY <1>16 DEF OtaEndShort
<1>17. CASE OtaEndCorrupt
  BY <1>3, <1>17 DEF OtaEndCorrupt
<1>18. CASE OtaEndCommits
  <2>1. ota.image \in Image
    BY <1>18 DEF OtaEndCommits, Complete
  <2> QED BY <1>1, <1>3, <1>18, <2>1 DEF OtaEndCommits
<1>19. CASE OtaEndUnrecorded
  BY <1>3, <1>19 DEF OtaEndUnrecorded
<1>20. CASE SendResultAndJump
  BY <1>1, <1>2, <1>20 DEF SendResultAndJump, JumpToApp
<1>21. CASE OtaAborted
  BY <1>2, <1>3, <1>21 DEF OtaAborted, Restart
<1>22. CASE WatchdogReset
  BY <1>2, <1>22 DEF WatchdogReset, Restart
<1>23. CASE AppDies
  BY <1>2, <1>23 DEF AppDies, Restart
<1>24. CASE ConfirmClearsAttempts
  BY <1>1, <1>24 DEF ConfirmClearsAttempts
<1>25. CASE ConfirmWrites
  BY <1>3, <1>25 DEF ConfirmWrites
<1>26. ASSUME NEW n \in 0..AppPages + 1, AppRequestsUpdate(n) PROVE TypeOK'
  BY <1>2, <1>3, <1>26 DEF AppRequestsUpdate, Restart
<1>27. CASE Reset
  BY <1>2, <1>5, <1>27 DEF Reset, Restart
<1>28. CASE PowerLoss
  BY <1>1, <1>2, <1>5, <1>28 DEF PowerLoss, Restart
<1>29. CASE UNCHANGED vars
  BY <1>29 DEF vars
<1> QED
  BY <1>6, <1>7, <1>8, <1>9, <1>10, <1>11, <1>12, <1>13, <1>14, <1>15, <1>16,
     <1>17, <1>18, <1>19, <1>20, <1>21, <1>22, <1>23, <1>24, <1>25, <1>26,
     <1>27, <1>28, <1>29
  DEF Next, HostStep, DeviceStep, SecondWindowCloses, OtaBeginRefused, AfterError

-----------------------------------------------------------------------------
(* The transfer.                                                           *)

\* Chunks stay in order, and those acknowledged stay in flash.
LEMMA NextTransfer ==
  ASSUME BootAssumption, TypeOK, TransferInv, [Next]_vars
  PROVE  TransferInv'
<1>1. ASSUME pc' \notin {"active", "programming"} PROVE TransferInv'
  BY <1>1 DEF TransferInv
<1>2. ASSUME NEW i \in Image \cup {Blank}, NEW n \in 1..AppPages,
             ProcessOtaBegin(i, n)
      PROVE  TransferInv'
  BY <1>2 DEF ProcessOtaBegin, TransferInv, BootAssumption
<1>3. ASSUME NEW s \in 0..AppPages, NEW i \in Image, EraseChunkPage(s, i)
      PROVE  TransferInv'
  <2>1. /\ ota.size \in 1..AppPages /\ ota.seq = s /\ Len(acked) = s
        /\ ota'.size = ota.size /\ ota'.seq = ota.seq /\ ota'.chunk = i
        /\ acked' = acked /\ pc' = "programming"
    BY <1>3 DEF EraseChunkPage, ChunkAccepted, TransferInv, TypeOK
  <2>2. s < ota.size /\ s \in PageNo
    <3>1. s + 1 <= ota.size
      BY <1>3, <2>1 DEF EraseChunkPage, ChunkAccepted, BootAssumption
    <3> QED BY <2>1, <3>1 DEF PageNo, BootAssumption
  <2>3. \A p \in 0..s - 1 : region'[p] = region[p]
    <3>1. region' = [region EXCEPT ![s] = Blank]
      BY <1>3 DEF EraseChunkPage
    <3>2. \A p \in 0..s - 1 : p \in PageNo /\ p # s
      BY <2>2 DEF PageNo, BootAssumption
    <3> QED BY <3>1, <3>2 DEF TypeOK
  <2>4. \A p \in 0..s - 1 : region'[p] = acked'[p + 1]
    BY <1>3, <2>1, <2>3 DEF EraseChunkPage, TransferInv
  <2>5. s <= ota.size
    BY <2>1, <2>2 DEF BootAssumption
  <2> QED BY <2>1, <2>2, <2>4, <2>5 DEF TransferInv
<1>4. ASSUME NEW s \in 0..AppPages, EraseChunkPageFails(s)
      PROVE  TransferInv'
  <2>1. /\ ota.size \in 1..AppPages /\ ota.seq = s /\ ota' = ota
        /\ acked' = acked /\ pc = "active" /\ pc' = "active"
    BY <1>4 DEF EraseChunkPageFails, ChunkAccepted, TransferInv
  <2>2. s < AppPages
    <3>1. s + 1 <= ota.size
      BY <1>4, <2>1 DEF EraseChunkPageFails, ChunkAccepted, BootAssumption
    <3> QED BY <2>1, <3>1 DEF BootAssumption
  <2>3. \A p \in 0..s - 1 : region'[p] = region[p]
    <3>1. region' = [region EXCEPT ![s] = Blank]
      BY <1>4 DEF EraseChunkPageFails
    <3>2. \A p \in 0..s - 1 : p \in PageNo /\ p # s
      BY <2>2 DEF PageNo, BootAssumption
    <3> QED BY <3>1, <3>2 DEF TypeOK
  <2> QED BY <2>1, <2>3 DEF TransferInv
<1>5. CASE ProgramChunk
  <2>1. /\ ota.seq \in PageNo /\ ota.chunk \in Image
        /\ ota.seq < ota.size /\ Len(acked) = ota.seq
        /\ ota.size \in 1..AppPages
    BY <1>5 DEF ProgramChunk, TransferInv, BootAssumption
  <2>2. /\ ota'.size = ota.size /\ ota'.seq = ota.seq + 1
        /\ acked' = Append(acked, ota.chunk) /\ pc' = "active"
        /\ region' = [region EXCEPT ![ota.seq] = ota.chunk]
    BY <1>5 DEF ProgramChunk, TypeOK
  <2>3. Len(acked') = ota'.seq /\ ota'.seq <= ota'.size
    BY <2>1, <2>2 DEF TypeOK, PageNo, BootAssumption
  <2>4. ASSUME NEW p \in 0..ota'.seq - 1 PROVE region'[p] = acked'[p + 1]
    <3>1. p \in PageNo /\ p \in 0..ota.seq
      BY <2>1, <2>2, <2>4 DEF PageNo, BootAssumption
    <3>2. CASE p = ota.seq
      BY <2>1, <2>2, <3>1, <3>2 DEF TypeOK
    <3>3. CASE p # ota.seq
      <4>1. p \in 0..ota.seq - 1 /\ p + 1 \in 1..Len(acked)
        BY <2>1, <3>1, <3>3 DEF PageNo, BootAssumption
      <4>2. region[p] = acked[p + 1]
        BY <1>5, <4>1 DEF ProgramChunk, TransferInv
      <4>3. acked'[p + 1] = acked[p + 1]
        BY <2>1, <2>2, <4>1 DEF TypeOK
      <4> QED BY <2>2, <3>1, <3>3, <4>2, <4>3 DEF TypeOK
    <3> QED BY <3>2, <3>3
  <2> QED BY <2>1, <2>2, <2>3, <2>4 DEF TransferInv
<1>6. CASE ProgramChunkFails
  <2>1. /\ ota.seq \in PageNo /\ ota'.size = ota.size /\ ota'.seq = ota.seq
        /\ acked' = acked /\ pc = "programming" /\ pc' = "active"
    BY <1>6 DEF ProgramChunkFails, TransferInv, TypeOK
  <2>2. \A p \in 0..ota.seq - 1 : region'[p] = region[p]
    <3>1. region' = region \/ region' = [region EXCEPT ![ota.seq] = Torn]
      BY <1>6 DEF ProgramChunkFails
    <3>2. \A p \in 0..ota.seq - 1 : p \in PageNo /\ p # ota.seq
      BY <2>1 DEF PageNo, BootAssumption
    <3> QED BY <3>1, <3>2 DEF TypeOK
  <2> QED BY <2>1, <2>2 DEF TransferInv
<1>7. CASE UNCHANGED vars
  BY <1>7 DEF vars, TransferInv, PageNo
<1>8. CASE BootDecision \/ WindowCloses \/ WindowPolled \/ SecondWindowCloses
           \/ OtaBeginRefused \/ MaintenanceReset \/ OtaEndShort \/ AfterError
  BY <1>1, <1>8
  DEF BootDecision, WindowCloses, WindowPolled, SecondWindowCloses,
      OtaBeginRefused, MaintenanceReset, OtaEndShort, AfterError, FallThrough,
      JumpToApp, Stay, Restart
<1>9. CASE OtaEndCorrupt \/ OtaEndCommits \/ OtaEndUnrecorded \/ OtaAborted
           \/ SendResultAndJump \/ WatchdogReset \/ AppDies
           \/ ConfirmClearsAttempts \/ ConfirmWrites \/ Reset \/ PowerLoss
           \/ \E n \in 0..AppPages + 1 : AppRequestsUpdate(n)
  BY <1>1, <1>9
  DEF OtaEndCorrupt, OtaEndCommits, OtaEndUnrecorded, OtaAborted,
      SendResultAndJump, WatchdogReset, AppDies, ConfirmClearsAttempts,
      ConfirmWrites, Reset, PowerLoss, AppRequestsUpdate, JumpToApp, Restart
<1> QED
  BY <1>2, <1>3, <1>4, <1>5, <1>6, <1>7, <1>8, <1>9
  DEF Next, HostStep, DeviceStep

\* An acknowledged chunk is in flash.
LEMMA TransferAcked ==
  ASSUME BootAssumption, TypeOK, TransferInv
  PROVE  AckedPagesHold
  BY DEF TypeOK, TransferInv, AckedPagesHold, BootAssumption

-----------------------------------------------------------------------------
(* The result.                                                             *)

\* A record of a finished update outlives every step that leaves the region
\* and all of the record but its confirmation alone.
LEMMA RecordedKept ==
  ASSUME BootAssumption, TypeOK, Recorded, region' = region,
         \/ cfg' = cfg
         \/ cfg' = ConfirmBoot(cfg)
  PROVE  Recorded'
<1>1. CASE cfg' = cfg
  BY <1>1 DEF Recorded, Holds
<1>2. CASE cfg' = ConfirmBoot(cfg)
  <2>1. cfg \in ConfigType
    BY Zenon DEF TypeOK, Recorded
  <2>2. cfg' \in ConfigType
    BY <1>2, <2>1, TransitionTypes, Zenon
  <2>3. cfg' # NoConfig
    BY <2>2, Zenon DEF BootAssumption
  <2>4. /\ cfg'.mode = cfg.mode /\ cfg'.status = cfg.status
        /\ cfg'.crc = cfg.crc /\ cfg'.size = cfg.size
    BY <1>2, <2>1, Zenon DEF ConfirmBoot, ConfigType
  <2> QED BY <2>3, <2>4 DEF Recorded, Holds
<1> QED BY <1>1, <1>2

\* What the commit writes describes the image in the region.
LEMMA CommitRecords ==
  ASSUME BootAssumption, TypeOK, TransferInv, OtaEndCommits
  PROVE  Recorded'
<1>1. /\ ota.image \in Image /\ Holds(ota.image) /\ region' = region
      /\ cfg \in ConfigType /\ cfg' = MarkValid(cfg, ota.image)
  BY Zenon DEF OtaEndCommits, Complete, Written, TypeOK
<1>2. cfg' \in ConfigType
  BY <1>1, TransitionTypes, Zenon
<1>3. cfg' # NoConfig
  BY <1>2, Zenon DEF BootAssumption
<1>4. /\ cfg'.mode = "APP" /\ cfg'.status = "OK"
      /\ cfg'.crc = ota.image /\ cfg'.size = Size[ota.image]
  BY <1>1, Zenon DEF MarkValid, ConfigType
<1> QED BY <1>1, <1>3, <1>4 DEF Recorded, Holds

\* From the commit to the next update nothing disturbs the record.
LEMMA NextDurable ==
  ASSUME BootAssumption, TypeOK, TransferInv, DurableInv, [Next]_vars
  PROVE  DurableInv'
<1>1. ASSUME region' = region, cfg' = cfg \/ cfg' = ConfirmBoot(cfg),
             told' = told,
             pc' \notin {"active", "programming", "error", "committed"}
      PROVE  DurableInv'
  BY <1>1, RecordedKept DEF DurableInv
<1>2. ASSUME told' # "ok", pc' # "committed" PROVE DurableInv'
  BY <1>2 DEF DurableInv
<1>3. CASE OtaEndCommits
  <2>1. pc = "active" /\ told' = told
    BY <1>3 DEF OtaEndCommits
  <2> QED BY <1>3, <2>1, CommitRecords DEF DurableInv
<1>4. CASE SendResultAndJump
  <2>1. Recorded /\ region' = region /\ cfg' = cfg /\ pc' = "app"
    BY <1>4 DEF SendResultAndJump, JumpToApp, DurableInv
  <2> QED BY <2>1, RecordedKept DEF DurableInv
<1>5. CASE UNCHANGED vars
  <2>1. Recorded => Recorded'
    BY <1>5, RecordedKept DEF vars
  <2> QED BY <1>5, <2>1 DEF vars, DurableInv
<1>6. CASE BootDecision \/ WindowCloses \/ WindowPolled \/ SecondWindowCloses
           \/ OtaBeginRefused \/ MaintenanceReset \/ AfterError
           \/ WatchdogReset \/ AppDies \/ ConfirmClearsAttempts
  BY <1>1, <1>6
  DEF BootDecision, WindowCloses, WindowPolled, SecondWindowCloses,
      OtaBeginRefused, MaintenanceReset, AfterError, WatchdogReset, AppDies,
      ConfirmClearsAttempts, FallThrough, JumpToApp, Stay, Restart
<1>7. CASE ConfirmWrites
  BY <1>1, <1>7 DEF ConfirmWrites, Written, NotWritten
<1>8. CASE \/ \E i \in Image \cup {Blank}, n \in 1..AppPages : ProcessOtaBegin(i, n)
           \/ OtaEndShort \/ OtaEndCorrupt \/ OtaEndUnrecorded
           \/ \E n \in 0..AppPages + 1 : AppRequestsUpdate(n)
  BY <1>2, <1>8
  DEF ProcessOtaBegin, OtaEndShort, OtaEndCorrupt, OtaEndUnrecorded,
      AppRequestsUpdate, Restart
<1>9. CASE \/ \E s \in 0..AppPages, i \in Image : EraseChunkPage(s, i)
           \/ \E s \in 0..AppPages : EraseChunkPageFails(s)
           \/ ProgramChunk \/ ProgramChunkFails \/ OtaAborted
  BY <1>2, <1>9
  DEF EraseChunkPage, EraseChunkPageFails, ProgramChunk, ProgramChunkFails,
      OtaAborted, Restart, DurableInv
<1>10. CASE Reset \/ PowerLoss
  <2>1. told' = told /\ pc' = "boot" /\ cfg' = cfg
    BY <1>10 DEF Reset, PowerLoss, Restart
  <2>2. CASE pc = "programming"
    BY <1>2, <2>1, <2>2 DEF DurableInv
  <2>3. CASE pc # "programming"
    <3>1. region' = region
      BY <1>10, <2>3 DEF Reset, PowerLoss, RegionAfterCut
    <3> QED BY <1>1, <2>1, <3>1
  <2> QED BY <2>2, <2>3
<1> QED
  BY <1>3, <1>4, <1>5, <1>6, <1>7, <1>8, <1>9, <1>10
  DEF Next, HostStep, DeviceStep

LEMMA DurableOk ==
  ASSUME DurableInv
  PROVE  OkIsDurable
  BY DEF DurableInv, Recorded, OkIsDurable

-----------------------------------------------------------------------------
(* The trial of an image.                                                  *)

\* Counting keeps the order, and no count is ahead of the counter's limit.
LEMMA SaturatingOrder ==
  ASSUME BootAssumption, NEW m \in 0..AttemptCap, NEW n \in 0..AttemptCap,
         m <= n
  PROVE  /\ Saturating(m) <= Saturating(n)
         /\ m <= Saturating(m) /\ 1 <= Saturating(m)
         /\ Saturating(0) = 1
  BY DEF BootAssumption, Saturating

\* Giving an update up does not touch the confirmation.
LEMMA FailedKeepsConfirmed ==
  ASSUME TypeOK, cfg # NoConfig, cfg' = MarkFailed(cfg)
  PROVE  cfg'.confirmed = cfg.confirmed
<1>1. cfg \in ConfigType
  BY Zenon DEF TypeOK
<1> QED BY <1>1, Zenon DEF MarkFailed, ConfigType

\* Each start uses up an attempt that was counted before it; only power loss
\* and a confirmation clear both counts, and a commit clears the starts.
LEMMA NextTrial ==
  ASSUME BootAssumption, TypeOK, TrialInv, [Next]_vars
  PROVE  TrialInv'
<1> DEFINE Tried == status = "NORMAL" /\ cfg # NoConfig =>
                      cfg.confirmed \/ attempts <= BootAttemptLimit
<1>1. /\ runs \in 0..AttemptCap /\ attempts \in 0..AttemptCap
      /\ runs <= attempts /\ 0 \in 0..AttemptCap
      /\ AttemptCap \in Nat /\ BootAttemptLimit \in Nat \ {0}
      /\ BootAttemptLimit < AttemptCap
  BY DEF TypeOK, TrialInv, BootAssumption
<1>2. /\ Saturating(runs) \in 0..AttemptCap /\ 1 <= Saturating(runs)
      /\ Saturating(runs) <= Saturating(attempts)
      /\ Saturating(attempts) \in 0..AttemptCap
      /\ attempts <= Saturating(attempts) /\ Saturating(0) = 1
  BY <1>1, SaturatingOrder, SaturatingType
<1>3. ASSUME UNCHANGED <<attempts, runs>>,
             pc' \notin BeforeJump, pc' # "app"
      PROVE  TrialInv'
  BY <1>1, <1>3 DEF TrialInv, TrialIsBounded, BeforeJump
<1>4. ASSUME UNCHANGED <<attempts, runs, status>>, cfg' = cfg,
             pc \in BeforeJump \ {"committed"},
             pc' \in BeforeJump \ {"committed"}
      PROVE  TrialInv'
  BY <1>1, <1>4 DEF TrialInv, TrialIsBounded, BeforeJump, Saturating
<1>5. ASSUME attempts' = 0, runs' = 0, pc' \notin BeforeJump, pc' # "app"
      PROVE  TrialInv'
  BY <1>5 DEF TrialInv, TrialIsBounded, BeforeJump
<1>6. ASSUME pc \in BeforeJump, JumpToApp, UNCHANGED <<cfg, attempts, status>>
      PROVE  TrialInv'
  <2>1. /\ Saturating(runs) <= attempts /\ runs' = Saturating(runs)
        /\ attempts' = attempts /\ pc' = "app"
    BY <1>6 DEF TrialInv, JumpToApp
  <2>2. TrialIsBounded'
    <3>1. CASE pc = "committed"
      <4>1. runs' = 1
        BY <1>2, <1>6, <2>1, <3>1 DEF TrialInv
      <4> QED BY <4>1, <1>1, <1>6 DEF TrialIsBounded
    <3>2. CASE pc # "committed"
      <4>1. Tried
        BY <1>6, <3>2 DEF TrialInv
      <4>2. attempts <= BootAttemptLimit => runs' <= BootAttemptLimit
        BY <1>1, <1>2, <2>1
      <4> QED BY <4>1, <4>2, <1>6, Zenon DEF TrialIsBounded
    <3> QED BY <3>1, <3>2
  <2> QED BY <2>1, <2>2, <1>1 DEF TrialInv, BeforeJump
<1>7. CASE BootDecision
  <2>1. /\ attempts' = Saturating(attempts) /\ runs' = runs /\ cfg' = cfg
        /\ pc' = "window" /\ status' = Decision(attempts')
    BY <1>7 DEF BootDecision
  <2>2. Saturating(runs) <= attempts' /\ runs' <= attempts'
    BY <1>1, <1>2, <2>1
  <2>3. Tried'
    BY <2>1, <1>2, <1>1 DEF Decision
  <2> QED BY <2>1, <2>2, <2>3 DEF TrialInv, TrialIsBounded, BeforeJump, Saturating
<1>8. ASSUME FallThrough, pc \in BeforeJump \ {"committed"} PROVE TrialInv'
  BY <1>8, <1>4, <1>6 DEF FallThrough, Stay, BeforeJump
<1>9. CASE WindowCloses \/ WindowPolled
  <2>1. pc \in BeforeJump \ {"committed"}
    BY <1>9 DEF WindowCloses, WindowPolled, BeforeJump
  <2> QED BY <1>9, <2>1, <1>4, <1>6 DEF WindowCloses, WindowPolled, Stay, BeforeJump
<1>10. CASE SecondWindowCloses \/ OtaBeginRefused \/ AfterError
  BY <1>10, <1>8
  DEF SecondWindowCloses, OtaBeginRefused, AfterError, BeforeJump
<1>11. CASE \/ \E i \in Image \cup {Blank}, n \in 1..AppPages : ProcessOtaBegin(i, n)
            \/ \E s \in 0..AppPages, i \in Image : EraseChunkPage(s, i)
            \/ \E s \in 0..AppPages : EraseChunkPageFails(s)
            \/ ProgramChunk \/ ProgramChunkFails \/ OtaEndShort
  BY <1>11, <1>4
  DEF ProcessOtaBegin, EraseChunkPage, EraseChunkPageFails, ProgramChunk,
      ProgramChunkFails, OtaEndShort, BeforeJump
<1>12. CASE OtaEndCorrupt \/ OtaEndUnrecorded
  <2>1. /\ pc = "active" /\ pc' = "halt" /\ UNCHANGED <<attempts, runs, status>>
        /\ \/ cfg' = cfg
           \/ cfg # NoConfig /\ cfg' = MarkFailed(cfg)
    BY <1>12 DEF OtaEndCorrupt, OtaEndUnrecorded, Written, NotWritten
  <2>2. Tried
    BY <2>1 DEF TrialInv, BeforeJump
  <2>3. Tried'
    <3>1. CASE cfg' = cfg
      BY <2>1, <2>2, <3>1
    <3>2. CASE cfg # NoConfig /\ cfg' = MarkFailed(cfg)
      <4>1. cfg'.confirmed = cfg.confirmed
        BY <3>2, FailedKeepsConfirmed
      <4> QED BY <2>1, <2>2, <3>2, <4>1, Zenon
    <3> QED BY <2>1, <3>1, <3>2
  <2> QED BY <2>1, <2>3, <1>1 DEF TrialInv, TrialIsBounded, BeforeJump, Saturating
<1>13. CASE OtaEndCommits
  <2>1. /\ pc = "active" /\ pc' = "committed" /\ runs' = 0
        /\ attempts' = attempts
    BY <1>13 DEF OtaEndCommits
  <2>2. 1 <= attempts
    BY <1>1, <1>2, <2>1 DEF TrialInv, BeforeJump
  <2>3. Saturating(runs)' <= attempts' /\ runs' <= attempts'
    BY <1>1, <2>1, <2>2 DEF Saturating
  <2> QED BY <2>1, <2>3 DEF TrialInv, TrialIsBounded
<1>14. CASE SendResultAndJump
  BY <1>14, <1>6 DEF SendResultAndJump, BeforeJump
<1>15. CASE MaintenanceReset \/ OtaAborted \/ WatchdogReset \/ AppDies \/ Reset
            \/ ConfirmWrites \/ \E n \in 0..AppPages + 1 : AppRequestsUpdate(n)
  BY <1>15, <1>3
  DEF MaintenanceReset, OtaAborted, WatchdogReset, AppDies, Reset,
      ConfirmWrites, AppRequestsUpdate, Restart, BeforeJump
<1>16. CASE ConfirmClearsAttempts
  BY <1>16, <1>3, <1>5 DEF ConfirmClearsAttempts, BeforeJump
<1>17. CASE PowerLoss
  BY <1>17, <1>5 DEF PowerLoss, Restart, BeforeJump
<1>18. CASE UNCHANGED vars
  BY <1>18 DEF vars, TrialInv, TrialIsBounded, Saturating
<1> QED
  BY <1>7, <1>9, <1>10, <1>11, <1>12, <1>13, <1>14, <1>15, <1>16, <1>17, <1>18
  DEF Next, HostStep, DeviceStep

-----------------------------------------------------------------------------
(* The decision.                                                           *)

\* A decision is fresh when the first window opens, and the window is left
\* by the first thing that happens in it.
LEMMA NextDecision ==
  ASSUME DecisionInv, [Next]_vars
  PROVE  DecisionInv'
<1>1. ASSUME pc' # "window" PROVE DecisionInv'
  BY <1>1 DEF DecisionInv
<1>2. CASE BootDecision
  <2>1. status' = Decision(attempts') /\ cfg' = cfg /\ region' = region
    BY <1>2 DEF BootDecision
  <2> QED BY <2>1 DEF Decision, DecisionInv, AppImageCrcOk, Holds
<1>3. CASE UNCHANGED vars
  BY <1>3 DEF vars, DecisionInv, AppImageCrcOk, Holds
<1>4. CASE HostStep
  BY <1>1, <1>4
  DEF HostStep, WindowPolled, ProcessOtaBegin, OtaBeginRefused,
      MaintenanceReset, EraseChunkPage, EraseChunkPageFails, OtaEndShort,
      OtaEndCorrupt, OtaEndCommits, OtaEndUnrecorded, AppRequestsUpdate,
      FallThrough, JumpToApp, Stay, Restart
<1>5. CASE DeviceStep /\ ~BootDecision
  BY <1>1, <1>5
  DEF DeviceStep, WindowCloses, SecondWindowCloses, ProgramChunk,
      ProgramChunkFails, AfterError, SendResultAndJump, OtaAborted,
      WatchdogReset, AppDies, ConfirmClearsAttempts, ConfirmWrites,
      FallThrough, JumpToApp, Stay, Restart
<1>6. CASE Reset \/ PowerLoss
  BY <1>1, <1>6 DEF Reset, PowerLoss, Restart
<1> QED BY <1>2, <1>3, <1>4, <1>5, <1>6 DEF Next

\* What the decision established still holds when the window passes.
LEMMA DecisionCovers ==
  ASSUME DecisionInv, WindowCloses, pc' = "app"
  PROVE  cfg = NoConfig \/ cfg.mode = "OTA" \/ AppImageCrcOk
<1>1. pc = "window" /\ Bootable
  BY DEF WindowCloses, Stay
<1> QED BY <1>1 DEF Bootable, DecisionInv

-----------------------------------------------------------------------------
(* The theorems.                                                           *)

\* The first boot satisfies all of it.
LEMMA InitIInv ==
  ASSUME BootAssumption, Init
  PROVE  IInv
<1>1. TypeOK
  BY InitTypes
<1>2. pc = "boot" /\ told = "none" /\ runs = 0 /\ attempts = 0
  BY DEF Init
<1> QED
  BY <1>1, <1>2
  DEF IInv, TransferInv, DurableInv, TrialInv, TrialIsBounded, BeforeJump,
      DecisionInv

LEMMA NextIInv ==
  ASSUME BootAssumption, IInv, [Next]_vars
  PROVE  IInv'
  BY NextTypes, NextTransfer, NextDurable, NextTrial, NextDecision DEF IInv

\* The inductive invariant, types included, holds in every reachable state,
\* under every sequence of frames, resets, power cuts and flash faults.
THEOREM BootInvariant == Spec => []IInv
<1>1. Init => IInv
  BY BootAssumption, InitIInv
<1>2. IInv /\ [Next]_vars => IInv'
  BY BootAssumption, NextIInv
<1> QED BY <1>1, <1>2, PTL DEF Spec

\* Every variable of the boot process keeps its type.
THEOREM BootTypes == Spec => []TypeOK
<1>1. IInv => TypeOK
  BY DEF IInv
<1> QED BY <1>1, BootInvariant, PTL

\* CMD_CHUNK_ACK is kept: a page acknowledged holds its chunk as long as the
\* transfer lasts, and every page written lies inside the region.
THEOREM AckedSafe == Spec => []AckedPagesHold
<1>1. IInv => AckedPagesHold
  BY BootAssumption, TransferAcked DEF IInv
<1> QED BY <1>1, BootInvariant, PTL

\* OTA_RESULT OK is durable: the image and its record stay until the next
\* update begins, whatever resets, power and the application do.
THEOREM OkDurable == Spec => []OkIsDurable
<1>1. IInv => OkIsDurable
  BY DurableOk DEF IInv
<1> QED BY <1>1, BootInvariant, PTL

\* An unconfirmed image is started at most BOOT_ATTEMPT_LIMIT times by boots
\* that found the device normal.
THEOREM TrialsBounded == Spec => []TrialIsBounded
<1>1. IInv => TrialIsBounded
  BY DEF IInv, TrialInv
<1> QED BY <1>1, BootInvariant, PTL

\* A bootloader nobody talks to starts only what its record vouches for, what
\* the application asked to replace, or what it has no record of.
THEOREM SilentJump == Spec => SilentJumpIsChecked
<1>1. IInv /\ [Next]_vars =>
        [WindowCloses /\ pc' = "app" =>
           cfg = NoConfig \/ cfg.mode = "OTA" \/ AppImageCrcOk]_vars
  BY DecisionCovers DEF IInv
<1> QED BY <1>1, BootInvariant, PTL DEF Spec, SilentJumpIsChecked

===============================================================================
