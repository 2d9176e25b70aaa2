---------------------------- MODULE OtaSystemProofs ----------------------------
(***************************************************************************)
(* Proofs about OtaSystem, for every set of images, every region size, any *)
(* number of retries, of faults and of writers of the staging: the device  *)
(* on the line is the one of Bootloader, what a success reported by the    *)
(* bridge means, when two images cannot be mixed, and that an undisturbed  *)
(* transfer succeeds.                                                      *)
(***************************************************************************)
EXTENDS OtaSystem, SequenceTheorems, TLAPS

\* The device with what is proved of it.
DevP == INSTANCE BootloaderProofs

AppPc == {"app", "confirming", "running"}
Transferring == {"active", "programming", "committed"}
Status == {"NORMAL", "OTA_PENDING", "IMAGE_INVALID", "BOOT_UNCONFIRMED", "NO_APP"}
Version == Image \cup {NoImage}

\* What the device sends.
UpFrame ==
  {<<"SNAPSHOT">>, <<"BEGIN_ACK">>, <<"NAK">>}
  \cup {<<"RECOVERY_RSP", s>> : s \in Status}
  \cup {<<"CHUNK_ACK", n>> : n \in 0..AppPages}
  \cup {<<"RESULT", r>> : r \in {"ok", "fail"}}
  \cup {<<"COMMITTED", i>> : i \in Image \cup {Blank}}
  \cup {<<"READY", v>> : v \in Version}

\* What the bridge sends, and where it is when it has sent it.
OnLine ==
  \/ down \in {<<>>, <<"POLL">>, <<"CHECK">>, <<"ABORT">>}
  \/ \E v \in Version, n \in 0..AppPages : down = <<"AVAILABLE", v, n>>
  \/ bpc \in {"begun", "read"} /\ \E n \in 0..AppPages : down = <<"BEGIN", sent, n>>
  \/ /\ bpc \in {"read", "chunk"}
     /\ \E n \in 0..AppPages, b \in Image : down = <<"CHUNK", n, b>> /\ (intact => b = sent)
  \/ bpc = "ended" /\ down = <<"END">>

\* The frames of an exchange are on the line only while the bridge waits for
\* their answer; the application's queue is empty outside the application.
FrameInv ==
  /\ up \in Seq(UpFrame) /\ retry \in Nat
  /\ OnLine
  /\ bpc \in {"open", "ready", "pause", "begun"} => seq = 0
  /\ bpc = "chunk" => seq < AppPages
  /\ pc \notin AppPc => req = <<>>
  /\ pc = "confirming" => cfg # NoConfig

\* The application has promised to reset for the announced image.
Promised == bpc = "ready" /\ \E f \in Range(up) : f[1] = "READY"

\* A push under way is one of an image, and short of it.
PushInv == load = <<"push">> => fw.crc \in Image /\ fw.size < Size[fw.crc]

\* While nobody writes the staging it holds what was announced, and the chunk
\* in hand is of that.
IntactInv ==
  intact =>
    /\ bpc \in {"ready", "pause"} => FileIs(fw.crc)
    /\ bpc \in {"begun", "read", "chunk"} => FileIs(sent)
    /\ bpc = "chunk" => buf = sent

\* A device that said READY is not in an older transfer, and from BEGIN on the
\* transfer it is in is this one.
TransferInv ==
  /\ bpc = "pause" \/ Promised => pc \notin Transferring
  /\ bpc \in {"begun", "read", "chunk", "ended"} /\ pc \in Transferring =>
       ota.image = sent
  /\ bpc \in {"begun", "read", "chunk"} => pc # "committed"
  /\ bpc = "ended" /\ pc = "committed" => cfg.crc = sent /\ down = <<>>
  /\ NeverMixed

\* The device has the image of this transfer on record, and nothing is under
\* way that could begin another update.
Done == told = "ok" /\ cfg.crc = sent /\ req = <<>>

\* A result in the driver is the answer to this transfer's END.
ResultInv ==
  /\ bpc \in {"begun", "read", "chunk", "ended"} =>
       \A f \in Range(up) : f[1] = "RESULT" =>
         bpc = "ended" /\ down = <<>> /\ (f[2] = "ok" => Done)
  /\ verdict = "ok" =>
       Done /\ bpc \notin Transfer /\ down \in {<<>>, <<"POLL">>, <<"CHECK">>}

SafetyInv == TypeOK /\ FrameInv /\ PushInv /\ IntactInv /\ TransferInv /\ ResultInv

-----------------------------------------------------------------------------
(* Frames.                                                                 *)

LEMMA Frames ==
  /\ <<"SNAPSHOT">> \in UpFrame /\ <<"BEGIN_ACK">> \in UpFrame /\ <<"NAK">> \in UpFrame
  /\ \A s \in Status : <<"RECOVERY_RSP", s>> \in UpFrame
  /\ \A n \in 0..AppPages : <<"CHUNK_ACK", n>> \in UpFrame
  /\ <<"RESULT", "ok">> \in UpFrame /\ <<"RESULT", "fail">> \in UpFrame
  /\ \A i \in Image \cup {Blank} : <<"COMMITTED", i>> \in UpFrame
  /\ \A v \in Version : <<"READY", v>> \in UpFrame
  BY DEF UpFrame

LEMMA RangeOf ==
  ASSUME NEW S, NEW s \in Seq(S)
  PROVE  \A f : f \in Range(s) <=> \E k \in 1..Len(s) : f = s[k]
  BY DEF Range

\* A frame more, a frame less, none left.
LEMMA Appended ==
  ASSUME NEW S, NEW s \in Seq(S), NEW f \in S
  PROVE  /\ Append(s, f) \in Seq(S)
         /\ Range(Append(s, f)) = Range(s) \cup {f}
         /\ s # <<>> => Head(Append(s, f)) = Head(s)
         /\ Append(s, f) # <<>>
         /\ s = <<>> => Append(s, f) = <<f>>
<1>1. /\ Append(s, f) \in Seq(S) /\ Len(Append(s, f)) = Len(s) + 1
      /\ Len(s) \in Nat
  OBVIOUS
<1>2. /\ \A k \in 1..Len(s) : Append(s, f)[k] = s[k]
      /\ Append(s, f)[Len(s) + 1] = f
  OBVIOUS
<1>3. ASSUME NEW g PROVE g \in Range(Append(s, f)) <=> g \in Range(s) \cup {f}
  <2>1. g \in Range(Append(s, f)) <=> \E k \in 1..Len(s) + 1 : g = Append(s, f)[k]
    BY <1>1, RangeOf
  <2>2. g \in Range(s) <=> \E k \in 1..Len(s) : g = s[k]
    BY RangeOf
  <2> QED BY <1>1, <1>2, <2>1, <2>2
<1>4. s # <<>> => Head(Append(s, f)) = Head(s)
  BY <1>1, <1>2
<1>5. Append(s, f) # <<>>
  BY <1>1
<1>6. s = <<>> => Append(s, f) = <<f>>
  OBVIOUS
<1> QED BY <1>1, <1>3, <1>4, <1>5, <1>6

LEMMA Taken ==
  ASSUME NEW S, NEW s \in Seq(S), s # <<>>
  PROVE  /\ Tail(s) \in Seq(S) /\ Range(Tail(s)) \subseteq Range(s)
         /\ Head(s) \in Range(s) /\ Head(s) \in S
<1>1. /\ Tail(s) \in Seq(S) /\ Len(Tail(s)) = Len(s) - 1 /\ Len(s) \in Nat \ {0}
      /\ Head(s) = s[1] /\ Head(s) \in S
      /\ \A k \in 1..Len(s) - 1 : Tail(s)[k] = s[k + 1]
  OBVIOUS
<1>2. Range(Tail(s)) \subseteq Range(s)
  <2> SUFFICES ASSUME NEW f \in Range(Tail(s)) PROVE f \in Range(s)
    OBVIOUS
  <2>0. Tail(s) \in Seq(S)
    BY <1>1
  <2>1. PICK k \in 1..Len(Tail(s)) : f = Tail(s)[k]
    BY <2>0, RangeOf
  <2>2. k + 1 \in 1..Len(s) /\ f = s[k + 1]
    BY <1>1, <2>1
  <2> QED BY <2>2, RangeOf
<1>3. Head(s) \in Range(s)
  BY <1>1, RangeOf
<1> QED BY <1>1, <1>2, <1>3

LEMMA Flushed == ASSUME NEW S PROVE <<>> \in Seq(S) /\ Range(<<>>) = {}
  BY DEF Range

LEMMA Lost ==
  ASSUME NEW S, NEW s \in Seq(S), NEW k \in 1..Len(s), NEW t,
         t = SubSeq(s, 1, k - 1) \o SubSeq(s, k + 1, Len(s))
  PROVE  t \in Seq(S) /\ Range(t) \subseteq Range(s)
<1> DEFINE a == SubSeq(s, 1, k - 1)
           b == SubSeq(s, k + 1, Len(s))
<1>1. /\ a \in Seq(S) /\ Len(a) = k - 1 /\ \A m \in 1..Len(a) : a[m] = s[m]
  OBVIOUS
<1>2. /\ b \in Seq(S) /\ Len(b) = Len(s) - k
      /\ \A m \in 1..Len(b) : b[m] = s[k + m]
  OBVIOUS
<1> HIDE DEF a, b
<1>3. t = a \o b
  BY DEF a, b
<1>4. t \in Seq(S) /\ Len(t) = Len(a) + Len(b)
  BY <1>1, <1>2, <1>3, ConcatProperties
<1>5. \A m \in 1..Len(a) + Len(b) :
        (a \o b)[m] = IF m <= Len(a) THEN a[m] ELSE b[m - Len(a)]
  <2>1. a \in Seq(S) /\ b \in Seq(S)
    BY <1>1, <1>2
  <2> QED BY ONLY <2>1, ConcatProperties, Zenon
<1>6. \A m \in 1..Len(t) : t[m] = IF m <= Len(a) THEN a[m] ELSE b[m - Len(a)]
  BY <1>3, <1>4, <1>5
<1>7. Len(s) \in Nat /\ k \in 1..Len(s) /\ Len(a) \in Nat /\ Len(b) \in Nat
  BY <1>1, <1>2
<1>8. ASSUME NEW f \in Range(t) PROVE f \in Range(s)
  <2>1. PICK m \in 1..Len(t) : f = t[m]
    BY <1>4, RangeOf
  <2>2. CASE m <= Len(a)
    <3>1. m \in 1..Len(s) /\ f = s[m]
      BY <1>1, <1>4, <1>6, <1>7, <2>1, <2>2
    <3> QED BY <3>1, RangeOf
  <2>3. CASE ~(m <= Len(a))
    <3>1. f = b[m - Len(a)]
      BY <1>6, <2>1, <2>3
    <3>2. m \in 1..Len(a) + Len(b)
      BY <1>4, <2>1
    <3>3. m - Len(a) \in 1..Len(b)
      BY <1>7, <2>3, <3>2
    <3>4. k + (m - Len(a)) \in 1..Len(s) /\ f = s[k + (m - Len(a))]
      BY <1>1, <1>2, <1>7, <3>1, <3>3
    <3> QED BY <3>4, RangeOf
  <2> QED BY <2>2, <2>3
<1> QED BY <1>4, <1>8

-----------------------------------------------------------------------------
(* The device.                                                             *)

\* What a frame to the device says of the bridge that sent it.
LEMMA DownKinds ==
  ASSUME OtaAssumption, TypeOK, FrameInv, down # <<>>
  PROVE  /\ down[1] = "AVAILABLE" => down[2] \in Version /\ down[3] \in 0..AppPages
         /\ down[1] = "BEGIN" =>
              bpc \in {"begun", "read"} /\ down[2] = sent /\ down[3] \in 0..AppPages
         /\ down[1] = "CHUNK" =>
              /\ bpc \in {"read", "chunk"} /\ down[2] \in 0..AppPages
              /\ down[3] \in Image /\ (intact => down[3] = sent)
         /\ down[1] = "END" => bpc = "ended"
<1>1. CASE down \in {<<"POLL">>, <<"CHECK">>, <<"ABORT">>, <<"END">>}
  BY <1>1 DEF FrameInv, OnLine
<1>2. CASE \E v \in Version, n \in 0..AppPages : down = <<"AVAILABLE", v, n>>
  BY <1>2
<1>3. CASE bpc \in {"begun", "read"} /\ \E n \in 0..AppPages : down = <<"BEGIN", sent, n>>
  BY <1>3
<1>4. CASE /\ bpc \in {"read", "chunk"}
           /\ \E n \in 0..AppPages, b \in Image :
                down = <<"CHUNK", n, b>> /\ (intact => b = sent)
  BY <1>4
<1> QED BY <1>1, <1>2, <1>3, <1>4 DEF FrameInv, OnLine

\* What the bridge does without the line or the device.
LEMMA UserChanges ==
  ASSUME UserStep
  PROVE  /\ UNCHANGED <<device, req, down, up, bpc, buf, golden, seq, retry, polling,
                        verdict, sent, faults>>
         /\ \/ intact' = FALSE /\ clean' = (clean /\ bpc \notin Transfer)
            \/ Verifies
<1>1. CASE Verifies
  BY <1>1 DEF Verifies, NoFault
<1>2. CASE \E i \in Image : PushBegins(i) \/ DownloadStarts(i)
  BY <1>2 DEF PushBegins, DownloadStarts, Meddles
<1>3. CASE \E i \in Image : DownloadWrites(i) \/ DownloadEnds(i) \/ DownloadFails(i)
  BY <1>3 DEF DownloadWrites, DownloadEnds, DownloadFails, Meddles
<1>4. CASE PushData \/ SppClosed
  BY <1>4 DEF PushData, SppClosed, Meddles
<1> QED BY <1>1, <1>2, <1>3, <1>4 DEF UserStep

-----------------------------------------------------------------------------
(* The device.                                                             *)

\* Every step of the device on the line is one of its own.
LEMMA DeviceSteps ==
  ASSUME OtaAssumption, TypeOK, FrameInv, Next
  PROVE  Dev!Next \/ UNCHANGED device
<1> USE DEF device, Dev!Next, Dev!HostStep, Dev!DeviceStep
<1>1. /\ \A n \in 0..AppPages : n \in 0..AppPages + 1 /\ (n > 0 => n \in 1..AppPages)
      /\ sent \in Image \cup {Blank}
      /\ req # <<>> => req[2] \in 0..AppPages
  BY DEF OtaAssumption, Dev!BootAssumption, TypeOK
<1>2. CASE DeviceReceives
  <2>1. CASE AppReceives \/ MaintReceives \/ RefusesChunk \/ ActiveReceivesOther
             \/ Unheard
    BY <2>1 DEF AppReceives, MaintReceives, RefusesChunk, ActiveReceivesOther, Unheard
  <2>2. CASE ReceivesBegin
    BY <1>1, <1>2, <2>2, DownKinds DEF DeviceReceives, ReceivesBegin
  <2>3. CASE WindowReceivesCheck \/ WindowReceivesOther
    BY <2>3 DEF WindowReceivesCheck, WindowReceivesOther
  <2>4. CASE ReceivesChunk \/ EraseFault
    BY <1>1, <1>2, <2>4, DownKinds
    DEF DeviceReceives, ReceivesChunk, EraseFault
  <2>5. CASE ReceivesEnd
    BY <2>5 DEF ReceivesEnd
  <2>6. CASE ReceivesAbort
    BY <2>6 DEF ReceivesAbort
  <2> QED BY <1>2, <2>1, <2>2, <2>3, <2>4, <2>5, <2>6 DEF DeviceReceives
<1>3. CASE DeviceStep
  <2>1. CASE RequestsUpdate
    BY <1>1, <2>1 DEF RequestsUpdate
  <2>2. CASE ~RequestsUpdate
    BY <1>3, <2>2
    DEF DeviceStep, WindowTimesOut, LongWaitTimesOut, Programs, Runs,
        SendsResult, Confirms
  <2> QED BY <2>1, <2>2
<1>4. CASE DeviceCut
  BY <1>4 DEF DeviceCut
<1>5. CASE UserSends \/ Restores
  BY <1>5 DEF UserSends, Restores, Begins
<1>6. CASE \/ TransferStep \/ Skips \/ PollBlocked \/ RecoverySkipped
           \/ LosesDown \/ LosesUp \/ BridgeCut \/ BridgeStarts
  BY <1>6
  DEF TransferStep, Skips, PollBlocked, RecoverySkipped, Rest, LosesDown, LosesUp,
      BridgeCut, BridgeStarts
<1>7. CASE Polls \/ PollAnswered \/ PollFails \/ SendsCheck \/ CheckReads
           \/ CheckEnds \/ Promotes
  BY <1>7
  DEF Polls, PollAnswered, PollFails, SendsCheck, CheckReads, CheckEnds, Promotes,
      Rest
<1>8. CASE UserStep
  BY <1>8, UserChanges
<1> QED
  BY <1>2, <1>3, <1>4, <1>5, <1>6, <1>7, <1>8 DEF Next, PollStep

\* The two instances say the same.
LEMMA SameInit ==
  ASSUME Dev!Init
  PROVE  DevP!Init
  BY DEF Dev!Init, DevP!Init, Dev!NoOta, DevP!NoOta, Dev!PageNo, DevP!PageNo

LEMMA SameNext ==
  ASSUME Dev!Next
  PROVE  DevP!Next
  BY
  DEF
    Dev!ConfigType, DevP!ConfigType, Dev!PageNo, DevP!PageNo, Dev!NoOta,
        DevP!NoOta, Dev!Holds, DevP!Holds, Dev!AppIsValid,
        DevP!AppIsValid, Dev!AppImageCrcOk, DevP!AppImageCrcOk,
        Dev!RequestUpdate, DevP!RequestUpdate, Dev!MarkValid,
        DevP!MarkValid, Dev!MarkFailed, DevP!MarkFailed, Dev!ConfirmBoot,
        DevP!ConfirmBoot, Dev!Written, DevP!Written, Dev!NotWritten,
        DevP!NotWritten, Dev!Saturating, DevP!Saturating, Dev!Decision,
        DevP!Decision, Dev!BootDecision, DevP!BootDecision, Dev!Bootable,
        DevP!Bootable, Dev!JumpToApp, DevP!JumpToApp, Dev!Stay,
        DevP!Stay, Dev!WindowCloses, DevP!WindowCloses, Dev!WindowPolled,
        DevP!WindowPolled, Dev!FallThrough, DevP!FallThrough,
        Dev!SecondWindowCloses, DevP!SecondWindowCloses,
        Dev!ProcessOtaBegin, DevP!ProcessOtaBegin, Dev!OtaBeginRefused,
        DevP!OtaBeginRefused, Dev!Restart, DevP!Restart,
        Dev!MaintenanceReset, DevP!MaintenanceReset, Dev!ChunkAccepted,
        DevP!ChunkAccepted, Dev!Complete, DevP!Complete, Dev!EraseChunkPage, DevP!EraseChunkPage,
        Dev!EraseChunkPageFails, DevP!EraseChunkPageFails,
        Dev!ProgramChunk, DevP!ProgramChunk, Dev!ProgramChunkFails,
        DevP!ProgramChunkFails, Dev!OtaEndShort, DevP!OtaEndShort,
        Dev!AfterError, DevP!AfterError, Dev!OtaEndCorrupt,
        DevP!OtaEndCorrupt, Dev!OtaEndCommits, DevP!OtaEndCommits,
        Dev!OtaEndUnrecorded, DevP!OtaEndUnrecorded,
        Dev!SendResultAndJump, DevP!SendResultAndJump, Dev!OtaAborted,
        DevP!OtaAborted, Dev!WatchdogReset, DevP!WatchdogReset,
        Dev!DiesEarly, DevP!DiesEarly, Dev!AppDies, DevP!AppDies,
        Dev!ConfirmClearsAttempts, DevP!ConfirmClearsAttempts,
        Dev!ConfirmWrites, DevP!ConfirmWrites, Dev!AppRequestsUpdate,
        DevP!AppRequestsUpdate, Dev!RegionAfterCut, DevP!RegionAfterCut,
        Dev!Reset, DevP!Reset, Dev!PowerLoss, DevP!PowerLoss,
        Dev!HostStep, DevP!HostStep, Dev!DeviceStep, DevP!DeviceStep,
        Dev!Next, DevP!Next

LEMMA SameAssumption ==
  ASSUME OtaAssumption
  PROVE  DevP!BootAssumption
  BY DEF OtaAssumption, Dev!BootAssumption, DevP!BootAssumption,
         Dev!ConfigType, DevP!ConfigType

\* What is proved of the device alone holds of it on the line.
LEMMA DeviceKeepsInv ==
  ASSUME OtaAssumption, TypeOK, FrameInv, DevP!IInv, [Next]_vars
  PROVE  DevP!IInv'
<1>1. Dev!Next \/ UNCHANGED device
  BY DeviceSteps DEF vars
<1>2. [DevP!Next]_DevP!vars
  BY <1>1, SameNext DEF device, DevP!vars
<1> QED BY <1>2, SameAssumption, DevP!NextIInv

\* A frame the device sends, and what it has done when it does.
Answer(f) ==
  /\ f \in UpFrame
  /\ f[1] = "READY" => pc = "running" /\ pc' = "boot"
  /\ f[1] = "RESULT" =>
       \/ /\ f[2] = "ok" /\ told' = "ok" /\ pc = "committed"
          /\ UNCHANGED <<cfg, req, down>>
       \/ /\ f[2] = "fail" /\ down # <<>> /\ down[1] = "END" /\ down' = <<>>

\* It sends one frame at most.
LEMMA DeviceAnswers ==
  ASSUME OtaAssumption, TypeOK, FrameInv, DevP!TypeOK,
         DeviceReceives \/ DeviceStep \/ DeviceCut
  PROVE  up' = up \/ \E f : Answer(f) /\ up' = Append(up, f)
<1> USE DEF Reply
<1>1. ASSUME NEW f \in UpFrame, f[1] # "READY", f[1] # "RESULT", up' = Append(up, f)
      PROVE  \E g : Answer(g) /\ up' = Append(up, g)
  BY <1>1 DEF Answer
<1>2. /\ status \in Status /\ ota.seq \in 0..AppPages
      /\ req # <<>> => req[1] \in Version
      /\ cfg = NoConfig \/ cfg.crc \in Image \cup {Blank}
  BY DEF TypeOK, DevP!TypeOK, DevP!ConfigType, Status, Version
<1>3. /\ up' = Append(up, <<"NAK">>) => \E g : Answer(g) /\ up' = Append(up, g)
      /\ up' = Append(up, <<"SNAPSHOT">>) => \E g : Answer(g) /\ up' = Append(up, g)
      /\ up' = Append(up, <<"BEGIN_ACK">>) => \E g : Answer(g) /\ up' = Append(up, g)
      /\ \A s \in Status : up' = Append(up, <<"RECOVERY_RSP", s>>) =>
           \E g : Answer(g) /\ up' = Append(up, g)
      /\ \A n \in 0..AppPages : up' = Append(up, <<"CHUNK_ACK", n>>) =>
           \E g : Answer(g) /\ up' = Append(up, g)
      /\ \A i \in Image \cup {Blank} : up' = Append(up, <<"COMMITTED", i>>) =>
           \E g : Answer(g) /\ up' = Append(up, g)
  BY <1>1, Frames
<1>4. "NORMAL" \in Status
  BY DEF Status
<1>5. CASE DeviceReceives
  <2>1. CASE AppReceives
    BY <1>3, <1>4, <2>1 DEF AppReceives
  <2>2. CASE ReceivesBegin \/ EraseFault \/ RefusesChunk \/ ReceivesAbort
             \/ ActiveReceivesOther
    BY <1>3, <2>2
    DEF ReceivesBegin, EraseFault, RefusesChunk, ReceivesAbort, ActiveReceivesOther
  <2>3. CASE WindowReceivesCheck \/ MaintReceives
    BY <1>2, <1>3, <2>3 DEF WindowReceivesCheck, MaintReceives
  <2>4. CASE WindowReceivesOther \/ ReceivesChunk \/ Unheard
    BY <2>4 DEF WindowReceivesOther, ReceivesChunk, Unheard
  <2>5. CASE ReceivesEnd
    <3>1. up' = Append(up, <<"RESULT", "fail">>) =>
            Answer(<<"RESULT", "fail">>)
      BY <1>5, <2>5, Frames DEF Answer, DeviceReceives, ReceivesEnd
    <3> QED BY <2>5, <3>1 DEF ReceivesEnd
  <2> QED BY <1>5, <2>1, <2>2, <2>3, <2>4, <2>5 DEF DeviceReceives
<1>6. CASE DeviceStep
  <2>1. CASE WindowTimesOut \/ LongWaitTimesOut \/ Runs
    BY <2>1 DEF WindowTimesOut, LongWaitTimesOut, Runs
  <2>2. CASE Programs
    BY <1>2, <1>3, <2>2 DEF Programs
  <2>3. CASE SendsResult
    <3>1. Answer(<<"RESULT", "ok">>)
      BY <1>6, <2>3, Frames
      DEF Answer, DeviceStep, SendsResult, Dev!SendResultAndJump
    <3> QED BY <2>3, <3>1 DEF SendsResult
  <2>4. CASE Confirms
    <3>1. Dev!ConfirmWrites => cfg.crc \in Image \cup {Blank}
      BY <1>2 DEF Dev!ConfirmWrites, FrameInv
    <3> QED BY <1>3, <2>4, <3>1 DEF Confirms
  <2>5. CASE RequestsUpdate
    <3>1. up' # up => Answer(<<"READY", req[1]>>)
      BY <1>2, <2>5, Frames
      DEF Answer, RequestsUpdate, Dev!AppRequestsUpdate, Dev!Restart
    <3> QED BY <2>5, <3>1 DEF RequestsUpdate
  <2> QED BY <1>6, <2>1, <2>2, <2>3, <2>4, <2>5 DEF DeviceStep
<1>7. CASE DeviceCut
  BY <1>7 DEF DeviceCut
<1> QED BY <1>5, <1>6, <1>7

\* The record's image changes with a commit only.
LEMMA RecordedImage ==
  ASSUME OtaAssumption, DevP!TypeOK
  PROVE  /\ cfg # NoConfig =>
              /\ Dev!MarkFailed(cfg).crc = cfg.crc
              /\ Dev!ConfirmBoot(cfg).crc = cfg.crc
              /\ \A n : Dev!RequestUpdate(cfg, n).crc = cfg.crc
              /\ \A i : Dev!MarkValid(cfg, i).crc = i
<1>1. SUFFICES ASSUME cfg \in DevP!ConfigType
               PROVE  /\ Dev!MarkFailed(cfg).crc = cfg.crc
                      /\ Dev!ConfirmBoot(cfg).crc = cfg.crc
                      /\ \A n : Dev!RequestUpdate(cfg, n).crc = cfg.crc
                      /\ \A i : Dev!MarkValid(cfg, i).crc = i
  BY DEF DevP!TypeOK
<1>2. Dev!MarkFailed(cfg).crc = cfg.crc /\ Dev!ConfirmBoot(cfg).crc = cfg.crc
  BY <1>1, Zenon DEF Dev!MarkFailed, Dev!ConfirmBoot, DevP!ConfigType
<1>3. \A n : Dev!RequestUpdate(cfg, n).crc = cfg.crc
  BY <1>1, Zenon DEF Dev!RequestUpdate, DevP!ConfigType
<1>4. \A i : Dev!MarkValid(cfg, i).crc = i
  BY <1>1, Zenon DEF Dev!MarkValid, DevP!ConfigType
<1> QED BY <1>2, <1>3, <1>4

\* So does the image in transfer, with BEGIN.
LEMMA OtaFields ==
  ASSUME DevP!TypeOK
  PROVE  /\ \A i : LET o == [ota EXCEPT !.chunk = i] IN
              o.image = ota.image /\ o.size = ota.size /\ o.seq = ota.seq /\ o.chunk = i
         /\ LET o == [ota EXCEPT !.seq = @ + 1, !.chunk = Blank] IN
              o.image = ota.image /\ o.size = ota.size /\ o.seq = ota.seq + 1 /\ o.chunk = Blank
<1>1. ota \in [image : Image \cup {Blank}, size : 0..AppPages, seq : 0..AppPages,
               chunk : Image \cup {Blank}]
  BY DEF DevP!TypeOK
<1> QED BY <1>1

\* A step of the device, as far as the transfer is concerned: it enters one
\* with BEGIN only, the record gets the transfer's image with END, and a chunk
\* is in hand when it was just sent.
Moves ==
  /\ UNCHANGED bridge /\ down' \in {down, <<>>}
  /\ pc' \in Transferring =>
       \/ pc \in Transferring /\ ota'.image = ota.image
       \/ pc' = "active" /\ down # <<>> /\ down[1] = "BEGIN" /\ ota'.image = down[2]
  /\ pc' = "committed" =>
       \/ pc = "committed" /\ cfg'.crc = cfg.crc
       \/ /\ pc = "active" /\ down # <<>> /\ down[1] = "END" /\ down' = <<>>
          /\ cfg'.crc = ota.image
  /\ pc' = "programming" =>
       \/ pc = "programming" /\ ota'.chunk = ota.chunk /\ ota'.image = ota.image
       \/ /\ pc = "active" /\ down # <<>> /\ down[1] = "CHUNK"
          /\ ota'.chunk = down[3] /\ ota'.image = ota.image
  /\ cfg'.crc # cfg.crc => pc = "active"
  /\ told' # told =>
       \/ pc \in {"active", "committed"} \/ req # <<>>
       \/ down # <<>> /\ down[1] = "BEGIN"
  /\ pc = "committed" => told' \in {told, "ok"}
  /\ pc' \notin AppPc => req' = <<>>
  /\ req' \in {req, <<>>} \/ (down # <<>> /\ down[1] = "AVAILABLE" /\ req' = <<down[2], down[3]>>)
  /\ pc' = "confirming" => cfg' # NoConfig

LEMMA DeviceMoves ==
  ASSUME OtaAssumption, TypeOK, FrameInv, DevP!TypeOK,
         DeviceReceives \/ DeviceStep \/ DeviceCut
  PROVE  Moves
<1> USE DEF Moves, Transferring, AppPc
<1>1. ASSUME UNCHANGED device, UNCHANGED bridge, UNCHANGED req, down' \in {down, <<>>}
      PROVE  Moves
  BY <1>1 DEF device, FrameInv, AppPc
<1>2. CASE DeviceReceives
  <2>1. CASE AppReceives
    BY <1>2, <2>1 DEF DeviceReceives, AppReceives, device, FrameInv
  <2>2. CASE MaintReceives \/ RefusesChunk \/ ActiveReceivesOther \/ Unheard
    BY <1>1, <1>2, <2>2
    DEF DeviceReceives, MaintReceives, RefusesChunk, ActiveReceivesOther, Unheard
  <2>3. CASE ReceivesBegin
    BY <1>2, <2>3
    DEF DeviceReceives, ReceivesBegin, Dev!ProcessOtaBegin, Dev!OtaBeginRefused,
        Dev!FallThrough, Dev!JumpToApp, Dev!Stay, FrameInv
  <2>4. CASE WindowReceivesCheck \/ WindowReceivesOther
    BY <1>2, <2>4
    DEF DeviceReceives, WindowReceivesCheck, WindowReceivesOther, FrameInv,
        Dev!WindowPolled, Dev!WindowCloses, Dev!SecondWindowCloses,
        Dev!FallThrough, Dev!JumpToApp, Dev!Stay
  <2>5. CASE ReceivesChunk
    BY <1>2, <2>5, OtaFields
    DEF DeviceReceives, ReceivesChunk, Dev!EraseChunkPage, FrameInv
  <2>6. CASE EraseFault
    BY <1>2, <2>6
    DEF DeviceReceives, EraseFault, Dev!EraseChunkPageFails, FrameInv
  <2>7. CASE ReceivesEnd
    BY <1>2, <2>7, RecordedImage
    DEF DeviceReceives, ReceivesEnd, FrameInv, Dev!OtaEndShort, Dev!OtaEndCorrupt,
        Dev!OtaEndCommits, Dev!OtaEndUnrecorded, Dev!Written, Dev!NotWritten
  <2>8. CASE ReceivesAbort
    BY <1>2, <2>8, RecordedImage
    DEF DeviceReceives, ReceivesAbort, QueueAfter, Dev!OtaAborted, Dev!Restart,
        Dev!Written, Dev!NotWritten
  <2> QED BY <1>2, <2>1, <2>2, <2>3, <2>4, <2>5, <2>6, <2>7, <2>8
      DEF DeviceReceives
<1>3. CASE DeviceStep
  <2>1. CASE WindowTimesOut \/ LongWaitTimesOut
    BY <1>3, <2>1, RecordedImage
    DEF DeviceStep, WindowTimesOut, LongWaitTimesOut, QueueAfter, FrameInv,
        Dev!WindowCloses, Dev!SecondWindowCloses, Dev!FallThrough,
        Dev!JumpToApp, Dev!Stay, Dev!OtaAborted, Dev!Restart, Dev!Written,
        Dev!NotWritten
  <2>2. CASE Programs
    BY <1>3, <2>2, OtaFields
    DEF DeviceStep, Programs, FrameInv, Dev!ProgramChunk, Dev!ProgramChunkFails
  <2>3. CASE Runs
    BY <1>3, <2>3
    DEF DeviceStep, Runs, QueueAfter, FrameInv, Dev!BootDecision, Dev!AfterError,
        Dev!WatchdogReset, Dev!AppDies, Dev!ConfirmClearsAttempts,
        Dev!FallThrough, Dev!JumpToApp, Dev!Stay, Dev!Restart
  <2>4. CASE SendsResult
    BY <1>3, <2>4
    DEF DeviceStep, SendsResult, Dev!SendResultAndJump, Dev!JumpToApp
  <2>5. CASE Confirms
    BY <1>3, <2>5, RecordedImage
    DEF DeviceStep, Confirms, FrameInv, Dev!ConfirmClearsAttempts, Dev!ConfirmWrites,
        Dev!Written, Dev!NotWritten
  <2>6. CASE RequestsUpdate
    BY <1>3, <2>6, RecordedImage
    DEF DeviceStep, RequestsUpdate, Dev!AppRequestsUpdate, Dev!Restart,
        Dev!Written, device
  <2> QED BY <1>3, <2>1, <2>2, <2>3, <2>4, <2>5, <2>6 DEF DeviceStep
<1>4. CASE DeviceCut
  BY <1>4
  DEF DeviceCut, Dev!Reset, Dev!PowerLoss, Dev!Restart
<1> QED BY <1>2, <1>3, <1>4

-----------------------------------------------------------------------------
(* Types, and the frames on the line.                                      *)

DeviceMove == DeviceReceives \/ DeviceStep \/ DeviceCut
BridgeMove ==
  \/ UserSends \/ TransferStep \/ Skips \/ PollStep \/ PollBlocked
  \/ RecoverySkipped \/ UserStep \/ BridgeCut \/ BridgeStarts

LEMMA NextMoves ==
  ASSUME Next
  PROVE  DeviceMove \/ BridgeMove \/ LosesDown \/ LosesUp
  BY DEF Next, DeviceMove, BridgeMove

\* The poll task between transfers: it touches neither staging nor transfer.
PollOnly ==
  \/ Polls \/ PollAnswered \/ PollFails \/ SendsCheck \/ CheckReads \/ CheckEnds

LEMMA PollChanges ==
  /\ PollOnly =>
       /\ UNCHANGED <<device, req, stage, golden, seq, retry, verdict, uploads, sent,
                      faults, clean>>
       /\ bpc \notin Transfer /\ bpc' \in {"idle", "poll", "check"}
       /\ down' \in {down, <<"POLL">>, <<"CHECK">>}
       /\ misses' \in {misses, 0, misses + 1, 3}
       /\ misses < 3 \/ misses' \in {misses, 0, 3}
  /\ PollBlocked \/ RecoverySkipped =>
       /\ UNCHANGED <<device, req, down, up, bpc, stage, golden, seq, retry, verdict,
                      uploads, sent, faults, clean>>
       /\ misses' \in {misses, misses + 1, 3}
       /\ misses < 3 \/ misses' \in {misses, 3}
  /\ Promotes =>
       UNCHANGED <<device, req, down, up, bpc, stage, seq, retry, misses, verdict,
                   uploads, sent, faults, clean>>
  /\ BridgeStarts =>
       /\ UNCHANGED <<device, req, down, stage, golden, seq, retry, misses, verdict,
                      uploads, sent, faults, clean>>
       /\ bpc = "off" /\ bpc' = "idle" /\ up' = <<>>
<1>1. PollOnly =>
       /\ UNCHANGED <<device, req, stage, golden, seq, retry, verdict, uploads, sent,
                      faults, clean>>
       /\ bpc \notin Transfer /\ bpc' \in {"idle", "poll", "check"}
       /\ down' \in {down, <<"POLL">>, <<"CHECK">>}
       /\ misses' \in {misses, 0, misses + 1, 3}
       /\ misses < 3 \/ misses' \in {misses, 0, 3}
  BY DEF PollOnly, Polls, PollAnswered, PollFails, SendsCheck, CheckReads, CheckEnds,
         Rest, NoFault, Answered, Missed, polling, Transfer
<1>2. PollBlocked \/ RecoverySkipped =>
       /\ UNCHANGED <<device, req, down, up, bpc, stage, golden, seq, retry, verdict,
                      uploads, sent, faults, clean>>
       /\ misses' \in {misses, misses + 1, 3}
       /\ misses < 3 \/ misses' \in {misses, 3}
  BY DEF PollBlocked, RecoverySkipped, Rest, NoFault, Missed
<1>3. Promotes =>
       UNCHANGED <<device, req, down, up, bpc, stage, seq, retry, misses, verdict,
                   uploads, sent, faults, clean>>
  BY DEF Promotes, NoFault
<1>4. BridgeStarts =>
       /\ UNCHANGED <<device, req, down, stage, golden, seq, retry, misses, verdict,
                      uploads, sent, faults, clean>>
       /\ bpc = "off" /\ bpc' = "idle" /\ up' = <<>>
  BY DEF BridgeStarts, Rest, NoFault, polling
<1> QED BY <1>1, <1>2, <1>3, <1>4

\* The bridge takes a frame from its driver, or flushes it.
LEMMA BridgeReads ==
  ASSUME BridgeMove
  PROVE  up' = up \/ up' = <<>> \/ (up # <<>> /\ up' = Tail(up))
<1> USE DEF Answered, Refused, TimedOut, NoAnswer, PollTimedOut
<1>1. CASE UserSends \/ Restores
  BY <1>1 DEF UserSends, Restores, Begins
<1>2. CASE TransferStep
  BY <1>2
  DEF TransferStep, Announces, Announce, ReadyArrives, SendsBegin, BeginAcked,
      ReadsChunk, ChunkAcked, ChunkRetried, ResultArrives, AnswerMissing
<1>3. CASE Skips \/ PollBlocked \/ RecoverySkipped \/ BridgeCut \/ BridgeStarts
  BY <1>3 DEF Skips, PollBlocked, RecoverySkipped, BridgeCut, BridgeStarts
<1>4. CASE PollStep
  BY <1>1, <1>4
  DEF PollStep, Polls, PollAnswered, PollFails, SendsCheck, CheckReads,
      CheckEnds, Promotes
<1>5. CASE UserStep
  BY <1>5, UserChanges
<1> QED BY <1>1, <1>2, <1>3, <1>4, <1>5 DEF BridgeMove

\* What may be in the driver after a step.
LEMMA UpChanges ==
  ASSUME OtaAssumption, TypeOK, FrameInv, DevP!TypeOK, Next
  PROVE  /\ up' \in Seq(UpFrame)
         /\ \/ Range(up') \subseteq Range(up)
            \/ DeviceMove /\ \E f : Answer(f) /\ Range(up') = Range(up) \cup {f}
<1>1. up \in Seq(UpFrame)
  BY DEF FrameInv
<1>2. CASE DeviceMove
  <2>1. up' = up \/ \E f : Answer(f) /\ up' = Append(up, f)
    BY <1>2, DeviceAnswers DEF DeviceMove
  <2>2. ASSUME NEW f, Answer(f), up' = Append(up, f)
        PROVE  up' \in Seq(UpFrame) /\ Range(up') = Range(up) \cup {f}
    <3>1. f \in UpFrame
      BY <2>2 DEF Answer
    <3> QED BY <1>1, <2>2, <3>1, Appended
  <2> QED BY <1>1, <1>2, <2>1, <2>2
<1>3. CASE BridgeMove
  <2>1. up' = up \/ up' = <<>> \/ (up # <<>> /\ up' = Tail(up))
    BY <1>3, BridgeReads
  <2>2. CASE up' = up
    BY <1>1, <2>2
  <2>3. CASE up' = <<>>
    BY <2>3, Flushed
  <2>4. CASE up # <<>> /\ up' = Tail(up)
    BY <1>1, <2>4, Taken
  <2> QED BY <2>1, <2>2, <2>3, <2>4
<1>4. CASE LosesDown
  BY <1>1, <1>4 DEF LosesDown
<1>5. CASE LosesUp
  <2>1. PICK k \in 1..Len(up) :
          up' = SubSeq(up, 1, k - 1) \o SubSeq(up, k + 1, Len(up))
    BY <1>5 DEF LosesUp
  <2>2. up' \in Seq(UpFrame) /\ Range(up') \subseteq Range(up)
    BY ONLY <1>1, <2>1, Lost, Zenon
  <2> QED BY <2>2
<1> QED BY <1>2, <1>3, <1>4, <1>5, NextMoves

FwType == [staged : BOOLEAN, size : 0..AppPages, crc : Image \cup {Blank},
           version : Image \cup {NoImage}]

\* The staging variables, written one at a time.
LEMMA FwFields ==
  ASSUME AppPages \in Nat, fw \in FwType
  PROVE  /\ \A b \in BOOLEAN : LET f == [fw EXCEPT !.staged = b] IN
              /\ f \in FwType /\ f.size = fw.size /\ f.crc = fw.crc
              /\ f.version = fw.version
         /\ \A n \in 0..AppPages : LET f == [fw EXCEPT !.size = n] IN
              f \in FwType /\ f.size = n /\ f.crc = fw.crc
         /\ \A n \in 0..AppPages, b \in BOOLEAN :
              [fw EXCEPT !.staged = b, !.size = n] \in FwType
         /\ \A b \in BOOLEAN, n \in 0..AppPages, i \in Image \cup {Blank} :
              [fw EXCEPT !.staged = b, !.size = n, !.crc = i] \in FwType
         /\ \A b \in BOOLEAN, i \in Image \cup {Blank}, v \in Image \cup {NoImage} :
              [fw EXCEPT !.staged = b, !.crc = i, !.version = v] \in FwType
<1>1. /\ \A b \in BOOLEAN : LET f == [fw EXCEPT !.staged = b] IN
           f \in FwType /\ f.size = fw.size /\ f.crc = fw.crc /\ f.version = fw.version
      /\ \A n \in 0..AppPages : LET f == [fw EXCEPT !.size = n] IN
           f \in FwType /\ f.size = n /\ f.crc = fw.crc
  BY DEF FwType
<1>2. \A n \in 0..AppPages, b \in BOOLEAN :
        [fw EXCEPT !.staged = b, !.size = n] \in FwType
  BY DEF FwType
<1>3. \A b \in BOOLEAN, n \in 0..AppPages, i \in Image \cup {Blank} :
        [fw EXCEPT !.staged = b, !.size = n, !.crc = i] \in FwType
  BY DEF FwType
<1>4. \A b \in BOOLEAN, i \in Image \cup {Blank}, v \in Image \cup {NoImage} :
        [fw EXCEPT !.staged = b, !.crc = i, !.version = v] \in FwType
  BY DEF FwType
<1> QED BY <1>1, <1>2, <1>3, <1>4

LEMMA CrcTypes ==
  ASSUME NEW f
  PROVE  CrcOf(f) \in Image \cup {Blank} /\ (CrcOf(f) # Blank => CrcOf(f) \in Image)
  BY DEF CrcOf

LEMMA WholeTypes ==
  ASSUME OtaAssumption, NEW i \in Image
  PROVE  /\ Size[i] \in 1..AppPages /\ Size[i] \in 0..AppPages
         /\ Whole(i) \in Seq(Image) /\ Len(Whole(i)) = Size[i]
         /\ \A k \in 1..Size[i] : Whole(i)[k] = i
         /\ AppPages \in Nat /\ MaxRetries \in Nat \ {0}
  BY DEF OtaAssumption, Dev!BootAssumption, Whole

\* What the types of the staging and of the transfer are, on their own.
StageType ==
  /\ file \in Seq(Image) /\ fw \in FwType
  /\ load \in {<<>>, <<"push">>, <<"stuck">>} \cup ({"fetch", "sized"} \X Image)
  /\ handle \in {"none", "open", "orphan"}
  /\ PushInv

MoverType ==
  /\ bpc \in Transfer \cup {"idle", "poll", "check", "off"}
  /\ buf \in Image \cup {NoImage} /\ (bpc = "chunk" => buf \in Image)
  /\ seq \in 0..AppPages /\ retry \in Nat /\ retry < MaxRetries
  /\ sent \in Image \cup {Blank} /\ verdict \in {"none", "ok", "fail"}
  /\ bpc \in {"open", "ready", "pause", "begun"} => seq = 0
  /\ bpc = "chunk" => seq < AppPages

OtherType ==
  /\ req = <<>> \/ req \in (Image \cup {NoImage}) \X (0..AppPages)
  /\ golden \in Image \cup {NoImage} /\ misses \in 0..3

LEMMA TypeParts ==
  ASSUME up \in Seq(UpFrame), OnLine, pc \notin AppPc => req = <<>>,
         pc = "confirming" => cfg # NoConfig
  PROVE  (TypeOK /\ FrameInv /\ PushInv) <=> (StageType /\ MoverType /\ OtherType)
  BY DEF TypeOK, FrameInv, StageType, MoverType, OtherType, FwType

\* Whoever writes the staging, its variables keep their types.
LEMMA NextStage ==
  ASSUME OtaAssumption, StageType, MoverType, OtherType, BridgeMove
  PROVE  StageType'
<1> USE DEF StageType
<1>0. AppPages \in Nat /\ 0 \in 0..AppPages /\ Blank \in Image \cup {Blank}
  BY DEF OtaAssumption, Dev!BootAssumption
<1>1. ASSUME UNCHANGED <<file, fw, load>>, handle' \in {"none", "open", "orphan"}
      PROVE  StageType'
  BY <1>1 DEF PushInv
<1>2. ASSUME UNCHANGED stage PROVE StageType'
  BY <1>1, <1>2 DEF stage
<1>3. CASE UserSends \/ Skips \/ PollOnly \/ PollBlocked \/ RecoverySkipped
           \/ Promotes \/ BridgeStarts
  BY <1>2, <1>3, PollChanges DEF UserSends, Skips, bridge
<1>4. CASE TransferStep
  <2>1. CASE Announces
    BY <1>1, <2>1 DEF Announces, Fails, Returns
  <2>2. CASE ReadyArrives \/ SendsBegin \/ BeginAcked \/ ChunkRetried
    BY <1>1, <1>2, <2>2
    DEF ReadyArrives, SendsBegin, BeginAcked, ChunkRetried, GivesUp, Keeps, Fails,
        Returns
  <2>3. CASE ReadsChunk \/ ChunkAcked
    BY <1>1, <1>2, <2>3 DEF ReadsChunk, ChunkAcked, Keeps, Fails, Returns
  <2>4. CASE ResultArrives /\ Head(up)[2] = "ok"
    <3>1. /\ file' = <<>> /\ handle' = "none"
          /\ load' = IF Receiving THEN <<"stuck">> ELSE load
          /\ fw' = [fw EXCEPT !.staged = FALSE, !.size = 0, !.crc = Blank]
      BY <2>4 DEF ResultArrives, Returns
    <3>2. fw' \in FwType
      BY <1>0, <3>1, FwFields
    <3>3. load' # <<"push">> /\ load' \in {load, <<"stuck">>}
      BY <3>1 DEF Receiving
    <3> QED BY <3>1, <3>2, <3>3, Flushed DEF PushInv
  <2>5. CASE ResultArrives /\ Head(up)[2] # "ok"
    BY <1>1, <2>5 DEF ResultArrives, Fails, Returns
  <2>6. CASE AnswerMissing
    BY <1>1, <2>6 DEF AnswerMissing, Fails, Returns
  <2> QED BY <1>4, <2>1, <2>2, <2>3, <2>4, <2>5, <2>6 DEF TransferStep
<1>5. CASE Restores
  <2>1. /\ golden \in Image /\ file' = Whole(golden) /\ handle' = handle
        /\ fw' = [fw EXCEPT !.staged = ~Receiving, !.size = Size[golden], !.crc = golden]
        /\ load' = IF Receiving THEN <<"stuck">> ELSE load
    BY <1>5 DEF Restores, OtherType
  <2>2. fw' \in FwType
    BY <1>0, <2>1, FwFields, WholeTypes DEF Receiving
  <2>3. load' # <<"push">> /\ load' \in {load, <<"stuck">>}
    BY <2>1 DEF Receiving
  <2> QED BY <2>1, <2>2, <2>3, WholeTypes DEF PushInv
<1>6. CASE BridgeCut
  <2>1. file' = file /\ fw' = NoFw /\ load' = <<>> /\ handle' = "none"
    BY <1>6 DEF BridgeCut
  <2>2. NoFw \in FwType
    BY <1>0 DEF NoFw, FwType
  <2> QED BY <2>1, <2>2 DEF PushInv
<1>7. CASE UserStep
  <2>1. ASSUME NEW i \in Image, PushBegins(i) PROVE StageType'
    <3>1. /\ file' = <<>> /\ load' = <<"push">> /\ handle' \in {handle, "orphan"}
          /\ fw' = [staged |-> FALSE, size |-> 0, crc |-> i, version |-> i]
      BY <2>1 DEF PushBegins
    <3>2. fw' \in FwType /\ fw'.crc = i /\ fw'.size = 0
      BY <1>0, <3>1 DEF FwType
    <3>3. 0 < Size[i]
      BY WholeTypes
    <3> QED BY <3>1, <3>2, <3>3, Flushed DEF PushInv
  <2>2. CASE PushData
    <3>1. /\ fw.crc \in Image /\ fw.size < Size[fw.crc] /\ fw.size \in 0..AppPages
          /\ Size[fw.crc] \in 1..AppPages
      BY <2>2, WholeTypes DEF PushData, PushInv, FwType
    <3>2. /\ file' = Append(file, fw.crc) /\ fw' = [fw EXCEPT !.size = fw.size + 1]
          /\ load' = IF fw'.size = Size[fw.crc] THEN <<>> ELSE load
          /\ handle' = handle
      BY <2>2 DEF PushData
    <3>3. fw.size + 1 \in 0..AppPages /\ fw.size + 1 <= Size[fw.crc]
      BY <1>0, <3>1
    <3>4. fw' \in FwType /\ fw'.size = fw.size + 1 /\ fw'.crc = fw.crc
      BY <1>0, <3>2, <3>3, FwFields
    <3>5. load' = <<"push">> => fw'.size < Size[fw'.crc]
      <4>1. load' = <<"push">> => fw'.size # Size[fw.crc]
        BY <3>2
      <4>2. fw.size + 1 # Size[fw.crc] => fw.size + 1 < Size[fw.crc]
        BY <1>0, <3>1, <3>3
      <4> QED BY <3>4, <4>1, <4>2
    <3> QED BY <3>1, <3>2, <3>4, <3>5 DEF PushInv
  <2>3. CASE Verifies
    <3>1. PICK v \in {Verified, FALSE} : fw' = [fw EXCEPT !.staged = v]
      BY <2>3 DEF Verifies
    <3>2. v \in BOOLEAN
      BY DEF Verified, Receiving, FileIs
    <3>3. UNCHANGED <<file, load, handle>> /\ load = <<>>
      BY <2>3 DEF Verifies
    <3> QED BY <1>0, <3>1, <3>2, <3>3, FwFields DEF PushInv
  <2>4. CASE SppClosed
    <3>1. /\ fw' = [fw EXCEPT !.staged = FALSE, !.size = 0] /\ load' = <<>>
          /\ UNCHANGED <<file, handle>>
      BY <2>4 DEF SppClosed
    <3> QED BY <1>0, <3>1, FwFields DEF PushInv
  <2>5. ASSUME NEW i \in Image, DownloadStarts(i) PROVE StageType'
    <3>1. /\ fw' = [fw EXCEPT !.staged = FALSE, !.size = 0] /\ load' = <<"fetch", i>>
          /\ file' = <<>> /\ handle' = handle
      BY <2>5 DEF DownloadStarts
    <3> QED BY <1>0, <3>1, FwFields, Flushed DEF PushInv
  <2>6. ASSUME NEW i \in Image, DownloadWrites(i) PROVE StageType'
    <3>1. /\ file' = Whole(i) \o SubSeq(file, Size[i] + 1, Len(file))
          /\ load' = <<"sized", i>> /\ fw' = [fw EXCEPT !.size = Size[i]]
          /\ handle' = handle
      BY <2>6 DEF DownloadWrites
    <3>2. SubSeq(file, Size[i] + 1, Len(file)) \in Seq(Image)
      <4>1. Size[i] + 1 \in Nat \ {0} /\ Len(file) \in Nat
        <5>1. Size[i] \in 1..AppPages /\ AppPages \in Nat
          BY WholeTypes
        <5>2. Size[i] + 1 \in Nat \ {0}
          BY ONLY <5>1
        <5>3. file \in Seq(Image)
          BY <1>0
        <5> QED BY <5>2, <5>3
      <4> DEFINE m == Size[i] + 1
      <4> HIDE DEF m
      <4>2. m \in Int /\ m >= 1 /\ Len(file) \in Int /\ Len(file) <= Len(file)
        BY <4>1 DEF m
      <4>3. SubSeq(file, m, Len(file)) \in Seq(Image)
        BY <4>2, SubSeqProperties
      <4> QED BY <4>3 DEF m
    <3>3. file' \in Seq(Image)
      BY <3>1, <3>2, WholeTypes
    <3>4. fw' \in FwType
      BY <1>0, <3>1, FwFields, WholeTypes
    <3> QED BY <3>1, <3>3, <3>4 DEF PushInv
  <2>7. ASSUME NEW i \in Image, DownloadEnds(i) PROVE StageType'
    <3>1. /\ fw' = [fw EXCEPT !.staged = TRUE, !.crc = CrcOf(file), !.version = i]
          /\ load' = <<>> /\ UNCHANGED <<file, handle>>
      BY <2>7 DEF DownloadEnds
    <3> QED BY <1>0, <3>1, FwFields, CrcTypes DEF PushInv
  <2>8. ASSUME NEW i \in Image, DownloadFails(i) PROVE StageType'
    BY <2>8 DEF DownloadFails, PushInv
  <2> QED BY <1>7, <2>1, <2>2, <2>3, <2>4, <2>5, <2>6, <2>7, <2>8 DEF UserStep
<1> QED BY <1>3, <1>4, <1>5, <1>6, <1>7 DEF BridgeMove, PollStep, PollOnly

\* The bridge does not reach into the device.
LEMMA BridgeAlone ==
  ASSUME BridgeMove
  PROVE  UNCHANGED <<device, req>>
<1>1. CASE UserSends \/ Restores
  BY <1>1 DEF UserSends, Restores, Begins
<1>2. CASE TransferStep \/ Skips \/ BridgeCut
  BY <1>2 DEF TransferStep, Skips, BridgeCut
<1>3. CASE PollOnly \/ PollBlocked \/ RecoverySkipped \/ Promotes \/ BridgeStarts
  BY <1>3, PollChanges
<1>4. CASE UserStep
  BY <1>4, UserChanges
<1> QED BY <1>1, <1>2, <1>3, <1>4 DEF BridgeMove, PollStep, PollOnly

\* The transfer's own variables: read from the staging, they stay in range.
LEMMA NextMover ==
  ASSUME OtaAssumption, StageType, MoverType, OtherType, BridgeMove
  PROVE  MoverType' /\ OtherType'
<1> USE DEF MoverType
<1>0. AppPages \in Nat /\ 0 \in 0..AppPages /\ MaxRetries \in Nat \ {0}
  BY DEF OtaAssumption, Dev!BootAssumption
<1>1. ASSUME UNCHANGED <<req, golden>>, misses' \in 0..3 PROVE OtherType'
  BY <1>1 DEF OtherType
<1>2. ASSUME UNCHANGED <<bpc, buf, seq, retry, sent, verdict>> PROVE MoverType'
  BY <1>2
<1>3. ASSUME UNCHANGED <<buf, seq, retry, sent, verdict>>,
             bpc' \in {"idle", "poll", "check", "off"}
      PROVE  MoverType'
  BY <1>3
<1>4. ASSUME bpc' = "idle", buf' = NoImage, UNCHANGED <<seq, retry, sent>>,
             verdict' \in {"ok", "fail"}
      PROVE  MoverType'
  BY <1>4
<1>5. misses \in 0..3 => {0, 3, misses} \subseteq 0..3 /\ (misses < 3 => misses + 1 \in 0..3)
  OBVIOUS
<1>6. CASE UserSends \/ Restores
  <2>1. UNCHANGED <<req, golden, misses, buf, sent>>
    BY <1>6 DEF UserSends, Restores, Begins, stage, polling
  <2>2. CASE Begins
    BY <1>0, <1>1, <2>1, <2>2 DEF Begins, Transfer, OtherType
  <2>3. CASE ~Begins
    <3>1. bpc' = "idle" /\ UNCHANGED <<seq, retry, verdict>>
      BY <1>6, <2>3 DEF UserSends, Restores
    <3> QED BY <1>1, <1>3, <2>1, <3>1 DEF OtherType
  <2> QED BY <2>2, <2>3
<1>7. CASE TransferStep
  <2>0. UNCHANGED req
    BY <1>7 DEF TransferStep
  <2>1. Fails => /\ bpc' = "idle" /\ buf' = NoImage /\ UNCHANGED <<seq, retry, sent>>
                 /\ verdict' = "fail" /\ UNCHANGED <<golden, misses>>
    BY DEF Fails, Returns
  <2>2. Fails => MoverType' /\ OtherType'
    BY <1>1, <1>4, <2>0, <2>1 DEF OtherType
  <2>3. ASSUME Keeps PROVE OtherType' /\ buf' = buf /\ verdict' = verdict
    BY <1>1, <2>0, <2>3 DEF Keeps, stage, polling, OtherType
  <2>4. CASE Announces
    <3>1. CASE Fails
      BY <2>2, <3>1
    <3>2. CASE ~Fails
      <4>1. bpc = "open" /\ bpc' = "ready"
            /\ UNCHANGED <<buf, golden, seq, retry, misses, sent, verdict>>
        BY <2>4, <3>2 DEF Announces, polling
      <4> QED BY <1>1, <2>0, <4>1 DEF OtherType, Transfer
    <3> QED BY <3>1, <3>2
  <2>5. CASE ReadyArrives
    BY <2>2, <2>3, <2>5 DEF ReadyArrives, Transfer
  <2>6. CASE SendsBegin
    <3>1. sent' \in Image \cup {Blank}
      BY <2>6 DEF SendsBegin, StageType, FwType
    <3> QED BY <2>3, <2>6, <3>1 DEF SendsBegin, Transfer
  <2>7. CASE BeginAcked
    BY <2>3, <2>7 DEF BeginAcked, Transfer
  <2>8. CASE ReadsChunk
    <3>1. CASE Fails
      BY <2>2, <3>1
    <3>2. CASE bpc' = "ended" /\ UNCHANGED <<seq, retry, sent>> /\ Keeps
      BY <2>3, <3>2 DEF Transfer
    <3>3. CASE bpc' = "chunk"
      <4>1. /\ seq < fw.size /\ seq < Len(file) /\ buf' = file[seq + 1]
            /\ UNCHANGED <<golden, seq, retry, misses, verdict, sent>>
        BY <2>8, <3>3 DEF ReadsChunk, polling, Fails, Returns
      <4>2. seq \in 0..AppPages /\ fw.size \in 0..AppPages /\ file \in Seq(Image)
        BY DEF StageType, FwType
      <4>3. seq < AppPages /\ seq + 1 \in 1..Len(file)
        BY <1>0, <4>1, <4>2
      <4>4. buf' \in Image
        BY <4>1, <4>2, <4>3
      <4>5. OtherType'
        BY <1>1, <2>0, <4>1 DEF OtherType
      <4>6. /\ bpc' \in Transfer /\ bpc' \notin {"open", "ready", "pause", "begun"}
            /\ UNCHANGED <<seq, retry, verdict, sent>> /\ seq' < AppPages
        BY <3>3, <4>1, <4>3 DEF Transfer
      <4> QED BY <4>4, <4>5, <4>6
    <3> QED BY <2>8, <3>1, <3>2, <3>3 DEF ReadsChunk
  <2>9. CASE ChunkAcked
    <3>1. /\ bpc = "chunk" /\ bpc' = "read" /\ seq' = seq + 1 /\ retry' = 0
          /\ buf' = NoImage /\ UNCHANGED <<golden, misses, verdict, sent>>
      BY <2>9 DEF ChunkAcked, polling
    <3>2. seq + 1 \in 0..AppPages
      BY <1>0, <3>1
    <3> QED BY <1>0, <1>1, <2>0, <3>1, <3>2 DEF OtherType, Transfer
  <2>10. CASE ChunkRetried
    <3>1. CASE Fails
      BY <2>2, <3>1
    <3>2. CASE ~Fails
      <4>1. /\ retry + 1 < MaxRetries /\ retry' = retry + 1
            /\ UNCHANGED <<bpc, seq, sent>> /\ Keeps
        BY <2>10, <3>2 DEF ChunkRetried, GivesUp
      <4> QED BY <2>3, <4>1
    <3> QED BY <3>1, <3>2
  <2>11. CASE ResultArrives
    <3>1. CASE Fails
      BY <2>2, <3>1
    <3>2. CASE ~Fails
      <4>1. Returns("ok")
        BY <2>11, <3>2 DEF ResultArrives
      <4> QED BY <1>1, <1>4, <2>0, <4>1 DEF Returns, OtherType
    <3> QED BY <3>1, <3>2
  <2>12. CASE AnswerMissing
    BY <2>2, <2>12 DEF AnswerMissing
  <2> QED BY <1>7, <2>4, <2>5, <2>6, <2>7, <2>8, <2>9, <2>10, <2>11, <2>12 DEF TransferStep
<1>8. CASE Skips
  BY <1>1, <1>2, <1>8 DEF Skips, bridge, polling, stage, OtherType
<1>9. CASE PollOnly
  <2>1. UNCHANGED <<req, golden, buf, seq, retry, sent, verdict>>
        /\ bpc' \in {"idle", "poll", "check"} /\ misses' \in {misses, 0, misses + 1, 3}
        /\ (misses < 3 \/ misses' \in {misses, 0, 3})
    BY <1>9, PollChanges DEF stage
  <2> QED BY <1>1, <1>3, <1>5, <2>1 DEF OtherType
<1>10. CASE PollBlocked \/ RecoverySkipped
  <2>1. UNCHANGED <<req, golden, bpc, buf, seq, retry, sent, verdict>>
        /\ misses' \in {misses, misses + 1, 3}
        /\ (misses < 3 \/ misses' \in {misses, 3})
    BY <1>10, PollChanges DEF stage
  <2> QED BY <1>1, <1>2, <1>5, <2>1 DEF OtherType
<1>11. CASE Promotes
  <2>1. UNCHANGED <<req, bpc, buf, seq, retry, misses, sent, verdict>>
    BY <1>11, PollChanges DEF stage
  <2>2. golden' \in Image \cup {NoImage}
    BY <1>11, CrcTypes DEF Promotes, OtherType
  <2> QED BY <1>2, <2>1, <2>2 DEF OtherType
<1>12. CASE BridgeStarts
  BY <1>1, <1>3, <1>12, PollChanges DEF stage, OtherType
<1>13. CASE BridgeCut
  <2>1. /\ bpc' = "off" /\ buf' = NoImage /\ seq' = 0 /\ retry' = 0 /\ misses' = 0
        /\ verdict' = "none" /\ UNCHANGED <<req, golden, sent>>
    BY <1>13 DEF BridgeCut
  <2> QED BY <1>0, <1>1, <2>1
<1>14. CASE UserStep
  BY <1>1, <1>2, <1>14, UserChanges DEF polling, OtherType
<1> QED
  BY <1>6, <1>7, <1>8, <1>9, <1>10, <1>11, <1>12, <1>13, <1>14
  DEF BridgeMove, PollStep, PollOnly

\* A frame on its way to the device is one of the exchange the bridge is in, and
\* its chunk is the announced image's as long as nobody writes the staging.
LEMMA NextLine ==
  ASSUME OtaAssumption, SafetyInv, StageType, MoverType, BridgeMove
  PROVE  OnLine'
<1>1. OnLine
  BY DEF SafetyInv, FrameInv
<1>2. ASSUME down' \in {<<>>, <<"POLL">>, <<"CHECK">>, <<"ABORT">>} PROVE OnLine'
  BY <1>2 DEF OnLine
<1>3. ASSUME UNCHANGED <<bpc, down, sent>>, intact' => intact
      PROVE  OnLine'
  <2>1. CASE \/ bpc \in {"read", "chunk"}
                /\ \E n \in 0..AppPages, b \in Image :
                     down = <<"CHUNK", n, b>> /\ (intact => b = sent)
    BY <1>3, <2>1 DEF OnLine
  <2>2. CASE down \in {<<>>, <<"POLL">>, <<"CHECK">>, <<"ABORT">>}
    BY <1>2, <1>3, <2>2
  <2>3. CASE \/ \E v \in Version, n \in 0..AppPages : down = <<"AVAILABLE", v, n>>
             \/ /\ bpc \in {"begun", "read"}
                /\ \E n \in 0..AppPages : down = <<"BEGIN", sent, n>>
             \/ bpc = "ended" /\ down = <<"END">>
    BY <1>3, <2>3 DEF OnLine
  <2> QED BY <1>1, <2>1, <2>2, <2>3 DEF OnLine
<1>4. ASSUME UNCHANGED down, bpc \notin {"begun", "read", "chunk", "ended"}
      PROVE  OnLine'
  BY <1>1, <1>4 DEF OnLine
<1>5. CASE UserSends \/ Restores \/ PollOnly \/ BridgeStarts
  <2>1. bpc \notin {"begun", "read", "chunk", "ended"}
    BY <1>5, PollChanges DEF UserSends, Restores, Transfer
  <2>2. down' \in {down, <<"POLL">>, <<"CHECK">>}
    BY <1>5, PollChanges DEF UserSends, Restores, Begins
  <2> QED BY <1>2, <1>4, <2>1, <2>2
<1>6. CASE TransferStep
  <2>1. CASE Announces
    <3>1. \/ down' = <<"AVAILABLE", fw.version, fw.size>>
          \/ UNCHANGED down /\ bpc = "open"
      BY <2>1 DEF Announces, Announce
    <3>2. fw.version \in Version /\ fw.size \in 0..AppPages
      BY DEF StageType, FwType, Version
    <3> QED BY <1>4, <3>1, <3>2 DEF OnLine
  <2>2. CASE ReadyArrives
    BY <1>4, <2>2 DEF ReadyArrives, Answered
  <2>3. CASE SendsBegin
    <3>1. bpc' = "begun" /\ down' = <<"BEGIN", sent', fw.size>>
      BY <2>3 DEF SendsBegin
    <3>2. fw.size \in 0..AppPages
      BY DEF StageType, FwType
    <3> QED BY <3>1, <3>2 DEF OnLine
  <2>4. CASE BeginAcked \/ ChunkAcked
    <3>1. /\ bpc \in {"begun", "chunk"} /\ bpc' = "read"
          /\ UNCHANGED <<down, sent, intact>>
      BY <2>4 DEF BeginAcked, ChunkAcked, Answered, Keeps, stage
    <3>2. CASE down \in {<<>>, <<"POLL">>, <<"CHECK">>, <<"ABORT">>}
      BY <1>2, <3>1, <3>2
    <3> QED BY <1>1, <3>1, <3>2 DEF OnLine
  <2>5. CASE ReadsChunk
    <3>1. down = <<>> /\ bpc = "read"
      BY <2>5 DEF ReadsChunk
    <3>2. CASE down' = down
      BY <1>2, <3>1, <3>2
    <3>3. CASE bpc' = "ended"
      <4>1. down' = <<"END">>
        BY <2>5, <3>3 DEF ReadsChunk, Fails, Returns
      <4> QED BY <3>3, <4>1 DEF OnLine
    <3>4. CASE down' # down /\ bpc' # "ended"
      <4>1. /\ bpc' = "chunk" /\ down' = <<"CHUNK", seq, buf'>> /\ buf' = file[seq + 1]
            /\ seq < Len(file) /\ UNCHANGED <<sent, intact, seq>>
        BY <2>5, <3>4 DEF ReadsChunk, SendsChunk
      <4>2. buf' \in Image /\ seq \in 0..AppPages
        <5>1. seq \in 0..AppPages /\ file \in Seq(Image) /\ AppPages \in Nat
          BY DEF MoverType, StageType, OtaAssumption, Dev!BootAssumption
        <5>2. seq + 1 \in 1..Len(file)
          BY <4>1, <5>1
        <5> QED BY <4>1, <5>1, <5>2
      <4>3. intact' => buf' = sent'
        <5>1. SUFFICES ASSUME intact PROVE buf' = sent
          BY <4>1
        <5>2. sent \in Image /\ file = Whole(sent)
          BY <3>1, <5>1 DEF SafetyInv, IntactInv, FileIs
        <5>3. Len(file) = Size[sent] /\ Size[sent] \in 1..AppPages /\ AppPages \in Nat
              /\ \A k \in 1..Size[sent] : file[k] = sent
          BY <5>2, WholeTypes
        <5>4. seq + 1 \in 1..Size[sent]
          BY <4>1, <4>2, <5>3
        <5> QED BY <4>1, <5>3, <5>4
      <4> QED BY <4>1, <4>2, <4>3 DEF OnLine
    <3> QED BY <3>2, <3>3, <3>4
  <2>6. CASE ChunkRetried
    <3>1. CASE GivesUp
      BY <1>2, <3>1 DEF GivesUp
    <3>2. CASE ~GivesUp
      <4>1. /\ bpc = "chunk" /\ down' = <<"CHUNK", seq, buf>>
            /\ UNCHANGED <<bpc, sent, intact>>
        BY <2>6, <3>2 DEF ChunkRetried, SendsChunk, Keeps, stage
      <4>2. buf \in Image /\ seq \in 0..AppPages /\ (intact => buf = sent)
        BY <4>1 DEF MoverType, SafetyInv, IntactInv
      <4> QED BY <4>1, <4>2 DEF OnLine
    <3> QED BY <3>1, <3>2
  <2>7. CASE ResultArrives
    <3>1. up # <<>> /\ Head(up) \in Range(up) /\ Head(up)[1] = "RESULT"
      BY <2>7, Taken DEF ResultArrives, Answered, SafetyInv, FrameInv
    <3>2. down = <<>> /\ down' = down
      BY <2>7, <3>1 DEF ResultArrives, Answered, SafetyInv, ResultInv
    <3> QED BY <1>2, <3>2
  <2>8. CASE AnswerMissing
    <3>1. down = <<>> /\ down' = down
      BY <2>8 DEF AnswerMissing, NoAnswer
    <3> QED BY <1>2, <3>1
  <2> QED BY <1>6, <2>1, <2>2, <2>3, <2>4, <2>5, <2>6, <2>7, <2>8 DEF TransferStep
<1>7. CASE Skips \/ PollBlocked \/ RecoverySkipped \/ Promotes
  <2>1. UNCHANGED <<bpc, down, sent, intact>>
    BY <1>7, PollChanges DEF Skips, bridge, stage
  <2> QED BY <1>3, <2>1
<1>8. CASE BridgeCut
  BY <1>2, <1>8 DEF BridgeCut
<1>9. CASE UserStep
  <2>1. UNCHANGED <<bpc, down, sent>> /\ (intact' => intact)
    <3>1. CASE Verifies
      BY <3>1 DEF Verifies
    <3>2. CASE ~Verifies
      BY <1>9, <3>2, UserChanges
    <3> QED BY <3>1, <3>2
  <2> QED BY <1>3, <2>1
<1> QED BY <1>5, <1>6, <1>7, <1>8, <1>9 DEF BridgeMove, PollStep, PollOnly

\* Types and frames in every step.
LEMMA NextTypes ==
  ASSUME OtaAssumption, SafetyInv, DevP!TypeOK, Next
  PROVE  TypeOK' /\ FrameInv' /\ PushInv'
<1> DEFINE OnDevice == (pc \notin AppPc => req = <<>>) /\ (pc = "confirming" => cfg # NoConfig)
<1>1. TypeOK /\ FrameInv /\ PushInv /\ up' \in Seq(UpFrame) /\ OnDevice /\ OnLine
  <2>1. TypeOK /\ FrameInv /\ PushInv
    BY DEF SafetyInv
  <2> QED BY <2>1, UpChanges DEF FrameInv
<1>2. StageType /\ MoverType /\ OtherType
  BY <1>1, TypeParts DEF FrameInv
<1>3. SUFFICES StageType' /\ MoverType' /\ OtherType' /\ OnDevice' /\ OnLine'
  BY <1>1, TypeParts
  DEF TypeOK, FrameInv, StageType, MoverType, OtherType, FwType
<1>4. ASSUME UNCHANGED bridge, down' \in {down, <<>>}
      PROVE  StageType' /\ MoverType' /\ OnLine' /\ UNCHANGED <<golden, misses>>
  <2>1. UNCHANGED <<bpc, file, fw, load, handle, buf, intact, golden, seq, retry,
                    misses, verdict, sent>>
    BY <1>4 DEF bridge, stage, polling
  <2>2. StageType'
    BY <1>2, <2>1 DEF StageType, PushInv
  <2>3. MoverType'
    BY <1>2, <2>1 DEF MoverType
  <2>4. OnLine'
    BY <1>1, <1>4, <2>1 DEF OnLine
  <2> QED BY <2>1, <2>2, <2>3, <2>4
<1>5. CASE DeviceMove
  <2>1. Moves
    BY <1>1, <1>5, DeviceMoves DEF DeviceMove
  <2>2. OnDevice'
    BY <1>1, <2>1 DEF Moves
  <2>3. req' = <<>> \/ req' \in (Image \cup {NoImage}) \X (0..AppPages)
    BY <1>1, <1>2, <2>1, DownKinds DEF Moves, OtherType, Version
  <2> QED BY <1>2, <1>4, <2>1, <2>2, <2>3 DEF Moves, OtherType
<1>6. CASE LosesDown \/ LosesUp
  <2>1. UNCHANGED bridge /\ down' \in {down, <<>>} /\ UNCHANGED <<device, req>>
    BY <1>6 DEF LosesDown, LosesUp
  <2> QED BY <1>1, <1>2, <1>4, <2>1 DEF OtherType, device
<1>7. CASE BridgeMove
  <2>1. UNCHANGED <<device, req>>
    BY <1>7, BridgeAlone
  <2>2. OnDevice'
    BY <1>1, <2>1 DEF device
  <2> QED BY <1>2, <1>7, <2>2, NextStage, NextMover, NextLine
<1> QED BY <1>5, <1>6, <1>7, NextMoves

\* Whoever changes the staging clears intact; the transfer only reads it.
LEMMA NextIntact ==
  ASSUME OtaAssumption, SafetyInv, DevP!TypeOK, Next
  PROVE  IntactInv'
<1> DEFINE Reading == {"ready", "pause", "begun", "read", "chunk"}
<1>1. TypeOK /\ FrameInv /\ IntactInv
  BY DEF SafetyInv
<1>2. ASSUME bpc' \notin Reading PROVE IntactInv'
  BY <1>2 DEF IntactInv
<1>3. ASSUME ~intact' PROVE IntactInv'
  BY <1>3 DEF IntactInv
<1>4. ASSUME UNCHANGED <<bpc, sent, file, buf, intact>>, fw'.crc = fw.crc
      PROVE  IntactInv'
  BY <1>1, <1>4 DEF IntactInv, FileIs
<1>5. ASSUME UNCHANGED <<bpc, stage, sent>> PROVE IntactInv'
  BY <1>4, <1>5 DEF stage
<1>6. CASE DeviceMove \/ LosesDown \/ LosesUp \/ Skips
  <2>1. UNCHANGED bridge
    BY <1>1, <1>6, DeviceMoves DEF DeviceMove, Moves, LosesDown, LosesUp, Skips
  <2> QED BY <1>5, <2>1 DEF bridge
<1>7. CASE UserSends \/ Restores
  BY <1>2, <1>3, <1>7 DEF UserSends, Restores, Begins
<1>8. CASE TransferStep
  <2> USE DEF Fails, Returns
  <2>1. CASE Announces
    <3>1. CASE bpc' = "ready"
      <4>1. /\ intact' => FileIs(fw.crc)
            /\ UNCHANGED <<file, fw>>
        BY <2>1, <3>1 DEF Announces
      <4> QED BY <3>1, <4>1 DEF IntactInv, FileIs
    <3>2. CASE bpc' # "ready"
      BY <1>2, <2>1, <3>2 DEF Announces
    <3> QED BY <3>1, <3>2
  <2>2. CASE ReadyArrives
    <3>1. CASE Keeps /\ bpc' = "pause" /\ sent' = sent
      <4>1. bpc = "ready" /\ UNCHANGED <<file, fw, intact>>
        BY <2>2, <3>1 DEF ReadyArrives, Keeps, stage
      <4> QED BY <1>1, <3>1, <4>1 DEF IntactInv, FileIs
    <3>2. CASE ~(Keeps /\ bpc' = "pause" /\ sent' = sent)
      BY <1>2, <2>2, <3>2 DEF ReadyArrives
    <3> QED BY <3>1, <3>2
  <2>3. CASE SendsBegin
    <3>1. bpc = "pause" /\ bpc' = "begun" /\ sent' = fw.crc /\ UNCHANGED <<file, intact>>
      BY <2>3 DEF SendsBegin, Keeps, stage
    <3> QED BY <1>1, <3>1 DEF IntactInv, FileIs
  <2>4. CASE BeginAcked \/ ChunkAcked
    <3>1. /\ bpc \in {"begun", "chunk"} /\ bpc' = "read"
          /\ UNCHANGED <<sent, file, intact>>
      BY <2>4 DEF BeginAcked, ChunkAcked, Keeps, stage
    <3> QED BY <1>1, <3>1 DEF IntactInv, FileIs
  <2>5. CASE ReadsChunk
    <3>1. CASE bpc' = "chunk"
      <4>1. /\ bpc = "read" /\ buf' = file[seq + 1] /\ seq < Len(file)
            /\ UNCHANGED <<sent, file, intact>>
        BY <2>5, <3>1 DEF ReadsChunk
      <4>2. SUFFICES ASSUME intact' PROVE FileIs(sent)' /\ buf' = sent'
        BY <3>1 DEF IntactInv
      <4>3. sent \in Image /\ file = Whole(sent)
        BY <1>1, <4>1, <4>2 DEF IntactInv, FileIs
      <4>4. Len(file) = Size[sent] /\ Size[sent] \in 1..AppPages /\ AppPages \in Nat
            /\ \A k \in 1..Size[sent] : file[k] = sent
        BY <4>3, WholeTypes
      <4>5. seq \in 0..AppPages
        BY <1>1 DEF TypeOK
      <4>6. seq + 1 \in 1..Size[sent]
        BY <4>1, <4>4, <4>5
      <4> QED BY <4>1, <4>3, <4>4, <4>6 DEF FileIs
    <3>2. CASE bpc' # "chunk"
      BY <1>2, <2>5, <3>2 DEF ReadsChunk
    <3> QED BY <3>1, <3>2
  <2>6. CASE ChunkRetried
    <3>1. CASE bpc' = bpc
      <4>1. UNCHANGED <<bpc, stage, sent>>
        BY <2>6, <3>1 DEF ChunkRetried, GivesUp, Keeps
      <4> QED BY <1>5, <4>1
    <3>2. CASE bpc' # bpc
      BY <1>2, <2>6, <3>2 DEF ChunkRetried, GivesUp
    <3> QED BY <3>1, <3>2
  <2>7. CASE ResultArrives \/ AnswerMissing
    BY <1>2, <2>7 DEF ResultArrives, AnswerMissing
  <2> QED BY <1>8, <2>1, <2>2, <2>3, <2>4, <2>5, <2>6, <2>7 DEF TransferStep
<1>9. CASE PollOnly \/ BridgeStarts \/ BridgeCut
  BY <1>2, <1>9, PollChanges DEF BridgeCut
<1>10. CASE PollBlocked \/ RecoverySkipped \/ Promotes
  BY <1>5, <1>10, PollChanges
<1>11. CASE UserStep
  <2>1. CASE Verifies
    <3>1. PICK v \in {Verified, FALSE} : fw' = [fw EXCEPT !.staged = v]
      BY <2>1 DEF Verifies
    <3>2. v \in BOOLEAN
      BY DEF Verified, Receiving, FileIs
    <3>3. fw'.crc = fw.crc
      BY <1>1, <3>1, <3>2 DEF TypeOK
    <3>4. UNCHANGED <<bpc, sent, file, buf, intact>>
      BY <2>1 DEF Verifies
    <3> QED BY <1>4, <3>3, <3>4
  <2>2. CASE ~Verifies
    BY <1>3, <1>11, <2>2, UserChanges
  <2> QED BY <2>1, <2>2
<1> QED
  BY <1>6, <1>7, <1>8, <1>9, <1>10, <1>11 DEF Next, DeviceMove, PollStep, PollOnly

\* From READY to the result the device is in no transfer but this one.
LEMMA NextTransfer ==
  ASSUME OtaAssumption, SafetyInv, DevP!TypeOK, Next
  PROVE  TransferInv'
<1> USE DEF Promised
<1>1. TypeOK /\ FrameInv /\ TransferInv
  BY DEF SafetyInv
<1>2. \/ Range(up') \subseteq Range(up)
      \/ DeviceMove /\ \E f : Answer(f) /\ Range(up') = Range(up) \cup {f}
  BY <1>1, UpChanges
<1>3. ASSUME UNCHANGED device, Range(up') \subseteq Range(up),
             UNCHANGED <<bpc, sent>>, intact' => intact, down' \in {down, <<>>}
      PROVE  TransferInv'
  BY <1>1, <1>3 DEF TransferInv, NeverMixed, device
<1>4. ASSUME UNCHANGED device, intact' => intact,
             bpc' \in {"idle", "open", "poll", "check", "off"}
      PROVE  TransferInv'
  BY <1>1, <1>4 DEF TransferInv, NeverMixed, device
<1>5. CASE DeviceMove
  <2>1. Moves /\ UNCHANGED <<bpc, sent, intact>> /\ down' \in {down, <<>>}
    BY <1>1, <1>5, DeviceMoves DEF DeviceMove, Moves, bridge, stage
  <2>2. pc' \notin Transferring \/ pc \in Transferring
          \/ (bpc \in {"begun", "read"} /\ ota'.image = sent)
    BY <1>1, <2>1, DownKinds DEF Moves
  <2>3. (bpc = "pause" \/ Promised)' => pc' \notin Transferring
    <3>1. CASE bpc = "pause" \/ Promised
      BY <1>1, <2>1, <2>2, <3>1 DEF TransferInv
    <3>2. CASE ~(bpc = "pause" \/ Promised)
      <4>1. SUFFICES ASSUME Promised' PROVE pc' \notin Transferring
        BY <2>1, <3>2
      <4>2. PICK f : Answer(f) /\ Range(up') = Range(up) \cup {f}
        BY <1>2, <2>1, <3>2, <4>1
      <4>3. f[1] = "READY"
        BY <2>1, <3>2, <4>1, <4>2
      <4> QED BY <4>2, <4>3 DEF Answer, Transferring
    <3> QED BY <3>1, <3>2
  <2>4. bpc' \in {"begun", "read", "chunk", "ended"} /\ pc' \in Transferring => ota'.image = sent'
    BY <1>1, <2>1, <2>2, DownKinds DEF Moves, TransferInv, Transferring
  <2>5. /\ bpc' \in {"begun", "read", "chunk"} => pc' # "committed"
        /\ bpc' = "ended" /\ pc' = "committed" => cfg'.crc = sent' /\ down' = <<>>
    BY <1>1, <2>1, DownKinds DEF Moves, TransferInv, Transferring
  <2>6. NeverMixed'
    BY <1>1, <2>1, DownKinds DEF Moves, TransferInv, NeverMixed, Transferring
  <2> QED BY <2>3, <2>4, <2>5, <2>6 DEF TransferInv
<1>6. CASE LosesDown \/ LosesUp
  <2>1. Range(up') \subseteq Range(up) \/ DeviceMove
    BY <1>2
  <2> QED BY <1>3, <1>5, <1>6, <2>1 DEF LosesDown, LosesUp, bridge, stage
<1>7. CASE BridgeMove
  <2>1. CASE DeviceMove
    BY <1>5, <2>1
  <2>2. CASE ~DeviceMove
    <3>1. Range(up') \subseteq Range(up)
      BY <1>2, <2>2
    <3>2. CASE UserSends \/ Restores
      <4>1. UNCHANGED device /\ bpc' \in {"open", "idle"} /\ (intact' => intact)
        BY <3>2 DEF UserSends, Restores, Begins, stage
      <4> QED BY <1>4, <4>1
    <3>3. CASE TransferStep
      <4> USE DEF TransferStep, Fails, Returns, Keeps, stage
      <4>0. CASE Announces
        <5>1. CASE bpc' = "ready"
          <6>1. UNCHANGED device /\ up' = <<>> /\ (intact' => pc # "programming")
            BY <3>3, <4>0, <5>1 DEF Announces, Announce
          <6> QED BY <5>1, <6>1, Flushed DEF TransferInv, NeverMixed, device
        <5>2. CASE bpc' # "ready"
          BY <1>4, <3>3, <4>0, <5>2 DEF Announces
        <5> QED BY <5>1, <5>2
      <4>1. CASE ReadyArrives
        <5>1. pc \notin Transferring
          <6>1. up # <<>> /\ Head(up) \in Range(up) /\ Head(up)[1] = "READY"
            BY <1>1, <4>1, Taken DEF ReadyArrives, Answered, FrameInv
          <6> QED BY <1>1, <4>1, <6>1 DEF ReadyArrives, TransferInv
        <5>2. bpc' \in {"pause", "idle"} /\ UNCHANGED device
          BY <3>3, <4>1 DEF ReadyArrives
        <5> QED BY <1>1, <5>1, <5>2 DEF TransferInv, NeverMixed, device, Transferring
      <4>2. CASE SendsBegin
        <5>1. bpc = "pause" /\ bpc' = "begun" /\ UNCHANGED <<device, intact>>
          BY <3>3, <4>2 DEF SendsBegin
        <5> QED BY <1>1, <5>1 DEF TransferInv, NeverMixed, device, Transferring
      <4>3. CASE BeginAcked \/ ChunkAcked
        <5>1. bpc \in {"begun", "chunk"} /\ bpc' = "read" /\ UNCHANGED <<device, sent, intact>>
          BY <3>3, <4>3 DEF BeginAcked, ChunkAcked
        <5> QED BY <1>1, <5>1 DEF TransferInv, NeverMixed, device
      <4>4. CASE ReadsChunk
        <5>1. /\ bpc = "read" /\ bpc' \in {"chunk", "ended", "idle"}
              /\ UNCHANGED <<device, sent, intact>>
          BY <3>3, <4>4 DEF ReadsChunk
        <5> QED BY <1>1, <5>1 DEF TransferInv, NeverMixed, device
      <4>5. CASE ChunkRetried
        <5>1. /\ bpc = "chunk" /\ bpc' \in {"chunk", "idle"}
              /\ UNCHANGED <<device, sent, intact>>
          BY <3>3, <4>5 DEF ChunkRetried, GivesUp
        <5> QED BY <1>1, <5>1 DEF TransferInv, NeverMixed, device
      <4>6. CASE ResultArrives \/ AnswerMissing
        BY <1>4, <3>3, <4>6 DEF ResultArrives, AnswerMissing
      <4> QED BY <3>3, <4>0, <4>1, <4>2, <4>3, <4>4, <4>5, <4>6
    <3>4. CASE Skips \/ PollBlocked \/ RecoverySkipped \/ Promotes
      <4>1. UNCHANGED <<device, bpc, down, sent, intact>>
        BY <3>4, PollChanges DEF Skips, bridge, stage
      <4> QED BY <1>3, <3>1, <4>1
    <3>5. CASE PollOnly \/ BridgeStarts \/ BridgeCut
      <4>1. UNCHANGED <<device, intact>> /\ bpc' \in {"idle", "poll", "check", "off"}
        BY <3>5, PollChanges DEF BridgeCut, stage
      <4> QED BY <1>4, <4>1
    <3>6. CASE UserStep
      <4>1. UNCHANGED <<device, bpc, down, sent>>
        BY <3>6, UserChanges
      <4>2. intact' => intact
        <5>1. CASE Verifies
          BY <5>1 DEF Verifies
        <5>2. CASE ~Verifies
          BY <3>6, <5>2, UserChanges
        <5> QED BY <5>1, <5>2
      <4> QED BY <1>3, <3>1, <4>1, <4>2
    <3> QED
      BY <1>7, <3>2, <3>3, <3>4, <3>5, <3>6 DEF BridgeMove, PollStep, PollOnly
  <2> QED BY <2>1, <2>2
<1> QED BY <1>5, <1>6, <1>7, NextMoves

\* Once done it stays done, until an update is announced or begun.
LEMMA DoneLasts ==
  ASSUME OtaAssumption, TypeOK, FrameInv, DevP!IInv, Done, DeviceMove,
         down \in {<<>>, <<"POLL">>, <<"CHECK">>}
  PROVE  Done'
<1>1. Moves
  BY DeviceMoves DEF DeviceMove, DevP!IInv
<1>2. pc # "active" /\ (down # <<>> => down[1] \notin {"BEGIN", "AVAILABLE"})
  BY DEF Done, DevP!IInv, DevP!DurableInv
<1>3. told' = "ok" /\ cfg'.crc = cfg.crc /\ req' = <<>>
  BY <1>1, <1>2 DEF Moves, Done
<1>4. sent' = sent
  BY <1>1 DEF Moves, bridge
<1> QED BY <1>3, <1>4 DEF Done

\* The device says OK once the image sent is on record, and nothing after it
\* on the line undoes that.
LEMMA NextResult ==
  ASSUME OtaAssumption, SafetyInv, DevP!IInv, Next
  PROVE  ResultInv'
<1> DEFINE Sending == bpc \in {"begun", "read", "chunk", "ended"}
           Reported == bpc = "ended" /\ down = <<>>
<1>1. TypeOK /\ FrameInv /\ TransferInv /\ ResultInv /\ DevP!TypeOK
  BY DEF SafetyInv, DevP!IInv
<1>2. \/ Range(up') \subseteq Range(up)
      \/ DeviceMove /\ \E f : Answer(f) /\ Range(up') = Range(up) \cup {f}
  BY <1>1, UpChanges
<1>3. CASE DeviceMove
  <2>1. Moves /\ UNCHANGED <<bpc, sent, verdict>> /\ down' \in {down, <<>>}
    BY <1>1, <1>3, DeviceMoves DEF DeviceMove, Moves, bridge
  <2>2. ASSUME Sending, NEW f \in Range(up'), f[1] = "RESULT"
        PROVE  Reported' /\ (f[2] = "ok" => Done')
    <3>1. CASE f \in Range(up)
      <4>1. Reported /\ (f[2] = "ok" => Done)
        BY <1>1, <2>2, <3>1 DEF ResultInv
      <4> QED BY <1>1, <1>3, <2>1, <4>1, DoneLasts
    <3>2. CASE f \notin Range(up)
      <4>1. Answer(f)
        BY <1>2, <2>2, <3>2
      <4>2. CASE /\ f[2] = "ok" /\ told' = "ok" /\ pc = "committed"
                 /\ UNCHANGED <<cfg, req, down>>
        <5>1. bpc = "ended" /\ cfg.crc = sent /\ down = <<>>
          BY <1>1, <2>2, <4>2 DEF TransferInv
        <5>2. req = <<>>
          BY <1>1, <4>2 DEF FrameInv, AppPc
        <5> QED BY <2>1, <4>2, <5>1, <5>2 DEF Done
      <4>3. CASE f[2] = "fail" /\ down # <<>> /\ down[1] = "END" /\ down' = <<>>
        BY <1>1, <2>1, <4>3, DownKinds
      <4> QED BY <2>2, <4>1, <4>2, <4>3 DEF Answer
    <3> QED BY <3>1, <3>2
  <2>3. ASSUME verdict = "ok" PROVE Done'
    BY <1>1, <1>3, <2>3, DoneLasts DEF ResultInv
  <2>4. Sending' => \A f \in Range(up') : f[1] = "RESULT" =>
                      Reported' /\ (f[2] = "ok" => Done')
    BY <2>1, <2>2
  <2>5. verdict' = "ok" =>
          Done' /\ bpc' \notin Transfer /\ down' \in {<<>>, <<"POLL">>, <<"CHECK">>}
    BY <1>1, <2>1, <2>3 DEF ResultInv
  <2> QED BY <2>4, <2>5 DEF ResultInv
<1>4. ASSUME UNCHANGED device, UNCHANGED req, Range(up') \subseteq Range(up),
             UNCHANGED <<bpc, sent, verdict>>, down' \in {down, <<>>}
      PROVE  ResultInv'
  <2>1. Done' <=> Done
    BY <1>4 DEF Done, device
  <2> QED BY <1>1, <1>4, <2>1 DEF ResultInv
<1>5. ASSUME UNCHANGED device, UNCHANGED req, UNCHANGED <<sent, verdict>>,
             bpc' \in {"idle", "poll", "check", "off"},
             down' \in {down, <<>>, <<"POLL">>, <<"CHECK">>}
      PROVE  ResultInv'
  <2>1. Done' <=> Done
    BY <1>5 DEF Done, device
  <2> QED BY <1>1, <1>5, <2>1 DEF ResultInv, Transfer
<1>6. ASSUME verdict' \in {"none", "fail"}, bpc' \notin {"begun", "read", "chunk", "ended"}
      PROVE  ResultInv'
  BY <1>6 DEF ResultInv
<1>7. ASSUME verdict' = verdict, bpc \in Transfer, bpc' \in {"ready", "pause", "idle"}
      PROVE  ResultInv'
  BY <1>1, <1>7 DEF ResultInv, Transfer
<1>8. CASE LosesDown \/ LosesUp
  <2>1. Range(up') \subseteq Range(up) \/ DeviceMove
    BY <1>2
  <2> QED BY <1>3, <1>4, <1>8, <2>1 DEF LosesDown, LosesUp, bridge
<1>9. CASE BridgeMove
  <2>1. CASE DeviceMove
    BY <1>3, <2>1
  <2>2. CASE ~DeviceMove
    <3>1. Range(up') \subseteq Range(up)
      BY <1>2, <2>2
    <3>2. CASE UserSends \/ Restores
      <4>1. CASE Begins
        BY <1>6, <4>1 DEF Begins
      <4>2. CASE ~Begins
        <5>1. UNCHANGED <<device, req, sent, verdict, down>> /\ bpc' = "idle"
          BY <3>2, <4>2 DEF UserSends, Restores
        <5> QED BY <1>5, <5>1
      <4> QED BY <4>1, <4>2
    <3>3. CASE TransferStep
      <4> USE DEF TransferStep, Fails, Returns, Keeps
      <4>0. CASE Announces
        <5>1. CASE bpc' = "ready"
          BY <1>7, <4>0, <5>1 DEF Announces, Transfer
        <5>2. CASE bpc' # "ready"
          BY <1>6, <4>0, <5>2 DEF Announces
        <5> QED BY <5>1, <5>2
      <4>1. CASE ReadyArrives
        BY <1>6, <1>7, <3>3, <4>1 DEF ReadyArrives, Transfer
      <4>2. CASE SendsBegin
        <5>1. verdict # "ok"
          BY <1>1, <4>2 DEF SendsBegin, ResultInv, Transfer
        <5>2. up' = <<>> /\ verdict' = verdict
          BY <3>3, <4>2 DEF SendsBegin
        <5> QED BY <5>1, <5>2, Flushed DEF ResultInv
      <4>3. CASE verdict' = verdict /\ bpc \in {"begun", "read", "chunk"}
        <5>1. verdict # "ok" /\ \A f \in Range(up) : f[1] # "RESULT"
          BY <1>1, <4>3 DEF ResultInv, Transfer
        <5> QED BY <3>1, <4>3, <5>1 DEF ResultInv
      <4>4. CASE BeginAcked \/ ChunkAcked \/ ReadsChunk \/ ChunkRetried
        <5>1. bpc \in {"begun", "read", "chunk"}
          BY <4>4 DEF BeginAcked, ChunkAcked, ReadsChunk, ChunkRetried
        <5>2. verdict' = verdict \/ (verdict' = "fail" /\ bpc' = "idle")
          BY <4>4 DEF BeginAcked, ChunkAcked, ReadsChunk, ChunkRetried, GivesUp
        <5> QED BY <1>6, <4>3, <5>1, <5>2
      <4>5. CASE ResultArrives
        <5>1. up # <<>> /\ Head(up) \in Range(up) /\ Head(up)[1] = "RESULT"
          BY <1>1, <4>5, Taken DEF ResultArrives, Answered, FrameInv
        <5>2. down = <<>> /\ (Head(up)[2] = "ok" => Done)
          BY <1>1, <4>5, <5>1 DEF ResultArrives, ResultInv
        <5>3. CASE Head(up)[2] = "ok"
          <6>1. Done' /\ bpc' = "idle" /\ down' = <<>>
            BY <3>3, <4>5, <5>2, <5>3 DEF ResultArrives, Answered, Done, device
          <6> QED BY <6>1 DEF ResultInv, Transfer
        <5>4. CASE Head(up)[2] # "ok"
          BY <1>6, <4>5, <5>4 DEF ResultArrives
        <5> QED BY <5>3, <5>4
      <4>6. CASE AnswerMissing
        BY <1>6, <4>6 DEF AnswerMissing
      <4> QED BY <3>3, <4>0, <4>1, <4>2, <4>4, <4>5, <4>6
    <3>4. CASE Skips \/ PollBlocked \/ RecoverySkipped \/ Promotes
      <4>1. UNCHANGED <<device, req, bpc, sent, verdict, down>>
        BY <3>4, PollChanges DEF Skips, bridge
      <4> QED BY <1>4, <3>1, <4>1
    <3>5. CASE PollOnly \/ BridgeStarts
      <4>1. /\ UNCHANGED <<device, req, sent, verdict>> /\ bpc' \in {"idle", "poll", "check"}
            /\ down' \in {down, <<"POLL">>, <<"CHECK">>}
        BY <3>5, PollChanges
      <4> QED BY <1>5, <4>1
    <3>6. CASE BridgeCut
      BY <1>6, <3>6 DEF BridgeCut
    <3>7. CASE UserStep
      <4>1. UNCHANGED <<device, req, bpc, sent, verdict, down>>
        BY <3>7, UserChanges
      <4> QED BY <1>4, <3>1, <4>1
    <3> QED
      BY <1>9, <3>2, <3>3, <3>4, <3>5, <3>6, <3>7 DEF BridgeMove, PollStep, PollOnly
  <2> QED BY <2>1, <2>2
<1> QED BY <1>3, <1>8, <1>9, NextMoves

-----------------------------------------------------------------------------
(* Safety.                                                                 *)

\* What holds on the line in every state: of the line, and of the device.
IInv == SafetyInv /\ DevP!IInv

LEMMA OtaInitIInv ==
  ASSUME OtaAssumption, Init
  PROVE  IInv
<1>1. DevP!IInv
  BY SameInit, SameAssumption, DevP!InitIInv DEF Init
<1>2. pc = "boot" /\ AppPages \in Nat \ {0} /\ MaxRetries \in Nat \ {0}
  BY DEF Init, Dev!Init, OtaAssumption, Dev!BootAssumption
<1>3. TypeOK
  <2>1. /\ req = <<>> /\ bpc = "idle" /\ load = <<>>
        /\ handle = "none" /\ buf = NoImage /\ seq = 0 /\ sent = Blank
        /\ golden \in {NoImage} \cup Image /\ retry = 0 /\ misses = 0
        /\ verdict = "none"
    BY DEF Init
  <2>2. NoFw \in FwType
    BY <1>2 DEF NoFw, FwType
  <2>3. file \in Seq(Image) /\ fw \in FwType
    <3>1. PICK i \in Staged :
            IF i = NoImage THEN file = <<>> /\ fw = NoFw
                           ELSE file = Whole(i) /\ fw = FwOf(i)
      BY DEF Init
    <3>2. CASE i = NoImage
      BY <3>1, <3>2, <2>2, Flushed
    <3>3. CASE i # NoImage
      <4>1. i \in Image
        BY <3>3 DEF OtaAssumption
      <4>2. Size[i] \in 0..AppPages /\ Whole(i) \in Seq(Image)
        BY <4>1, WholeTypes
      <4>3. FwOf(i) \in FwType
        BY <4>1, <4>2 DEF FwOf, FwType
      <4> QED BY <3>1, <3>3, <4>2, <4>3
    <3> QED BY <3>2, <3>3
  <2> QED BY <1>2, <2>1, <2>2, <2>3, Flushed DEF TypeOK, FwType
<1>4. FrameInv
  BY <1>2, Flushed DEF Init, FrameInv, OnLine, AppPc
<1>5. PushInv /\ IntactInv
  BY DEF Init, PushInv, IntactInv
<1>6. TransferInv
  BY <1>2 DEF Init, TransferInv, Promised, Transferring, NeverMixed
<1>7. ResultInv
  BY DEF Init, ResultInv
<1> QED BY <1>1, <1>3, <1>4, <1>5, <1>6, <1>7 DEF IInv, SafetyInv

LEMMA OtaNextIInv ==
  ASSUME OtaAssumption, IInv, [Next]_vars
  PROVE  IInv'
<1>1. DevP!IInv'
  BY DeviceKeepsInv DEF IInv, SafetyInv
<1>2. CASE Next
  <2>1. SafetyInv /\ DevP!TypeOK
    BY DEF IInv, DevP!IInv
  <2>2. TypeOK' /\ FrameInv' /\ PushInv' /\ IntactInv' /\ TransferInv' /\ ResultInv'
    BY <1>2, <2>1, NextTypes, NextIntact, NextTransfer, NextResult DEF IInv
  <2> QED BY <1>1, <2>2 DEF IInv, SafetyInv
<1>3. CASE UNCHANGED vars
  <2>1. UNCHANGED <<device, req, down, up, bridge>>
    BY <1>3 DEF vars
  <2>2. SafetyInv
    BY DEF IInv
  <2>3. TypeOK' /\ PushInv'
    BY <2>1, <2>2 DEF SafetyInv, TypeOK, PushInv, bridge, stage, polling
  <2>4. FrameInv' /\ IntactInv'
    BY <2>1, <2>2 DEF SafetyInv, FrameInv, OnLine, IntactInv, FileIs, bridge, stage, device
  <2>5. TransferInv'
    BY <2>1, <2>2 DEF SafetyInv, TransferInv, Promised, NeverMixed, bridge, stage, device
  <2>6. ResultInv'
    BY <2>1, <2>2 DEF SafetyInv, ResultInv, Done, bridge, device
  <2> QED BY <1>1, <2>3, <2>4, <2>5, <2>6 DEF IInv, SafetyInv
<1> QED BY <1>2, <1>3

\* What is proved of the device alone, and of every exchange with the bridge,
\* holds of the two on one line.
THEOREM OtaInvariant == Spec => []IInv
<1>1. Init => IInv
  BY OtaAssumption, OtaInitIInv
<1>2. IInv /\ [Next]_vars => IInv'
  BY OtaAssumption, OtaNextIInv
<1> QED BY <1>1, <1>2, PTL DEF Spec

\* The bridge's variables have their types, also while pushes, downloads and a
\* recovery rewrite the staging file and its sizes under a running transfer: the
\* chunk it sends is always a page of some image, and its count stays in the
\* region (transfer_to_stm32_impl reads g_fw_size anew for every chunk).
THEOREM OtaTypes == Spec => []TypeOK
<1>1. IInv => TypeOK
  BY DEF IInv, SafetyInv
<1> QED BY <1>1, OtaInvariant, PTL

\* A success the bridge reports (transfer_to_stm32_impl) is one: the device
\* holds the image this very transfer announced and has it on record, whatever
\* frames were lost, whatever was left in the driver, and whoever rewrote the
\* staging meanwhile.
THEOREM SuccessReal == Spec => []SuccessIsReal
<1>1. IInv => SuccessIsReal
  <2> SUFFICES ASSUME IInv, verdict = "ok"
               PROVE  /\ told = "ok" /\ cfg # NoConfig /\ cfg.crc = sent
                      /\ sent \in Image /\ Dev!Holds(sent)
    BY DEF SuccessIsReal
  <2>1. Done
    BY DEF IInv, SafetyInv, ResultInv
  <2>2. DevP!OkIsDurable
    BY DEF IInv, DevP!IInv, DevP!DurableInv, DevP!Recorded, DevP!OkIsDurable
  <2>3. Dev!Holds(sent)
    BY <2>1, <2>2 DEF Done, DevP!OkIsDurable, Dev!Holds, DevP!Holds
  <2> QED BY <2>1, <2>2, <2>3 DEF Done, DevP!OkIsDurable
<1> QED BY <1>1, OtaInvariant, PTL

\* As long as nobody rewrites the staging file the transfer has opened, what the
\* device programs is the image it was announced, also when a transfer was broken
\* off and another one started.  Nothing in the code keeps the writers out.
THEOREM NeverMixedImages == Spec => []NeverMixed
<1>1. IInv => NeverMixed
  BY DEF IInv, SafetyInv, TransferInv
<1> QED BY <1>1, OtaInvariant, PTL

\* On the line the device does nothing that module Bootloader does not do
\* alone: what is proved there of any host holds with this one.
THEOREM DeviceImplements == Spec => Dev!Init /\ [][Dev!Next]_device
<1>1. Init => Dev!Init
  BY DEF Init
<1>2. IInv /\ [Next]_vars => [Dev!Next]_device
  <2> SUFFICES ASSUME IInv, [Next]_vars PROVE [Dev!Next]_device
    OBVIOUS
  <2>1. CASE Next
    BY <2>1, OtaAssumption, DeviceSteps DEF IInv, SafetyInv
  <2>2. CASE UNCHANGED vars
    BY <2>2 DEF vars
  <2> QED BY <2>1, <2>2
<1> QED BY <1>1, <1>2, OtaInvariant, PTL DEF Spec

\* What the bootloader promises any host it keeps to the bridge, over a line that
\* loses frames: acknowledged pages are in flash, a reported success is durable,
\* and an unconfirmed image is started a bounded number of times.
THEOREM DeviceKeepsPromises ==
  Spec => [](Dev!AckedPagesHold /\ Dev!OkIsDurable /\ Dev!TrialIsBounded)
<1>1. IInv => Dev!AckedPagesHold
  <2>1. IInv => DevP!AckedPagesHold
    BY OtaAssumption, SameAssumption, DevP!TransferAcked DEF IInv, DevP!IInv
  <2> QED BY <2>1 DEF DevP!AckedPagesHold, Dev!AckedPagesHold
<1>2. IInv => Dev!OkIsDurable
  <2>1. IInv => DevP!OkIsDurable
    BY DEF IInv, DevP!IInv, DevP!DurableInv, DevP!Recorded, DevP!OkIsDurable
  <2> QED BY <2>1 DEF DevP!OkIsDurable, Dev!OkIsDurable, Dev!Holds, DevP!Holds
<1>3. IInv => Dev!TrialIsBounded
  BY DEF IInv, DevP!IInv, DevP!TrialInv, DevP!TrialIsBounded, Dev!TrialIsBounded
<1> QED BY <1>1, <1>2, <1>3, OtaInvariant, PTL

-----------------------------------------------------------------------------
(* An undisturbed transfer.                                                *)

\* The device restarts for the update, or is in its window for it, which stays
\* open longer than the bridge takes.
Waiting == (pc = "boot" /\ cfg.mode = "OTA") \/ (pc = "window" /\ status # "NORMAL")

\* The device is in the transfer of this image, n chunks acknowledged.
Taking(n) ==
  /\ ota.image = sent /\ ota.size = Size[sent] /\ ota.seq = n
  /\ Len(acked) = n /\ \A k \in 1..n : acked[k] = sent
Active(n) == pc = "active" /\ Taking(n)

\* The places of a transfer that nothing disturbs, one after the other.
Opening == bpc = "open" /\ pc = "running" /\ req = <<>> /\ down = <<>>
Announcing == /\ bpc = "ready" /\ pc = "running" /\ up = <<>>
              /\ \/ req = <<>> /\ down = <<"AVAILABLE", fw.version, fw.size>>
                 \/ req = <<fw.version, fw.size>> /\ down = <<>>
Ready == bpc = "ready" /\ Waiting /\ down = <<>> /\ up = <<<<"READY", fw.version>>>>
Pausing == bpc = "pause" /\ Waiting /\ down = <<>> /\ up = <<>>
Beginning == /\ bpc = "begun" /\ pc = "window"
             /\ down = <<"BEGIN", sent, Size[sent]>> /\ up = <<>>
Begun == bpc = "begun" /\ Active(0) /\ down = <<>> /\ up = <<<<"BEGIN_ACK">>>>
Reading == bpc = "read" /\ Active(seq) /\ down = <<>> /\ up = <<>> /\ seq <= Size[sent]
Sending == /\ bpc = "chunk" /\ Active(seq) /\ seq < Size[sent]
           /\ down = <<"CHUNK", seq, sent>> /\ up = <<>>
Programming == /\ bpc = "chunk" /\ pc = "programming" /\ Taking(seq)
               /\ ota.chunk = sent /\ seq < Size[sent] /\ down = <<>> /\ up = <<>>
Acked == /\ bpc = "chunk" /\ Active(seq + 1) /\ seq < Size[sent]
         /\ down = <<>> /\ up = <<<<"CHUNK_ACK", seq>>>>
Ending == bpc = "ended" /\ Active(Size[sent]) /\ down = <<"END">> /\ up = <<>>
Committing == bpc = "ended" /\ pc = "committed" /\ down = <<>> /\ up = <<>>
Reporting == bpc = "ended" /\ down = <<>> /\ up # <<>> /\ Head(up) = <<"RESULT", "ok">>

InOrder ==
  \/ /\ cfg # NoConfig
     /\ \/ Opening \/ Announcing \/ Ready \/ Pausing \/ Beginning \/ Begun
        \/ Reading \/ Sending \/ Programming \/ Acked \/ Ending
  \/ Committing \/ Reporting

\* What is staged is what was verified, and the transfer reads it.
Sound ==
  /\ FileIs(fw.crc) /\ fw.size = Size[fw.crc]
  /\ bpc # "open" => handle = "open"
  /\ bpc \in {"begun", "read", "chunk", "ended"} => sent = fw.crc

\* A transfer that met a running application, no fault and no other writer is
\* in one of these places, and has not failed.
CleanInv ==
  /\ clean /\ bpc \in Transfer => InOrder /\ Sound
  /\ verdict = "fail" => ~clean /\ bpc \notin Transfer

\* Without a fault and another writer, a transfer is moved on by the device and
\* by itself only; a VERIFY reads what it finds.
Same ==
  /\ UNCHANGED <<device, req, down, up, bpc, seq, sent, verdict, file, handle>>
  /\ UNCHANGED <<fw.size, fw.crc, fw.version>>

LEMMA CleanSteps ==
  ASSUME TypeOK, Next, bpc \in Transfer, clean'
  PROVE  DeviceReceives \/ DeviceStep \/ TransferStep \/ Skips \/ Same
<1>1. ~DeviceCut /\ ~LosesDown /\ ~LosesUp /\ ~BridgeCut
  BY Zenon DEF DeviceCut, LosesDown, LosesUp, BridgeCut, Fault
<1>2. ~UserSends /\ ~PollOnly /\ ~Restores /\ ~BridgeStarts
  BY PollChanges DEF UserSends, Restores, BridgeStarts, Transfer
<1>3. PollBlocked \/ RecoverySkipped \/ Promotes => Same
  BY PollChanges DEF Same, stage
<1>4. UserStep => Same
  <2>1. SUFFICES ASSUME UserStep PROVE Same
    OBVIOUS
  <2>2. Verifies
    BY <2>1, UserChanges
  <2>3. PICK v \in {Verified, FALSE} : fw' = [fw EXCEPT !.staged = v]
    BY <2>2 DEF Verifies
  <2>4. UNCHANGED <<fw.size, fw.crc, fw.version>>
    BY <2>3 DEF TypeOK
  <2> QED BY <2>2, <2>4 DEF Verifies, Same
<1> QED BY <1>1, <1>2, <1>3, <1>4 DEF Next, PollStep, PollOnly

\* A step of the device leaves the bridge alone.
LEMMA DeviceStays ==
  ASSUME DeviceReceives \/ DeviceStep
  PROVE  UNCHANGED <<bpc, seq, sent, verdict, file, fw, handle>>
  BY DEF DeviceReceives, DeviceStep, bridge, stage

LEMMA SameKeeps ==
  ASSUME Same, InOrder, Sound
  PROVE  InOrder' /\ Sound'
<1> USE DEF Same, device
<1>1. Sound'
  BY DEF Sound, FileIs
<1>2. /\ Opening => Opening'
      /\ Announcing => Announcing'
      /\ Ready => Ready'
      /\ Pausing => Pausing'
  BY DEF Opening, Announcing, Ready, Pausing, Waiting
<1>3. /\ Beginning => Beginning'
      /\ Begun => Begun'
      /\ Reading => Reading'
      /\ Sending => Sending'
      /\ Programming => Programming'
      /\ Acked => Acked'
      /\ Ending => Ending'
      /\ Committing => Committing'
      /\ Reporting => Reporting'
  BY DEF Beginning, Begun, Reading, Sending, Programming, Acked, Ending, Committing,
         Reporting, Active, Taking
<1>4. cfg' = cfg
  OBVIOUS
<1> HIDE DEF Same, device
<1> QED BY <1>1, <1>2, <1>3, <1>4 DEF InOrder

\* Where the processor is when it does what.
LEMMA Guards ==
  /\ Dev!BootDecision => pc = "boot"
  /\ Dev!WindowCloses \/ Dev!WindowPolled => pc = "window"
  /\ Dev!SecondWindowCloses => pc = "window2"
  /\ \A i, n : Dev!ProcessOtaBegin(i, n) => pc \in {"window", "window2", "maint"}
  /\ Dev!OtaBeginRefused => pc \in {"window", "window2", "maint"}
  /\ \A s, i : Dev!EraseChunkPage(s, i) => pc = "active" /\ Dev!ChunkAccepted(s)
  /\ \A s : Dev!EraseChunkPageFails(s) => pc = "active"
  /\ Dev!OtaEndShort \/ Dev!OtaEndCorrupt \/ Dev!OtaEndCommits
       \/ Dev!OtaEndUnrecorded \/ Dev!OtaAborted => pc = "active"
  /\ Dev!ProgramChunk \/ Dev!ProgramChunkFails => pc = "programming"
  /\ Dev!SendResultAndJump => pc = "committed"
  /\ Dev!AfterError => pc = "error"
  /\ Dev!WatchdogReset => pc = "halt"
  /\ Dev!AppDies \/ Dev!ConfirmClearsAttempts => pc = "app"
  /\ Dev!ConfirmWrites => pc = "confirming"
<1>1. /\ \A i, n : Dev!ProcessOtaBegin(i, n) => pc \in {"window", "window2", "maint"}
      /\ Dev!OtaBeginRefused => pc \in {"window", "window2", "maint"}
      /\ \A s, i : Dev!EraseChunkPage(s, i) => pc = "active" /\ Dev!ChunkAccepted(s)
      /\ \A s : Dev!EraseChunkPageFails(s) => pc = "active"
  BY Zenon DEF Dev!ProcessOtaBegin, Dev!OtaBeginRefused, Dev!EraseChunkPage, Dev!EraseChunkPageFails
<1>2. /\ Dev!BootDecision => pc = "boot"
      /\ Dev!WindowCloses \/ Dev!WindowPolled => pc = "window"
      /\ Dev!SecondWindowCloses => pc = "window2"
  BY Zenon DEF Dev!BootDecision, Dev!WindowCloses, Dev!WindowPolled, Dev!SecondWindowCloses
<1>3. Dev!OtaEndShort \/ Dev!OtaEndCorrupt \/ Dev!OtaEndCommits
        \/ Dev!OtaEndUnrecorded \/ Dev!OtaAborted => pc = "active"
  BY Zenon DEF Dev!OtaEndShort, Dev!OtaEndCorrupt, Dev!OtaEndCommits,
               Dev!OtaEndUnrecorded, Dev!OtaAborted
<1>4. /\ Dev!ProgramChunk \/ Dev!ProgramChunkFails => pc = "programming"
      /\ Dev!SendResultAndJump => pc = "committed"
      /\ Dev!AfterError => pc = "error"
      /\ Dev!WatchdogReset => pc = "halt"
      /\ Dev!AppDies \/ Dev!ConfirmClearsAttempts => pc = "app"
      /\ Dev!ConfirmWrites => pc = "confirming"
  BY Zenon DEF Dev!ProgramChunk, Dev!ProgramChunkFails, Dev!SendResultAndJump,
               Dev!AfterError, Dev!WatchdogReset, Dev!AppDies,
               Dev!ConfirmClearsAttempts, Dev!ConfirmWrites
<1> QED BY <1>1, <1>2, <1>3, <1>4

\* What the device does with no fault, by place.
LEMMA DeviceDoes ==
  ASSUME TypeOK, FrameInv, DeviceReceives \/ DeviceStep, clean'
  PROVE  /\ down = <<>> => down' = <<>>
         /\ pc = "running" =>
              \/ down # <<>> /\ down' = <<>> /\ AppReceives
              \/ RequestsUpdate /\ down' = down
         /\ pc = "boot" =>
              \/ down # <<>> /\ down' = <<>> /\ Unheard
              \/ Dev!BootDecision /\ up' = up /\ down' = down
         /\ pc = "window" =>
              \/ /\ down # <<>> /\ down' = <<>>
                 /\ ReceivesBegin \/ WindowReceivesCheck \/ WindowReceivesOther
              \/ down = <<>> /\ down' = <<>> /\ WindowTimesOut
         /\ pc = "active" =>
              \/ /\ down # <<>> /\ down' = <<>>
                 /\ \/ ReceivesChunk \/ RefusesChunk \/ ReceivesEnd \/ ReceivesAbort
                    \/ ActiveReceivesOther
              \/ bpc = "off"
         /\ pc = "programming" => Dev!ProgramChunk /\ Reply(<<"CHUNK_ACK", ota.seq>>)
                                  /\ down' = down
         /\ pc = "committed" =>
              \/ down # <<>> /\ down' = <<>> /\ Unheard
              \/ SendsResult /\ down' = down
<1>0. ~Fault
  BY Zenon DEF Fault
<1>1. CASE DeviceReceives
  <2>1. down # <<>> /\ down' = <<>>
    BY <1>1 DEF DeviceReceives
  <2>2. \/ AppReceives \/ ReceivesBegin \/ WindowReceivesCheck \/ WindowReceivesOther
        \/ MaintReceives \/ ReceivesChunk \/ RefusesChunk
        \/ ReceivesEnd \/ ReceivesAbort \/ ActiveReceivesOther \/ Unheard
    BY <1>0, <1>1 DEF DeviceReceives, EraseFault
  <2>3. /\ AppReceives => pc \in {"app", "confirming", "running"}
        /\ MaintReceives => pc = "maint"
        /\ RefusesChunk \/ ActiveReceivesOther => pc = "active"
        /\ Unheard => pc \in {"boot", "error", "committed", "halt"}
    BY DEF AppReceives, MaintReceives, RefusesChunk, ActiveReceivesOther, Unheard
  <2>4. ReceivesBegin => pc \in {"window", "window2", "maint"}
    BY Guards DEF ReceivesBegin
  <2>5. /\ WindowReceivesCheck => pc = "window"
        /\ WindowReceivesOther => pc \in {"window", "window2"}
        /\ ReceivesChunk \/ ReceivesEnd \/ ReceivesAbort => pc = "active"
    BY Guards
    DEF WindowReceivesCheck, WindowReceivesOther, ReceivesChunk, ReceivesEnd,
        ReceivesAbort
  <2> QED BY <2>1, <2>2, <2>3, <2>4, <2>5
<1>2. CASE DeviceStep
  <2>1. down' = down
    BY <1>2 DEF DeviceStep
  <2>2. \/ down = <<>> /\ (WindowTimesOut \/ LongWaitTimesOut)
        \/ Dev!ProgramChunk /\ Reply(<<"CHUNK_ACK", ota.seq>>)
        \/ Runs \/ SendsResult \/ Confirms \/ RequestsUpdate
    BY <1>0, <1>2 DEF DeviceStep, Programs
  <2>3. /\ WindowTimesOut => pc = "window"
        /\ LongWaitTimesOut => bpc = "off" /\ pc \in {"window2", "active"}
        /\ SendsResult => pc = "committed"
        /\ Confirms => pc \in {"app", "confirming"}
        /\ RequestsUpdate => pc = "running"
    BY Guards
    DEF WindowTimesOut, LongWaitTimesOut, SendsResult, Confirms, RequestsUpdate
  <2>4. Runs => \/ Dev!BootDecision /\ up' = up
                \/ pc \in {"error", "halt", "app"}
    BY Guards DEF Runs
  <2> QED BY <2>1, <2>2, <2>3, <2>4, Guards
<1> QED BY <1>1, <1>2

\* The record of a device that waits for the update.
LEMMA RequestedRecord ==
  ASSUME OtaAssumption, DevP!TypeOK, cfg # NoConfig, NEW n \in 0..AppPages
  PROVE  Dev!RequestUpdate(cfg, n).mode = "OTA" /\ Dev!RequestUpdate(cfg, n) # NoConfig
<1>1. cfg \in DevP!ConfigType /\ n \in 0..AppPages + 1
  BY DEF DevP!TypeOK, OtaAssumption, Dev!BootAssumption
<1>2. DevP!RequestUpdate(cfg, n) \in DevP!ConfigType
  BY <1>1, SameAssumption, DevP!TransitionTypes
<1>3. DevP!RequestUpdate(cfg, n) # NoConfig
  BY <1>2, SameAssumption DEF DevP!BootAssumption
<1>4. Dev!RequestUpdate(cfg, n) = DevP!RequestUpdate(cfg, n)
  BY DEF Dev!RequestUpdate, DevP!RequestUpdate
<1>5. Dev!RequestUpdate(cfg, n).mode = "OTA"
  BY <1>1, Zenon DEF Dev!RequestUpdate, DevP!ConfigType
<1> QED BY <1>3, <1>4, <1>5

\* The device does its part: it answers every frame of the transfer as the
\* bridge expects, and does not leave for anything else.
LEMMA DeviceInOrder ==
  ASSUME OtaAssumption, IInv, bpc \in Transfer, InOrder, Sound, clean',
         DeviceReceives \/ DeviceStep
  PROVE  InOrder'
<1>0. /\ TypeOK /\ FrameInv /\ DevP!TypeOK /\ DevP!TransferInv /\ AppPages \in Nat
      /\ fw.size \in 0..AppPages /\ fw.crc \in Image
      /\ bpc \in {"begun", "read", "chunk", "ended"} =>
           sent \in Image /\ Size[sent] \in 1..AppPages
      /\ ~Fault
  <2>1. TypeOK /\ FrameInv /\ DevP!TypeOK /\ DevP!TransferInv
    BY DEF IInv, SafetyInv, DevP!IInv
  <2>2. fw.size \in 0..AppPages /\ fw.crc \in Image
    BY <2>1 DEF TypeOK, Sound, FileIs
  <2>3. ~Fault
    BY Zenon DEF Fault
  <2> QED BY <2>1, <2>2, <2>3, WholeTypes DEF Sound
<1>1. UNCHANGED <<bpc, seq, sent, verdict, fw>>
  BY DeviceStays
<1>2. CASE cfg # NoConfig /\ Announcing
  <2>1. CASE down # <<>> /\ down' = <<>> /\ AppReceives
    BY <1>1, <1>2, <2>1 DEF Announcing, AppReceives, InOrder, device
  <2>2. CASE RequestsUpdate /\ down' = down
    <3>1. req = <<fw.version, fw.size>> /\ down = <<>> /\ req' = <<>>
      BY <1>2, <2>2 DEF Announcing, RequestsUpdate
    <3>2. Dev!AppRequestsUpdate(fw.size) /\ Reply(<<"READY", fw.version>>)
      BY <1>0, <1>2, <2>2, <3>1 DEF RequestsUpdate
    <3>3. /\ pc' = "boot" /\ cfg' = Dev!RequestUpdate(cfg, fw.size)
          /\ up' = <<<<"READY", fw.version>>>>
      BY <1>2, <3>1, <3>2
      DEF Announcing, Dev!AppRequestsUpdate, Dev!Written, Dev!Restart, Reply
    <3>4. cfg'.mode = "OTA" /\ cfg' # NoConfig
      BY <1>0, <1>2, <3>3, RequestedRecord
    <3> QED BY <1>1, <1>2, <2>2, <3>1, <3>3, <3>4
        DEF Announcing, InOrder, Ready, Waiting
  <2> QED BY <1>0, <1>2, <2>1, <2>2, DeviceDoes DEF Announcing
<1>11. CASE Opening
  BY <1>0, <1>11, DeviceDoes DEF Opening, RequestsUpdate
<1>3. CASE cfg # NoConfig /\ (Ready \/ Pausing)
  <2>1. CASE pc = "boot" /\ cfg.mode = "OTA"
    <3>1. Dev!BootDecision /\ up' = up /\ down' = down
      BY <1>0, <1>3, <2>1, DeviceDoes DEF Ready, Pausing
    <3>2. pc' = "window" /\ status' # "NORMAL" /\ cfg' = cfg
      BY <1>3, <2>1, <3>1 DEF Dev!BootDecision, Dev!Decision
    <3> QED BY <1>1, <1>3, <3>1, <3>2 DEF Ready, Pausing, Waiting, InOrder
  <2>2. CASE pc = "window" /\ status # "NORMAL"
    <3>1. WindowTimesOut
      BY <1>0, <1>3, <2>2, DeviceDoes DEF Ready, Pausing
    <3> QED BY <1>3, <2>2, <3>1 DEF WindowTimesOut, Ready, Pausing
  <2> QED BY <1>3, <2>1, <2>2 DEF Ready, Pausing, Waiting
<1>4. CASE cfg # NoConfig /\ Beginning
  <2>1. /\ down' = <<>>
        /\ ReceivesBegin \/ WindowReceivesCheck \/ WindowReceivesOther
    BY <1>0, <1>4, DeviceDoes DEF Beginning
  <2>2. ReceivesBegin
    BY <1>4, <2>1 DEF Beginning, WindowReceivesCheck, WindowReceivesOther
  <2>3. Dev!ProcessOtaBegin(sent, Size[sent]) /\ Reply(<<"BEGIN_ACK">>)
    BY <1>0, <1>4, <2>2 DEF Beginning, ReceivesBegin
  <2>4. /\ pc' = "active" /\ ota'.image = sent /\ ota'.seq = 0 /\ cfg' = cfg
        /\ ota'.size = Size[sent] /\ acked' = <<>> /\ up' = <<<<"BEGIN_ACK">>>>
    BY <1>4, <2>3 DEF Beginning, Dev!ProcessOtaBegin, Reply
  <2>5. (Len(acked) = 0 /\ \A k \in 1..0 : acked[k] = sent)'
    BY <2>4
  <2>6. Active(0)'
    BY <1>1, <2>4, <2>5 DEF Active, Taking
  <2> QED BY <1>1, <1>4, <2>1, <2>4, <2>6 DEF Beginning, Begun, InOrder
<1>5. CASE Begun \/ Reading \/ Acked
  BY <1>0, <1>5, DeviceDoes DEF Begun, Reading, Acked, Active
<1>6. CASE cfg # NoConfig /\ Sending
  <2>1. /\ down' = <<>>
        /\ \/ ReceivesChunk \/ RefusesChunk \/ ReceivesEnd \/ ReceivesAbort
           \/ ActiveReceivesOther
    BY <1>0, <1>6, DeviceDoes DEF Sending, Active
  <2>2. Dev!ChunkAccepted(seq)
    <3>1. seq \in 0..AppPages /\ seq < Size[sent] /\ ota.seq = seq /\ ota.size = Size[sent]
      BY <1>0, <1>6 DEF Sending, Active, Taking, TypeOK
    <3> QED BY <1>0, <1>6, <3>1 DEF Sending, Dev!ChunkAccepted
  <2>3. ReceivesChunk
    BY <1>6, <2>1, <2>2
    DEF Sending, RefusesChunk, ReceivesEnd, ReceivesAbort, ActiveReceivesOther
  <2>4. /\ pc' = "programming" /\ ota'.image = sent /\ ota'.seq = seq
        /\ ota'.size = Size[sent] /\ ota'.chunk = sent
        /\ cfg' = cfg /\ up' = <<>> /\ acked' = acked
    BY <1>0, <1>6, <2>3, OtaFields
    DEF Sending, Active, Taking, ReceivesChunk, Dev!EraseChunkPage
  <2>5. Taking(seq)'
    BY <1>1, <1>6, <2>4 DEF Sending, Active, Taking
  <2> QED BY <1>1, <1>6, <2>1, <2>4, <2>5 DEF Sending, Programming, InOrder
<1>7. CASE cfg # NoConfig /\ Programming
  <2>1. Dev!ProgramChunk /\ Reply(<<"CHUNK_ACK", ota.seq>>) /\ down' = down
    BY <1>0, <1>7, DeviceDoes DEF Programming
  <2>2. /\ pc' = "active" /\ ota'.image = sent /\ ota'.seq = seq + 1
        /\ ota'.size = Size[sent] /\ acked' = Append(acked, sent)
        /\ cfg' = cfg /\ up' = <<<<"CHUNK_ACK", seq>>>>
    BY <1>0, <1>7, <2>1, OtaFields DEF Programming, Taking, Dev!ProgramChunk, Reply
  <2>3. (Len(acked) = seq + 1 /\ \A k \in 1..seq + 1 : acked[k] = sent)'
    <3>1. acked \in Seq(Image) /\ Len(acked) = seq /\ \A k \in 1..seq : acked[k] = sent
      BY <1>0, <1>7 DEF Programming, Taking, DevP!TypeOK
    <3>2. seq \in Nat /\ sent \in Image
      BY <1>0, <1>7 DEF TypeOK, Programming
    <3>3. Len(Append(acked, sent)) = seq + 1
      BY <3>1, <3>2
    <3>4. ASSUME NEW k \in 1..seq + 1 PROVE Append(acked, sent)[k] = sent
      BY <3>1, <3>2
    <3> QED BY <1>1, <2>2, <3>3, <3>4
  <2>4. Active(seq + 1)'
    BY <1>1, <2>2, <2>3 DEF Active, Taking
  <2> QED BY <1>1, <1>7, <2>1, <2>2, <2>4 DEF Programming, Acked, InOrder
<1>8. CASE cfg # NoConfig /\ Ending
  <2>1. /\ down' = <<>>
        /\ \/ ReceivesChunk \/ RefusesChunk \/ ReceivesEnd \/ ReceivesAbort
           \/ ActiveReceivesOther
    BY <1>0, <1>8, DeviceDoes DEF Ending, Active
  <2>2. ReceivesEnd
    BY <1>8, <2>1
    DEF Ending, ReceivesChunk, RefusesChunk, ReceivesAbort, ActiveReceivesOther
  <2>3. Dev!Complete
    <3>1. /\ Len(acked) = Size[sent] /\ ota.image = sent /\ ota.size = Size[sent]
          /\ \A p \in 0..Size[sent] - 1 : region[p] = acked[p + 1]
          /\ \A k \in 1..Size[sent] : acked[k] = sent
      BY <1>0, <1>8 DEF Ending, Active, Taking, DevP!TransferInv
    <3>2. \A p \in 0..Size[sent] - 1 : p + 1 \in 1..Size[sent]
      BY <1>0, <1>8 DEF Ending
    <3>3. Dev!Holds(sent)
      BY <3>1, <3>2 DEF Dev!Holds
    <3> QED BY <1>0, <1>8, <3>1, <3>3 DEF Ending, Dev!Complete
  <2>4. ~Dev!OtaEndShort /\ ~Dev!OtaEndCorrupt
    BY <1>8, <2>3 DEF Ending, Active, Taking, Dev!OtaEndShort, Dev!OtaEndCorrupt
  <2>5. Dev!OtaEndCommits /\ up' = up
    BY <1>0, <1>8, <2>2, <2>4 DEF ReceivesEnd
  <2> QED BY <1>1, <1>8, <2>1, <2>5 DEF Ending, Committing, InOrder, Dev!OtaEndCommits
<1>9. CASE Committing
  <2>1. SendsResult /\ down' = down
    BY <1>0, <1>9, DeviceDoes DEF Committing
  <2>2. up' = <<<<"RESULT", "ok">>>>
    BY <1>9, <2>1 DEF Committing, SendsResult, Reply
  <2> QED BY <1>1, <1>9, <2>1, <2>2 DEF Committing, Reporting, InOrder
<1>10. CASE Reporting
  <2>1. down' = <<>>
    BY <1>0, <1>10, DeviceDoes DEF Reporting
  <2>2. up' = up \/ \E f : Answer(f) /\ up' = Append(up, f)
    BY <1>0, DeviceAnswers
  <2>3. up' # <<>> /\ Head(up') = Head(up)
    <3>1. ASSUME NEW f, Answer(f), up' = Append(up, f)
          PROVE  up' # <<>> /\ Head(up') = Head(up)
      <4>1. f \in UpFrame /\ up \in Seq(UpFrame) /\ up # <<>>
        BY <1>0, <1>10, <3>1 DEF Answer, FrameInv, Reporting
      <4> QED BY <3>1, <4>1, Appended
    <3> QED BY <1>10, <2>2, <3>1 DEF Reporting
  <2> QED BY <1>1, <1>10, <2>1, <2>3 DEF Reporting, InOrder
<1> QED
  BY <1>2, <1>11, <1>3, <1>4, <1>5, <1>6, <1>7, <1>8, <1>9, <1>10 DEF InOrder

\* So does the bridge: it takes each answer for what it is, and waits for it
\* as long as the device is busy.
LEMMA TransferInOrder ==
  ASSUME OtaAssumption, IInv, bpc \in Transfer, InOrder, Sound, TransferStep \/ Skips
  PROVE  /\ verdict' \in {verdict, "ok"}
         /\ bpc' \in Transfer => InOrder' /\ Sound'
<1> USE DEF Keeps, stage
<1>0. /\ TypeOK /\ FrameInv /\ AppPages \in Nat
      /\ fw.crc \in Image /\ file = Whole(fw.crc) /\ Len(file) = Size[fw.crc]
      /\ Size[fw.crc] \in 1..AppPages /\ \A k \in 1..Size[fw.crc] : file[k] = fw.crc
  <2>1. TypeOK /\ FrameInv
    BY DEF IInv, SafetyInv
  <2>2. fw.crc \in Image /\ file = Whole(fw.crc)
    BY DEF Sound, FileIs
  <2> QED BY <2>1, <2>2, WholeTypes
<1>1. UNCHANGED device /\ UNCHANGED req
  BY DEF TransferStep, Skips
<1>2. \A f : up = <<f>> => Head(up) = f /\ Tail(up) = <<>> /\ up # <<>>
  OBVIOUS
<1>13. ASSUME UNCHANGED <<file, fw, handle, sent>>, bpc # "open",
             bpc \in {"begun", "read", "chunk", "ended"}
               \/ bpc' \notin {"begun", "read", "chunk", "ended"}
      PROVE  Sound'
  BY <1>13 DEF Sound, FileIs
<1>11. CASE cfg # NoConfig /\ Opening
  <2>1. Announces
    BY <1>11
    DEF Opening, TransferStep, Skips, ReadyArrives, SendsBegin, BeginAcked,
        ReadsChunk, ChunkAcked, ChunkRetried, ResultArrives, AnswerMissing
  <2>2. file # <<>>
    BY <1>0
  <2>3. /\ bpc' = "ready" /\ down' = <<"AVAILABLE", fw.version, fw.size>> /\ up' = <<>>
        /\ handle' = "open" /\ UNCHANGED <<file, fw, sent, verdict>>
    BY <2>1, <2>2 DEF Announces, Announce
  <2>4. Sound'
    BY <2>3 DEF Sound, FileIs
  <2> QED BY <1>1, <1>11, <2>3, <2>4 DEF Opening, Announcing, InOrder, device
<1>3. CASE cfg # NoConfig /\ (Announcing \/ Beginning \/ Sending \/ Programming \/ Ending)
  <2>1. up = <<>> /\ bpc \notin {"open", "pause", "read"} /\ ~NoAnswer
    <3>1. CASE Announcing
      <4>1. \A v, n : <<v, n>> # <<>> /\ <<"AVAILABLE", v, n>> # <<>>
        OBVIOUS
      <4>2. req # <<>> \/ down # <<>>
        BY <3>1, <4>1 DEF Announcing
      <4> QED BY <3>1, <4>2 DEF Announcing, NoAnswer, Refused, TimedOut, Quiet, Busy
    <3>2. CASE Beginning \/ Sending \/ Programming \/ Ending
      BY <3>2
      DEF Beginning, Sending, Programming, Ending, NoAnswer, Refused, TimedOut,
          Quiet, Busy
    <3> QED BY <1>3, <3>1, <3>2
  <2> QED BY <2>1
      DEF TransferStep, Skips, Announces, ReadyArrives, Answered, SendsBegin,
          BeginAcked, ReadsChunk, ChunkAcked, ChunkRetried, ResultArrives,
          AnswerMissing
<1>4. CASE cfg # NoConfig /\ Ready
  <2>1. ReadyArrives
    BY <1>2, <1>4
    DEF Ready, TransferStep, Skips, Announces, SendsBegin, BeginAcked, ReadsChunk,
        ChunkAcked, Awaited, ChunkRetried, ResultArrives, AnswerMissing, NoAnswer,
        Refused, TimedOut, Quiet
  <2>2. /\ bpc' = "pause" /\ up' = <<>> /\ down' = down
        /\ UNCHANGED <<sent, verdict, file, fw, handle>>
    BY <1>0, <1>2, <1>4, <2>1 DEF Ready, ReadyArrives, Answered
  <2>3. Sound'
    BY <1>4, <1>13, <2>2 DEF Ready
  <2> QED BY <1>1, <1>4, <2>2, <2>3 DEF Ready, Pausing, Waiting, InOrder, device
<1>5. CASE cfg # NoConfig /\ Pausing
  <2>1. SendsBegin
    BY <1>5
    DEF Pausing, TransferStep, Skips, Announces, ReadyArrives, BeginAcked, ReadsChunk,
        ChunkAcked, ChunkRetried, ResultArrives, AnswerMissing
  <2>2. /\ pc = "window" /\ bpc' = "begun" /\ up' = <<>>
        /\ down' = <<"BEGIN", fw.crc, fw.size>> /\ sent' = fw.crc
        /\ UNCHANGED <<verdict, file, fw, handle>>
    BY <1>0, <1>5, <2>1 DEF Pausing, Waiting, SendsBegin
  <2>3. Sound'
    BY <1>5, <2>2 DEF Pausing, Sound, FileIs
  <2>4. down' = <<"BEGIN", sent', Size[sent']>>
    BY <2>2 DEF Sound
  <2> QED BY <1>1, <1>5, <2>2, <2>3, <2>4 DEF Beginning, InOrder, device
<1>6. CASE cfg # NoConfig /\ Begun
  <2>1. BeginAcked
    BY <1>2, <1>6
    DEF Begun, TransferStep, Skips, Announces, ReadyArrives, SendsBegin, ReadsChunk,
        ChunkAcked, Awaited, ChunkRetried, ResultArrives, AnswerMissing, NoAnswer,
        Refused, TimedOut, Quiet
  <2>2. /\ bpc' = "read" /\ up' = <<>> /\ seq = 0 /\ seq' = 0 /\ down' = down
        /\ UNCHANGED <<sent, verdict, file, fw, handle>>
    BY <1>0, <1>2, <1>6, <2>1 DEF Begun, BeginAcked, Answered, FrameInv
  <2>3. Sound' /\ 0 <= Size[sent]
    BY <1>0, <1>6, <1>13, <2>2 DEF Begun, Sound
  <2> QED BY <1>1, <1>6, <2>2, <2>3 DEF Begun, Reading, Active, Taking, InOrder, device
<1>12. CASE cfg # NoConfig /\ Reading
  <2>1. ReadsChunk
    BY <1>12
    DEF Reading, TransferStep, Skips, Announces, ReadyArrives, SendsBegin, BeginAcked,
        ChunkAcked, ChunkRetried, ResultArrives, AnswerMissing
  <2>2. /\ sent = fw.crc /\ fw.size = Size[sent] /\ handle = "open"
        /\ seq \in 0..AppPages /\ seq <= Size[sent] /\ Size[sent] \in 1..AppPages
        /\ bpc = "read" /\ up = <<>>
    BY <1>0, <1>12 DEF Reading, Sound, TypeOK
  <2>3. CASE seq < Size[sent]
    <3>1. /\ bpc' = "chunk" /\ down' = <<"CHUNK", seq, file[seq + 1]>> /\ up' = <<>>
          /\ UNCHANGED <<seq, sent, verdict, file, fw, handle>>
      BY <1>0, <2>1, <2>2, <2>3 DEF ReadsChunk, SendsChunk
    <3>2. file[seq + 1] = sent
      <4>1. seq + 1 \in 1..Size[fw.crc]
        BY <1>0, <2>2, <2>3
      <4> QED BY <1>0, <2>2, <4>1
    <3>3. Sound'
      BY <1>13, <2>2, <3>1
    <3> QED BY <1>1, <1>12, <2>3, <3>1, <3>2, <3>3
        DEF Reading, Sending, Active, Taking, InOrder, device
  <2>4. CASE ~(seq < Size[sent])
    <3>1. seq = Size[sent]
      BY <1>0, <2>2, <2>4
    <3>2. /\ bpc' = "ended" /\ down' = <<"END">> /\ up' = <<>>
          /\ UNCHANGED <<seq, sent, verdict, file, fw, handle>>
      BY <1>0, <2>1, <2>2, <2>4 DEF ReadsChunk
    <3>3. Sound'
      BY <1>13, <2>2, <3>2
    <3> QED BY <1>1, <1>12, <3>1, <3>2, <3>3
        DEF Reading, Ending, Active, Taking, InOrder, device
  <2> QED BY <2>3, <2>4
<1>7. CASE cfg # NoConfig /\ Acked
  <2>1. ChunkAcked
    BY <1>2, <1>7
    DEF Acked, TransferStep, Skips, Announces, ReadyArrives, SendsBegin, BeginAcked,
        ReadsChunk, Awaited, ChunkRetried, ResultArrives, AnswerMissing, NoAnswer,
        Refused, TimedOut, Quiet
  <2>2. /\ up' = <<>> /\ bpc' = "read" /\ seq' = seq + 1 /\ down' = down
        /\ UNCHANGED <<sent, verdict, file, fw, handle>>
    BY <1>0, <1>2, <1>7, <2>1 DEF Acked, ChunkAcked, Answered
  <2>3. seq + 1 <= Size[sent]
    BY <1>0, <1>7 DEF Acked, TypeOK, Sound
  <2>4. Sound'
    BY <1>7, <1>13, <2>2 DEF Acked
  <2> QED BY <1>1, <1>7, <2>2, <2>3, <2>4 DEF Acked, Reading, Active, Taking, InOrder, device
<1>8. CASE Committing
  BY <1>8
  DEF Committing, TransferStep, Skips, Announces, ReadyArrives, Answered, SendsBegin,
      BeginAcked, ReadsChunk, ChunkAcked, ChunkRetried, ResultArrives, AnswerMissing,
      NoAnswer, Refused, TimedOut, Quiet, Busy
<1>9. CASE Reporting
  <2>1. ResultArrives
    BY <1>9
    DEF Reporting, TransferStep, Skips, Announces, ReadyArrives, SendsBegin, BeginAcked,
        ReadsChunk, ChunkAcked, Awaited, ChunkRetried, AnswerMissing, NoAnswer, Refused,
        TimedOut, Quiet
  <2>2. bpc' = "idle" /\ verdict' = "ok"
    BY <1>9, <2>1 DEF Reporting, ResultArrives, Returns
  <2> QED BY <2>2 DEF Transfer
<1> QED
  BY <1>11, <1>3, <1>4, <1>5, <1>6, <1>12, <1>7, <1>8, <1>9 DEF InOrder

\* How a transfer begins, and how it fails.
LEMMA Verdicts ==
  ASSUME TypeOK, Next
  PROVE  /\ bpc \notin Transfer =>
              \/ verdict' = "none" /\ (clean' => InOrder' /\ Sound')
              \/ bpc' \notin Transfer /\ verdict' \in {verdict, "none"}
                   /\ (clean' => clean)
         /\ bpc \in Transfer =>
              /\ clean' => clean
              /\ verdict' \notin {verdict, "ok", "none"} => bpc' = "idle"
<1> USE DEF Transfer
<1>1. CASE DeviceReceives \/ DeviceStep
  <2>1. UNCHANGED <<bpc, verdict>>
    BY <1>1, DeviceStays
  <2>2. clean' => clean
    <3>1. CASE DeviceReceives
      BY <3>1, Zenon
      DEF DeviceReceives, AppReceives, ReceivesBegin, WindowReceivesCheck,
          WindowReceivesOther, MaintReceives, ReceivesChunk, EraseFault,
          RefusesChunk, ReceivesEnd, ReceivesAbort, ActiveReceivesOther, Unheard,
          Fault, NoFault
    <3>2. CASE DeviceStep
      BY <3>2
      DEF DeviceStep, WindowTimesOut, LongWaitTimesOut, Programs, Runs,
          SendsResult, Confirms, RequestsUpdate, Fault, NoFault
    <3> QED BY <1>1, <3>1, <3>2
  <2> QED BY <2>1, <2>2
<1>2. CASE DeviceCut \/ LosesDown \/ LosesUp
  BY <1>2 DEF DeviceCut, LosesDown, LosesUp, Fault, bridge
<1>3. CASE UserSends
  <2>1. /\ bpc \notin Transfer /\ verdict' = "none" /\ bpc' = "open" /\ down' = <<>>
        /\ UNCHANGED <<device, req, file, fw, sent>>
        /\ FileIs(fw.crc) /\ fw.size = Size[fw.crc]
        /\ clean' = (pc = "running" /\ req = <<>> /\ cfg # NoConfig)
    BY <1>3 DEF UserSends, Begins, Verified, stage
  <2>2. Sound'
    BY <2>1 DEF Sound, FileIs
  <2>3. clean' => InOrder'
    BY <2>1 DEF InOrder, Opening, device
  <2> QED BY <2>1, <2>2, <2>3
<1>4. CASE Restores
  <2>1. bpc \notin Transfer /\ clean' = FALSE
    BY <1>4 DEF Restores
  <2>2. verdict' = "none" \/ (bpc' \notin Transfer /\ verdict' = verdict)
    BY <1>4 DEF Restores, Begins
  <2> QED BY <2>1, <2>2
<1>5. CASE TransferStep
  <2> USE DEF TransferStep, Fails, Returns, Keeps, NoFault
  <2>1. bpc \in Transfer /\ clean' = clean
    BY <1>5
    DEF Announces, ReadyArrives, SendsBegin, BeginAcked, ReadsChunk, ChunkAcked,
        ChunkRetried, ResultArrives, AnswerMissing
  <2>2. verdict' = verdict \/ bpc' = "idle"
    BY <1>5
    DEF Announces, ReadyArrives, SendsBegin, BeginAcked, ReadsChunk, ChunkAcked,
        ChunkRetried, GivesUp, ResultArrives, AnswerMissing
  <2> QED BY <2>1, <2>2
<1>6. CASE Skips
  BY <1>6 DEF Skips, NoFault, bridge
<1>7. CASE PollBlocked \/ RecoverySkipped \/ Promotes
  <2>1. UNCHANGED <<bpc, verdict, clean>>
    BY <1>7, PollChanges
  <2> QED BY <2>1
<1>8. CASE PollOnly \/ BridgeStarts
  <2>1. UNCHANGED <<verdict, clean>> /\ bpc \notin Transfer /\ bpc' \notin Transfer
    BY <1>8, PollChanges
  <2> QED BY <2>1
<1>9. CASE BridgeCut
  BY <1>9 DEF BridgeCut, Fault
<1>10. CASE UserStep
  <2>1. UNCHANGED <<bpc, verdict>>
    BY <1>10, UserChanges
  <2>2. clean' => clean
    <3>1. CASE Verifies
      BY <3>1 DEF Verifies, NoFault
    <3>2. CASE ~Verifies
      BY <1>10, <3>2, UserChanges
    <3> QED BY <3>1, <3>2
  <2> QED BY <2>1, <2>2
<1> QED
  BY <1>1, <1>2, <1>3, <1>4, <1>5, <1>6, <1>7, <1>8, <1>9, <1>10
  DEF Next, PollStep, PollOnly

LEMMA NextClean ==
  ASSUME OtaAssumption, IInv, CleanInv, [Next]_vars
  PROVE  CleanInv'
<1>1. TypeOK /\ FrameInv /\ DevP!TypeOK
  BY DEF IInv, SafetyInv, DevP!IInv
<1>2. CASE UNCHANGED vars
  <2>1. Same /\ UNCHANGED <<bpc, verdict, clean>>
    BY <1>2 DEF vars, bridge, stage, Same
  <2> QED BY <2>1, SameKeeps DEF CleanInv
<1>3. CASE Next /\ bpc \in Transfer
  <2>1. verdict # "fail"
    BY <1>3 DEF CleanInv
  <2>2. CASE ~clean'
    <3>1. verdict' = "fail" => bpc' \notin Transfer
      BY <1>1, <1>3, <2>1, Verdicts DEF Transfer
    <3> QED BY <2>2, <3>1 DEF CleanInv
  <2>3. CASE clean'
    <3>1. InOrder /\ Sound
      BY <1>1, <1>3, <2>3, Verdicts DEF CleanInv
    <3>2. CASE DeviceReceives \/ DeviceStep
      <4>1. UNCHANGED <<bpc, sent, verdict, file, fw, handle>>
        BY <3>2, DeviceStays
      <4>2. Sound'
        BY <3>1, <4>1 DEF Sound, FileIs
      <4>3. InOrder'
        BY <1>3, <2>3, <3>1, <3>2, DeviceInOrder
      <4> QED BY <2>1, <4>1, <4>2, <4>3 DEF CleanInv
    <3>3. CASE TransferStep \/ Skips
      BY <1>3, <2>1, <3>1, <3>3, TransferInOrder DEF CleanInv
    <3>4. CASE Same
      <4>1. verdict' = verdict
        BY <3>4 DEF Same
      <4> QED BY <2>1, <3>1, <3>4, <4>1, SameKeeps DEF CleanInv
    <3> QED BY <1>1, <1>3, <2>3, <3>2, <3>3, <3>4, CleanSteps
  <2> QED BY <2>2, <2>3
<1>4. CASE Next /\ bpc \notin Transfer
  <2>1. CASE verdict' = "none" /\ (clean' => InOrder' /\ Sound')
    BY <2>1 DEF CleanInv
  <2>2. CASE /\ bpc' \notin Transfer /\ verdict' \in {verdict, "none"}
             /\ clean' => clean
    BY <2>2 DEF CleanInv
  <2> QED BY <1>1, <1>4, <2>1, <2>2, Verdicts
<1> QED BY <1>2, <1>3, <1>4

\* A transfer to a running application that no lost frame, flash error, reset or
\* writer of the staging disturbs does not fail: not at READY, BEGIN, a chunk or
\* the result, whatever earlier exchanges left behind (transfer_to_stm32_impl
\* with bootloader_run).
THEOREM CleanSucceeds == Spec => []CleanTransferSucceeds
<1>1. Init => CleanInv
  BY DEF Init, CleanInv, Transfer
<1>2. IInv /\ CleanInv /\ [Next]_vars => CleanInv'
  BY OtaAssumption, NextClean
<1>3. CleanInv => CleanTransferSucceeds
  BY DEF CleanInv, CleanTransferSucceeds
<1> QED BY <1>1, <1>2, <1>3, OtaInvariant, PTL DEF Spec

================================================================================
