----------------------------- MODULE BridgeProofs -----------------------------
(***************************************************************************)
(* Proofs about Bridge, for every set of images, every number of blocks and *)
(* of uploads, downloads and restarts: what the browser's page says of a    *)
(* transfer is true, the files consist of blocks of images, and the line    *)
(* to the device has one user at a time.                                    *)
(***************************************************************************)
EXTENDS Bridge, SequenceTheorems, TLAPS

\* There is at most one task of a web transfer.  While it waits or runs the page
\* says so, no upload is under way, and it runs exactly while it holds the mutex.
WebTransfer ==
  /\ webTasks \in {<<>>, <<"wait">>, <<"run">>}
  /\ webState = "TRANSFERRING" <=> webTasks # <<>>
  /\ web # "idle" => webTasks = <<>>
  /\ mutex = "web" => webTasks = <<"run">>

LEMMA TaskLists ==
  /\ <<"wait">> # <<>> /\ <<"run">> # <<>> /\ <<"wait">> # <<"run">>
  /\ Head(<<"wait">>) = "wait" /\ Head(<<"run">>) = "run" /\ "wait" # "run"
  /\ Tail(<<"wait">>) = <<>> /\ Tail(<<"run">>) = <<>>
  /\ Append(<<>>, "wait") = <<"wait">> /\ <<"run">> \o <<>> = <<"run">>
  /\ Len(<<"wait">>) = 1 /\ Len(<<"run">>) = 1 /\ Len(<<>>) = 0
  OBVIOUS

LEMMA TransferKeeps ==
  ASSUME WebTransfer, Transfer
  PROVE  WebTransfer'
<1>1. PICK t \in {"bt", "web", "poll"} :
        TransferStarts(t) \/ BeginSent(t) \/ ChunkAcked(t) \/ TransferSucceeds(t)
          \/ TransferFails(t)
  BY DEF Transfer
<1>2. CASE TransferStarts(t) \/ BeginSent(t) \/ ChunkAcked(t)
  BY <1>2 DEF TransferStarts, BeginSent, ChunkAcked, Tasks, Elsewhere, WebTransfer
<1>3. ASSUME NEW ok \in BOOLEAN, Returns(t, ok), mutex = t, UNCHANGED web
      PROVE  WebTransfer'
  <2>1. CASE t = "web"
    <3>1. webTasks = <<"run">> /\ WebTaskEnds(ok) /\ mutex' = "free"
      BY <1>3, <2>1 DEF Returns, WebTransfer
    <3>2. webTasks' = <<>> /\ webState' \in {"COMPLETE", "FAILED"}
      BY <3>1, TaskLists DEF WebTaskEnds
    <3> QED BY <1>3, <3>1, <3>2 DEF WebTransfer
  <2>2. CASE t # "web"
    <3>1. UNCHANGED <<webState, webTasks>> /\ mutex' = "free"
      BY <1>3, <2>2 DEF Returns
    <3> QED BY <1>3, <3>1 DEF WebTransfer
  <2> QED BY <2>1, <2>2
<1>4. CASE TransferSucceeds(t)
  BY <1>3, <1>4 DEF TransferSucceeds, Accepted, Elsewhere
<1>5. CASE TransferFails(t)
  BY <1>3, <1>5 DEF TransferFails, Elsewhere
<1> QED BY <1>1, <1>2, <1>4, <1>5

LEMMA BluetoothKeeps ==
  ASSUME WebTransfer, Bluetooth
  PROVE  WebTransfer'
<1>1. CASE BtGetsMutex
  BY <1>1 DEF BtGetsMutex, webVars, WebTransfer
<1>2. CASE ~BtGetsMutex
  <2>1. RestBt
    BY <1>2 DEF Bluetooth, FW, DATA, DataWritten, DataCounted, DataFails, VERIFY, VerifyEnds, SEND, DownloadStarts, DownloadWrites,
         DownloadEnds, DownloadFails, BtMutexTimesOut, SppClosed
  <2> QED BY <2>1 DEF RestBt, webVars, line, WebTransfer
<1> QED BY <1>1, <1>2

LEMMA WebKeeps ==
  ASSUME WebTransfer, Web
  PROVE  WebTransfer'
<1> USE DEF WebTransfer, RestWeb, line
<1>1. ASSUME NEW i \in Image, UploadStarts(i)
      PROVE  WebTransfer'
  <2>1. /\ webState # "TRANSFERRING" /\ webState' \in {"UPLOADING", "FAILED"}
        /\ UNCHANGED <<webTasks, mutex>>
    BY <1>1 DEF UploadStarts, UploadEnds, NotBusy
  <2> QED BY <2>1
<1>2. ASSUME NEW state \in {"FAILED", "STAGED"}, UploadEnds(state), web # "idle",
             UNCHANGED mutex
      PROVE  WebTransfer'
  BY <1>2 DEF UploadEnds
<1>3. CASE UploadArrives \/ UploadWritten \/ UploadCounted
  BY <1>3 DEF UploadArrives, UploadWritten, UploadCounted
<1>4. CASE UploadRefused \/ UploadInterrupted
  BY <1>2, <1>4 DEF UploadRefused, UploadInterrupted, UploadFails, StagingFails
<1>6. CASE UploadVerified
  BY <1>2, <1>6 DEF UploadVerified, UploadFails
<1>7. CASE Starts
  <2>1. /\ web = "idle" /\ webState # "TRANSFERRING" /\ UNCHANGED <<web, mutex>>
        /\ \/ webState' = "TRANSFERRING" /\ webTasks' = Append(webTasks, "wait")
           \/ webState' = "FAILED" /\ UNCHANGED webTasks
    BY <1>7 DEF Starts
  <2>2. webTasks = <<>>
    BY <2>1
  <2>3. CASE webState' = "TRANSFERRING"
    <3>1. webTasks' = <<"wait">>
      BY <2>1, <2>2, <2>3, TaskLists
    <3> QED BY <2>1, <2>2, <2>3, <3>1, TaskLists
  <2>4. CASE webState' = "FAILED"
    BY <2>1, <2>2, <2>4
  <2> QED BY <2>1, <2>3, <2>4
<1>8. CASE WebGetsMutex
  <2>1. /\ webTasks # <<>> /\ Head(webTasks) = "wait"
        /\ webTasks' = <<"run">> \o Tail(webTasks) /\ UNCHANGED <<web, webState>>
    BY <1>8 DEF WebGetsMutex
  <2>2. webTasks = <<"wait">>
    BY <2>1, TaskLists
  <2>3. webTasks' = <<"run">>
    BY <2>1, <2>2, TaskLists
  <2> QED BY <2>1, <2>2, <2>3, TaskLists
<1>9. CASE WebMutexTimesOut
  <2>1. /\ webTasks # <<>> /\ Head(webTasks) = "wait" /\ WebTaskEnds(FALSE) /\ UNCHANGED <<web, mutex>>
    BY <1>9 DEF WebMutexTimesOut
  <2>2. webTasks = <<"wait">>
    BY <2>1, TaskLists
  <2>3. webTasks' = <<>> /\ webState' = "FAILED"
    BY <2>1, <2>2, TaskLists DEF WebTaskEnds
  <2> QED BY <2>1, <2>2, <2>3, TaskLists
<1> QED BY <1>1, <1>3, <1>4, <1>6, <1>7, <1>8, <1>9 DEF Web

LEMMA PollKeeps ==
  ASSUME WebTransfer, Poll
  PROVE  WebTransfer'
<1>1. UNCHANGED webVars /\ (mutex' = mutex \/ mutex' # "web")
  BY DEF Poll, RestPoll, Releases, Queries, Answered, PromoteSkipped, PromoteStarts, PromoteCopies,
     PromoteEnds, RestoreStarts, RestoreCopies, RestoreEnds, RestoreFails
<1> QED BY <1>1 DEF webVars, WebTransfer

LEMMA WebTransferSteps ==
  ASSUME WebTransfer, [Next]_vars
  PROVE  WebTransfer'
<1>1. CASE Cut
  BY <1>1 DEF Cut, WebTransfer
<1>2. CASE UNCHANGED vars
  BY <1>2 DEF vars, webVars, line, WebTransfer
<1> QED BY <1>1, <1>2, TransferKeeps, BluetoothKeeps, WebKeeps, PollKeeps DEF Next

\* The browser's button starts one transfer at a time, and the page says that one
\* runs exactly while it does, whatever Bluetooth, the poll task, time-outs and
\* restarts do meanwhile.
THEOREM WebTransferSingle == Spec => []OneWebTransfer
<1>1. Init => WebTransfer
  BY DEF Init, WebTransfer
<1>2. WebTransfer /\ [Next]_vars => WebTransfer'
  BY WebTransferSteps
<1>3. WebTransfer => OneWebTransfer
  BY TaskLists DEF WebTransfer, OneWebTransfer
<1> QED BY <1>1, <1>2, <1>3, PTL DEF Spec

-----------------------------------------------------------------------------
(* Types.                                                                  *)

Block == {b \in Image \X Nat : b[2] \in 1..Size[b[1]]}
Handle == {"none", "open", "orphan"}
HandleOf == {"transfer", "copy", "download", "bt", "web"}
Fw == [is : Handle, pos : Nat]

\* A handle that is open is on a file that is there.
FileTypes ==
  /\ handles \in [HandleOf -> Handle] /\ fw \in Fw
  /\ file \in Seq(Block) \cup {NoFile}
  /\ fw.is = "open" => file \in Seq(Block)
  /\ \A h \in HandleOf : handles[h] = "open" => file \in Seq(Block)

\* More may be counted than was announced, after a disconnection in mid-write.
CountTypes == size \in Nat /\ expected \in Nat

\* What the tasks are about to write are blocks of images.
ClientTypes ==
  /\ bt \in {"idle", "write", "count", "verify", "wait", "download", "xfer"}
  /\ btImage \in Image \cup {NoFile} /\ btBlock \in Nat
  /\ bt = "download" => btImage \in Image
  /\ bt = "write" => <<btImage, btBlock>> \in Block
  /\ web \in {"idle", "receive", "write", "count", "verify"}
  /\ web \in {"receive", "write", "count"} => webNext \in Block

\* The golden copy grows from the file, or the file from it.
CopyTypes ==
  /\ poll \in {"idle", "query", "committed", "promote", "restore", "xfer"}
  /\ mutex \in {"free", "bt", "web", "poll"}
  /\ golden \in Seq(Block) \cup {NoFile}
  /\ copy \in [n : Nat, of : Nat]
  /\ poll \in {"promote", "restore"} => golden \in Seq(Block)
  /\ poll = "restore" => copy.of <= Len(golden)

BridgeTypeInv == FileTypes /\ CountTypes /\ ClientTypes /\ CopyTypes

LEMMA Blocks ==
  ASSUME BridgeAssumption
  PROVE  /\ \A i \in Image : Size[i] \in Nat \ {0}
         /\ \A i \in Image : \A k \in 1..Size[i] : <<i, k>> \in Block
         /\ \A i \in Image : Whole(i) \in Seq(Block)
         /\ \A b \in Block :
              /\ b[1] \in Image /\ b[2] \in 1..Size[b[1]]
              /\ b[2] # Size[b[1]] => [b EXCEPT ![2] = @ + 1] \in Block
         /\ <<>> \in Seq(Block)
<1>1. \A i \in Image : Size[i] \in Nat \ {0}
  BY DEF BridgeAssumption
<1>2. \A i \in Image : \A k \in 1..Size[i] : <<i, k>> \in Block
  BY <1>1 DEF Block
<1>3. ASSUME NEW i \in Image PROVE Whole(i) \in Seq(Block)
  <2>1. Whole(i) \in [1..Size[i] -> Block]
    BY <1>2 DEF Whole
  <2> QED BY <1>1, <2>1
<1>4. ASSUME NEW b \in Block
      PROVE  /\ b[1] \in Image /\ b[2] \in 1..Size[b[1]]
             /\ b[2] # Size[b[1]] => [b EXCEPT ![2] = @ + 1] \in Block
  BY <1>1 DEF Block
<1> QED BY <1>1, <1>2, <1>3, <1>4

LEMMA WriteAtType ==
  ASSUME file \in Seq(Block), NEW n \in Nat, NEW b \in Block
  PROVE  WriteAt(n, b) \in Seq(Block)
<1>1. CASE n < Len(file)
  <2>1. n + 1 \in 1..Len(file)
    BY <1>1
  <2>2. [file EXCEPT ![n + 1] = b] \in Seq(Block)
    BY <2>1, ExceptSeq
  <2> QED BY <1>1, <2>2 DEF WriteAt
<1>2. CASE ~(n < Len(file))
  BY <1>2, AppendProperties DEF WriteAt
<1> QED BY <1>1, <1>2

LEMMA Handles ==
  ASSUME handles \in [HandleOf -> Handle]
  PROVE  /\ AllOrphaned \in [HandleOf -> Handle]
         /\ \A h \in HandleOf : AllOrphaned[h] # "open"
         /\ \A v \in Handle : \A g \in HandleOf :
              /\ [handles EXCEPT ![g] = v] \in [HandleOf -> Handle]
              /\ [AllOrphaned EXCEPT ![g] = v] \in [HandleOf -> Handle]
         /\ \A h, g \in HandleOf :
              /\ [handles EXCEPT ![g] = "none"][h] = "open" => handles[h] = "open"
              /\ [AllOrphaned EXCEPT ![g] = "none"][h] # "open"
  BY DEF AllOrphaned, Orphaned, HandleOf, Handle

LEMMA HandleNames ==
  /\ "transfer" \in HandleOf /\ "copy" \in HandleOf /\ "download" \in HandleOf
  /\ "bt" \in HandleOf /\ "web" \in HandleOf
  /\ "none" \in Handle /\ "open" \in Handle
  BY DEF HandleOf, Handle

LEMMA NoHandlesType ==
  /\ NoHandles \in [HandleOf -> Handle] /\ DOMAIN NoHandles = HandleOf
  /\ \A h \in HandleOf : NoHandles[h] # "open"
  BY DEF NoHandles, HandleOf, Handle

LEMMA FwTypes ==
  /\ NoFw \in Fw /\ NoFw.is # "open"
  /\ [is |-> "open", pos |-> 0] \in Fw
  /\ fw \in Fw => /\ FwOrphaned \in Fw /\ FwOrphaned.is # "open"
                  /\ fw.is \in Handle /\ fw.pos \in Nat
                  /\ [fw EXCEPT !.pos = @ + 1] \in Fw
  BY DEF NoFw, Fw, FwOrphaned, Orphaned, Handle

\* The ways the file changes: to another content, with handles going on; away,
\* with none left open; not at all, with at most a handle closed.
LEMMA FileChanges ==
  /\ /\ file' \in Seq(Block) /\ fw' \in Fw /\ handles' \in [HandleOf -> Handle]
     => FileTypes'
  /\ /\ file' = NoFile /\ fw' \in Fw /\ fw'.is # "open"
     /\ handles' \in [HandleOf -> Handle]
     /\ \A h \in HandleOf : handles'[h] # "open"
     => FileTypes'
  /\ /\ FileTypes /\ UNCHANGED file /\ fw' \in {fw, NoFw}
     /\ handles' \in [HandleOf -> Handle]
     /\ \A h \in HandleOf : handles'[h] = "open" => handles[h] = "open"
     => FileTypes'
  BY FwTypes DEF FileTypes

LEMMA TransferTypes ==
  ASSUME BridgeAssumption, BridgeTypeInv, Transfer
  PROVE  BridgeTypeInv'
<1> USE DEF Elsewhere, Tasks, staging
<1>0. FileTypes /\ CountTypes /\ ClientTypes /\ CopyTypes
  BY DEF BridgeTypeInv
<1>1. PICK t \in {"bt", "web", "poll"} :
        TransferStarts(t) \/ BeginSent(t) \/ ChunkAcked(t) \/ TransferSucceeds(t)
          \/ TransferFails(t)
  BY DEF Transfer
<1>2. CASE TransferStarts(t)
  <2>1. file \in Seq(Block) /\ "open" \in Handle
    BY <1>0, <1>2 DEF TransferStarts, Verified, FileTypes, Handle
  <2>2. FileTypes'
    BY <1>0, <1>2, <2>1, Handles, HandleNames, FileChanges DEF TransferStarts, FileTypes
  <2>3. UNCHANGED <<size, expected, bt, btImage, btBlock, web, webNext, poll,
                    mutex, golden, copy>>
    BY <1>2 DEF TransferStarts
  <2> QED BY <1>0, <2>2, <2>3 DEF BridgeTypeInv, CountTypes, ClientTypes, CopyTypes
<1>3. CASE BeginSent(t) \/ ChunkAcked(t)
  <2>1. UNCHANGED <<file, fw, handles, size, expected, bt, btImage, btBlock, web,
                    webNext, poll, mutex, golden, copy>>
    BY <1>3 DEF BeginSent, ChunkAcked
  <2> QED BY <1>0, <2>1
      DEF BridgeTypeInv, FileTypes, CountTypes, ClientTypes, CopyTypes
<1>4. ASSUME NEW ok \in BOOLEAN, Returns(t, ok), mutex = t,
             UNCHANGED <<btImage, btBlock, web, webNext, golden, copy>>
      PROVE  ClientTypes' /\ CopyTypes'
  <2>1. bt' \in {bt, "idle"} /\ poll' \in {poll, "idle"} /\ mutex' = "free"
    BY <1>4 DEF Returns
  <2> QED BY <1>0, <1>4, <2>1 DEF ClientTypes, CopyTypes
<1>5. CASE TransferSucceeds(t)
  <2>1. ClientTypes' /\ CopyTypes'
    BY <1>4, <1>5 DEF TransferSucceeds
  <2>2. FileTypes'
    <3>1. /\ file' = NoFile /\ fw' = FwOrphaned
          /\ handles' = [AllOrphaned EXCEPT !.transfer = "none"]
      BY <1>5 DEF TransferSucceeds
    <3> QED BY <1>0, <3>1, FwTypes, Handles, HandleNames, FileChanges DEF FileTypes
  <2>3. CountTypes'
    BY <1>5 DEF TransferSucceeds, CountTypes
  <2> QED BY <2>1, <2>2, <2>3 DEF BridgeTypeInv
<1>6. CASE TransferFails(t)
  <2>1. ClientTypes' /\ CopyTypes'
    BY <1>4, <1>6 DEF TransferFails
  <2>2. FileTypes'
    <3>1. UNCHANGED <<file, fw>> /\ handles' = [handles EXCEPT !.transfer = "none"]
      BY <1>6 DEF TransferFails
    <3> QED BY <1>0, <3>1, Handles, HandleNames, FileChanges DEF FileTypes
  <2>3. CountTypes'
    BY <1>0, <1>6 DEF TransferFails, CountTypes
  <2> QED BY <2>1, <2>2, <2>3 DEF BridgeTypeInv
<1> QED BY <1>1, <1>2, <1>3, <1>5, <1>6

\* What the helpers of the staging do.
LEMMA StagingTypes ==
  ASSUME BridgeAssumption, BridgeTypeInv, NEW t \in {"bt", "web"}
  PROVE  /\ \A v : Discards(t, v) => FileTypes' /\ CountTypes'
         /\ \A v, c : \A n \in Nat : Opens(v, n, c) => FileTypes' /\ CountTypes'
         /\ BeginsWrite(t) => FileTypes' /\ CountTypes'
         /\ \A b \in Block : Writes(t, b) => FileTypes' /\ CountTypes'
         /\ \A b : Counts(t, b) => FileTypes' /\ CountTypes'
<1>0. FileTypes /\ CountTypes /\ t \in HandleOf /\ "none" \in Handle
  BY HandleNames DEF BridgeTypeInv
<1>1. ASSUME NEW v, Discards(t, v) PROVE FileTypes' /\ CountTypes'
  <2>1. FileTypes'
    BY <1>0, <1>1, FwTypes, Handles, FileChanges DEF Discards, FileTypes
  <2>2. CountTypes'
    BY <1>1 DEF Discards, CountTypes
  <2> QED BY <2>1, <2>2
<1>2. ASSUME NEW v, NEW c, NEW n \in Nat, Opens(v, n, c)
      PROVE  FileTypes' /\ CountTypes'
  <2>1. FileTypes'
    BY <1>0, <1>2, Blocks, FwTypes, Handles, FileChanges DEF Opens, FileTypes
  <2>2. CountTypes'
    BY <1>2 DEF Opens, CountTypes
  <2> QED BY <2>1, <2>2
<1>3. ASSUME BeginsWrite(t) PROVE FileTypes' /\ CountTypes'
  <2>1. /\ handles' = [handles EXCEPT ![t] = fw.is] /\ fw.is \in Handle
        /\ UNCHANGED <<file, fw, size, expected>>
    BY <1>0, <1>3, FwTypes DEF BeginsWrite, staging, FileTypes
  <2>2. handles' \in [HandleOf -> Handle]
    BY <1>0, <2>1, Handles DEF FileTypes
  <2>3. \A h \in HandleOf : handles'[h] = "open" => file \in Seq(Block)
    BY <1>0, <2>1 DEF FileTypes
  <2> QED BY <1>0, <2>1, <2>2, <2>3 DEF FileTypes, CountTypes
<1>4. ASSUME NEW b \in Block, Writes(t, b) PROVE FileTypes' /\ CountTypes'
  <2>1. CASE fw.is = "open" /\ file' = WriteAt(fw.pos, b)
             /\ fw' = [fw EXCEPT !.pos = @ + 1] /\ UNCHANGED handles
    <3>1. file' \in Seq(Block) /\ fw' \in Fw
      BY <1>0, <2>1, FwTypes, WriteAtType DEF FileTypes
    <3> QED BY <1>0, <1>4, <2>1, <3>1, FileChanges
        DEF Writes, staging, FileTypes, CountTypes
  <2>2. CASE UNCHANGED <<file, fw, handles>>
    BY <1>0, <1>4, <2>2 DEF Writes, staging, FileTypes, CountTypes
  <2> QED BY <1>4, <2>1, <2>2 DEF Writes
<1>5. ASSUME NEW b, Counts(t, b) PROVE FileTypes' /\ CountTypes'
  <2>1. /\ UNCHANGED <<file, expected>> /\ size' = size + 1 /\ fw' \in {fw, NoFw}
    BY <1>5 DEF Counts
  <2>2. /\ handles' \in [HandleOf -> Handle]
        /\ \A h \in HandleOf : handles'[h] = "open" => handles[h] = "open"
    BY <1>0, <1>5 DEF Counts, FileTypes, Orphaned, HandleOf, Handle
  <2> QED BY <1>0, <2>1, <2>2, FileChanges DEF CountTypes
<1> QED BY <1>1, <1>2, <1>3, <1>4, <1>5

LEMMA BluetoothTypes ==
  ASSUME BridgeAssumption, BridgeTypeInv, Bluetooth
  PROVE  BridgeTypeInv'
<1>0. FileTypes /\ CountTypes /\ ClientTypes /\ CopyTypes
      /\ "none" \in Handle /\ "open" \in Handle
  BY DEF BridgeTypeInv, Handle
<1>1. ASSUME RestBt PROVE CopyTypes' /\ UNCHANGED <<web, webNext>>
  BY <1>0, <1>1 DEF RestBt, webVars, line, CopyTypes
<1>2. ASSUME UNCHANGED <<file, fw, handles>> PROVE FileTypes'
  BY <1>0, <1>2 DEF FileTypes
<1>3. ASSUME UNCHANGED <<size, expected>> \/ (size' = 0 /\ expected' = 0)
      PROVE  CountTypes'
  BY <1>0, <1>3 DEF CountTypes
<1>4. ASSUME UNCHANGED <<btImage, btBlock, web, webNext>>,
             bt' \in {bt, "idle", "verify", "wait", "xfer"}
      PROVE  ClientTypes'
  BY <1>0, <1>4 DEF ClientTypes
<1>5. CASE \E i \in Image : FW(i)
  <2>1. PICK i \in Image : FW(i)
    BY <1>5
  <2>2. FileTypes' /\ CountTypes'
    BY <2>1, Blocks, StagingTypes DEF FW
  <2>3. CopyTypes' /\ UNCHANGED <<web, webNext>>
    BY <1>1, <2>1 DEF FW
  <2>4. ClientTypes'
    BY <1>0, <2>1, <2>3 DEF FW, ClientTypes
  <2> QED BY <2>2, <2>3, <2>4 DEF BridgeTypeInv
<1>6. CASE \E i \in Image : DownloadStarts(i)
  <2>1. PICK i \in Image : DownloadStarts(i)
    BY <1>6
  <2>2. FileTypes'
    <3>1. UNCHANGED fw
      BY <2>1 DEF DownloadStarts
    <3>2. CASE file' = <<>> /\ handles' = [handles EXCEPT !.download = "open"]
      BY <1>0, <3>1, <3>2, Blocks, Handles, HandleNames, FileChanges DEF FileTypes
    <3>3. CASE UNCHANGED <<file, handles>>
      BY <1>2, <3>1, <3>3
    <3> QED BY <2>1, <3>2, <3>3 DEF DownloadStarts
  <2>3. CountTypes'
    BY <1>3, <2>1 DEF DownloadStarts
  <2>4. CopyTypes' /\ UNCHANGED <<web, webNext>>
    BY <1>1, <2>1 DEF DownloadStarts
  <2>5. ClientTypes'
    BY <1>0, <2>1, <2>4 DEF DownloadStarts, btVars, ClientTypes
  <2> QED BY <2>2, <2>3, <2>4, <2>5 DEF BridgeTypeInv
<1>7. CASE \E i \in Image : \E k \in 1..Size[i] : DATA(k)
  <2>1. PICK k \in Nat : DATA(k)
    BY <1>7, Blocks DEF DATA
  <2>2. <<btImage, k>> \in Block
    BY <1>0, <2>1, Blocks DEF DATA, ClientTypes
  <2>3. FileTypes' /\ CountTypes'
    BY <2>1, StagingTypes DEF DATA
  <2>4. CopyTypes' /\ UNCHANGED <<web, webNext>>
    BY <1>1, <2>1 DEF DATA
  <2>5. /\ UNCHANGED btImage
        /\ \/ bt' = "write" /\ btBlock' = k
           \/ bt' = "idle" /\ UNCHANGED btBlock
    BY <2>1 DEF DATA
  <2>6. ClientTypes'
    BY <1>0, <2>1, <2>2, <2>4, <2>5 DEF ClientTypes
  <2> QED BY <2>3, <2>4, <2>6 DEF BridgeTypeInv
<1>12. CASE DataWritten \/ DataCounted \/ DataFails
  <2>1. FileTypes' /\ CountTypes'
    <3>1. CASE DataWritten
      <4>1. <<btImage, btBlock>> \in Block /\ Writes("bt", <<btImage, btBlock>>)
        BY <1>0, <3>1 DEF DataWritten, ClientTypes
      <4> QED BY <4>1, StagingTypes
    <3>2. CASE DataCounted
      BY <3>2, StagingTypes DEF DataCounted
    <3>3. CASE DataFails
      BY <3>3, StagingTypes DEF DataFails
    <3> QED BY <1>12, <3>1, <3>2, <3>3
  <2>2. /\ RestBt /\ UNCHANGED btImage
        /\ \/ bt' = "count" /\ UNCHANGED btBlock
           \/ bt' = "idle" /\ btBlock' = 0
    BY <1>12 DEF DataWritten, DataCounted, DataFails
  <2>3. ClientTypes'
    BY <1>0, <1>1, <2>2 DEF ClientTypes
  <2> QED BY <1>1, <2>1, <2>2, <2>3 DEF BridgeTypeInv
<1>8. CASE VERIFY \/ VerifyEnds \/ SEND \/ BtMutexTimesOut \/ SppClosed
  <2>1. UNCHANGED <<file, fw, handles, btImage, btBlock>> /\ RestBt
    BY <1>8
    DEF VERIFY, VerifyEnds, SEND, BtMutexTimesOut, SppClosed, btVars
  <2>2. UNCHANGED <<size, expected>> \/ (size' = 0 /\ expected' = 0)
    BY <1>8
    DEF VERIFY, VerifyEnds, SEND, BtMutexTimesOut, SppClosed, staging
  <2>3. bt' \in {bt, "idle", "verify", "wait", "xfer"}
    BY <1>8
    DEF VERIFY, VerifyEnds, SEND, BtMutexTimesOut, SppClosed, btVars
  <2> QED BY <1>1, <1>2, <1>3, <1>4, <2>1, <2>2, <2>3 DEF BridgeTypeInv
<1>9. CASE DownloadWrites
  <2>1. <<btImage, btBlock + 1>> \in Block /\ btBlock \in Nat
    <3>1. btImage \in Image /\ btBlock \in Nat /\ btBlock < Size[btImage]
      BY <1>0, <1>9 DEF DownloadWrites, ClientTypes
    <3>2. btBlock + 1 \in 1..Size[btImage]
      BY <3>1, Blocks
    <3> QED BY <3>1, <3>2, Blocks
  <2>2. file \in Seq(Block)
    BY <1>0, <1>9 DEF DownloadWrites, FileTypes, HandleOf
  <2>3. file' \in Seq(Block) /\ UNCHANGED <<fw, handles, size, expected>>
    BY <1>9, <2>1, <2>2, WriteAtType DEF DownloadWrites, staging
  <2>4. CopyTypes' /\ UNCHANGED <<web, webNext>>
    BY <1>1, <1>9 DEF DownloadWrites
  <2>5. ClientTypes'
    BY <1>0, <1>9, <2>4 DEF DownloadWrites, ClientTypes
  <2> QED BY <1>0, <1>3, <2>3, <2>4, <2>5, FileChanges DEF BridgeTypeInv, FileTypes
<1>10. CASE DownloadEnds \/ DownloadFails
  <2>1. /\ UNCHANGED <<file, fw, btImage>>
        /\ handles' = [handles EXCEPT !.download = "none"]
        /\ bt' \in {"wait", "idle"} /\ btBlock' = 0 /\ RestBt
    BY <1>10 DEF DownloadEnds, DownloadFails
  <2>2. CountTypes'
    <3>1. CASE DownloadEnds
      <4>1. Size[btImage] \in Nat
        BY <1>0, <3>1, Blocks DEF DownloadEnds, ClientTypes
      <4> QED BY <3>1, <4>1 DEF DownloadEnds, CountTypes
    <3>2. CASE DownloadFails
      BY <1>3, <3>2 DEF DownloadFails, staging
    <3> QED BY <1>10, <3>1, <3>2
  <2>3. FileTypes'
    BY <1>0, <2>1, Handles, HandleNames, FileChanges DEF FileTypes
  <2>4. ClientTypes'
    BY <1>0, <1>1, <2>1 DEF ClientTypes
  <2> QED BY <1>1, <2>1, <2>2, <2>3, <2>4 DEF BridgeTypeInv
<1>11. CASE BtGetsMutex
  <2>1. /\ UNCHANGED <<file, fw, handles, golden, size, expected, btImage, btBlock,
                       web, webNext, poll, copy>>
        /\ bt' = "xfer" /\ mutex' = "bt"
    BY <1>11 DEF BtGetsMutex, files, staging, webVars
  <2> QED BY <1>0, <1>2, <1>3, <1>4, <2>1 DEF BridgeTypeInv, CopyTypes
<1> QED BY <1>5, <1>6, <1>7, <1>8, <1>9, <1>10, <1>11, <1>12 DEF Bluetooth

LEMMA WebTypes ==
  ASSUME BridgeAssumption, BridgeTypeInv, Web
  PROVE  BridgeTypeInv'
<1>0. FileTypes /\ CountTypes /\ ClientTypes /\ CopyTypes
  BY DEF BridgeTypeInv
<1>1. ASSUME RestWeb PROVE CopyTypes' /\ UNCHANGED <<bt, btImage, btBlock>>
  BY <1>0, <1>1 DEF RestWeb, btVars, line, CopyTypes
<1>2. ASSUME UNCHANGED <<file, fw, handles, size, expected>>
      PROVE  FileTypes' /\ CountTypes'
  BY <1>0, <1>2 DEF FileTypes, CountTypes
<1>3. ASSUME UNCHANGED <<bt, btImage, btBlock>>,
             web' \in {"idle", "receive", "write", "count", "verify"},
             web' \in {"receive", "write", "count"} => webNext' \in Block
      PROVE  ClientTypes'
  BY <1>0, <1>3 DEF ClientTypes
<1>4. ASSUME UploadFails PROVE BridgeTypeInv'
  <2>1. RestWeb /\ web' = "idle" /\ Discards("web", version)
    BY <1>4 DEF UploadFails, UploadEnds
  <2>2. FileTypes' /\ CountTypes'
    BY <2>1, StagingTypes
  <2> QED BY <1>1, <1>3, <2>1, <2>2 DEF BridgeTypeInv
<1>5. CASE \E i \in Image : UploadStarts(i)
  <2>1. PICK i \in Image : UploadStarts(i)
    BY <1>5
  <2>2. FileTypes' /\ CountTypes'
    <3>1. CASE Opens(i, Size[i], <<>>)
      BY <3>1, Blocks, StagingTypes
    <3>2. CASE /\ file' = NoFile /\ fw' = NoFw /\ handles' = AllOrphaned
               /\ size' = 0 /\ expected' = Size[i]
      BY <1>0, <3>2, Blocks, FwTypes, Handles, FileChanges DEF FileTypes, CountTypes
    <3> QED BY <2>1, <3>1, <3>2 DEF UploadStarts
  <2>3. <<i, 1>> \in Block
    BY Blocks
  <2>4. RestWeb /\ (web' = "idle" \/ (web' = "receive" /\ webNext' = <<i, 1>>))
    BY <2>1 DEF UploadStarts, UploadEnds
  <2> QED BY <1>1, <1>3, <2>2, <2>3, <2>4 DEF BridgeTypeInv
<1>6. CASE UploadArrives \/ UploadWritten
  <2>1. /\ webNext \in Block /\ RestWeb /\ UNCHANGED webNext
        /\ web' \in {"write", "count"}
    BY <1>0, <1>6 DEF UploadArrives, UploadWritten, ClientTypes
  <2>2. FileTypes' /\ CountTypes'
    BY <1>6, <2>1, StagingTypes DEF UploadArrives, UploadWritten
  <2> QED BY <1>1, <1>3, <2>1, <2>2 DEF BridgeTypeInv
<1>7. CASE UploadRefused \/ UploadInterrupted
  BY <1>4, <1>7 DEF UploadRefused, UploadInterrupted
<1>8. CASE UploadCounted
  <2>1. webNext \in Block /\ RestWeb
    BY <1>0, <1>8 DEF UploadCounted, ClientTypes
  <2>2. FileTypes' /\ CountTypes'
    BY <1>8, StagingTypes DEF UploadCounted
  <2>3. web' = "verify" \/ (web' = "receive" /\ webNext' \in Block)
    BY <1>8, <2>1, Blocks DEF UploadCounted
  <2> QED BY <1>1, <1>3, <2>1, <2>2, <2>3 DEF BridgeTypeInv
<1>9. CASE UploadVerified
  <2>1. CASE Verified
    <3>1. RestWeb /\ web' = "idle" /\ UNCHANGED <<file, fw, handles, size, expected>>
      BY <1>9, <2>1 DEF UploadVerified, UploadEnds, staging
    <3> QED BY <1>1, <1>2, <1>3, <3>1 DEF BridgeTypeInv
  <2>2. CASE ~Verified
    BY <1>4, <1>9, <2>2 DEF UploadVerified
  <2> QED BY <2>1, <2>2
<1>10. CASE Starts \/ WebMutexTimesOut
  <2>1. /\ UNCHANGED <<file, fw, handles, size, expected, web, webNext>>
        /\ RestWeb
    BY <1>10 DEF Starts, WebMutexTimesOut, staging
  <2>2. ClientTypes'
    BY <1>0, <1>1, <2>1 DEF ClientTypes
  <2> QED BY <1>1, <1>2, <2>1, <2>2 DEF BridgeTypeInv
<1>11. CASE WebGetsMutex
  <2>1. /\ UNCHANGED <<file, fw, handles, golden, size, expected, bt, btImage,
                       btBlock, web, webNext, poll, copy>>
        /\ mutex' = "web"
    BY <1>11 DEF WebGetsMutex, files, staging, btVars
  <2>2. ClientTypes' /\ CopyTypes'
    BY <1>0, <2>1 DEF ClientTypes, CopyTypes
  <2> QED BY <1>2, <2>1, <2>2 DEF BridgeTypeInv
<1> QED BY <1>5, <1>6, <1>7, <1>8, <1>9, <1>10, <1>11 DEF Web

LEMMA PollTypes ==
  ASSUME BridgeAssumption, BridgeTypeInv, Poll
  PROVE  BridgeTypeInv'
<1>0. FileTypes /\ CountTypes /\ ClientTypes /\ CopyTypes
      /\ "none" \in Handle /\ "open" \in Handle
  BY DEF BridgeTypeInv, Handle
<1>1. ASSUME RestPoll PROVE ClientTypes'
  BY <1>0, <1>1 DEF RestPoll, btVars, webVars, ClientTypes
<1>2. ASSUME UNCHANGED <<file, fw, handles>> PROVE FileTypes'
  BY <1>0, <1>2 DEF FileTypes
<1>3. ASSUME UNCHANGED <<size, expected>> PROVE CountTypes'
  BY <1>0, <1>3 DEF CountTypes
<1>4. ASSUME UNCHANGED <<golden, copy>>, mutex' \in {mutex, "free", "poll"},
             poll' \in {"idle", "query", "committed", "xfer"}
      PROVE  CopyTypes'
  BY <1>0, <1>4 DEF CopyTypes
<1>5. CASE Queries \/ Answered \/ PromoteSkipped
  <2>1. /\ UNCHANGED <<file, fw, handles, golden, size, expected, copy>>
        /\ mutex' \in {mutex, "free", "poll"} /\ RestPoll
        /\ poll' \in {"idle", "query", "committed"}
    BY <1>5 DEF Queries, Answered, PromoteSkipped, files, staging
  <2> QED BY <1>1, <1>2, <1>3, <1>4, <2>1 DEF BridgeTypeInv
<1>6. CASE PromoteStarts
  <2>1. file \in Seq(Block)
    BY <1>0, <1>6 DEF PromoteStarts, FileTypes
  <2>2. /\ UNCHANGED <<file, fw, size, expected, mutex>> /\ RestPoll
        /\ handles' = [handles EXCEPT !.copy = "open"]
        /\ poll' = "promote" /\ golden' = <<>> /\ copy' = [n |-> 0, of |-> Len(file)]
    BY <1>6 DEF PromoteStarts, staging
  <2>3. FileTypes'
    BY <1>0, <2>1, <2>2, Handles, HandleNames, FileChanges DEF FileTypes
  <2>4. CopyTypes'
    BY <1>0, <2>1, <2>2, Blocks DEF CopyTypes
  <2> QED BY <1>1, <1>3, <2>2, <2>3, <2>4 DEF BridgeTypeInv
<1>7. CASE PromoteCopies
  <2>1. /\ file \in Seq(Block) /\ golden \in Seq(Block) /\ copy.n \in Nat
        /\ copy.n + 1 \in 1..Len(file)
    <3>1. handles.copy = "open" /\ Len(file) > copy.n /\ poll = "promote"
      BY <1>7 DEF PromoteCopies, HasNext
    <3>2. file \in Seq(Block) /\ golden \in Seq(Block) /\ copy.n \in Nat
      BY <1>0, <3>1 DEF FileTypes, CopyTypes, HandleOf
    <3> QED BY <3>1, <3>2
  <2>2. /\ UNCHANGED <<file, fw, handles, size, expected, poll, mutex>> /\ RestPoll
        /\ golden' = Append(golden, file[copy.n + 1])
        /\ copy' = [copy EXCEPT !.n = @ + 1] /\ poll = "promote"
    BY <1>7 DEF PromoteCopies, staging
  <2>3. golden' \in Seq(Block)
    BY <2>1, <2>2, AppendProperties
  <2>4. copy' \in [n : Nat, of : Nat]
    BY <1>0, <2>1, <2>2 DEF CopyTypes
  <2>5. CopyTypes'
    BY <1>0, <2>2, <2>3, <2>4 DEF CopyTypes
  <2> QED BY <1>1, <1>2, <1>3, <2>2, <2>5 DEF BridgeTypeInv
<1>8. CASE PromoteEnds
  <2>1. /\ UNCHANGED <<file, fw, size, expected, mutex>> /\ RestPoll
        /\ handles' = [handles EXCEPT !.copy = "none"]
        /\ poll' = "idle" /\ golden' \in {golden, NoFile} /\ copy' = NoCopy
    BY <1>8 DEF PromoteEnds, staging
  <2>2. FileTypes'
    BY <1>0, <2>1, Handles, HandleNames, FileChanges DEF FileTypes
  <2>3. CopyTypes'
    BY <1>0, <2>1 DEF CopyTypes, NoCopy
  <2> QED BY <1>1, <1>3, <2>1, <2>2, <2>3 DEF BridgeTypeInv
<1>9. CASE RestoreStarts
  <2>1. golden \in Seq(Block)
    BY <1>0, <1>9 DEF RestoreStarts, CopyTypes
  <2>2. /\ UNCHANGED <<golden, fw, size, expected, mutex>> /\ RestPoll
        /\ file' = <<>> /\ handles' = [handles EXCEPT !.copy = "open"]
        /\ poll' = "restore" /\ copy' = [n |-> 0, of |-> Len(golden)]
    BY <1>9 DEF RestoreStarts, staging
  <2>3. FileTypes'
    BY <1>0, <2>2, Blocks, Handles, HandleNames, FileChanges DEF FileTypes
  <2>4. CopyTypes'
    BY <1>0, <2>1, <2>2 DEF CopyTypes
  <2> QED BY <1>1, <1>3, <2>2, <2>3, <2>4 DEF BridgeTypeInv
<1>10. CASE RestoreCopies
  <2>1. /\ poll = "restore" /\ copy.n < copy.of /\ handles.copy = "open"
        /\ file' = WriteAt(copy.n, golden[copy.n + 1])
        /\ copy' = [copy EXCEPT !.n = @ + 1]
        /\ UNCHANGED <<golden, fw, handles, size, expected, poll, mutex>> /\ RestPoll
    BY <1>10 DEF RestoreCopies, staging
  <2>2. /\ golden \in Seq(Block) /\ copy.n \in Nat /\ copy.n + 1 \in 1..Len(golden)
        /\ file \in Seq(Block)
    BY <1>0, <2>1 DEF CopyTypes, FileTypes, HandleOf
  <2>3. file' \in Seq(Block)
    <3>1. golden[copy.n + 1] \in Block
      BY <2>2
    <3> QED BY <2>1, <2>2, <3>1, WriteAtType
  <2>4. FileTypes'
    BY <1>0, <2>1, <2>3, FileChanges DEF FileTypes
  <2>5. CopyTypes'
    <3>1. copy' \in [n : Nat, of : Nat] /\ copy'.of = copy.of
      BY <1>0, <2>1 DEF CopyTypes
    <3> QED BY <1>0, <2>1, <3>1 DEF CopyTypes
  <2> QED BY <1>1, <1>3, <2>1, <2>4, <2>5 DEF BridgeTypeInv
<1>11. CASE RestoreEnds
  <2>1. /\ size' = copy.of /\ expected' = copy.of /\ UNCHANGED <<file, golden, fw>>
        /\ handles' = [handles EXCEPT !.copy = "none"] /\ copy' = NoCopy /\ RestPoll
        /\ poll' \in {"xfer", "idle"} /\ mutex' \in {mutex, "free"}
    BY <1>11 DEF RestoreEnds, Releases
  <2>2. FileTypes'
    BY <1>0, <2>1, Handles, HandleNames, FileChanges DEF FileTypes
  <2>3. CountTypes'
    BY <1>0, <2>1 DEF CountTypes, CopyTypes
  <2>4. CopyTypes'
    BY <1>0, <2>1 DEF CopyTypes, NoCopy
  <2> QED BY <1>1, <2>1, <2>2, <2>3, <2>4 DEF BridgeTypeInv
<1>12. CASE RestoreFails
  <2>1. /\ file' = NoFile /\ fw' = FwOrphaned
        /\ handles' = [AllOrphaned EXCEPT !.copy = "none"] /\ copy' = NoCopy
        /\ UNCHANGED <<golden, size, expected>> /\ RestPoll
        /\ poll' = "idle" /\ mutex' = "free"
    BY <1>12 DEF RestoreFails, Releases, staging
  <2>3. FileTypes'
    BY <1>0, <2>1, FwTypes, Handles, HandleNames, FileChanges DEF FileTypes
  <2>4. CopyTypes'
    BY <1>0, <2>1 DEF CopyTypes, NoCopy
  <2> QED BY <1>1, <1>3, <2>1, <2>3, <2>4 DEF BridgeTypeInv
<1> QED BY <1>5, <1>6, <1>7, <1>8, <1>9, <1>10, <1>11, <1>12 DEF Poll

LEMMA CutTypes ==
  ASSUME BridgeTypeInv, Cut
  PROVE  BridgeTypeInv'
<1>1. FileTypes'
  BY NoHandlesType, FwTypes DEF Cut, BridgeTypeInv, FileTypes
<1>2. CountTypes'
  BY DEF Cut, CountTypes
<1>3. ClientTypes'
  BY DEF Cut, ClientTypes
<1>4. CopyTypes'
  BY DEF Cut, BridgeTypeInv, CopyTypes, NoCopy
<1> QED BY <1>1, <1>2, <1>3, <1>4 DEF BridgeTypeInv

\* What is in the staging file and in the golden file are blocks of images,
\* whichever tasks share the files and whatever happens to a file, its handle
\* and its counters while a block is being written (stage_firmware_data,
\* download_firmware_http, golden_promote, golden_restore).
THEOREM BridgeTypes == Spec => []TypeOK
<1>1. Init => BridgeTypeInv
  <2> SUFFICES ASSUME Init PROVE BridgeTypeInv
    OBVIOUS
  <2>1. golden \in Seq(Block) \cup {NoFile}
    BY BridgeAssumption, Blocks DEF Init, BridgeAssumption
  <2>2. FileTypes
    BY NoHandlesType, FwTypes DEF Init, FileTypes
  <2> QED BY <2>1, <2>2
      DEF Init, BridgeTypeInv, CountTypes, ClientTypes, CopyTypes, NoCopy
<1>2. BridgeTypeInv /\ [Next]_vars => BridgeTypeInv'
  <2> SUFFICES ASSUME BridgeTypeInv, [Next]_vars PROVE BridgeTypeInv'
    OBVIOUS
  <2>1. CASE UNCHANGED vars
    BY <2>1
    DEF vars, files, staging, btVars, webVars, line, BridgeTypeInv, FileTypes,
        CountTypes, ClientTypes, CopyTypes
  <2> QED
    BY <2>1, BridgeAssumption, TransferTypes, BluetoothTypes, WebTypes, PollTypes,
       CutTypes DEF Next
<1>3. BridgeTypeInv => TypeOK
  <2> SUFFICES ASSUME BridgeTypeInv PROVE TypeOK
    OBVIOUS
  <2>1. \A c \in {file, golden} \ {NoFile} : \A k \in 1..Len(c) :
          c[k][1] \in Image /\ c[k][2] \in 1..Size[c[k][1]]
    <3>1. SUFFICES ASSUME NEW c \in Seq(Block), NEW k \in 1..Len(c)
                   PROVE  c[k][1] \in Image /\ c[k][2] \in 1..Size[c[k][1]]
      BY DEF BridgeTypeInv, FileTypes, CopyTypes
    <3>2. c[k] \in Block
      OBVIOUS
    <3> QED BY <3>2, BridgeAssumption, Blocks
  <2> QED BY <2>1, NoHandlesType
      DEF TypeOK, BridgeTypeInv, FileTypes, CountTypes, ClientTypes, CopyTypes, Handle,
          Fw
<1> QED BY <1>1, <1>2, <1>3, PTL DEF Spec

-----------------------------------------------------------------------------
(* The line to the device.                                                 *)

\* g_ota_mutex is held by the task that talks to the device, g_ota_running tells
\* whether that is a transfer, and transfer_to_stm32_impl has begun nothing
\* outside of one.
LineOwned ==
  /\ mutex = "bt" <=> bt = "xfer"
  /\ mutex = "web" <=> webTasks = <<"run">>
  /\ mutex = "poll" <=> poll \in {"query", "restore", "xfer"}
  /\ busy \in BOOLEAN
  /\ busy <=> bt = "xfer" \/ webTasks = <<"run">> \/ poll = "xfer"
  /\ xfer # NoXfer => busy

LEMMA LineSteps ==
  ASSUME WebTransfer, LineOwned, [Next]_vars
  PROVE  LineOwned'
<1>1. ASSUME UNCHANGED <<mutex, busy, xfer, webTasks>>,
             bt' = "xfer" <=> bt = "xfer", poll' = poll
      PROVE  LineOwned'
  BY <1>1 DEF LineOwned
<1>2. CASE UNCHANGED vars
  BY <1>1, <1>2 DEF vars, line, webVars, btVars
<1>3. CASE Transfer
  <2>1. PICK t \in {"bt", "web", "poll"} :
          TransferStarts(t) \/ BeginSent(t) \/ ChunkAcked(t) \/ TransferSucceeds(t)
            \/ TransferFails(t)
    BY <1>3 DEF Transfer
  <2>2. mutex = t /\ busy
    <3>1. CASE TransferStarts(t) \/ TransferFails(t)
      BY <3>1 DEF TransferStarts, TransferFails
    <3>2. CASE BeginSent(t) \/ ChunkAcked(t) \/ TransferSucceeds(t)
      <4>1. mutex = t /\ xfer.at \in {"ready", "send"}
        BY <3>2 DEF BeginSent, ChunkAcked, TransferSucceeds, Accepted
      <4>2. xfer # NoXfer
        BY <4>1 DEF NoXfer
      <4> QED BY <4>1, <4>2 DEF LineOwned
    <3> QED BY <2>1, <3>1, <3>2
  <2>3. CASE TransferStarts(t) \/ BeginSent(t) \/ ChunkAcked(t)
    <3>1. UNCHANGED <<mutex, busy, webTasks, bt, poll>>
      BY <2>3 DEF TransferStarts, BeginSent, ChunkAcked, Tasks
    <3> QED BY <2>2, <3>1 DEF LineOwned
  <2>4. CASE TransferSucceeds(t) \/ TransferFails(t)
    <3>1. PICK ok \in BOOLEAN : Returns(t, ok)
      BY <2>4 DEF TransferSucceeds, TransferFails
    <3>2. mutex' = "free" /\ busy' = FALSE /\ xfer' = NoXfer
      BY <3>1 DEF Returns
    <3>3. CASE t = "bt"
      <4>1. bt' = "idle" /\ UNCHANGED <<poll, webTasks>>
        BY <3>1, <3>3 DEF Returns
      <4> QED BY <2>2, <3>2, <3>3, <4>1 DEF LineOwned
    <3>4. CASE t = "poll"
      <4>1. poll' = "idle" /\ UNCHANGED <<bt, webTasks>>
        BY <3>1, <3>4 DEF Returns
      <4> QED BY <2>2, <3>2, <3>4, <4>1 DEF LineOwned
    <3>5. CASE t = "web"
      <4>1. UNCHANGED <<bt, poll>> /\ webTasks = <<"run">> /\ webTasks' = Tail(webTasks)
        BY <2>2, <3>1, <3>5 DEF Returns, WebTaskEnds, LineOwned
      <4>2. webTasks' = <<>>
        BY <4>1, TaskLists
      <4> QED BY <2>2, <3>2, <3>5, <4>1, <4>2, TaskLists DEF LineOwned
    <3> QED BY <3>3, <3>4, <3>5
  <2> QED BY <2>1, <2>3, <2>4
<1>4. CASE Bluetooth
  <2>1. CASE BtGetsMutex
    BY <2>1 DEF BtGetsMutex, webVars, LineOwned
  <2>2. CASE ~BtGetsMutex
    <3>1. RestBt /\ (bt' = "xfer" <=> bt = "xfer")
      BY <1>4, <2>2
      DEF Bluetooth, FW, DATA, DataWritten, DataCounted, DataFails, StagingFails,
          VERIFY, VerifyEnds, SEND, DownloadStarts,
          DownloadWrites, DownloadEnds, DownloadFails, BtMutexTimesOut, SppClosed,
          btVars
    <3> QED BY <1>1, <3>1 DEF RestBt, line, webVars
  <2> QED BY <2>1, <2>2
<1>5. CASE Web
  <2>1. CASE WebGetsMutex
    <3>1. /\ webTasks # <<>> /\ Head(webTasks) = "wait" /\ mutex = "free"
          /\ webTasks' = <<"run">> \o Tail(webTasks)
          /\ mutex' = "web" /\ busy' = TRUE /\ UNCHANGED <<bt, poll, xfer>>
      BY <2>1 DEF WebGetsMutex, btVars
    <3>2. webTasks' = <<"run">>
      <4>1. webTasks = <<"wait">>
        BY <3>1, TaskLists DEF WebTransfer
      <4> QED BY <3>1, <4>1, TaskLists
    <3> QED BY <3>1, <3>2 DEF LineOwned
  <2>2. CASE ~WebGetsMutex
    <3>1. RestWeb
      BY <1>5, <2>2
      DEF Web, UploadStarts, UploadArrives, UploadRefused, UploadInterrupted,
          UploadWritten, UploadCounted, UploadVerified, UploadFails, Starts,
          WebMutexTimesOut
    <3>2. webTasks' = <<"run">> <=> webTasks = <<"run">>
      <4>1. CASE UNCHANGED webTasks
        BY <4>1
      <4>2. CASE Starts
        <5>1. webTasks = <<>>
              /\ (webTasks' = Append(webTasks, "wait") \/ UNCHANGED webTasks)
          BY <4>2 DEF Starts, WebTransfer
        <5> QED BY <5>1, TaskLists
      <4>3. CASE WebMutexTimesOut
        <5>1. webTasks = <<"wait">> /\ webTasks' = Tail(webTasks)
          BY <4>3, TaskLists DEF WebMutexTimesOut, WebTaskEnds, WebTransfer
        <5> QED BY <5>1, TaskLists
      <4> QED BY <1>5, <2>2, <4>1, <4>2, <4>3
          DEF Web, UploadStarts, UploadArrives, UploadRefused, UploadInterrupted,
              UploadWritten, UploadCounted, UploadVerified, UploadFails, UploadEnds
    <3> QED BY <3>1, <3>2 DEF RestWeb, line, btVars, LineOwned
  <2> QED BY <2>1, <2>2
<1>6. CASE Poll
  <2>1. RestPoll
    BY <1>6
    DEF Poll, Queries, Answered, PromoteSkipped, PromoteStarts, PromoteCopies,
        PromoteEnds, RestoreStarts, RestoreCopies, RestoreEnds, RestoreFails
  <2>2. UNCHANGED <<bt, webTasks, xfer>>
    BY <2>1 DEF RestPoll, btVars, webVars
  <2>3. CASE RestoreEnds
    <3>1. /\ poll = "restore"
          /\ \/ busy' = TRUE /\ poll' = "xfer" /\ UNCHANGED mutex
             \/ UNCHANGED busy /\ mutex' = "free" /\ poll' = "idle"
      BY <2>3 DEF RestoreEnds, Releases
    <3>2. /\ mutex = "poll" /\ bt # "xfer" /\ webTasks # <<"run">>
          /\ busy = FALSE /\ xfer = NoXfer
      BY <3>1 DEF LineOwned
    <3>3. CASE busy' = TRUE /\ poll' = "xfer" /\ UNCHANGED mutex
      BY <2>2, <3>2, <3>3 DEF LineOwned
    <3>4. CASE UNCHANGED busy /\ mutex' = "free" /\ poll' = "idle"
      <4>1. busy' = FALSE /\ bt' # "xfer" /\ webTasks' # <<"run">> /\ xfer' = NoXfer
        BY <2>2, <3>2, <3>4
      <4> QED BY <3>4, <4>1 DEF LineOwned
    <3> QED BY <3>1, <3>3, <3>4, Zenon
  <2>4. CASE ~RestoreEnds
    <3>1. /\ UNCHANGED busy
          /\ \/ poll = "idle" /\ mutex = "free" /\ poll' = "query" /\ mutex' = "poll"
             \/ /\ poll \in {"query", "restore"} /\ mutex' = "free"
                /\ poll' \in {"idle", "committed"}
             \/ /\ poll \in {"committed", "promote"} /\ UNCHANGED mutex
                /\ poll' \in {"idle", "promote"}
             \/ /\ poll \in {"query", "restore"} /\ UNCHANGED mutex
                /\ poll' = "restore"
      BY <1>6, <2>4
      DEF Poll, Queries, Answered, PromoteSkipped, PromoteStarts, PromoteCopies,
          PromoteEnds, RestoreStarts, RestoreCopies, RestoreFails, Releases
    <3> QED BY <2>2, <3>1 DEF LineOwned
  <2> QED BY <2>3, <2>4
<1>7. CASE Cut
  BY <1>7, TaskLists DEF Cut, LineOwned
<1> QED BY <1>2, <1>3, <1>4, <1>5, <1>6, <1>7 DEF Next

\* The line to the device has one user at a time, of the Bluetooth task, the
\* task of a web transfer and the poll task, and a transfer is never begun
\* without the mutex, nor the mutex kept after it, on any of the ways out of
\* transfer_to_stm32_impl, golden_restore and their callers.
THEOREM LineExclusive == Spec => []LineOwned
<1>1. Init => WebTransfer /\ LineOwned
  BY TaskLists DEF Init, WebTransfer, LineOwned
<1>2. WebTransfer /\ [Next]_vars => WebTransfer'
  BY WebTransferSteps
<1>3. WebTransfer /\ LineOwned /\ [Next]_vars => LineOwned'
  BY LineSteps
<1> QED BY <1>1, <1>2, <1>3, PTL DEF Spec

================================================================================
