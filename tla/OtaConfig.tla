------------------------------ MODULE OtaConfig ------------------------------
(***************************************************************************)
(* The ping-pong configuration store of shared/ota_config.c: two copies of *)
(* BootConfig_t, one per flash page, and ota_config_write() taken apart    *)
(* into the steps between which power can fail: choose the page, erase it, *)
(* program it half-word by half-word, read it back.                        *)
(*                                                                         *)
(* A copy is abstracted to what read_copy() tells apart: whether magic and *)
(* CRC check, its config_seq, and its contents (everything else, one       *)
(* element of Value).  An erased, half-erased or half-programmed page is a *)
(* copy that does not check.                                               *)
(***************************************************************************)
EXTENDS Naturals

CONSTANTS
  Value,      \* contents of a BootConfig_t besides magic, seq and CRC
  NoConfig,   \* returned by a read that finds no valid copy
  Halfwords,  \* programming steps of one copy (28 in the code)
  MaxSeq,     \* largest config_seq (2^32 - 1 in the code)
  MaxWrites   \* bound: writes begun; flash endurance keeps it far below MaxSeq

ASSUME StoreAssumption ==
  /\ NoConfig \notin Value
  /\ Halfwords \in Nat \ {0}
  /\ MaxSeq \in Nat
  /\ MaxWrites \in Nat
  /\ MaxWrites < MaxSeq

VARIABLES
  page,     \* page[p]: the copy found on page p
  pc,       \* where ota_config_write() is
  target,   \* the page being rewritten
  seq,      \* the config_seq given to the record being written
  val,      \* the contents being written
  words,    \* half-words programmed so far
  result,   \* answer of the last call: "none" while one runs or after reset
  fault,    \* history: the last call met a flash fault
  writes    \* number of writes begun

vars == <<page, pc, target, seq, val, words, result, fault, writes>>

Page == {"A", "B"}
Other(p) == IF p = "A" THEN "B" ELSE "A"

Invalid == [valid |-> FALSE, seq |-> 0, val |-> NoConfig]
Copy(s, v) == [valid |-> TRUE, seq |-> s, val |-> v]

-----------------------------------------------------------------------------
(* Reading.  A wins a tie of sequence numbers.                             *)

ANewer == page["A"].seq >= page["B"].seq

\* The page a read takes its copy from; meaningless if no copy is valid.
Newest ==
  IF page["A"].valid /\ (page["B"].valid => ANewer) THEN "A" ELSE "B"

Readable == page["A"].valid \/ page["B"].valid

OtaConfigRead == IF Readable THEN page[Newest].val ELSE NoConfig

(* Deciding where the next copy goes, and under which number.              *)

\* Mutants: rewrite the newest copy in place; keep to one page.
WritePageNewest == IF Readable THEN Newest ELSE "A"
WritePageFixed == "A"

NextWritePage == IF Readable THEN Other(Newest) ELSE "A"

Successor(s) == IF s = MaxSeq THEN 0 ELSE s + 1

\* Mutant: the sequence number is copied, not advanced.
NextSeqKept == IF Readable THEN page[Newest].seq ELSE 1

NextSeq == IF Readable THEN Successor(page[Newest].seq) ELSE 1

-----------------------------------------------------------------------------
\* A device in the field: blank, or configured once on page A.
Init ==
  /\ \E v \in Value \cup {NoConfig} :
       page = [p \in Page |-> IF p = "A" /\ v # NoConfig
                                THEN Copy(1, v) ELSE Invalid]
  /\ pc = "idle"
  /\ target = "A" /\ seq = 0 /\ val = NoConfig /\ words = 0
  /\ result = "none" /\ fault = FALSE /\ writes = 0

Reply(answer) ==
  /\ pc' = "idle"
  /\ result' = answer
  /\ target' = "A" /\ seq' = 0 /\ val' = NoConfig /\ words' = 0

\* ota_config_write() on a record whose magic is not set returns at once.
WriteRefused ==
  /\ pc = "idle"
  /\ ~Readable
  /\ result' = "false" /\ fault' = FALSE
  /\ UNCHANGED <<page, pc, target, seq, val, words, writes>>

\* ... otherwise it settles the page and the number before touching flash.
WriteBegins(v) ==
  /\ pc = "idle"
  /\ writes < MaxWrites
  /\ pc' = "erase"
  /\ target' = NextWritePage /\ seq' = NextSeq /\ val' = v /\ words' = 0
  /\ result' = "none" /\ fault' = FALSE
  /\ writes' = writes + 1
  /\ UNCHANGED page

\* request_update(), mark_valid(), mark_failed(), confirm_boot(): the record
\* is the one just read with some fields changed.  Without one the last two
\* return false, the first two start from memset(0), whose magic is not set.
Transition(v) == IF Readable THEN WriteBegins(v) ELSE WriteRefused

\* A caller that filled a record and ran ota_config_prepare() on it.
WritePrepared(v) == WriteBegins(v)

EraseSucceeds ==
  /\ pc = "erase"
  /\ page' = [page EXCEPT ![target] = Invalid]
  /\ pc' = "program"
  /\ UNCHANGED <<target, seq, val, words, result, fault, writes>>

EraseFails ==
  /\ pc = "erase"
  /\ page' \in {page, [page EXCEPT ![target] = Invalid]}
  /\ Reply("false") /\ fault' = TRUE
  /\ UNCHANGED writes

\* Mutant: the programming loop does not know the length of the record.
ProgramUnbounded ==
  /\ pc = "program"
  /\ words' = words + 1
  /\ UNCHANGED <<page, pc, target, seq, val, result, fault, writes>>

ProgramHalfword ==
  /\ pc = "program" /\ words + 1 < Halfwords
  /\ words' = words + 1
  /\ UNCHANGED <<page, pc, target, seq, val, result, fault, writes>>

\* The last half-word completes cfg_crc32: from here on the copy checks,
\* unless a worn cell kept a bit the controller did not complain about.
ProgramLast ==
  /\ pc = "program" /\ words + 1 = Halfwords
  /\ \/ /\ page' = [page EXCEPT ![target] = Copy(seq, val)]
        /\ UNCHANGED fault
     \/ /\ fault' = TRUE
        /\ UNCHANGED page
  /\ pc' = "verify" /\ words' = Halfwords
  /\ UNCHANGED <<target, seq, val, result, writes>>

ProgramFails ==
  /\ pc = "program"
  /\ Reply("false") /\ fault' = TRUE
  /\ UNCHANGED <<page, writes>>

\* Mutant: any readable copy passes the read-back.
VerifiedAnyCopy == Readable

\* Re-read through the normal path and compare the whole record.
Verified == Readable /\ page[Newest] = Copy(seq, val)

Verify ==
  /\ pc = "verify"
  /\ Reply(IF Verified THEN "true" ELSE "false")
  /\ UNCHANGED <<page, fault, writes>>

\* A supply loss or a reset, at any instant.  An interrupted erase leaves the
\* page as it was or unusable.
PowerLoss ==
  /\ page' \in IF pc = "erase" THEN {page, [page EXCEPT ![target] = Invalid]}
                               ELSE {page}
  /\ Reply("none") /\ fault' = FALSE
  /\ UNCHANGED writes

Next ==
  \/ \E v \in Value : Transition(v) \/ WritePrepared(v)
  \/ EraseSucceeds \/ EraseFails
  \/ ProgramHalfword \/ ProgramLast \/ ProgramFails
  \/ Verify
  \/ PowerLoss

Spec == Init /\ [][Next]_vars

-----------------------------------------------------------------------------
CopyType == [valid : BOOLEAN, seq : 0..MaxSeq, val : Value \cup {NoConfig}]

\* Every variable has its type (the state of ota_config_write and the pages).
TypeOK ==
  /\ page \in [Page -> CopyType]
  /\ pc \in {"idle", "erase", "program", "verify"}
  /\ target \in Page
  /\ seq \in 0..MaxSeq
  /\ val \in Value \cup {NoConfig}
  /\ words \in 0..Halfwords
  /\ result \in {"none", "true", "false"}
  /\ fault \in BOOLEAN
  /\ writes \in 0..MaxWrites

\* ota_config_write() never erases the page holding the newest valid copy:
\* while it erases or programs, that copy lies on the other page.
NewestIsSafe ==
  pc \in {"erase", "program"} /\ Readable => Newest # target

\* A configuration that was readable once is readable at every later instant,
\* whatever fails and whenever power goes: no step loses the last valid copy.
NeverLosesConfig == [][Readable => Readable']_vars

\* The order the sequence numbers keep: the copies are numbered apart, never
\* beyond the number of writes, and the record being written is newer than
\* the copy it leaves alone.  (Inductive; the other properties follow.)
CopiesOrdered ==
  /\ \A p \in Page : page[p].valid => /\ page[p].seq <= writes + 1
                                      /\ page[p].val \in Value
  /\ page["A"].valid /\ page["B"].valid => page["A"].seq # page["B"].seq
  /\ pc # "idle" =>
       /\ val \in Value
       /\ seq <= writes + 1
       /\ page[Other(target)].valid => page[Other(target)].seq < seq
  /\ pc = "erase" /\ page[target].valid =>
       /\ page[Other(target)].valid
       /\ page[target].seq < page[Other(target)].seq
  /\ pc = "program" => ~page[target].valid
  /\ pc = "verify" /\ page[target].valid => page[target] = Copy(seq, val)

\* ota_config_write() implements the atomic register of ConfigStore.
Store == INSTANCE ConfigStore WITH
  stored <- OtaConfigRead,
  phase  <- IF pc = "idle" THEN "idle"
            ELSE IF pc = "verify" /\ page[target].valid THEN "installed"
            ELSE "pending",
  arg    <- val

\* The store behind the API is atomic: every step of the flash writer is a
\* step of ConfigStore or changes nothing a client can see.
StoreSpec == Store!Spec

==============================================================================
