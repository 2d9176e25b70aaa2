--------------------------- MODULE OtaConfigProofs ---------------------------
(***************************************************************************)
(* Proofs about OtaConfig, for every set of contents, every record length  *)
(* and every endurance bound below the range of config_seq.                *)
(***************************************************************************)
EXTENDS OtaConfig, TLAPS

\* The two pages are each other's other page.
LEMMA OtherPage ==
  ASSUME NEW p \in Page
  PROVE  Other(p) \in Page /\ Other(p) # p /\ Other(Other(p)) = p
  BY DEF Page, Other

\* A read picks a valid copy whenever there is one.
LEMMA NewestValid ==
  ASSUME TypeOK, Readable
  PROVE  Newest \in Page /\ page[Newest].valid
  BY DEF TypeOK, Readable, Newest, ANewer, Page, CopyType

\* The copy a read picks is numbered at least as high as any other valid one.
LEMMA NewestHighest ==
  ASSUME TypeOK, NEW p \in Page, page[p].valid
  PROVE  page[p].seq <= page[Newest].seq
  BY DEF TypeOK, Readable, Newest, ANewer, Page, CopyType

\* Numbers stay below MaxSeq, so that the next one never wraps to zero.
LEMMA NextSeqGrows ==
  ASSUME StoreAssumption, TypeOK, CopiesOrdered, writes < MaxWrites
  PROVE  /\ NextSeq \in 0..MaxSeq
         /\ NextSeq <= writes + 2
         /\ \A p \in Page : page[p].valid => page[p].seq < NextSeq
<1>1. CASE Readable
  <2>1. Newest \in Page /\ page[Newest].valid
    BY <1>1, NewestValid
  <2>2. page[Newest].seq \in 0..MaxSeq /\ page[Newest].seq <= writes + 1
    BY <2>1 DEF TypeOK, CopyType, CopiesOrdered
  <2>3. NextSeq = page[Newest].seq + 1
    BY <1>1, <2>2 DEF StoreAssumption, TypeOK, NextSeq, Successor
  <2>4. NextSeq \in 0..MaxSeq /\ NextSeq <= writes + 2
    BY <2>2, <2>3 DEF StoreAssumption, TypeOK
  <2>5. \A p \in Page : page[p].valid => page[p].seq < NextSeq
    BY <2>2, <2>3, NewestHighest DEF TypeOK, CopyType
  <2> QED BY <2>4, <2>5
<1>2. CASE ~Readable
  BY <1>2 DEF StoreAssumption, TypeOK, NextSeq, Readable, Page
<1> QED BY <1>1, <1>2

-----------------------------------------------------------------------------
\* The two invariants together are inductive.
IInv == TypeOK /\ CopiesOrdered

LEMMA InitIInv ==
  ASSUME StoreAssumption, Init
  PROVE  IInv
<1>1. PICK v \in Value \cup {NoConfig} :
        page = [p \in Page |-> IF p = "A" /\ v # NoConfig
                                 THEN Copy(1, v) ELSE Invalid]
  BY DEF Init
<1>2. 1 \in 0..MaxSeq /\ 0 \in 0..MaxSeq
  BY DEF StoreAssumption
<1>3. page \in [Page -> CopyType]
  BY <1>1, <1>2 DEF Copy, Invalid, CopyType
<1>4. TypeOK
  <2>1. fault \in BOOLEAN
    BY Zenon DEF Init
  <2>2. words \in 0..Halfwords /\ writes \in 0..MaxWrites
    BY DEF Init, StoreAssumption
  <2> QED
    BY <1>2, <1>3, <2>1, <2>2 DEF Init, TypeOK, Page
<1>5. ~page["B"].valid /\ (page["A"].valid => page["A"] = Copy(1, v) /\ v \in Value)
  BY <1>1 DEF Page, Copy, Invalid
<1>6. CopiesOrdered
  BY <1>5 DEF Init, CopiesOrdered, Page, Copy
<1> QED BY <1>4, <1>6 DEF IInv

LEMMA WriteBeginsIInv ==
  ASSUME StoreAssumption, IInv, NEW v \in Value, WriteBegins(v)
  PROVE  IInv'
<1> USE DEF IInv, WriteBegins
<1>1. /\ NextSeq \in 0..MaxSeq
      /\ NextSeq <= writes + 2
      /\ \A p \in Page : page[p].valid => page[p].seq < NextSeq
  BY NextSeqGrows
<1>2. NextWritePage \in Page
  BY NewestValid, OtherPage DEF NextWritePage, Page
<1>3. TypeOK'
  <2>1. fault' \in BOOLEAN
    BY Zenon
  <2>2. words' \in 0..Halfwords /\ writes' \in 0..MaxWrites
    BY DEF TypeOK, StoreAssumption
  <2> QED
    BY <1>1, <1>2, <2>1, <2>2 DEF TypeOK
<1>4. page[target'].valid => /\ page[Other(target')].valid
                             /\ page[target'].seq < page[Other(target')].seq
  <2> SUFFICES ASSUME page[target'].valid
               PROVE  /\ page[Other(target')].valid
                      /\ page[target'].seq < page[Other(target')].seq
    OBVIOUS
  <2>1. Readable
    BY <1>2 DEF Readable, Page
  <2>2. Newest \in Page /\ page[Newest].valid /\ target' = Other(Newest)
    BY <2>1, NewestValid DEF NextWritePage
  <2>3. Other(target') = Newest /\ target' \in Page /\ target' # Newest
    BY <2>2, OtherPage
  <2>4. page[target'].seq <= page[Newest].seq
    BY <2>3, NewestHighest
  <2>5. page[target'].seq # page[Newest].seq
    BY <2>2, <2>3 DEF CopiesOrdered, Page
  <2> QED
    BY <2>2, <2>3, <2>4, <2>5 DEF TypeOK, CopyType
<1>5. CopiesOrdered'
  BY <1>1, <1>2, <1>4, OtherPage DEF CopiesOrdered, TypeOK, CopyType
<1> QED BY <1>3, <1>5

\* Making the page under rewrite unreadable disturbs no numbering.
LEMMA InvalidatedPage ==
  ASSUME StoreAssumption, IInv, NEW q,
         q = [page EXCEPT ![target] = Invalid]
  PROVE  /\ q \in [Page -> CopyType]
         /\ ~q[target].valid
         /\ q[Other(target)] = page[Other(target)]
         /\ \A p \in Page : q[p].valid => q[p] = page[p]
  BY OtherPage DEF IInv, TypeOK, CopyType, Invalid, StoreAssumption

LEMMA NextIInv ==
  ASSUME StoreAssumption, IInv, [Next]_vars
  PROVE  IInv'
<1> USE DEF IInv
<1>1. CASE \E v \in Value : Transition(v) \/ WritePrepared(v)
  <2> PICK v \in Value : Transition(v) \/ WritePrepared(v)
    BY <1>1
  <2>1. CASE WriteBegins(v)
    BY <2>1, WriteBeginsIInv
  <2>2. CASE WriteRefused
    BY <2>2 DEF WriteRefused, TypeOK, CopiesOrdered
  <2> QED
    BY <2>1, <2>2 DEF Transition, WritePrepared
<1>2. CASE EraseSucceeds
  <2>1. TypeOK'
    BY <1>2, InvalidatedPage DEF EraseSucceeds, TypeOK
  <2>2. CopiesOrdered'
    BY <1>2, InvalidatedPage DEF EraseSucceeds, CopiesOrdered, TypeOK, Page
  <2> QED BY <2>1, <2>2
<1>3. CASE EraseFails
  <2>1. TypeOK'
    BY <1>3, InvalidatedPage
       DEF EraseFails, Reply, TypeOK, Page, StoreAssumption
  <2>2. CopiesOrdered'
    BY <1>3, InvalidatedPage
       DEF EraseFails, Reply, CopiesOrdered, TypeOK, Page
  <2> QED BY <2>1, <2>2
<1>4. CASE ProgramHalfword
  <2>1. TypeOK'
    BY <1>4 DEF ProgramHalfword, TypeOK, StoreAssumption
  <2>2. CopiesOrdered'
    BY <1>4 DEF ProgramHalfword, CopiesOrdered
  <2> QED BY <2>1, <2>2
<1>5. CASE ProgramLast
  <2>1. fault' \in BOOLEAN
    BY <1>5, Zenon DEF ProgramLast, TypeOK
  <2>2. pc = "program" /\ pc' = "verify"
    BY <1>5 DEF ProgramLast
  <2>3. words' \in 0..Halfwords
    BY <1>5 DEF ProgramLast, StoreAssumption
  <2>4. CASE page' = page
    <3>1. TypeOK'
      BY <1>5, <2>4, <2>1, <2>2, <2>3 DEF ProgramLast, TypeOK
    <3>2. CopiesOrdered'
      BY <1>5, <2>4, <2>2 DEF ProgramLast, CopiesOrdered
    <3> QED BY <3>1, <3>2
  <2>5. CASE page' = [page EXCEPT ![target] = Copy(seq, val)]
    <3>1. /\ page' \in [Page -> CopyType]
          /\ page'[target] = Copy(seq, val)
          /\ page'[Other(target)] = page[Other(target)]
          /\ \A p \in Page : p # target => page'[p] = page[p]
      BY <2>5, OtherPage DEF TypeOK, CopyType, Copy
    <3>2. TypeOK'
      BY <1>5, <2>1, <2>2, <2>3, <3>1 DEF ProgramLast, TypeOK
    <3>3. \A p \in Page : p # target => p = Other(target)
      BY DEF TypeOK, Page, Other
    <3>4. seq <= writes + 1 /\ val \in Value
      BY <1>5 DEF ProgramLast, CopiesOrdered
    <3>5. page[Other(target)].valid => page[Other(target)].seq < seq
      BY <1>5 DEF ProgramLast, CopiesOrdered
    <3>6. page'["A"].valid /\ page'["B"].valid => page'["A"].seq # page'["B"].seq
      BY <3>1, <3>5 DEF TypeOK, Page, Other, Copy, CopyType
    <3>7. CopiesOrdered'
      BY <1>5, <3>1, <3>3, <3>4, <3>5, <3>6
         DEF ProgramLast, CopiesOrdered, TypeOK, Copy
    <3> QED BY <3>2, <3>7
  <2> QED BY <1>5, <2>4, <2>5 DEF ProgramLast
<1>6. CASE ProgramFails
  BY <1>6 DEF ProgramFails, Reply, TypeOK, CopiesOrdered, Page, StoreAssumption
<1>7. CASE Verify
  BY <1>7 DEF Verify, Reply, TypeOK, CopiesOrdered, Page, StoreAssumption
<1>8. CASE PowerLoss
  <2>1. fault' \in BOOLEAN
    BY <1>8, Zenon DEF PowerLoss
  <2>2. page' \in [Page -> CopyType]
    BY <1>8, InvalidatedPage DEF PowerLoss, TypeOK
  <2>3. TypeOK'
    BY <1>8, <2>1, <2>2
       DEF PowerLoss, Reply, TypeOK, Page, StoreAssumption
  <2>4. CopiesOrdered'
    BY <1>8, InvalidatedPage
       DEF PowerLoss, Reply, CopiesOrdered, TypeOK, Page
  <2> QED BY <2>3, <2>4
<1>9. CASE UNCHANGED vars
  BY <1>9 DEF vars, TypeOK, CopiesOrdered
<1> QED
  BY <1>1, <1>2, <1>3, <1>4, <1>5, <1>6, <1>7, <1>8, <1>9 DEF Next

\* The store keeps its types and its numbering: the inductive invariant every
\* other result about ota_config.c rests on.
THEOREM StoreInvariant == Spec => [](TypeOK /\ CopiesOrdered)
<1>1. Init => IInv
  BY InitIInv, StoreAssumption
<1>2. IInv /\ [Next]_vars => IInv'
  BY NextIInv, StoreAssumption
<1>3. IInv => TypeOK /\ CopiesOrdered
  BY DEF IInv
<1> QED BY <1>1, <1>2, <1>3, PTL DEF Spec

\* Every variable of the writer keeps its type: position in the record, target
\* page and sequence numbers stay within their bounds whatever fails.
THEOREM StoreTypes == Spec => []TypeOK
BY StoreInvariant, PTL

-----------------------------------------------------------------------------
(* What the numbering is for: the newest copy is never the one rewritten.  *)

\* While a page is being rewritten, a read takes its copy from the other one.
LEMMA NewestElsewhere ==
  ASSUME IInv, pc \in {"erase", "program"}, Readable
  PROVE  Newest = Other(target)
<1>1. Newest \in Page /\ page[Newest].valid
  BY NewestValid DEF IInv
<1>2. target \in Page /\ Other(target) \in Page
  BY OtherPage DEF IInv, TypeOK
<1>3. Newest # target
  <2> SUFFICES ASSUME Newest = target PROVE FALSE
    OBVIOUS
  <2>1. pc = "erase" /\ page[target].valid
    BY <1>1 DEF IInv, CopiesOrdered
  <2>2. page[Other(target)].valid /\ page[target].seq < page[Other(target)].seq
    BY <2>1 DEF IInv, CopiesOrdered
  <2>3. page[Other(target)].seq <= page[target].seq
    BY <1>2, <2>2, NewestHighest DEF IInv
  <2> QED
    BY <1>2, <2>2, <2>3 DEF IInv, TypeOK, CopyType
<1> QED
  BY <1>1, <1>2, <1>3 DEF Page, Other

\* Erasing or half-erasing the page under rewrite changes no read.
LEMMA EraseHarmless ==
  ASSUME StoreAssumption, IInv, pc = "erase",
         page' \in {page, [page EXCEPT ![target] = Invalid]}
  PROVE  (Readable' <=> Readable) /\ OtaConfigRead' = OtaConfigRead
<1>1. CASE page' = page
  BY <1>1 DEF Readable, OtaConfigRead, Newest, ANewer
<1>2. CASE page' = [page EXCEPT ![target] = Invalid]
  <2>1. /\ ~page'[target].valid
        /\ page'[Other(target)] = page[Other(target)]
        /\ target \in Page
    BY <1>2, InvalidatedPage DEF IInv, TypeOK
  <2>2. CASE Readable
    <3>1. Newest = Other(target) /\ page[Other(target)].valid
      BY <2>2, NewestElsewhere, NewestValid DEF IInv
    <3>2. Readable' /\ Newest' = Other(target)
      BY <2>1, <3>1 DEF Readable, Newest, Other, Page
    <3> QED
      BY <2>1, <2>2, <3>1, <3>2 DEF OtaConfigRead
  <2>3. CASE ~Readable
    <3>1. ~Readable'
      BY <2>1, <2>3 DEF Readable, Other, Page
    <3> QED
      BY <2>3, <3>1 DEF OtaConfigRead
  <2> QED BY <2>2, <2>3
<1> QED BY <1>1, <1>2

\* A finished copy is the one the next read returns.
LEMMA FreshCopyWins ==
  ASSUME StoreAssumption, IInv, NEW q \in [Page -> CopyType],
         q[target] = Copy(seq, val),
         q[Other(target)] = page[Other(target)], pc # "idle"
  PROVE  /\ q["A"].valid \/ q["B"].valid
         /\ (IF q["A"].valid /\ (q["B"].valid => q["A"].seq >= q["B"].seq)
               THEN "A" ELSE "B") = target
<1>1. target \in Page /\ seq \in 0..MaxSeq
  BY DEF IInv, TypeOK
<1>2. q[target].valid /\ q[target].seq = seq
  BY DEF Copy
<1>3. q[Other(target)].valid => q[Other(target)].seq < seq
  BY DEF IInv, CopiesOrdered
<1>4. q["A"].seq \in 0..MaxSeq /\ q["B"].seq \in 0..MaxSeq
  BY DEF Page, CopyType
<1> QED
  BY <1>1, <1>2, <1>3, <1>4 DEF Page, Other, StoreAssumption

\* ota_config_write() never works on the page that holds the newest copy.
THEOREM NewestSafe == Spec => []NewestIsSafe
<1>1. IInv => NewestIsSafe
  BY NewestElsewhere, OtherPage DEF NewestIsSafe, IInv, TypeOK
<1>2. Spec => []IInv
  BY StoreInvariant, PTL DEF IInv
<1> QED BY <1>1, <1>2, PTL

-----------------------------------------------------------------------------
(* Refinement: what each step does to the state ConfigStore speaks of.     *)

\* The page contents decide what a read returns.
LEMMA SamePagesSameRead ==
  ASSUME page' = page
  PROVE  (Readable' <=> Readable) /\ OtaConfigRead' = OtaConfigRead
  BY DEF Readable, OtaConfigRead, Newest, ANewer

\* Completing a copy makes it the answer of the next read.
LEMMA ProgramLastInstalls ==
  ASSUME StoreAssumption, IInv, ProgramLast,
         page' = [page EXCEPT ![target] = Copy(seq, val)]
  PROVE  /\ Readable' /\ Newest' = target
         /\ OtaConfigRead' = val
         /\ page'[target].valid
<1>1. pc = "program" /\ target' = target
  BY DEF ProgramLast
<1>2. /\ page' \in [Page -> CopyType]
      /\ page'[target] = Copy(seq, val)
      /\ page'[Other(target)] = page[Other(target)]
  <2>1. target \in Page /\ seq \in 0..MaxSeq /\ val \in Value \cup {NoConfig}
    BY DEF IInv, TypeOK
  <2>2. page \in [Page -> CopyType]
    BY DEF IInv, TypeOK
  <2>3. Copy(seq, val) \in CopyType
    BY <2>1 DEF Copy, CopyType
  <2> QED BY <2>1, <2>2, <2>3, OtherPage
<1>3. /\ page'["A"].valid \/ page'["B"].valid
      /\ (IF page'["A"].valid /\ (page'["B"].valid => page'["A"].seq >= page'["B"].seq)
            THEN "A" ELSE "B") = target
  BY <1>1, <1>2, FreshCopyWins
<1>4. Readable' /\ Newest' = target
  BY <1>3 DEF Readable, Newest, ANewer
<1>5. page'[target].valid /\ page'[target].val = val
  BY <1>2 DEF Copy
<1> QED
  BY <1>4, <1>5 DEF OtaConfigRead

\* The read-back compares equal exactly when the new copy was completed.
LEMMA VerifiedIffInstalled ==
  ASSUME StoreAssumption, IInv, pc = "verify"
  PROVE  Verified <=> page[target].valid
<1>1. target \in Page /\ page \in [Page -> CopyType] /\ seq \in 0..MaxSeq
  BY DEF IInv, TypeOK
<1>2. ASSUME page[target].valid PROVE Verified
  <2>1. page[target] = Copy(seq, val)
    BY <1>2 DEF IInv, CopiesOrdered
  <2>2. Readable /\ Newest = target
    BY <1>1, <2>1, FreshCopyWins DEF Readable, Newest, ANewer
  <2> QED BY <2>1, <2>2 DEF Verified
<1>3. ASSUME Verified, ~page[target].valid PROVE FALSE
  <2>1. Newest \in Page /\ page[Newest].valid
    BY <1>3, NewestValid DEF Verified, IInv
  <2>2. Newest = Other(target)
    BY <1>1, <1>3, <2>1 DEF Page, Other
  <2>3. page[Other(target)].seq < seq
    BY <2>1, <2>2 DEF IInv, CopiesOrdered
  <2>4. page[Other(target)].seq = seq
    BY <1>3, <2>2 DEF Verified, Copy
  <2> QED BY <1>1, <2>3, <2>4
<1> QED BY <1>2, <1>3

\* Between calls there is no argument left over from the last one.
IdleClean == pc = "idle" => val = NoConfig

LEMMA InitIdleClean ==
  ASSUME Init PROVE IdleClean
  BY DEF Init, IdleClean

LEMMA NextIdleClean ==
  ASSUME IdleClean, [Next]_vars PROVE IdleClean'
  BY DEF IdleClean, Next, vars, Transition, WritePrepared, WriteBegins,
         WriteRefused, EraseSucceeds, EraseFails, ProgramHalfword,
         ProgramLast, ProgramFails, Verify, PowerLoss, Reply

LEMMA InitRefines ==
  ASSUME StoreAssumption, Init
  PROVE  Store!Init
<1>1. IInv
  BY InitIInv
<1>2. OtaConfigRead \in Value \cup {NoConfig}
  BY <1>1, NewestValid DEF IInv, TypeOK, CopiesOrdered, OtaConfigRead
<1> QED
  BY <1>2 DEF Init, Store!Init

LEMMA NextRefines ==
  ASSUME StoreAssumption, IInv, IdleClean, [Next]_vars
  PROVE  [Store!Next]_(Store!storeVars)
<1> USE DEF Store!storeVars
<1>1. CASE \E v \in Value : Transition(v) \/ WritePrepared(v)
  <2> PICK v \in Value : Transition(v) \/ WritePrepared(v)
    BY <1>1
  <2>1. CASE WriteBegins(v)
    <3>1. Store!Call(v)
      BY <2>1, SamePagesSameRead DEF WriteBegins, Store!Call
    <3> QED BY <3>1 DEF Store!Next
  <2>2. CASE WriteRefused
    <3>1. Store!Refuse
      BY <2>2, SamePagesSameRead DEF WriteRefused, Store!Refuse, OtaConfigRead
    <3> QED BY <3>1 DEF Store!Next
  <2> QED
    BY <2>1, <2>2 DEF Transition, WritePrepared
<1>2. CASE EraseSucceeds
  BY <1>2, EraseHarmless DEF EraseSucceeds
<1>3. CASE EraseFails
  <2>1. Store!Return
    BY <1>3, EraseHarmless DEF EraseFails, Reply, Store!Return
  <2> QED BY <2>1 DEF Store!Next
<1>4. CASE ProgramHalfword
  BY <1>4, SamePagesSameRead DEF ProgramHalfword
<1>5. CASE ProgramLast
  <2>1. pc = "program" /\ pc' = "verify" /\ target' = target
        /\ val' = val /\ result' = result
    BY <1>5 DEF ProgramLast
  <2>2. CASE page' = page
    BY <2>1, <2>2, SamePagesSameRead DEF IInv, CopiesOrdered
  <2>3. CASE page' = [page EXCEPT ![target] = Copy(seq, val)]
    <3>1. Store!Install
      BY <1>5, <2>1, <2>3, ProgramLastInstalls DEF Store!Install
    <3> QED BY <3>1 DEF Store!Next
  <2> QED BY <1>5, <2>2, <2>3 DEF ProgramLast
<1>6. CASE ProgramFails
  <2>1. Store!Return
    BY <1>6, SamePagesSameRead DEF ProgramFails, Reply, Store!Return
  <2> QED BY <2>1 DEF Store!Next
<1>7. CASE Verify
  <2>1. Store!Return
    BY <1>7, SamePagesSameRead, VerifiedIffInstalled
       DEF Verify, Reply, Store!Return
  <2> QED BY <2>1 DEF Store!Next
<1>8. CASE PowerLoss
  <2>1. OtaConfigRead' = OtaConfigRead
    BY <1>8, EraseHarmless, SamePagesSameRead DEF PowerLoss
  <2>2. Store!PowerLoss
    BY <1>8, <2>1 DEF PowerLoss, Reply, Store!PowerLoss
  <2> QED BY <2>2 DEF Store!Next
<1>9. CASE UNCHANGED vars
  BY <1>9, SamePagesSameRead DEF vars
<1> QED
  BY <1>1, <1>2, <1>3, <1>4, <1>5, <1>6, <1>7, <1>8, <1>9 DEF Next

\* ota_config.c implements an atomic register: a call installs its argument
\* at one instant or not at all, and its return code tells which.
THEOREM StoreRefinement == Spec => StoreSpec
<1>1. Init => Store!Init /\ IdleClean
  BY InitRefines, InitIdleClean, StoreAssumption
<1>2. IdleClean /\ [Next]_vars => IdleClean'
  BY NextIdleClean
<1>3. IInv /\ IdleClean /\ [Next]_vars => [Store!Next]_(Store!storeVars)
  BY NextRefines, StoreAssumption
<1>4. Spec => []IInv
  BY StoreInvariant, PTL DEF IInv
<1> QED BY <1>1, <1>2, <1>3, <1>4, PTL DEF Spec, StoreSpec, Store!Spec

-----------------------------------------------------------------------------
\* No step, interrupted or not, leaves the device without a configuration
\* when it had one.
THEOREM ConfigNeverLost == Spec => NeverLosesConfig
<1>1. ASSUME StoreAssumption, IInv, [Next]_vars PROVE Readable => Readable'
  <2>1. CASE page' = page
    BY <2>1, SamePagesSameRead
  <2>2. CASE pc = "erase" /\ page' = [page EXCEPT ![target] = Invalid]
    BY <1>1, <2>2, EraseHarmless
  <2>3. CASE ProgramLast
    BY <1>1, <2>1, <2>3, ProgramLastInstalls DEF ProgramLast
  <2> QED
    BY <1>1, <2>1, <2>2, <2>3
       DEF Next, vars, Transition, WritePrepared, WriteBegins, WriteRefused,
           EraseSucceeds, EraseFails, ProgramHalfword, ProgramFails, Verify,
           PowerLoss
<1>2. Spec => []IInv
  BY StoreInvariant, PTL DEF IInv
<1>3. IInv /\ [Next]_vars => [Readable => Readable']_vars
  BY <1>1, StoreAssumption
<1> QED BY <1>2, <1>3, PTL DEF Spec, NeverLosesConfig

==============================================================================
