----------------------------- MODULE UartRxProofs -----------------------------
(***************************************************************************)
(* Proofs about UartRx, for every size of ring and stream buffer and any    *)
(* number of bytes: as long as the two drains do not meet and the ring is   *)
(* not lapped, the parser gets the bytes of the line, in order, each once.  *)
(***************************************************************************)
EXTENDS UartRx, SequenceTheorems, TLAPS

-----------------------------------------------------------------------------
(* Counts of bytes and indices of the ring.                                *)

\* A multiple of the ring size strictly between two neighbours of zero is zero.
LEMMA SmallMultiple ==
  ASSUME NEW R \in Nat \ {0}, NEW z \in Int, R * z < R, 0 - R < R * z
  PROVE  z = 0
<1>1. ASSUME z >= 1 PROVE R * z >= R
  BY <1>1
<1>2. ASSUME z <= 0 - 1 PROVE R * z <= 0 - R
  BY <1>2
<1> QED BY <1>1, <1>2

\* Quotient and remainder.
LEMMA IndexRange ==
  ASSUME NEW n \in Int
  PROVE  /\ Index(n) \in 0..RingSize - 1
         /\ \E q \in Int : n = RingSize * q + Index(n)
<1>1. RingSize \in Nat /\ RingSize > 0
  BY UartAssumption
<1>2. n = RingSize * (n \div RingSize) + (n % RingSize) /\ n % RingSize \in 0..RingSize - 1
      /\ n \div RingSize \in Int
  BY <1>1
<1> QED BY <1>2 DEF Index

LEMMA IndexUnique ==
  ASSUME NEW q \in Int, NEW r \in 0..RingSize - 1, NEW n \in Int, n = RingSize * q + r
  PROVE  Index(n) = r
<1>1. PICK p \in Int : n = RingSize * p + Index(n)
  BY IndexRange
<1>2. Index(n) \in 0..RingSize - 1 /\ RingSize \in Nat \ {0}
  BY IndexRange, UartAssumption
<1>3. PICK z \in Int : z = q - p
  OBVIOUS
<1>4. RingSize * z = RingSize * q - RingSize * p
  BY <1>2, <1>3
<1>5. RingSize * z = Index(n) - r
  <2>1. RingSize * q \in Int /\ RingSize * p \in Int
    BY <1>2
  <2> QED BY <1>1, <1>2, <1>4, <2>1
<1>6. RingSize * z < RingSize /\ 0 - RingSize < RingSize * z
  BY <1>2, <1>5
<1>7. z = 0
  BY <1>2, <1>6, SmallMultiple
<1> QED BY <1>2, <1>5, <1>7

\* Going on from a place of the ring without passing its end.
LEMMA IndexNext ==
  ASSUME NEW a \in Int, NEW d \in Int, Index(a) + d \in 0..RingSize - 1
  PROVE  Index(a + d) = Index(a) + d
<1>1. PICK q \in Int : a = RingSize * q + Index(a)
  BY IndexRange
<1>2. Index(a) \in Int /\ RingSize * q \in Int
  BY IndexRange, UartAssumption
<1>3. a + d = RingSize * q + (Index(a) + d)
  BY <1>1, <1>2
<1> QED BY <1>3, IndexUnique

\* Going round.
LEMMA IndexWraps ==
  ASSUME NEW a \in Int
  PROVE  Index(a + RingSize) = Index(a)
<1>1. PICK q \in Int : a = RingSize * q + Index(a)
  BY IndexRange
<1>2. Index(a) \in 0..RingSize - 1 /\ RingSize \in Nat
  BY IndexRange, UartAssumption
<1>3. RingSize * (q + 1) = RingSize * q + RingSize /\ RingSize * q \in Int
  BY <1>2
<1>4. PICK p \in Int : p = q + 1
  OBVIOUS
<1>5. a + RingSize = RingSize * p + Index(a) /\ a + RingSize \in Int
  BY <1>1, <1>2, <1>3, <1>4
<1> QED BY <1>2, <1>5, IndexUnique

\* The indices of two counts less than a ring apart tell how far.
LEMMA IndexApart ==
  ASSUME NEW a \in Int, NEW b \in Int, a <= b, b - a < RingSize
  PROVE  /\ Index(b) >= Index(a) => b - a = Index(b) - Index(a)
         /\ Index(b) < Index(a) => b - a = Index(b) - Index(a) + RingSize
         /\ Index(b) = Index(a) => a = b
<1>1. Index(a) \in 0..RingSize - 1 /\ RingSize \in Nat
  BY IndexRange, UartAssumption
<1>2. CASE Index(a) + (b - a) <= RingSize - 1
  <2>1. Index(a) + (b - a) \in 0..RingSize - 1
    BY <1>1, <1>2
  <2>2. Index(a + (b - a)) = Index(a) + (b - a) /\ a + (b - a) = b
    BY <2>1, IndexNext
  <2> QED BY <1>1, <2>2
<1>3. CASE Index(a) + (b - a) > RingSize - 1
  <2>1. Index(a) + (b - a - RingSize) \in 0..RingSize - 1
    BY <1>1, <1>3
  <2>2. Index(a + (b - a - RingSize)) = Index(a) + (b - a - RingSize)
    BY <1>1, <2>1, IndexNext
  <2>3. Index((b - RingSize) + RingSize) = Index(b - RingSize)
    BY <1>1, IndexWraps
  <2>4. a + (b - a - RingSize) = b - RingSize /\ (b - RingSize) + RingSize = b
    BY <1>1
  <2>5. Index(b) = Index(a) + (b - a - RingSize)
    BY <2>2, <2>3, <2>4
  <2> QED BY <1>1, <2>5
<1> QED BY <1>1, <1>2, <1>3

-----------------------------------------------------------------------------
(* What the ring holds.                                                    *)

LEMMA RingBounds ==
  ASSUME rx \in Nat, NEW p \in Int
  PROVE  RingAt(p) \in NoByte..rx - 1
  BY IndexRange DEF RingAt, NoByte

\* The last RingSize bytes of the line are in it, each at its index.
LEMMA RingHolds ==
  ASSUME rx \in Nat, NEW k \in Nat, k < rx, rx - k <= RingSize
  PROVE  RingAt(Index(k)) = k
<1>1. Index(k) \in 0..RingSize - 1 /\ RingSize \in Nat
  BY IndexRange, UartAssumption
<1>2. PICK q \in Int : k = RingSize * q + Index(k)
  BY IndexRange
<1>3. rx - 1 - k \in 0..RingSize - 1
  BY <1>1
<1>4. RingSize * q \in Int
  BY <1>1
<1>5. rx - 1 - Index(k) = RingSize * q + (rx - 1 - k)
  BY <1>1, <1>2, <1>4
<1>6. rx - 1 - Index(k) \in Int
  BY <1>1
<1>7. Index(rx - 1 - Index(k)) = rx - 1 - k
  BY <1>3, <1>5, <1>6, IndexUnique
<1>8. rx - 1 - (rx - 1 - k) = k /\ Index(k) < RingSize /\ k >= 0
  BY <1>1
<1> QED BY <1>7, <1>8 DEF RingAt

LEMMA SpanType ==
  ASSUME rx \in Nat, NEW p \in Int, NEW n \in Nat
  PROVE  /\ Span(p, n) \in Seq(NoByte..rx - 1) /\ Len(Span(p, n)) = n
         /\ \A j \in 1..n : Span(p, n)[j] = RingAt(p + j - 1)
  BY RingBounds DEF Span

\* n bytes from the place of byte a on are the bytes from a on.
LEMMA SpanHolds ==
  ASSUME rx \in Nat, NEW a \in Nat, NEW n \in Nat, a + n <= rx, rx - a <= RingSize,
         Index(a) + n <= RingSize
  PROVE  \A j \in 1..n : Span(Index(a), n)[j] = a + j - 1
<1>1. Index(a) \in 0..RingSize - 1 /\ RingSize \in Nat
  BY IndexRange, UartAssumption
<1> SUFFICES ASSUME NEW j \in 1..n
             PROVE  Span(Index(a), n)[j] = a + j - 1
  OBVIOUS
<1>2. Span(Index(a), n)[j] = RingAt(Index(a) + j - 1)
  <2>1. Index(a) \in Int
    BY <1>1
  <2> QED BY <2>1, SpanType
<1>3. Index(a) + (j - 1) \in 0..RingSize - 1 /\ j - 1 \in Int
  BY <1>1
<1>4. Index(a + (j - 1)) = Index(a) + (j - 1)
  BY <1>3, IndexNext
<1>5. a + (j - 1) \in Nat /\ a + (j - 1) < rx /\ rx - (a + (j - 1)) <= RingSize
  BY <1>1
<1>6. RingAt(Index(a + (j - 1))) = a + (j - 1)
  BY <1>5, RingHolds
<1>7. Index(a) + j - 1 = Index(a) + (j - 1) /\ a + j - 1 = a + (j - 1)
  BY <1>1
<1> QED BY <1>2, <1>4, <1>6, <1>7

-----------------------------------------------------------------------------
(* The stream buffer.                                                      *)

\* What waits in s goes on where l ended, and ends before P.
Flow(s, l, P) ==
  /\ l < P
  /\ \A j \in 1..Len(s) : /\ s[j] > IF j = 1 THEN l ELSE s[j - 1]
                          /\ s[j] < P

LEMMA FlowAppend ==
  ASSUME NEW s \in Seq(Int), NEW t \in Seq(Int), NEW l \in Int, NEW P \in Int,
         NEW n \in Nat, Flow(s, l, P), Len(t) <= n,
         \A j \in 1..Len(t) : t[j] = P + j - 1
  PROVE  Flow(s \o t, l, P + n)
<1> DEFINE u == s \o t
<1>1. /\ Len(u) = Len(s) + Len(t) /\ Len(s) \in Nat /\ Len(t) \in Nat
      /\ \A i \in 1..Len(s) + Len(t) : u[i] = IF i <= Len(s) THEN s[i] ELSE t[i - Len(s)]
  BY ConcatProperties, LenProperties
<1>2. \A i \in 1..Len(s) : s[i] \in Int
  BY ElementOfSeq
<1> HIDE DEF u
<1>3. ASSUME NEW i \in 1..Len(u)
      PROVE  u[i] > (IF i = 1 THEN l ELSE u[i - 1]) /\ u[i] < P + n
  <2>0. i \in Int /\ i >= 1 /\ i <= Len(s) + Len(t)
    BY <1>1
  <2> DEFINE k == i - 1
  <2>1. k \in Int /\ k = i - 1
    BY <2>0
  <2>2. u[i] = IF i <= Len(s) THEN s[i] ELSE t[i - Len(s)]
    BY <1>1
  <2>3. ASSUME i # 1
        PROVE  u[k] = IF k <= Len(s) THEN s[k] ELSE t[k - Len(s)]
    <3>1. k \in 1..Len(s) + Len(t)
      BY <1>1, <2>0, <2>3
    <3> HIDE DEF k
    <3> QED BY <1>1, <3>1
  <2>4. CASE i <= Len(s)
    <3>1. i \in 1..Len(s)
      BY <1>1, <2>0, <2>4
    <3>2. s[i] > (IF i = 1 THEN l ELSE s[k]) /\ s[i] < P
      BY <3>1 DEF Flow
    <3>3. i # 1 => k \in 1..Len(s)
      BY <1>1, <3>1
    <3>4. u[i] = s[i] /\ (i # 1 => u[k] = s[k])
      <4> HIDE DEF k
      <4> QED BY <2>2, <2>3, <2>4, <3>3
    <3>5. u[i] > (IF i = 1 THEN l ELSE u[k]) /\ u[i] < P
      BY <3>2, <3>4, Zenon
    <3> QED BY <1>2, <3>1, <3>4, <3>5
  <2>5. CASE i > Len(s)
    <3>1. i - Len(s) \in 1..Len(t)
      BY <1>1, <2>0, <2>5
    <3>2. u[i] = P + (i - Len(s)) - 1 /\ i - Len(s) <= n
      BY <1>1, <2>0, <2>2, <2>5, <3>1
    <3>3. u[i] \in Int /\ u[i] >= P /\ u[i] < P + n
      BY <1>1, <2>0, <3>1, <3>2
    <3>4. CASE i = 1
      BY <3>3, <3>4 DEF Flow
    <3>5. CASE i # 1 /\ k <= Len(s)
      <4>1. k \in 1..Len(s)
        BY <2>0, <3>5
      <4> HIDE DEF k
      <4>2. u[k] = s[k] /\ s[k] < P /\ s[k] \in Int
        BY <1>2, <2>3, <3>5, <4>1 DEF Flow
      <4>3. u[i] > u[k]
        BY <3>3, <4>2
      <4> QED BY <2>1, <3>3, <3>5, <4>3
    <3>6. CASE i # 1 /\ k > Len(s)
      <4>1. k - Len(s) \in 1..Len(t)
        BY <1>1, <2>0, <3>6
      <4>2. k - Len(s) = i - Len(s) - 1
        BY <1>1, <2>0
      <4> HIDE DEF k
      <4>3. u[k] = t[k - Len(s)]
        BY <1>1, <2>1, <2>3, <3>6
      <4>4. u[k] = P + (k - Len(s)) - 1
        BY <4>1, <4>3
      <4>5. u[i] > u[k]
        BY <1>1, <2>0, <2>1, <3>1, <3>2, <4>2, <4>4
      <4> QED BY <2>1, <3>3, <3>6, <4>5
    <3> QED BY <1>1, <2>0, <2>1, <3>4, <3>5, <3>6
  <2> QED BY <1>1, <2>0, <2>4, <2>5
<1>4. l < P + n
  BY DEF Flow
<1> QED BY <1>3, <1>4 DEF Flow, u

LEMMA FlowTail ==
  ASSUME NEW s \in Seq(Int), s # <<>>, NEW l \in Int, NEW P \in Int, Flow(s, l, P)
  PROVE  Flow(Tail(s), s[1], P)
<1>1. /\ Len(Tail(s)) = Len(s) - 1 /\ Len(s) \in Nat /\ Len(s) >= 1
      /\ \A i \in 1..Len(Tail(s)) : Tail(s)[i] = s[i + 1]
  BY HeadTailProperties, EmptySeq, LenProperties
<1>2. s[1] < P
  BY <1>1 DEF Flow
<1>3. ASSUME NEW i \in 1..Len(Tail(s))
      PROVE  Tail(s)[i] > (IF i = 1 THEN s[1] ELSE Tail(s)[i - 1]) /\ Tail(s)[i] < P
  <2>1. i + 1 \in 1..Len(s) /\ i + 1 # 1 /\ (i + 1) - 1 = i
        /\ (i # 1 => i - 1 \in 1..Len(Tail(s)) /\ (i - 1) + 1 = i)
    BY <1>1
  <2>2. s[i + 1] > s[i] /\ s[i + 1] < P
    BY <2>1 DEF Flow
  <2>3. Tail(s)[i] = s[i + 1] /\ (i # 1 => Tail(s)[i - 1] = s[i])
    BY <1>1, <2>1
  <2> QED BY <2>2, <2>3
<1> QED BY <1>2, <1>3 DEF Flow

\* The buffer takes no more than it is given and no more than fits.
LEMMA TakenFits ==
  ASSUME NEW n \in Nat, Len(stream) \in Nat, Len(stream) <= StreamSize - 1
  PROVE  /\ Taken(n) \in 0..n
         /\ Len(stream) + Taken(n) <= StreamSize - 1
<1>1. StreamSize \in Nat
  BY UartAssumption
<1> QED BY <1>1 DEF Taken, Space

\* The first of a run of bytes of memory that the buffer takes.
LEMMA Prefix ==
  ASSUME NEW S, NEW t \in Seq(S), NEW m \in 0..Len(t)
  PROVE  /\ SubSeq(t, 1, m) \in Seq(S) /\ Len(SubSeq(t, 1, m)) = m
         /\ \A j \in 1..m : SubSeq(t, 1, m)[j] = t[j]
<1>1. Len(t) \in Nat
  BY LenProperties
<1>2. \A i \in 1..m : t[i] \in S
  BY <1>1, ElementOfSeq
<1>3. m \in Int /\ 1 \in Int /\ (m - 1 + 1 = m) /\ (1 <= m \/ m = 0)
  BY <1>1
<1>4. /\ SubSeq(t, 1, m) \in Seq(S)
      /\ Len(SubSeq(t, 1, m)) = IF 1 <= m THEN m - 1 + 1 ELSE 0
      /\ \A i \in 1..m - 1 + 1 : SubSeq(t, 1, m)[i] = t[1 + i - 1]
  BY <1>2, <1>3, SubSeqProperties
<1> QED BY <1>3, <1>4

-----------------------------------------------------------------------------
(* The invariant.                                                          *)

\* Up to which byte the drains have handed over.
Published ==
  IF pc = "rest" THEN tail + RingSize - Index(tail)
  ELSE IF pc = "set" THEN head ELSE tail

Places ==
  /\ rx - tail < RingSize
  /\ isr = "read" => tail <= isrHead
  /\ pc \in Draining => tail <= head
  /\ pc = "compare" => Index(head) # Index(tail)
  /\ pc = "one" => Index(head) > Index(tail)
  /\ pc \in {"two", "rest"} => Index(head) < Index(tail)

Account ==
  /\ Flow(stream, last, Published)
  /\ got + Len(stream) + lost = Published

IInv == TypeOK /\ (~clashed /\ ~lapped => Places /\ Account)

LEMMA StreamFacts ==
  ASSUME TypeOK
  PROVE  /\ stream \in Seq(Int) /\ Len(stream) \in Nat
         /\ rx \in Nat /\ tail \in Nat /\ head \in Nat /\ isrHead \in Nat
         /\ tail <= rx /\ head <= rx /\ isrHead <= rx
         /\ last \in Int /\ got \in Nat /\ lost \in Nat
         /\ Index(tail) \in 0..RingSize - 1 /\ Index(head) \in 0..RingSize - 1
         /\ Index(isrHead) \in 0..RingSize - 1 /\ RingSize \in Nat /\ RingSize > 0
         /\ StreamSize \in Nat /\ StreamSize > 0 /\ MaxBytes \in Nat
<1>1. rx \in Nat /\ tail \in Nat /\ head \in Nat /\ isrHead \in Nat
      /\ tail <= rx /\ head <= rx /\ isrHead <= rx
      /\ last \in Int /\ got \in Nat /\ lost \in Nat
      /\ RingSize \in Nat /\ RingSize > 0
      /\ StreamSize \in Nat /\ StreamSize > 0 /\ MaxBytes \in Nat
  BY UartAssumption DEF TypeOK, NoByte
<1>2. NoByte..rx - 1 \subseteq Int
  BY <1>1 DEF NoByte
<1>3. stream \in Seq(Int) /\ Len(stream) \in Nat
  <2>1. stream \in Seq(NoByte..rx - 1)
    BY DEF TypeOK
  <2>2. Len(stream) \in Nat
    BY <2>1, LenProperties
  <2>3. \A j \in 1..Len(stream) : stream[j] \in Int
    BY <1>2, <2>1, ElementOfSeq
  <2>4. stream = [j \in 1..Len(stream) |-> stream[j]]
    BY <2>1
  <2>5. stream \in Seq(Int)
    BY <2>2, <2>3, <2>4
  <2> QED BY <2>2, <2>5
<1>4. /\ Index(tail) \in 0..RingSize - 1 /\ Index(head) \in 0..RingSize - 1
      /\ Index(isrHead) \in 0..RingSize - 1
  BY <1>1, IndexRange
<1> QED BY <1>1, <1>3, <1>4

\* No tail is so old that what it points at is overwritten.
LEMMA Widths ==
  ASSUME TypeOK, Places, NEW h \in Nat, tail <= h, h <= rx
  PROVE  /\ Index(h) >= Index(tail) => h - tail = Index(h) - Index(tail)
         /\ Index(h) < Index(tail) => h - tail = Index(h) - Index(tail) + RingSize
         /\ Index(h) = Index(tail) => tail = h
<1>1. h - tail < RingSize
  BY StreamFacts DEF Places
<1> QED BY <1>1, StreamFacts, IndexApart

\* Where the second part begins when the bytes wrap around the end.
LEMMA SeamAt ==
  ASSUME TypeOK
  PROVE  Index(tail + RingSize - Index(tail)) = 0
<1>1. PICK q \in Int : tail = RingSize * q + Index(tail)
  BY StreamFacts, IndexRange
<1>2. PICK p \in Int : p = q + 1
  OBVIOUS
<1>3. RingSize * p = RingSize * q + RingSize /\ RingSize * q \in Int
  BY <1>2, StreamFacts
<1>4. Index(tail) \in Int /\ tail \in Int /\ RingSize \in Int /\ 0 \in 0..RingSize - 1
  BY StreamFacts
<1>5. tail + RingSize - Index(tail) = RingSize * p + 0
      /\ tail + RingSize - Index(tail) \in Int
  BY <1>1, <1>3, <1>4
<1> QED BY <1>4, <1>5, IndexUnique

\* The initial state.
LEMMA InitInv == Init => IInv
<1> SUFFICES ASSUME Init PROVE IInv
  OBVIOUS
<1>1. TypeOK
  <2>1. stream \in Seq(NoByte..rx - 1) /\ Len(stream) = 0
    BY EmptySeq DEF Init
  <2>2. StreamSize \in Nat /\ StreamSize > 0 /\ MaxBytes \in Nat
    BY UartAssumption
  <2>3. stream \in Seq(NoByte..rx - 1) /\ Len(stream) <= StreamSize - 1
    BY <2>1, <2>2
  <2>4. /\ rx \in 0..MaxBytes /\ tail \in 0..rx /\ head \in 0..rx /\ isrHead \in 0..rx
        /\ got \in Nat /\ last \in NoByte..rx - 1 /\ lost \in Nat
    <3>1. rx = 0 /\ tail = 0 /\ isrHead = 0 /\ head = 0 /\ got = 0 /\ last = NoByte /\ lost = 0
      BY DEF Init
    <3> QED BY <2>2, <3>1 DEF NoByte
  <2>5. /\ busy \in BOOLEAN /\ idle \in BOOLEAN
        /\ isr \in {"off", "flag", "read"}
        /\ pc \in {"init", "start", "loop"} \cup Draining
        /\ clashed \in BOOLEAN /\ lapped \in BOOLEAN
    BY DEF Init
  <2> QED BY <2>3, <2>4, <2>5, Zenon DEF TypeOK
<1>2. Places
  BY UartAssumption DEF Init, Places, Draining
<1>3. Account
  <2>1. Len(stream) = 0 /\ Published = 0 /\ last = 0 - 1 /\ got = 0 /\ lost = 0
    BY EmptySeq DEF Init, Published, NoByte
  <2> QED BY <2>1 DEF Account, Flow
<1> QED BY <1>1, <1>2, <1>3 DEF IInv

-----------------------------------------------------------------------------
(* The steps.                                                              *)

LEMMA Counting ==
  ASSUME NEW g \in Nat, NEW l \in Nat, NEW k \in Nat, NEW n \in Nat, NEW m \in 0..n
  PROVE  /\ l + n - m \in Nat
         /\ \A P \in Int : g + k + l = P => g + (k + m) + (l + n - m) = P + n
OBVIOUS

\* What handing n bytes to the stream buffer does to it.
LEMMA Handover ==
  ASSUME TypeOK, NEW n \in Nat, NEW t \in Seq(NoByte..rx - 1), Len(t) = Taken(n),
         stream' = stream \o t, lost' = lost + n - Taken(n)
  PROVE  /\ stream' \in Seq(NoByte..rx - 1) /\ Len(stream') <= StreamSize - 1
         /\ lost' \in Nat /\ Len(stream') = Len(stream) + Taken(n)
         /\ \A P \in Int :
              /\ got + Len(stream) + lost = P => got + Len(stream') + lost' = P + n
              /\ Flow(stream, last, P) /\ (\A j \in 1..Len(t) : t[j] = P + j - 1)
                 => Flow(stream', last, P + n)
<1>1. Taken(n) \in 0..n /\ Len(stream) + Taken(n) <= StreamSize - 1
  <2>1. Len(stream) \in Nat /\ Len(stream) <= StreamSize - 1
    BY StreamFacts DEF TypeOK
  <2> QED BY <2>1, TakenFits
<1>2. stream \in Seq(NoByte..rx - 1)
  BY DEF TypeOK
<1>3. stream' \in Seq(NoByte..rx - 1) /\ Len(stream') = Len(stream) + Len(t)
  BY <1>2, ConcatProperties
<1>4. t \in Seq(Int)
  <2>1. Len(t) \in Nat /\ \A j \in 1..Len(t) : t[j] \in NoByte..rx - 1
    BY LenProperties, ElementOfSeq
  <2>2. NoByte..rx - 1 \subseteq Int
    BY StreamFacts DEF NoByte
  <2>3. t = [j \in 1..Len(t) |-> t[j]]
    OBVIOUS
  <2>4. \A j \in 1..Len(t) : t[j] \in Int
    BY <2>1, <2>2
  <2> QED BY <2>1, <2>3, <2>4
<1>5. /\ lost + n - Taken(n) \in Nat
      /\ \A P \in Int : got + Len(stream) + lost = P
           => got + (Len(stream) + Taken(n)) + (lost + n - Taken(n)) = P + n
  <2>1. got \in Nat /\ lost \in Nat /\ Len(stream) \in Nat
    BY StreamFacts
  <2> DEFINE k == Len(stream)  m == Taken(n)
  <2>2. k \in Nat /\ m \in 0..n
    BY <1>1, <2>1
  <2> HIDE DEF k, m
  <2>3. /\ lost + n - m \in Nat
        /\ \A P \in Int : got + k + lost = P => got + (k + m) + (lost + n - m) = P + n
    BY <2>1, <2>2, Counting
  <2> QED BY <2>3, Zenon DEF k, m
<1>6. ASSUME NEW P \in Int
      PROVE  /\ got + Len(stream) + lost = P => got + Len(stream') + lost' = P + n
             /\ Flow(stream, last, P) /\ (\A j \in 1..Len(t) : t[j] = P + j - 1)
                => Flow(stream', last, P + n)
  <2>1. got + Len(stream) + lost = P => got + Len(stream') + lost' = P + n
    BY <1>3, <1>5, Zenon
  <2>2. ASSUME Flow(stream, last, P), \A j \in 1..Len(t) : t[j] = P + j - 1
        PROVE  Flow(stream', last, P + n)
    <3>1. stream \in Seq(Int) /\ last \in Int /\ Len(t) <= n
      BY <1>1, StreamFacts
    <3>2. Flow(stream \o t, last, P + n)
      BY <1>4, <2>2, <3>1, FlowAppend
    <3> QED BY <3>2
  <2> QED BY <2>1, <2>2
<1>7. lost' \in Nat /\ Len(stream') = Len(stream) + Taken(n)
  BY <1>3, <1>5, Zenon
<1>8. Len(stream') <= StreamSize - 1
  BY <1>1, <1>7, Zenon
<1> QED BY <1>3, <1>6, <1>7, <1>8, Zenon

\* A span the buffer is given.
LEMMA SpanTaken ==
  ASSUME TypeOK, NEW p \in Int, NEW n \in Nat
  PROVE  /\ Span(p, Taken(n)) \in Seq(NoByte..rx - 1)
         /\ Len(Span(p, Taken(n))) = Taken(n) /\ Taken(n) \in 0..n
<1>1. Len(stream) \in Nat /\ Len(stream) <= StreamSize - 1 /\ rx \in Nat
  BY StreamFacts DEF TypeOK
<1>2. Taken(n) \in 0..n
  BY <1>1, TakenFits
<1>3. Taken(n) \in Nat
  BY <1>2
<1> QED BY <1>1, <1>2, <1>3, SpanType

LEMMA LineSteps ==
  ASSUME IInv, ByteArrives \/ LineIdle
  PROVE  IInv'
<1>1. CASE ByteArrives
  <2>1. TypeOK'
    <3>0. rx < MaxBytes /\ rx' = rx + 1 /\ rx \in Nat /\ MaxBytes \in Nat
      BY <1>1, StreamFacts DEF IInv, ByteArrives
    <3>1. rx' \in 0..MaxBytes /\ rx' = rx + 1 /\ NoByte..rx - 1 \subseteq NoByte..rx' - 1
      BY <3>0 DEF NoByte
    <3>2. stream' \in Seq(NoByte..rx' - 1)
      <4>1. stream \in Seq(NoByte..rx - 1) /\ stream' = stream
        BY <1>1 DEF IInv, TypeOK, ByteArrives
      <4>2. Len(stream) \in Nat /\ \A j \in 1..Len(stream) : stream[j] \in NoByte..rx' - 1
        BY <3>1, <4>1, ElementOfSeq, LenProperties
      <4>3. stream = [j \in 1..Len(stream) |-> stream[j]]
        BY <4>1
      <4> DEFINE S == NoByte..rx' - 1
      <4> HIDE DEF S
      <4>4. \A j \in 1..Len(stream) : stream[j] \in S
        BY <4>2 DEF S
      <4>5. stream \in Seq(S)
        BY <4>2, <4>3, <4>4
      <4> QED BY <4>1, <4>5, Zenon DEF S
    <3>3. Len(stream') <= StreamSize - 1
      BY <1>1 DEF IInv, TypeOK, ByteArrives
    <3>4. /\ tail' \in 0..rx' /\ head' \in 0..rx' /\ isrHead' \in 0..rx'
          /\ got' \in Nat /\ last' \in NoByte..rx' - 1 /\ lost' \in Nat
      BY <1>1, <3>1, StreamFacts
         DEF IInv, TypeOK, ByteArrives, handler, history, NoByte
    <3>5. /\ busy' \in BOOLEAN /\ idle' \in BOOLEAN
          /\ isr' \in {"off", "flag", "read"}
          /\ pc' \in {"init", "start", "loop"} \cup Draining
          /\ clashed' \in BOOLEAN /\ lapped' \in BOOLEAN
      BY <1>1, Zenon DEF IInv, TypeOK, ByteArrives, handler
    <3> QED BY <3>1, <3>2, <3>3, <3>4, <3>5, Zenon DEF TypeOK, Draining
  <2>2. ASSUME ~clashed', ~lapped' PROVE Places' /\ Account'
    <3>0. rx \in Nat /\ tail \in Nat /\ RingSize \in Nat
      BY StreamFacts DEF IInv
    <3>1. ~clashed /\ ~lapped /\ rx' - tail' < RingSize
      <4>1. ~clashed /\ ~(lapped \/ rx + 1 - tail >= RingSize)
        BY <1>1, <2>2, Zenon DEF ByteArrives, handler
      <4>2. rx' = rx + 1 /\ tail' = tail
        BY <1>1 DEF ByteArrives
      <4> QED BY <3>0, <4>1, <4>2
    <3> QED BY <1>1, <3>1
            DEF IInv, ByteArrives, handler, history, Places, Account, Published,
                Index, Draining
  <2> QED BY <2>1, <2>2 DEF IInv
<1>2. CASE LineIdle
  BY <1>2, Zenon DEF IInv, TypeOK, LineIdle, handler, history, Places, Account, Published,
              Index, Draining, Flow
<1> QED BY <1>1, <1>2

LEMMA IsrSteps ==
  ASSUME IInv, EnableIdle \/ IsrEnter \/ IsrReadsHead \/ IsrNothingNew
  PROVE  IInv'
<1> USE DEF IInv, TypeOK, Places, Account, Published, Draining, line, handler, history
<1>1. CASE EnableIdle
  BY <1>1 DEF EnableIdle
<1>2. CASE IsrEnter
  BY <1>2 DEF IsrEnter
<1>3. CASE IsrReadsHead
  BY <1>3 DEF IsrReadsHead
<1>4. CASE IsrNothingNew
  BY <1>4 DEF IsrNothingNew
<1> QED BY <1>1, <1>2, <1>3, <1>4

LEMMA DrainSteps ==
  ASSUME IInv, DrainReadsHead \/ DrainTests \/ DrainCompares \/ DrainSetsTail
  PROVE  IInv'
<1> USE DEF IInv, TypeOK, Places, Account, Published, Draining, line, handler, history
<1>1. CASE DrainReadsHead
  BY <1>1 DEF DrainReadsHead
<1>2. CASE DrainTests
  BY <1>2, StreamFacts DEF DrainTests
<1>3. CASE DrainCompares
  BY <1>3, StreamFacts DEF DrainCompares
<1>4. CASE DrainSetsTail
  <2>1. tail' \in 0..rx' /\ UNCHANGED <<rx, head, isrHead, stream, busy, idle, isr, got, last,
                                        lost, clashed, lapped>> /\ pc' = "loop" /\ tail' = head
    BY <1>4 DEF DrainSetsTail, TailAt
  <2>2. TypeOK'
    BY <2>1
  <2>3. ASSUME ~clashed, ~lapped PROVE Places' /\ Account'
    <3>1. rx - head < RingSize
      BY <1>4, <2>3, StreamFacts DEF DrainSetsTail
    <3> QED BY <1>4, <2>1, <2>3, <3>1 DEF DrainSetsTail
  <2> QED BY <2>1, <2>2, <2>3
<1> QED BY <1>1, <1>2, <1>3, <1>4

\* One span handed over: types, and the account if it starts where the last ended.
LEMMA SendSpan ==
  ASSUME TypeOK, NEW p \in Int, NEW n \in Nat, Send(p, n)
  PROVE  /\ stream' \in Seq(NoByte..rx - 1) /\ Len(stream') <= StreamSize - 1
         /\ lost' \in Nat
         /\ \A P \in Nat :
              /\ Flow(stream, last, P) /\ got + Len(stream) + lost = P
              /\ p = Index(P) /\ p + n <= RingSize /\ P + n <= rx /\ rx - P <= RingSize
              => Flow(stream', last, P + n) /\ got + Len(stream') + lost' = P + n
<1> DEFINE t == Span(p, Taken(n))
<1>1. t \in Seq(NoByte..rx - 1) /\ Len(t) = Taken(n) /\ Taken(n) \in 0..n
  BY SpanTaken
<1>2. stream' = stream \o t /\ lost' = lost + n - Taken(n)
  BY DEF Send
<1> HIDE DEF t
<1>3. /\ stream' \in Seq(NoByte..rx - 1) /\ Len(stream') <= StreamSize - 1
      /\ lost' \in Nat /\ Len(stream') = Len(stream) + Taken(n)
      /\ \A P \in Int :
           /\ got + Len(stream) + lost = P => got + Len(stream') + lost' = P + n
           /\ Flow(stream, last, P) /\ (\A j \in 1..Len(t) : t[j] = P + j - 1)
              => Flow(stream', last, P + n)
  BY <1>1, <1>2, Handover
<1>4. ASSUME NEW P \in Nat, p = Index(P), p + n <= RingSize, P + n <= rx,
             rx - P <= RingSize
      PROVE  \A j \in 1..Len(t) : t[j] = P + j - 1
  <2>1. /\ rx \in Nat /\ Taken(n) \in Nat /\ P + Taken(n) <= rx
        /\ Index(P) + Taken(n) <= RingSize
    <3>1. rx \in Nat /\ RingSize \in Nat
      BY StreamFacts
    <3>2. p \in Int
      OBVIOUS
    <3> QED BY <1>1, <1>4, <3>1, <3>2
  <2>2. \A j \in 1..Taken(n) : Span(Index(P), Taken(n))[j] = P + j - 1
    BY <1>4, <2>1, SpanHolds
  <2> QED BY <1>1, <1>4, <2>2, Zenon DEF t
<1>5. ASSUME NEW P \in Nat
      PROVE  P \in Int
  OBVIOUS
<1> QED BY <1>3, <1>4, <1>5, Zenon

LEMMA DrainSendSteps ==
  ASSUME IInv, DrainSendsSpan \/ DrainSendsEnd \/ DrainSendsBegin
  PROVE  IInv'
<1> USE DEF line, handler, history
<1>0. TypeOK
  BY DEF IInv
<1>1. CASE DrainSendsSpan
  <2> DEFINE d == Index(head) - Index(tail)
             n == IF d >= 0 THEN d ELSE StreamSize
  <2>1. n \in Nat /\ Index(tail) \in Int
    BY <1>0, StreamFacts
  <2>2. /\ Send(Index(tail), n) /\ pc = "one" /\ pc' = "set" /\ isr = "off"
        /\ UNCHANGED <<rx, tail, busy, idle, isr, isrHead, head, got, last, clashed, lapped>>
    BY <1>1, Zenon DEF DrainSendsSpan
  <2>3. /\ stream' \in Seq(NoByte..rx - 1) /\ Len(stream') <= StreamSize - 1
        /\ lost' \in Nat
        /\ \A P \in Nat :
             /\ Flow(stream, last, P) /\ got + Len(stream) + lost = P
             /\ Index(tail) = Index(P) /\ Index(tail) + n <= RingSize /\ P + n <= rx
             /\ rx - P <= RingSize
             => Flow(stream', last, P + n) /\ got + Len(stream') + lost' = P + n
    <3> HIDE DEF n
    <3> QED BY <1>0, <2>1, <2>2, SendSpan
  <2>4. TypeOK'
    BY <1>0, <2>2, <2>3 DEF TypeOK, Draining
  <2>5. ASSUME ~clashed', ~lapped' PROVE Places' /\ Account'
    <3>1. Places /\ Account
      BY <2>2, <2>5 DEF IInv
    <3>2. tail <= head /\ Index(head) > Index(tail) /\ rx - tail < RingSize
      BY <2>2, <3>1 DEF Places, Draining
    <3>3. n = head - tail /\ tail + n = head /\ Index(tail) + n <= RingSize
      <4>1. /\ tail \in Nat /\ head \in Nat /\ head <= rx /\ RingSize \in Nat
            /\ Index(head) \in 0..RingSize - 1 /\ Index(tail) \in 0..RingSize - 1
        BY <1>0, StreamFacts
      <4>2. Index(head) >= Index(tail)
        BY <3>2, <4>1
      <4>3. head - tail = Index(head) - Index(tail)
        BY <1>0, <3>1, <3>2, <4>1, <4>2, Widths
      <4> QED BY <3>2, <4>1, <4>3
    <3>4. Flow(stream, last, tail) /\ got + Len(stream) + lost = tail
      BY <2>2, <3>1 DEF Account, Published
    <3>5. tail \in Nat /\ tail + n <= rx /\ rx - tail <= RingSize
      BY <1>0, <3>2, <3>3, StreamFacts
    <3>6. Flow(stream', last, head) /\ got + Len(stream') + lost' = head
      <4> HIDE DEF n
      <4>1. Flow(stream', last, tail + n) /\ got + Len(stream') + lost' = tail + n
        BY <2>3, <3>3, <3>4, <3>5, Zenon
      <4> QED BY <3>3, <4>1, Zenon
    <3>7. Published' = head
      BY <2>2 DEF Published
    <3>8. Account'
      BY <2>2, <3>6, <3>7, Zenon DEF Account
    <3>9. Places'
      BY <2>2, <3>1, <3>2 DEF Places, Draining
    <3> QED BY <3>8, <3>9
  <2> QED BY <2>4, <2>5 DEF IInv
<1>2. CASE DrainSendsEnd
  <2> DEFINE n == RingSize - Index(tail)
  <2>1. n \in Nat /\ Index(tail) \in Int
    BY <1>0, StreamFacts
  <2>2. /\ Send(Index(tail), n) /\ pc = "two" /\ pc' = "rest" /\ isr = "off"
        /\ UNCHANGED <<rx, tail, busy, idle, isr, isrHead, head, got, last, clashed, lapped>>
    BY <1>2, Zenon DEF DrainSendsEnd
  <2>3. /\ stream' \in Seq(NoByte..rx - 1) /\ Len(stream') <= StreamSize - 1
        /\ lost' \in Nat
        /\ \A P \in Nat :
             /\ Flow(stream, last, P) /\ got + Len(stream) + lost = P
             /\ Index(tail) = Index(P) /\ Index(tail) + n <= RingSize /\ P + n <= rx
             /\ rx - P <= RingSize
             => Flow(stream', last, P + n) /\ got + Len(stream') + lost' = P + n
    <3> HIDE DEF n
    <3> QED BY <1>0, <2>1, <2>2, SendSpan
  <2>4. TypeOK'
    BY <1>0, <2>2, <2>3 DEF TypeOK, Draining
  <2>5. ASSUME ~clashed', ~lapped' PROVE Places' /\ Account'
    <3>1. Places /\ Account
      BY <2>2, <2>5 DEF IInv
    <3>2. tail <= head /\ Index(head) < Index(tail) /\ rx - tail < RingSize
      BY <2>2, <3>1 DEF Places, Draining
    <3>3. head - tail = Index(head) - Index(tail) + RingSize
      BY <1>0, <3>1, <3>2, StreamFacts, Widths
    <3>4. Flow(stream, last, tail) /\ got + Len(stream) + lost = tail
      BY <2>2, <3>1 DEF Account, Published
    <3>5. /\ tail \in Nat /\ tail + n <= rx /\ rx - tail <= RingSize
          /\ Index(tail) + n <= RingSize /\ tail + RingSize - Index(tail) = tail + n
      BY <1>0, <3>2, <3>3, StreamFacts
    <3>6. Flow(stream', last, tail + n) /\ got + Len(stream') + lost' = tail + n
      <4> HIDE DEF n
      <4> QED BY <2>3, <3>4, <3>5, Zenon
    <3>7. Published' = tail + n
      <4>1. Published' = tail' + RingSize - Index(tail')
        BY <2>2 DEF Published
      <4> QED BY <2>2, <3>5, <4>1, Zenon
    <3>8. Account'
      <4> HIDE DEF n
      <4> QED BY <2>2, <3>6, <3>7, Zenon DEF Account
    <3>9. Places'
      BY <2>2, <3>1, <3>2 DEF Places, Draining
    <3> QED BY <3>8, <3>9
  <2> QED BY <2>4, <2>5 DEF IInv
<1>3. CASE DrainSendsBegin
  <2> DEFINE n == Index(head)
  <2>1. n \in Nat /\ 0 \in Int
    BY <1>0, StreamFacts
  <2>2. /\ Send(0, n) /\ pc = "rest" /\ pc' = "set" /\ isr = "off"
        /\ UNCHANGED <<rx, tail, busy, idle, isr, isrHead, head, got, last, clashed, lapped>>
    BY <1>3, Zenon DEF DrainSendsBegin
  <2>3. /\ stream' \in Seq(NoByte..rx - 1) /\ Len(stream') <= StreamSize - 1
        /\ lost' \in Nat
        /\ \A P \in Nat :
             /\ Flow(stream, last, P) /\ got + Len(stream) + lost = P
             /\ 0 = Index(P) /\ 0 + n <= RingSize /\ P + n <= rx
             /\ rx - P <= RingSize
             => Flow(stream', last, P + n) /\ got + Len(stream') + lost' = P + n
    <3> HIDE DEF n
    <3> QED BY <1>0, <2>1, <2>2, SendSpan
  <2>4. TypeOK'
    BY <1>0, <2>2, <2>3 DEF TypeOK, Draining
  <2>5. ASSUME ~clashed', ~lapped' PROVE Places' /\ Account'
    <3> DEFINE Q == tail + RingSize - Index(tail)
    <3>1. Places /\ Account
      BY <2>2, <2>5 DEF IInv
    <3>2. tail <= head /\ Index(head) < Index(tail) /\ rx - tail < RingSize
      BY <2>2, <3>1 DEF Places, Draining
    <3>3. head - tail = Index(head) - Index(tail) + RingSize
      BY <1>0, <3>1, <3>2, StreamFacts, Widths
    <3>4. Flow(stream, last, Q) /\ got + Len(stream) + lost = Q
      BY <2>2, <3>1 DEF Account, Published
    <3>5. /\ Q \in Nat /\ Q + n = head /\ head <= rx /\ rx - Q <= RingSize /\ 0 + n <= RingSize
      <4>1. /\ tail \in Nat /\ head \in Nat /\ head <= rx /\ rx \in Nat /\ RingSize \in Nat
            /\ Index(head) \in 0..RingSize - 1 /\ Index(tail) \in 0..RingSize - 1
        BY <1>0, StreamFacts
      <4> QED BY <3>2, <3>3, <4>1
    <3>6. Index(Q) = 0
      BY <1>0, SeamAt
    <3>7. Flow(stream', last, head) /\ got + Len(stream') + lost' = head
      <4> HIDE DEF n, Q
      <4>1. Q + n <= rx
        BY <3>5, Zenon
      <4>2. Flow(stream', last, Q + n) /\ got + Len(stream') + lost' = Q + n
        BY <2>3, <3>4, <3>5, <3>6, <4>1, Zenon
      <4> QED BY <3>5, <4>2, Zenon
    <3>8. Published' = head
      BY <2>2 DEF Published
    <3>9. Account'
      BY <2>2, <3>7, <3>8, Zenon DEF Account
    <3>10. Places'
      BY <2>2, <3>1, <3>2 DEF Places, Draining
    <3> QED BY <3>9, <3>10
  <2> QED BY <2>4, <2>5 DEF IInv
<1> QED BY <1>1, <1>2, <1>3

\* The interrupt's bytes, in one span or two, are those from the tail to its head.
NewBytes(t, h, n) ==
  IF h > t THEN Span(t, n) ELSE Span(t, RingSize - t) \o Span(0, h)

LEMMA NewBytesType ==
  ASSUME TypeOK, NEW t \in 0..RingSize - 1, NEW h \in 0..RingSize - 1, NEW n \in Nat,
         n = IF h > t THEN h - t ELSE RingSize - t + h
  PROVE  NewBytes(t, h, n) \in Seq(NoByte..rx - 1) /\ Len(NewBytes(t, h, n)) = n
<1>1. RingSize - t \in Nat /\ h \in Nat /\ t \in Int /\ 0 \in Int /\ rx \in Nat
  BY StreamFacts
<1>2. /\ Span(t, n) \in Seq(NoByte..rx - 1) /\ Len(Span(t, n)) = n
      /\ Span(t, RingSize - t) \in Seq(NoByte..rx - 1) /\ Len(Span(t, RingSize - t)) = RingSize - t
      /\ Span(0, h) \in Seq(NoByte..rx - 1) /\ Len(Span(0, h)) = h
  BY <1>1, SpanType
<1>3. /\ Span(t, RingSize - t) \o Span(0, h) \in Seq(NoByte..rx - 1)
      /\ Len(Span(t, RingSize - t) \o Span(0, h)) = RingSize - t + h
  BY <1>2, ConcatProperties
<1> QED BY <1>2, <1>3, Zenon DEF NewBytes

LEMMA NewBytesHold ==
  ASSUME TypeOK, Places, isr = "read", Index(isrHead) # Index(tail),
         NEW n \in Nat, n = isrHead - tail
  PROVE  \A j \in 1..n : NewBytes(Index(tail), Index(isrHead), n)[j] = tail + j - 1
<1>1. /\ Index(tail) \in 0..RingSize - 1 /\ Index(isrHead) \in 0..RingSize - 1
      /\ tail \in Nat /\ isrHead \in Nat /\ rx \in Nat /\ isrHead <= rx /\ RingSize \in Nat
  BY StreamFacts
<1>2. tail <= isrHead /\ rx - tail < RingSize
  BY DEF Places
<1>3. CASE Index(isrHead) > Index(tail)
  <2>1. isrHead - tail = Index(isrHead) - Index(tail)
    BY <1>1, <1>2, <1>3, Widths
  <2>2. tail + n <= rx /\ rx - tail <= RingSize /\ Index(tail) + n <= RingSize
    BY <1>1, <1>2, <2>1
  <2>3. \A j \in 1..n : Span(Index(tail), n)[j] = tail + j - 1
    BY <1>1, <2>2, SpanHolds
  <2> QED BY <1>3, <2>3, Zenon DEF NewBytes
<1>4. CASE Index(isrHead) < Index(tail)
  <2> DEFINE m == RingSize - Index(tail)  h == Index(isrHead)  Q == tail + m
             first == Span(Index(tail), m)  rest == Span(0, h)
  <2>1. isrHead - tail = Index(isrHead) - Index(tail) + RingSize
    BY <1>1, <1>2, <1>4, Widths
  <2>2. /\ m \in Nat /\ h \in Nat /\ n = m + h /\ tail + m <= rx /\ rx - tail <= RingSize
        /\ Index(tail) + m <= RingSize
        /\ Q \in Nat /\ Q + h <= rx /\ rx - Q <= RingSize /\ 0 + h <= RingSize
    BY <1>1, <1>2, <2>1
  <2>3. Index(Q) = 0
    <3>1. Q = tail + RingSize - Index(tail)
      BY <1>1
    <3> QED BY <3>1, SeamAt
  <2>4. \A j \in 1..m : first[j] = tail + j - 1
    <3> HIDE DEF m
    <3> QED BY <1>1, <2>2, SpanHolds
  <2>5. \A j \in 1..h : rest[j] = Q + j - 1
    <3> HIDE DEF Q, h
    <3>1. Index(Q) + h <= RingSize
      BY <2>2, <2>3
    <3>2. \A j \in 1..h : Span(Index(Q), h)[j] = Q + j - 1
      BY <1>1, <2>2, <3>1, SpanHolds
    <3> QED BY <2>3, <3>2, Zenon
  <2>6. /\ first \in Seq(NoByte..rx - 1) /\ Len(first) = m
        /\ rest \in Seq(NoByte..rx - 1) /\ Len(rest) = h
    <3>1. rx \in Nat /\ Index(tail) \in Int /\ 0 \in Int
      BY <1>1
    <3> HIDE DEF m, h
    <3> QED BY <2>2, <3>1, SpanType
  <2>7. NewBytes(Index(tail), Index(isrHead), n) = first \o rest
    BY <1>1, <1>4 DEF NewBytes
  <2> HIDE DEF m, h, first, rest
  <2>8. \A j \in 1..m + h : (first \o rest)[j] = IF j <= m THEN first[j] ELSE rest[j - m]
    BY <2>6, ConcatProperties
  <2>9. ASSUME NEW j \in 1..m + h PROVE (first \o rest)[j] = tail + j - 1
    <3>1. CASE j <= m
      <4>1. j \in 1..m
        BY <2>2, <3>1
      <4> QED BY <2>4, <2>8, <3>1, <4>1
    <3>2. CASE j > m
      <4>1. j - m \in 1..h /\ j \in Int /\ ~(j <= m)
        BY <2>2, <3>2
      <4>2. (first \o rest)[j] = rest[j - m]
        BY <2>8, <4>1, Zenon
      <4>3. rest[j - m] = Q + (j - m) - 1
        <5> HIDE DEF Q
        <5> QED BY <2>5, <4>1, Zenon
      <4>4. Q + (j - m) - 1 = tail + j - 1
        BY <1>1, <2>2, <4>1
      <4> HIDE DEF Q
      <4>5. (first \o rest)[j] = Q + (j - m) - 1
        BY <4>2, <4>3, Zenon
      <4> QED BY <4>4, <4>5, Zenon
    <3>3. j <= m \/ j > m
      BY <2>2
    <3> QED BY <3>1, <3>2, <3>3, Zenon
  <2> QED BY <2>2, <2>7, <2>9, Zenon
<1> QED BY <1>1, <1>3, <1>4

LEMMA IsrPublishStep ==
  ASSUME IInv, IsrPublishes
  PROVE  IInv'
<1> USE DEF line, handler, history
<1> DEFINE t == Index(tail)  h == Index(isrHead)
           n == IF h > t THEN h - t ELSE RingSize - t + h
           new == NewBytes(t, h, n)  part == SubSeq(new, 1, Taken(n))
<1>0. TypeOK
  BY DEF IInv
<1>1. t \in 0..RingSize - 1 /\ h \in 0..RingSize - 1 /\ n \in Nat
  BY <1>0, StreamFacts
<1>2. /\ isr = "read" /\ isr' = "off" /\ h # t /\ tail' = isrHead
      /\ stream' = stream \o part /\ lost' = lost + n - Taken(n)
      /\ clashed' = (clashed \/ pc \in Draining)
      /\ UNCHANGED <<rx, busy, lapped, idle, isrHead, pc, head, got, last>>
  BY DEF IsrPublishes, TailAt, NewBytes
<1>3. new \in Seq(NoByte..rx - 1) /\ Len(new) = n
  <2> HIDE DEF t, h
  <2> QED BY <1>0, <1>1, NewBytesType
<1>4. Taken(n) \in 0..Len(new)
  <2> HIDE DEF n, new
  <2>1. Len(stream) \in Nat /\ Len(stream) <= StreamSize - 1
    BY <1>0, StreamFacts DEF TypeOK
  <2> QED BY <1>1, <1>3, <2>1, TakenFits
<1>5. /\ part \in Seq(NoByte..rx - 1) /\ Len(part) = Taken(n)
      /\ \A j \in 1..Taken(n) : part[j] = new[j]
  <2> HIDE DEF n, new
  <2> QED BY <1>3, <1>4, Prefix
<1>6. /\ stream' \in Seq(NoByte..rx - 1) /\ Len(stream') <= StreamSize - 1
      /\ lost' \in Nat
      /\ \A P \in Int :
           /\ got + Len(stream) + lost = P => got + Len(stream') + lost' = P + n
           /\ Flow(stream, last, P) /\ (\A j \in 1..Len(part) : part[j] = P + j - 1)
              => Flow(stream', last, P + n)
  <2> HIDE DEF n, part
  <2> QED BY <1>0, <1>1, <1>2, <1>5, Handover
<1>7. TypeOK'
  <2>1. clashed' \in BOOLEAN
    BY <1>2
  <2>2. tail' \in 0..rx'
    BY <1>0, <1>2, StreamFacts
  <2>3. isr' \in {"off", "flag", "read"}
    BY <1>2
  <2> QED BY <1>0, <1>2, <1>6, <2>1, <2>2, <2>3, Zenon DEF TypeOK, Draining
<1>8. ASSUME ~clashed', ~lapped' PROVE Places' /\ Account'
  <2>1. ~clashed /\ pc \notin Draining /\ ~lapped
    BY <1>2, <1>8, Zenon
  <2>2. Places /\ Account
    BY <2>1 DEF IInv
  <2>3. tail <= isrHead /\ rx - tail < RingSize
    BY <1>2, <2>2 DEF Places
  <2>4. Published = tail /\ Published' = tail'
    BY <1>2, <2>1 DEF Published, Draining
  <2>5. n = isrHead - tail /\ tail + n = isrHead /\ tail \in Int
    <3>1. /\ tail \in Nat /\ isrHead \in Nat /\ isrHead <= rx /\ RingSize \in Nat
      BY <1>0, StreamFacts
    <3>2. /\ h >= t => isrHead - tail = h - t
          /\ h < t => isrHead - tail = h - t + RingSize
      BY <1>0, <2>2, <2>3, <3>1, Widths
    <3> HIDE DEF h, t
    <3> QED BY <1>1, <1>2, <3>1, <3>2
  <2>6. \A j \in 1..n : new[j] = tail + j - 1
    <3> HIDE DEF n
    <3> QED BY <1>0, <1>1, <1>2, <2>2, <2>5, NewBytesHold
  <2>7. \A j \in 1..Len(part) : part[j] = tail + j - 1
    <3> HIDE DEF n, new, part
    <3>1. \A j \in 1..Taken(n) : j \in 1..n
      BY <1>1, <1>3, <1>4
    <3> QED BY <1>5, <2>6, <3>1, Zenon
  <2>8. Flow(stream', last, tail + n) /\ got + Len(stream') + lost' = tail + n
    <3> HIDE DEF n, part
    <3>1. Flow(stream, last, tail) /\ got + Len(stream) + lost = tail
      BY <2>2, <2>4, Zenon DEF Account
    <3> QED BY <1>6, <2>5, <2>7, <3>1, Zenon
  <2>9. Account'
    <3> HIDE DEF n
    <3> QED BY <1>2, <2>4, <2>5, <2>8, Zenon DEF Account
  <2>10. Places'
    <3>1. rx' - tail' < RingSize
      BY <1>0, <1>2, <2>3, StreamFacts
    <3> QED BY <1>2, <2>1, <3>1 DEF Places, Draining
  <2> QED BY <2>9, <2>10
<1> QED BY <1>7, <1>8 DEF IInv

LEMMA ReceiveStep ==
  ASSUME IInv, TaskReceives
  PROVE  IInv'
<1> USE DEF line, handler, history
<1>0. TypeOK
  BY DEF IInv
<1>1. /\ isr = "off" /\ pc = "loop" /\ stream # <<>>
      /\ got' = got + 1 /\ last' = stream[1] /\ stream' = Tail(stream)
      /\ UNCHANGED <<rx, busy, lapped, tail, idle, isr, isrHead, clashed, pc, head, lost>>
  BY DEF TaskReceives
<1>2. stream \in Seq(NoByte..rx - 1) /\ Len(stream) <= StreamSize - 1
  BY <1>0 DEF TypeOK
<1>3. /\ Tail(stream) \in Seq(NoByte..rx - 1) /\ Len(Tail(stream)) = Len(stream) - 1
      /\ stream[1] \in NoByte..rx - 1 /\ Len(stream) \in Nat /\ Len(stream) >= 1
  <2>1. Len(stream) \in Nat /\ Len(stream) >= 1
    BY <1>1, <1>2, EmptySeq, LenProperties
  <2>2. 1 \in 1..Len(stream)
    BY <2>1
  <2>3. stream[1] \in NoByte..rx - 1
    BY <1>2, <2>2, ElementOfSeq
  <2>4. Tail(stream) \in Seq(NoByte..rx - 1) /\ Len(Tail(stream)) = Len(stream) - 1
    BY <1>1, <1>2, HeadTailProperties
  <2> QED BY <2>1, <2>3, <2>4
<1>4. TypeOK'
  <2>1. Len(Tail(stream)) <= StreamSize - 1 /\ got + 1 \in Nat
    BY <1>0, <1>2, <1>3, StreamFacts
  <2>2. stream' \in Seq(NoByte..rx' - 1) /\ Len(stream') <= StreamSize - 1
    BY <1>1, <1>3, <2>1, Zenon
  <2> QED BY <1>0, <1>1, <1>3, <2>1, <2>2, Zenon DEF TypeOK, Draining
<1>5. ASSUME ~clashed', ~lapped' PROVE Places' /\ Account'
  <2>1. Places /\ Account /\ Published = tail /\ Published' = tail
    BY <1>1, <1>5 DEF IInv, Published
  <2>2. stream \in Seq(Int) /\ last \in Int /\ tail \in Int
    BY <1>0, StreamFacts
  <2>3. Flow(stream, last, tail) /\ got + Len(stream) + lost = tail
    BY <2>1, Zenon DEF Account
  <2>4. Flow(Tail(stream), stream[1], tail)
    BY <1>1, <2>2, <2>3, FlowTail
  <2>5. (got + 1) + (Len(stream) - 1) + lost = tail
    BY <1>0, <1>3, <2>3, StreamFacts
  <2>6. Account'
    BY <1>1, <1>3, <2>1, <2>4, <2>5, Zenon DEF Account
  <2>7. Places'
    BY <1>1, <2>1 DEF Places, Draining
  <2> QED BY <2>6, <2>7
<1> QED BY <1>4, <1>5 DEF IInv

LEMMA NextInv == IInv /\ [Next]_vars => IInv'
<1> SUFFICES ASSUME IInv, [Next]_vars PROVE IInv'
  OBVIOUS
<1>1. CASE Next
  BY <1>1, LineSteps, IsrSteps, DrainSteps, DrainSendSteps, IsrPublishStep, ReceiveStep
     DEF Next, Processor
<1>2. CASE UNCHANGED vars
  BY <1>2, Zenon DEF IInv, TypeOK, vars, Places, Account, Published, Index, Draining, Flow
<1> QED BY <1>1, <1>2

-----------------------------------------------------------------------------
\* The invariant holds at all times: counts and indices agree, and neither drain
\* points at a part of the ring the DMA has written over.
THEOREM BytesInvariant == Spec => []IInv
<1> QED BY InitInv, NextInv, PTL DEF Spec

\* Every variable keeps its type; the stream buffer is never overfilled, however
\* much the drains are given at once.
THEOREM TypeCorrect == Spec => []TypeOK
<1>1. IInv => TypeOK
  BY DEF IInv
<1> QED BY <1>1, BytesInvariant, PTL

\* As long as the drains do not meet and the ring is not lapped, the parser gets
\* the bytes of the line in order, each once, and every byte up to the tail is
\* fed, waiting or refused by a full buffer.
THEOREM BytesInOrder == Spec => []InOrder
<1>1. IInv => InOrder
  <2> SUFFICES ASSUME IInv, ~clashed, ~lapped
               PROVE  /\ Ordered
                      /\ pc \notin {"rest", "set"} => got + Len(stream) + lost = tail
    BY DEF InOrder
  <2>1. TypeOK /\ Places /\ Account
    BY DEF IInv
  <2>2. Published \in Int /\ Published <= rx
    <3>1. /\ rx \in Nat /\ tail \in Nat /\ head \in Nat /\ tail <= rx /\ head <= rx
          /\ RingSize \in Nat /\ Index(head) \in 0..RingSize - 1
          /\ Index(tail) \in 0..RingSize - 1
      BY <2>1, StreamFacts
    <3>2. ASSUME pc = "rest"
          PROVE  tail + RingSize - Index(tail) <= rx
      <4>1. tail <= head /\ Index(head) < Index(tail)
        BY <2>1, <3>2 DEF Places, Draining
      <4>2. head - tail = Index(head) - Index(tail) + RingSize
        BY <2>1, <3>1, <4>1, Widths
      <4> QED BY <3>1, <4>2
    <3> QED BY <3>1, <3>2 DEF Published
  <2>3. Flow(stream, last, Published) /\ got + Len(stream) + lost = Published
    BY <2>1, Zenon DEF Account
  <2>4. Ordered
    <3>1. stream \in Seq(Int) /\ rx \in Int
      BY <2>1, StreamFacts
    <3> SUFFICES ASSUME NEW j \in 1..Len(stream)
                 PROVE  stream[j] > (IF j = 1 THEN last ELSE stream[j - 1]) /\ stream[j] < rx
      BY DEF Ordered
    <3>2. stream[j] > (IF j = 1 THEN last ELSE stream[j - 1]) /\ stream[j] < Published
      BY <2>3, Zenon DEF Flow
    <3>3. stream[j] \in Int
      BY <3>1, ElementOfSeq
    <3>4. stream[j] < rx
      BY <2>2, <3>1, <3>2, <3>3
    <3> QED BY <3>2, <3>4, Zenon
  <2>5. pc \notin {"rest", "set"} => got + Len(stream) + lost = tail
    BY <2>3, Zenon DEF Published
  <2> QED BY <2>4, <2>5
<1> QED BY <1>1, BytesInvariant, PTL

===============================================================================
