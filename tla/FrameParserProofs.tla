--------------------------- MODULE FrameParserProofs ---------------------------
(***************************************************************************)
(* Proofs about FrameParser, for every payload limit, every check function *)
(* and every traffic: the parser returns exactly the frames of the format, *)
(* stores nothing beyond its arrays, takes every frame built by the other  *)
(* side as one when it waits for one, and finds its way back after a       *)
(* disturbance within a bounded number of bytes.                           *)
(***************************************************************************)
EXTENDS FrameParser, SequenceTheorems, TLAPS

\* The elements of a concatenation.
LEMMA Concatenation ==
  ASSUME NEW S, NEW s \in Seq(S), NEW t \in Seq(S), NEW u, u = s \o t
  PROVE  /\ u \in Seq(S) /\ Len(u) = Len(s) + Len(t)
         /\ Len(s) \in Nat /\ Len(t) \in Nat
         /\ \A i \in 1..Len(s) : u[i] = s[i]
         /\ \A i \in 1..Len(t) : u[Len(s) + i] = t[i]
<1>1. /\ s \o t \in Seq(S) /\ Len(s \o t) = Len(s) + Len(t)
      /\ \A i \in 1..Len(s) + Len(t) : (s \o t)[i] = IF i <= Len(s) THEN s[i] ELSE t[i - Len(s)]
  BY ConcatProperties
<1>2. Len(s) \in Nat /\ Len(t) \in Nat
  BY LenProperties
<1>3. /\ \A i \in 1..Len(s) : (s \o t)[i] = s[i]
      /\ \A i \in 1..Len(t) : (s \o t)[Len(s) + i] = t[i]
  BY <1>1, <1>2
<1> QED BY <1>1, <1>2, <1>3, Zenon

\* A sequence put together of two is taken apart at the seam.
LEMMA Seam ==
  ASSUME NEW S, NEW s \in Seq(S), NEW t \in Seq(S)
  PROVE  /\ SubSeq(s \o t, 1, Len(s)) = s
         /\ SubSeq(s \o t, Len(s) + 1, Len(s) + Len(t)) = t
<1> DEFINE u == s \o t
<1>1. /\ u \in Seq(S) /\ Len(u) = Len(s) + Len(t)
      /\ \A i \in 1..Len(s) + Len(t) : u[i] = IF i <= Len(s) THEN s[i] ELSE t[i - Len(s)]
  BY ConcatProperties
<1>2. /\ Len(s) \in Nat /\ Len(t) \in Nat
      /\ \A i \in 1..Len(u) : u[i] \in S
  BY <1>1, LenProperties, ElementOfSeq
<1> HIDE DEF u
<1>3. /\ SubSeq(u, 1, Len(s)) \in Seq(S) /\ Len(SubSeq(u, 1, Len(s))) = Len(s)
      /\ \A i \in 1..Len(s) : SubSeq(u, 1, Len(s))[i] = u[i]
  <2>1. \A i \in 1..Len(s) : u[i] \in S
    BY <1>1, <1>2
  <2> QED BY <1>2, <2>1, SubSeqProperties
<1>4. /\ SubSeq(u, Len(s) + 1, Len(s) + Len(t)) \in Seq(S)
      /\ Len(SubSeq(u, Len(s) + 1, Len(s) + Len(t))) = Len(t)
      /\ \A i \in 1..Len(t) : SubSeq(u, Len(s) + 1, Len(s) + Len(t))[i] = u[Len(s) + i]
  <2>1. \A i \in Len(s) + 1..Len(s) + Len(t) : u[i] \in S
    BY <1>1, <1>2
  <2> DEFINE m == Len(s) + 1  n == Len(s) + Len(t)
  <2>2. m \in Int /\ n \in Int /\ n - m + 1 = Len(t)
    BY <1>2
  <2>3. /\ SubSeq(u, m, n) \in Seq(S)
        /\ Len(SubSeq(u, m, n)) = IF m <= n THEN n - m + 1 ELSE 0
        /\ \A i \in 1..n - m + 1 : SubSeq(u, m, n)[i] = u[m + i - 1]
    BY <2>1, <2>2, SubSeqProperties
  <2> QED BY <1>2, <2>2, <2>3
<1>5. SubSeq(u, 1, Len(s)) = s
  <2>1. \A i \in 1..Len(s) : SubSeq(u, 1, Len(s))[i] = s[i]
    BY <1>1, <1>2, <1>3
  <2> QED BY <1>3, <2>1, SeqEqual
<1>6. SubSeq(u, Len(s) + 1, Len(s) + Len(t)) = t
  <2>1. \A i \in 1..Len(t) : SubSeq(u, Len(s) + 1, Len(s) + Len(t))[i] = t[i]
    BY <1>1, <1>2, <1>4
  <2> QED BY <1>4, <2>1, SeqEqual
<1> QED BY <1>5, <1>6 DEF u

\* Appending continues a concatenation.
LEMMA AppendToConcat ==
  ASSUME NEW s \in Seq(Byte), NEW t \in Seq(Byte), NEW e \in Byte
  PROVE  Append(s \o t, e) = s \o Append(t, e)
<1>1. s \o t \in Seq(Byte) /\ <<e>> \in Seq(Byte)
  BY ConcatProperties
<1>2. Append(s \o t, e) = (s \o t) \o <<e>> /\ Append(t, e) = t \o <<e>>
  BY <1>1, AppendIsConcat
<1> QED BY <1>1, <1>2, ConcatAssociative

-----------------------------------------------------------------------------
\* The part of TypeOK that proto_parser_feed() is answerable for.
ParserTypeOK ==
  /\ state \in {"SYNC", "CMD", "LEN_LO", "LEN_HI", "DATA", "CRC"}
  /\ cmd \in Byte /\ len \in Nat
  /\ payload \in Seq(Byte) /\ Len(payload) <= MaxPayload
  /\ calc \in Seq(Byte) /\ Len(calc) <= HeaderSize + MaxPayload
  /\ rxCrc \in Seq(Byte) /\ Len(rxCrc) <= CrcSize
  /\ out \in [cmd : Byte, payload : Seq(Byte)] \cup {NoFrame}
  /\ taken \in Seq(Byte)

\* What the parser knows, in each state, of the bytes it has taken.
KnownHeader ==
  /\ state = "CMD" => Len(calc) = 1
  /\ state = "LEN_LO" => Len(calc) = 2 /\ calc[2] = cmd
  /\ state = "LEN_HI" => Len(calc) = 3 /\ calc[2] = cmd /\ calc[3] = len
  /\ state \in {"DATA", "CRC"} =>
       /\ Len(calc) = HeaderSize + Len(payload)
       /\ calc[2] = cmd /\ len = calc[3] + Base * calc[4] /\ len <= MaxPayload
       /\ \A i \in 1..Len(payload) : payload[i] = calc[HeaderSize + i]

Known ==
  /\ state # "SYNC" => out = NoFrame /\ Len(calc) >= 1 /\ calc[1] = Sync
  /\ KnownHeader
  /\ state \in {"CMD", "LEN_LO", "LEN_HI"} => payload = <<>>
  /\ state \in {"CMD", "LEN_LO", "LEN_HI", "DATA"} => rxCrc = <<>> /\ taken = calc
  /\ state = "DATA" => Len(payload) < len
  /\ state = "CRC" =>
       Len(payload) = len /\ Len(rxCrc) < CrcSize /\ taken = calc \o rxCrc
  /\ state = "SYNC" => ExactlyFrames

\* As long as the parser is inside a frame, what it has taken is not one.
LEMMA NotYetAFrame ==
  ASSUME ParserTypeOK, Known, state # "SYNC"
  PROVE  ~IsFrame(taken)
<1>1. CASE state \in {"CMD", "LEN_LO", "LEN_HI"}
  <2>1. Len(taken) < HeaderSize
    <3>1. Len(calc) = 1 \/ Len(calc) = 2 \/ Len(calc) = 3
      BY <1>1 DEF Known, KnownHeader
    <3>2. taken = calc
      BY <1>1 DEF Known
    <3>3. Len(taken) = Len(calc)
      BY <3>2, Zenon
    <3> DEFINE k == Len(taken)
    <3>4. k = 1 \/ k = 2 \/ k = 3
      BY <3>1, <3>3
    <3> HIDE DEF k
    <3>5. k < HeaderSize
      BY <3>4 DEF HeaderSize
    <3> QED BY <3>5 DEF k
  <2> QED BY <2>1 DEF IsFrame, HeaderSize, ParserTypeOK
<1>2. CASE state \in {"DATA", "CRC"}
  <2>1. /\ Len(taken) = HeaderSize + Len(payload) + Len(rxCrc)
        /\ taken[3] = calc[3] /\ taken[4] = calc[4]
        /\ Len(payload) \in Nat /\ Len(rxCrc) \in Nat
    <3>1. calc \in Seq(Byte) /\ rxCrc \in Seq(Byte) /\ payload \in Seq(Byte)
      BY DEF ParserTypeOK
    <3>2. CASE state = "DATA"
      <4>1. taken = calc /\ rxCrc = <<>>
        BY <3>2 DEF Known
      <4>2. Len(taken) = Len(calc) /\ taken[3] = calc[3] /\ taken[4] = calc[4]
        BY <4>1, Zenon
      <4>3. Len(calc) = HeaderSize + Len(payload)
        BY <3>2 DEF Known, KnownHeader
      <4>4. Len(rxCrc) = 0 /\ Len(payload) \in Nat
        BY <3>1, <4>1, LenProperties
      <4> QED BY <4>2, <4>3, <4>4 DEF HeaderSize
    <3>3. CASE state = "CRC"
      <4>1. taken = calc \o rxCrc /\ Len(calc) = HeaderSize + Len(payload)
        BY <3>3 DEF Known, KnownHeader
      <4>2. /\ Len(taken) = Len(calc) + Len(rxCrc)
            /\ Len(calc) \in Nat /\ Len(rxCrc) \in Nat /\ Len(payload) \in Nat
            /\ \A i \in 1..Len(calc) : taken[i] = calc[i]
        <5>1. taken = calc \o rxCrc
          BY <4>1
        <5>2. Len(payload) \in Nat
          BY <3>1, LenProperties
        <5> QED BY <3>1, <5>1, <5>2, Concatenation
      <4> HIDE <4>1
      <4>3. Len(calc) = HeaderSize + Len(payload)
        BY <4>1
      <4> QED BY <4>2, <4>3 DEF HeaderSize
    <3> QED BY <1>2, <3>2, <3>3
  <2>2. len = taken[3] + Base * taken[4] /\ len \in Nat /\ CrcSize \in Nat
    BY <1>2, <2>1, ParserAssumption DEF Known, KnownHeader, ParserTypeOK
  <2>3. Len(taken) < HeaderSize + len + CrcSize
    <3>1. CASE state = "DATA"
      BY <2>1, <2>2, <3>1, ParserAssumption DEF Known, HeaderSize
    <3>2. CASE state = "CRC"
      BY <2>1, <2>2, <3>2 DEF Known, HeaderSize
    <3> QED BY <1>2, <3>1, <3>2
  <2> QED BY <2>1, <2>2, <2>3 DEF IsFrame, HeaderSize
<1> QED BY <1>1, <1>2 DEF ParserTypeOK

\* With the last check byte in, the bytes taken are a frame just if the check
\* bytes are right, and then cmd and payload are its command and payload.
LEMMA FrameComplete ==
  ASSUME ParserTypeOK, Known, state = "CRC", NEW b \in Byte,
         Len(rxCrc) + 1 = CrcSize
  PROVE  LET t == Append(taken, b)
         IN  /\ IsFrame(t) <=> Append(rxCrc, b) = Crc(calc)
             /\ FrameIn(t) = [cmd |-> cmd, payload |-> payload]
<1> DEFINE t == Append(taken, b)
           r == Append(rxCrc, b)
<1>a. taken = calc \o rxCrc
  BY DEF Known
<1>b. calc \in Seq(Byte) /\ rxCrc \in Seq(Byte)
  BY DEF ParserTypeOK
<1>0. /\ Len(calc) = HeaderSize + Len(payload)
      /\ Len(payload) = len /\ len <= MaxPayload
      /\ calc \in Seq(Byte) /\ payload \in Seq(Byte) /\ len \in Nat
  BY DEF Known, KnownHeader, ParserTypeOK
<1>1. r \in Seq(Byte) /\ Len(r) = CrcSize /\ t = calc \o r
  <2>1. r \in Seq(Byte) /\ Len(r) = Len(rxCrc) + 1
    BY <1>b, AppendProperties
  <2>2. Append(calc \o rxCrc, b) = calc \o Append(rxCrc, b)
    <3> HIDE DEF t, r
    <3> QED BY <1>b, AppendToConcat, Zenon
  <2> QED BY <1>a, <2>1, <2>2, Zenon
<1> HIDE DEF t, r
<1>2. /\ Len(calc) \in Nat /\ Len(payload) \in Nat /\ CrcSize \in Nat
      /\ calc \in Seq(Byte) /\ Len(calc) = HeaderSize + len /\ len \in Nat
      /\ len <= MaxPayload /\ len = Len(payload)
  BY <1>0, LenProperties, ParserAssumption
<1>3. /\ t \in Seq(Byte) /\ Len(t) = HeaderSize + len + CrcSize
      /\ \A i \in 1..Len(calc) : t[i] = calc[i]
  <2>0. r \in Seq(Byte) /\ t = calc \o r
    BY <1>1
  <2>1. /\ t \in Seq(Byte) /\ Len(t) = Len(calc) + Len(r)
        /\ \A i \in 1..Len(calc) : t[i] = calc[i]
    BY <2>0, <1>b, Concatenation
  <2> QED BY <1>1, <1>2, <2>1 DEF HeaderSize
<1>4. /\ SubSeq(t, 1, HeaderSize + len) = calc
      /\ SubSeq(t, HeaderSize + len + 1, Len(t)) = r
  <2>1. /\ calc \in Seq(Byte) /\ t \in Seq(Byte) /\ t = calc \o r /\ r \in Seq(Byte)
    BY <1>1, <1>2, <1>3
  <2>2. HeaderSize + len = Len(calc)
    BY <1>2
  <2> QED BY <2>1, <2>2, Seam
<1>5. /\ t[1] = Sync /\ t[2] = cmd /\ t[3] + Base * t[4] = len
  <2>1. t[1] = calc[1] /\ t[2] = calc[2] /\ t[3] = calc[3] /\ t[4] = calc[4]
    BY <1>2, <1>3 DEF HeaderSize
  <2> QED BY <2>1 DEF Known, KnownHeader
<1>6. IsFrame(t) <=> r = Crc(calc)
  <2> DEFINE n == t[3] + Base * t[4]
  <2>1. /\ Len(t) >= HeaderSize /\ t[1] = Sync /\ n <= MaxPayload
        /\ Len(t) = HeaderSize + n + CrcSize
    BY <1>2, <1>3, <1>5 DEF HeaderSize
  <2>2. /\ SubSeq(t, 1, HeaderSize + n) = calc
        /\ SubSeq(t, HeaderSize + n + 1, Len(t)) = r
    BY <1>4, <1>5
  <2> QED BY <2>1, <2>2, Zenon DEF IsFrame
<1>7. SubSeq(t, HeaderSize + 1, Len(t) - CrcSize) = payload
  <2> DEFINE m == HeaderSize + 1
             n == Len(t) - CrcSize
  <2>1. m \in Int /\ n \in Int /\ n - m + 1 = len
    BY <1>2, <1>3 DEF HeaderSize
  <2>2. \A i \in m..n : t[i] \in Byte
    BY <1>2, <1>3, <2>1, ElementOfSeq DEF HeaderSize
  <2>3. /\ SubSeq(t, m, n) \in Seq(Byte)
        /\ Len(SubSeq(t, m, n)) = IF m <= n THEN n - m + 1 ELSE 0
        /\ \A i \in 1..n - m + 1 : SubSeq(t, m, n)[i] = t[m + i - 1]
    BY <2>1, <2>2, SubSeqProperties
  <2>4. \A i \in 1..len : t[m + i - 1] = payload[i]
    BY <1>2, <1>3 DEF HeaderSize, Known, KnownHeader
  <2>5. payload \in Seq(Byte)
    BY DEF ParserTypeOK
  <2> HIDE DEF m, n
  <2>6. Len(SubSeq(t, m, n)) = len
    BY <1>2, <2>1, <2>3
  <2>7. SubSeq(t, m, n) = payload
    BY <1>2, <2>1, <2>3, <2>4, <2>5, <2>6, SeqEqual
  <2> QED BY <2>7 DEF m, n
<1> QED BY <1>5, <1>6, <1>7 DEF FrameIn, t, r

-----------------------------------------------------------------------------
IInv == ParserTypeOK /\ Known

LEMMA InitIInv == Init => IInv
<1> SUFFICES ASSUME Init PROVE IInv
  OBVIOUS
<1> USE DEF Init
<1>1. Len(<<>>) = 0 /\ <<>> \in Seq(Byte) /\ 0 \in Byte
  BY EmptySeq, ParserAssumption DEF Byte
<1>2. ParserTypeOK
  BY <1>1, ParserAssumption DEF ParserTypeOK, HeaderSize
<1>3. ~IsFrame(taken)
  BY <1>1 DEF IsFrame, HeaderSize
<1>4. Known
  BY <1>3 DEF Known, KnownHeader, ExactlyFrames
<1> QED BY <1>2, <1>4 DEF IInv

LEMMA ExactByInvariant == IInv => ExactlyFrames
<1>1. ASSUME IInv, state # "SYNC"
      PROVE  ExactlyFrames
  BY <1>1, NotYetAFrame DEF IInv, Known, ExactlyFrames
<1>2. ASSUME IInv, state = "SYNC"
      PROVE  ExactlyFrames
  BY <1>2 DEF IInv, Known
<1> QED BY <1>1, <1>2

\* What one more byte does to the sequence of those taken, or covered.
LEMMA OneMore ==
  ASSUME NEW s \in Seq(Byte), NEW b \in Byte
  PROVE  /\ Append(s, b) \in Seq(Byte) /\ Len(Append(s, b)) = Len(s) + 1
         /\ Len(s) \in Nat /\ Append(s, b)[Len(s) + 1] = b
         /\ \A i \in 1..Len(s) : Append(s, b)[i] = s[i]
  BY AppendProperties, LenProperties

LEMMA FeedKeepsIInv ==
  ASSUME IInv, NEW b \in Byte, Feed(b)
  PROVE  IInv'
<1> USE DEF IInv
<1>0. /\ Base \in Nat /\ MaxPayload \in Nat /\ CrcSize \in Nat \ {0} /\ Sync \in Byte
      /\ b \in Nat /\ <<>> \in Seq(Byte) /\ Len(<<>>) = 0 /\ 0 \in Byte
  BY ParserAssumption, EmptySeq DEF Byte
<1>1. CASE SkipByte(b)
  <2>1. ParserTypeOK'
    BY <1>0, <1>1 DEF SkipByte, ParserTypeOK
  <2>2. ~IsFrame(taken') /\ out' = NoFrame /\ state' = "SYNC"
    BY <1>0, <1>1 DEF SkipByte, IsFrame, HeaderSize
  <2>3. Known'
    BY <2>2 DEF Known, KnownHeader, ExactlyFrames
  <2> QED BY <2>1, <2>3
<1>2. CASE TakeSync(b)
  <2>1. /\ <<b>> \in Seq(Byte) /\ Len(<<b>>) = 1 /\ <<b>>[1] = b
    OBVIOUS
  <2>2. ParserTypeOK'
    BY <1>0, <1>2, <2>1 DEF TakeSync, ParserTypeOK, HeaderSize
  <2>3. Known'
    BY <1>2, <2>1 DEF TakeSync, Known, KnownHeader
  <2> QED BY <2>2, <2>3
<1>3. CASE TakeCmd(b)
  <2>1. /\ state = "CMD" /\ state' = "LEN_LO" /\ cmd' = b
        /\ taken' = Append(taken, b) /\ calc' = Append(calc, b) /\ out' = NoFrame
        /\ UNCHANGED <<len, payload, rxCrc>>
    BY <1>3 DEF TakeCmd, Took, Covers
  <2>a. taken = calc
    BY <2>1 DEF Known
  <2>2. /\ calc \in Seq(Byte) /\ Len(calc) = 1 /\ calc[1] = Sync
    BY <2>1 DEF ParserTypeOK, Known, KnownHeader
  <2>3. taken' = calc'
    BY <2>1, <2>a
  <2>4. calc' \in Seq(Byte) /\ Len(calc') = 2 /\ calc'[1] = Sync /\ calc'[2] = b
    <3>1. calc \in Seq(Byte) /\ calc' = Append(calc, b)
      BY <2>1, <2>2
    <3>2. /\ calc' \in Seq(Byte) /\ Len(calc') = Len(calc) + 1 /\ Len(calc) \in Nat
          /\ calc'[Len(calc) + 1] = b /\ \A i \in 1..Len(calc) : calc'[i] = calc[i]
      BY <3>1, OneMore
    <3> QED BY <2>2, <3>2
  <2>5. ParserTypeOK'
    BY <1>0, <2>1, <2>3, <2>4 DEF ParserTypeOK, HeaderSize
  <2>6. Known'
    BY <2>1, <2>3, <2>4 DEF Known, KnownHeader
  <2> QED BY <2>5, <2>6
<1>4. CASE TakeLenLow(b)
  <2>1. /\ state = "LEN_LO" /\ state' = "LEN_HI" /\ len' = b
        /\ taken' = Append(taken, b) /\ calc' = Append(calc, b) /\ out' = NoFrame
        /\ UNCHANGED <<cmd, payload, rxCrc>>
    BY <1>4 DEF TakeLenLow, Took, Covers
  <2>a. taken = calc
    BY <2>1 DEF Known
  <2>2. /\ calc \in Seq(Byte) /\ Len(calc) = 2 /\ calc[1] = Sync /\ calc[2] = cmd
    BY <2>1 DEF ParserTypeOK, Known, KnownHeader
  <2>3. taken' = calc'
    BY <2>1, <2>a
  <2>4. /\ calc' \in Seq(Byte) /\ Len(calc') = 3
        /\ calc'[1] = Sync /\ calc'[2] = cmd /\ calc'[3] = b
    <3>1. calc \in Seq(Byte) /\ calc' = Append(calc, b)
      BY <2>1, <2>2
    <3>2. /\ calc' \in Seq(Byte) /\ Len(calc') = Len(calc) + 1 /\ Len(calc) \in Nat
          /\ calc'[Len(calc) + 1] = b /\ \A i \in 1..Len(calc) : calc'[i] = calc[i]
      BY <3>1, OneMore
    <3> QED BY <2>2, <3>2
  <2>5. ParserTypeOK'
    BY <1>0, <2>1, <2>3, <2>4 DEF ParserTypeOK, HeaderSize
  <2>6. Known'
    BY <2>1, <2>3, <2>4 DEF Known, KnownHeader
  <2> QED BY <2>5, <2>6
<1>5. CASE TakeLenHigh(b)
  <2>1. /\ state = "LEN_HI" /\ len' = len + Base * b /\ state' = NextAfterLength(len')
        /\ taken' = Append(taken, b) /\ calc' = Append(calc, b) /\ out' = NoFrame
        /\ payload' = <<>>
        /\ UNCHANGED <<cmd, rxCrc>>
    BY <1>5 DEF TakeLenHigh, Took, Covers
  <2>a. taken = calc
    BY <2>1 DEF Known
  <2>2. /\ calc \in Seq(Byte) /\ Len(calc) = 3
        /\ calc[1] = Sync /\ calc[2] = cmd /\ calc[3] = len /\ rxCrc = <<>>
    BY <2>1 DEF ParserTypeOK, Known, KnownHeader
  <2>3. taken' = calc'
    BY <2>1, <2>a
  <2>4. /\ calc' \in Seq(Byte) /\ Len(calc') = 4
        /\ calc'[1] = Sync /\ calc'[2] = cmd /\ calc'[3] = len /\ calc'[4] = b
    <3>1. calc \in Seq(Byte) /\ calc' = Append(calc, b)
      BY <2>1, <2>2
    <3>2. /\ calc' \in Seq(Byte) /\ Len(calc') = Len(calc) + 1 /\ Len(calc) \in Nat
          /\ calc'[Len(calc) + 1] = b /\ \A i \in 1..Len(calc) : calc'[i] = calc[i]
      BY <3>1, OneMore
    <3> QED BY <2>2, <3>2
  <2>5. len' \in Nat
    <3>1. Base * b \in Nat
      BY <1>0
    <3> QED BY <2>1, <3>1 DEF ParserTypeOK
  <2>6. ParserTypeOK'
    BY <1>0, <2>1, <2>3, <2>4, <2>5 DEF ParserTypeOK, HeaderSize, NextAfterLength
  <2>7. len' = calc'[3] + Base * calc'[4]
    BY <2>1, <2>4
  <2>8. CASE len' > MaxPayload
    <3>1. state' = "SYNC"
      BY <2>1, <2>8 DEF NextAfterLength
    <3>2. ~IsFrame(calc')
      BY <1>0, <2>5, <2>7, <2>8 DEF IsFrame
    <3>3. ~IsFrame(taken')
      BY <2>3, <3>2
    <3> QED BY <2>1, <2>6, <3>1, <3>3 DEF Known, KnownHeader, ExactlyFrames
  <2>9. CASE len' <= MaxPayload
    <3>1. state' = IF len' = 0 THEN "CRC" ELSE "DATA"
      BY <1>0, <2>1, <2>5, <2>9 DEF NextAfterLength
    <3>2. Len(payload') = 0 /\ rxCrc' = <<>> /\ Len(rxCrc') = 0
      BY <1>0, <2>1, <2>2
    <3>3. KnownHeader'
      BY <2>1, <2>4, <2>7, <2>9, <3>1, <3>2 DEF KnownHeader, HeaderSize
    <3>4. taken' = calc' \o rxCrc'
      BY <2>3, <2>4, <3>2, ConcatEmptySeq, Zenon
    <3> HIDE <2>3
    <3>5. Known'
      BY <1>0, <2>1, <2>3, <2>4, <2>5, <3>1, <3>2, <3>3, <3>4 DEF Known
    <3> QED BY <2>6, <3>5
  <2> QED BY <1>0, <2>5, <2>8, <2>9
<1>6. CASE TakeData(b)
  <2>1. /\ state = "DATA" /\ payload' = Append(payload, b)
        /\ state' = IF Len(payload') >= len THEN "CRC" ELSE "DATA"
        /\ taken' = Append(taken, b) /\ calc' = Append(calc, b) /\ out' = NoFrame
        /\ UNCHANGED <<cmd, len, rxCrc>>
    BY <1>6 DEF TakeData, Took, Covers
  <2>2. /\ calc \in Seq(Byte) /\ payload \in Seq(Byte) /\ len \in Nat
        /\ Len(calc) = HeaderSize + Len(payload) /\ Len(payload) < len /\ len <= MaxPayload
        /\ calc[1] = Sync /\ calc[2] = cmd /\ len = calc[3] + Base * calc[4]
        /\ \A i \in 1..Len(payload) : payload[i] = calc[HeaderSize + i]
    BY <2>1 DEF ParserTypeOK, Known, KnownHeader
  <2>3. taken' = calc' /\ rxCrc = <<>>
    BY <2>1 DEF Known
  <2>4. /\ calc' \in Seq(Byte) /\ Len(calc') = Len(calc) + 1 /\ Len(calc) \in Nat
        /\ calc'[Len(calc) + 1] = b /\ \A i \in 1..Len(calc) : calc'[i] = calc[i]
    BY <2>1, <2>2, OneMore
  <2>5. /\ payload' \in Seq(Byte) /\ Len(payload') = Len(payload) + 1 /\ Len(payload) \in Nat
        /\ payload'[Len(payload) + 1] = b /\ \A i \in 1..Len(payload) : payload'[i] = payload[i]
    BY <2>1, <2>2, OneMore
  <2>6. ParserTypeOK'
    BY <1>0, <2>1, <2>2, <2>3, <2>4, <2>5 DEF ParserTypeOK, HeaderSize
  <2>7. /\ calc'[1] = Sync /\ calc'[2] = cmd /\ calc'[3] = calc[3] /\ calc'[4] = calc[4]
    BY <2>2, <2>4, <2>5 DEF HeaderSize
  <2>8. \A i \in 1..Len(payload') : payload'[i] = calc'[HeaderSize + i]
    <3>1. ASSUME NEW i \in 1..Len(payload)
          PROVE  payload'[i] = calc'[HeaderSize + i]
      BY <2>2, <2>4, <2>5 DEF HeaderSize
    <3>2. payload'[Len(payload) + 1] = calc'[HeaderSize + Len(payload) + 1]
      BY <2>2, <2>4, <2>5 DEF HeaderSize
    <3>3. \A i \in 1..Len(payload') : i \in 1..Len(payload) \/ i = Len(payload) + 1
      BY <2>5
    <3> QED BY <2>5, <3>1, <3>2, <3>3 DEF HeaderSize
  <2>9. KnownHeader'
    BY <2>1, <2>2, <2>4, <2>5, <2>7, <2>8 DEF KnownHeader, HeaderSize
  <2>10. rxCrc' = <<>> /\ Len(rxCrc') = 0 /\ taken' = calc' \o rxCrc'
    BY <1>0, <2>1, <2>3, <2>4, ConcatEmptySeq, Zenon
  <2>11. Known'
    <3>1. Len(calc') >= 1
      BY <2>2, <2>4, <2>5 DEF HeaderSize
    <3>2. CASE state' = "DATA"
      BY <2>1, <2>2, <2>3, <2>5, <2>7, <2>9, <2>10, <3>1, <3>2 DEF Known
    <3>3. CASE state' = "CRC"
      BY <1>0, <2>1, <2>2, <2>5, <2>7, <2>9, <2>10, <3>1, <3>3 DEF Known
    <3> QED BY <2>1, <3>2, <3>3
  <2> QED BY <2>6, <2>11
<1>7. CASE TakeCrc(b)
  <2>1. /\ state = "CRC" /\ state' = "CRC" /\ Len(rxCrc) + 1 < CrcSize
        /\ rxCrc' = Append(rxCrc, b) /\ taken' = Append(taken, b) /\ out' = NoFrame
        /\ UNCHANGED <<cmd, len, payload, calc>>
    BY <1>7 DEF TakeCrc, Took
  <2>2. calc \in Seq(Byte) /\ rxCrc \in Seq(Byte) /\ taken \in Seq(Byte) /\ taken = calc \o rxCrc
    BY <2>1 DEF ParserTypeOK, Known
  <2>3. rxCrc' \in Seq(Byte) /\ Len(rxCrc') = Len(rxCrc) + 1 /\ Len(rxCrc) \in Nat
    BY <2>1, <2>2, OneMore
  <2>4. taken' = calc' \o rxCrc'
    <3>1. Append(calc \o rxCrc, b) = calc \o Append(rxCrc, b)
      BY <2>2, AppendToConcat, Zenon
    <3> QED BY <2>1, <2>2, <3>1, Zenon
  <2>5. taken' \in Seq(Byte)
    BY <2>1, <2>2, OneMore
  <2>6. ParserTypeOK'
    BY <1>0, <2>1, <2>3, <2>5 DEF ParserTypeOK
  <2>7. Known'
    BY <1>0, <2>1, <2>3, <2>4 DEF Known, KnownHeader
  <2> QED BY <2>6, <2>7
<1>8. CASE BadFrame(b) \/ GoodFrame(b)
  <2>1. /\ state = "CRC" /\ state' = "SYNC" /\ Len(rxCrc) + 1 = CrcSize
        /\ rxCrc' = Append(rxCrc, b) /\ taken' = Append(taken, b)
        /\ UNCHANGED <<cmd, len, payload, calc>>
        /\ out' = IF Append(rxCrc, b) = Crc(calc) THEN [cmd |-> cmd, payload |-> payload]
                                                  ELSE NoFrame
    BY <1>8 DEF BadFrame, GoodFrame, Took
  <2>2. rxCrc \in Seq(Byte) /\ taken \in Seq(Byte) /\ cmd \in Byte /\ payload \in Seq(Byte)
    BY DEF ParserTypeOK
  <2>3. /\ rxCrc' \in Seq(Byte) /\ Len(rxCrc') = Len(rxCrc) + 1 /\ taken' \in Seq(Byte)
    BY <2>1, <2>2, OneMore
  <2>4. out' \in [cmd : Byte, payload : Seq(Byte)] \cup {NoFrame}
    BY <2>1, <2>2
  <2>5. ParserTypeOK'
    BY <1>0, <2>1, <2>3, <2>4 DEF ParserTypeOK
  <2>6. /\ IsFrame(taken') <=> Append(rxCrc, b) = Crc(calc)
        /\ FrameIn(taken') = [cmd |-> cmd, payload |-> payload]
    BY <2>1, FrameComplete
  <2>7. out' = IF IsFrame(taken') THEN FrameIn(taken') ELSE NoFrame
    BY <2>1, <2>6, Zenon
  <2>8. Known'
    BY <2>1, <2>7 DEF Known, KnownHeader, ExactlyFrames
  <2> QED BY <2>5, <2>8
<1> QED BY <1>1, <1>2, <1>3, <1>4, <1>5, <1>6, <1>7, <1>8 DEF Feed

\* The line and its disturbances leave the parser alone or feed it one byte.
LEMMA NextKeepsIInv ==
  ASSUME IInv, wire \in Seq(Byte), [Next]_vars
  PROVE  IInv'
<1>1. CASE UNCHANGED parser
  BY <1>1 DEF parser, IInv, ParserTypeOK, Known, KnownHeader, ExactlyFrames, IsFrame, FrameIn
<1>2. CASE \E b \in Byte : Feed(b)
  BY <1>2, FeedKeepsIInv
<1>3. UNCHANGED vars => UNCHANGED parser
  BY DEF vars, parser
<1>4. ASSUME NEW f \in Traffic, StartFrame(f)
      PROVE  UNCHANGED parser
  BY <1>4 DEF StartFrame
<1>5. Deliver => \E b \in Byte : Feed(b)
  BY HeadTailProperties DEF Deliver
<1>6. Noise => \E b \in Byte : Feed(b)
  BY DEF Noise
<1>7. LoseByte => UNCHANGED parser
  BY DEF LoseByte
<1>8. CorruptByte => \E b \in Byte : Feed(b)
  BY DEF CorruptByte
<1> QED BY <1>1, <1>2, <1>3, <1>4, <1>5, <1>6, <1>7, <1>8 DEF Next

-----------------------------------------------------------------------------
(* The builder, and how the parser finds its way back.                     *)

\* Header and payload of a frame are bytes, its length at their place.
LEMMA BodyShape ==
  ASSUME NEW f \in Traffic, Len(f.payload) <= MaxPayload
  PROVE  /\ Body(f) \in Seq(Byte) /\ Len(Body(f)) = HeaderSize + Len(f.payload)
         /\ Len(f.payload) \in Nat /\ Body(f)[1] = Sync
         /\ Body(f)[3] + Base * Body(f)[4] = Len(f.payload)
         /\ Body(f)[2] = f.cmd
         /\ \A i \in 1..Len(f.payload) : Body(f)[HeaderSize + i] = f.payload[i]
<1> DEFINE n == Len(f.payload)
           head == <<Sync, f.cmd, n % Base, n \div Base>>
<1>1. /\ Base \in Nat /\ Sync \in Byte /\ MaxPayload \in Nat /\ MaxPayload < Base * Base
      /\ f.cmd \in Byte /\ f.payload \in Seq(Byte) /\ n \in Nat /\ n <= MaxPayload
  BY ParserAssumption, TrafficAssumption, LenProperties
<1>2. Base > 0
  BY <1>1 DEF Byte
<1> HIDE DEF n
<1>3. n % Base \in Byte /\ n \div Base \in Nat /\ n = (n % Base) + Base * (n \div Base)
  <2>1. n % Base \in 0..Base - 1
    BY <1>1, <1>2
  <2>2. n = Base * (n \div Base) + (n % Base)
    BY <1>1, <1>2
  <2>3. n \div Base \in Int
    BY <1>1, <1>2
  <2>4. n \div Base >= 0
    BY <1>1, <1>2
  <2> QED BY <1>1, <2>1, <2>2, <2>3, <2>4 DEF Byte
<1>4. n \div Base \in Byte
  <2> DEFINE q == n \div Base
  <2>1. Base * q <= n /\ q \in Nat
    BY <1>1, <1>3 DEF Byte
  <2> HIDE DEF q
  <2>2. q >= Base => Base * q >= Base * Base
    BY <1>1, <2>1
  <2>3. q < Base
    <3>1. Base * q \in Nat /\ Base * Base \in Nat
      BY <1>1, <2>1
    <3> QED BY <1>1, <2>1, <2>2, <3>1
  <2>4. q \in Byte
    BY <1>1, <2>1, <2>3 DEF Byte
  <2> QED BY <2>4 DEF q
<1>5. /\ head \in Seq(Byte) /\ Len(head) = 4
      /\ head[1] = Sync /\ head[2] = f.cmd /\ head[3] = n % Base /\ head[4] = n \div Base
  BY <1>1, <1>3, <1>4
<1>6. Body(f) = head \o f.payload
  BY DEF Body, n
<1> HIDE DEF head
<1>7. /\ Body(f) \in Seq(Byte) /\ Len(Body(f)) = Len(head) + n
      /\ \A i \in 1..Len(head) : Body(f)[i] = head[i]
      /\ \A i \in 1..Len(f.payload) : Body(f)[Len(head) + i] = f.payload[i]
  <2>1. head \in Seq(Byte) /\ f.payload \in Seq(Byte) /\ Len(f.payload) = n
    BY <1>1, <1>5 DEF n
  <2> DEFINE p == f.payload
             u == Body(f)
  <2>2. u = head \o p /\ head \in Seq(Byte) /\ p \in Seq(Byte)
    BY <1>6, <2>1
  <2> HIDE DEF p, u
  <2>3. /\ u \in Seq(Byte) /\ Len(u) = Len(head) + Len(p)
        /\ \A i \in 1..Len(head) : u[i] = head[i]
        /\ \A i \in 1..Len(p) : u[Len(head) + i] = p[i]
    BY <2>2, Concatenation
  <2> QED BY <2>1, <2>3 DEF u, p
<1>8. Body(f)[1] = Sync /\ Body(f)[2] = f.cmd /\ Body(f)[3] = n % Base /\ Body(f)[4] = n \div Base
  BY <1>5, <1>7
<1>9. Body(f)[3] + Base * Body(f)[4] = n
  BY <1>3, <1>8
<1>10. \A i \in 1..Len(f.payload) : Body(f)[HeaderSize + i] = f.payload[i]
  BY <1>5, <1>7 DEF HeaderSize
<1> QED BY <1>1, <1>5, <1>7, <1>8, <1>9, <1>10 DEF n, HeaderSize

\* proto_build_frame() refuses, or builds a frame of the format.
LEMMA BuildShape ==
  ASSUME NEW f \in Traffic
  PROVE  /\ Build(f) \in Seq(Byte)
         /\ Build(f) # <<>> =>
              /\ IsFrame(Build(f))
              /\ Build(f)[1] = Sync /\ Len(f.payload) \in 0..MaxPayload
              /\ Build(f)[3] + Base * Build(f)[4] = Len(f.payload)
              /\ Len(Build(f)) = HeaderSize + Len(f.payload) + CrcSize
<1>1. CASE Len(f.payload) > MaxPayload
  <2>1. Build(f) = <<>>
    BY <1>1 DEF Build
  <2> QED BY <2>1, EmptySeq
<1>2. CASE ~(Len(f.payload) > MaxPayload)
  <2> DEFINE t == Build(f)
             c == Crc(Body(f))
             n == Len(f.payload)
  <2>1. /\ Body(f) \in Seq(Byte) /\ Len(Body(f)) = HeaderSize + n
        /\ n \in Nat /\ Body(f)[1] = Sync /\ Body(f)[3] + Base * Body(f)[4] = n
    <3>1. n \in Nat /\ MaxPayload \in Nat
      BY ParserAssumption, TrafficAssumption, LenProperties
    <3>2. Len(f.payload) <= MaxPayload
      BY <1>2, <3>1
    <3> QED BY <3>2, BodyShape
  <2>2. c \in Seq(Byte) /\ Len(c) = CrcSize /\ CrcSize \in Nat \ {0} /\ MaxPayload \in Nat
    BY ParserAssumption, TrafficAssumption
  <2>3. t = Body(f) \o c
    BY <1>2 DEF Build
  <2> HIDE DEF t, c
  <2>4. /\ t \in Seq(Byte) /\ Len(t) = Len(Body(f)) + Len(c)
        /\ \A i \in 1..Len(Body(f)) : t[i] = Body(f)[i]
    <3> DEFINE u == Body(f)
    <3>1. u \in Seq(Byte) /\ c \in Seq(Byte) /\ t = u \o c
      BY <2>1, <2>2, <2>3
    <3> HIDE DEF u
    <3>2. /\ t \in Seq(Byte) /\ Len(t) = Len(u) + Len(c)
          /\ \A i \in 1..Len(u) : t[i] = u[i]
      BY <3>1, Concatenation
    <3> QED BY <3>2 DEF u
  <2>5. t[1] = Sync /\ t[3] + Base * t[4] = n /\ Len(t) = HeaderSize + n + CrcSize
    BY <2>1, <2>2, <2>4 DEF HeaderSize
  <2>6. /\ SubSeq(t, 1, Len(Body(f))) = Body(f)
        /\ SubSeq(t, Len(Body(f)) + 1, Len(Body(f)) + Len(c)) = c
    BY <2>1, <2>2, <2>3, Seam
  <2>7. /\ SubSeq(t, 1, HeaderSize + n) = Body(f)
        /\ SubSeq(t, HeaderSize + n + 1, Len(t)) = Crc(Body(f))
    BY <2>1, <2>4, <2>6 DEF c
  <2>8. IsFrame(t)
    <3>1. Len(t) >= HeaderSize /\ n <= MaxPayload
      <4> HIDE DEF n
      <4> QED BY <1>2, <2>1, <2>2, <2>5 DEF HeaderSize, n
    <3>2. SubSeq(t, HeaderSize + n + 1, Len(t)) = Crc(SubSeq(t, 1, HeaderSize + n))
      BY <2>7
    <3> HIDE DEF n
    <3> QED BY <2>5, <3>1, <3>2 DEF IsFrame
  <2>9. n \in 0..MaxPayload
    BY <1>2, <2>1, <2>2
  <2> QED BY <2>4, <2>5, <2>8, <2>9 DEF t
<1> QED BY <1>1, <1>2

\* proto_build_frame() and proto_parser_feed() agree on the format: what is built is
\* a frame, and its command and payload are those given to the builder.
THEOREM BuiltFramesParse ==
  \A f \in Traffic :
    Build(f) # <<>> =>
      /\ IsFrame(Build(f))
      /\ FrameIn(Build(f)) = [cmd |-> f.cmd, payload |-> f.payload]
<1> SUFFICES ASSUME NEW f \in Traffic, Build(f) # <<>>
             PROVE  FrameIn(Build(f)) = [cmd |-> f.cmd, payload |-> f.payload]
  BY BuildShape
<1> DEFINE t == Build(f)
           p == f.payload
           u == Body(f)
<1>1. Len(p) \in 0..MaxPayload /\ Len(t) = HeaderSize + Len(p) + CrcSize
  BY BuildShape
<1>2. /\ p \in Seq(Byte) /\ Len(p) \in Nat /\ MaxPayload \in Nat /\ CrcSize \in Nat
      /\ Len(p) <= MaxPayload
  BY <1>1, TrafficAssumption, ParserAssumption
<1>3. /\ t \in Seq(Byte) /\ u \in Seq(Byte) /\ Len(u) = HeaderSize + Len(p)
      /\ u[2] = f.cmd /\ \A i \in 1..Len(p) : u[HeaderSize + i] = p[i]
  BY <1>2, BuildShape, BodyShape
<1>4. t = u \o Crc(u) /\ Crc(u) \in Seq(Byte)
  BY <1>1, <1>2, TrafficAssumption DEF Build
<1> HIDE DEF t, u, p
<1>5. \A i \in 1..Len(u) : t[i] = u[i]
  <2> DEFINE c == Crc(u)
  <2>1. t = u \o c /\ c \in Seq(Byte)
    BY <1>4
  <2> HIDE DEF c
  <2> QED BY <1>3, <2>1, Concatenation
<1>6. t[2] = f.cmd
  BY <1>2, <1>3, <1>5 DEF HeaderSize
<1>7. SubSeq(t, HeaderSize + 1, Len(t) - CrcSize) = p
  <2> DEFINE m == HeaderSize + 1
             k == Len(t) - CrcSize
  <2>1. m \in Int /\ k \in Int /\ k - m + 1 = Len(p) /\ m = 5 /\ k = Len(u)
    BY <1>1, <1>2, <1>3 DEF HeaderSize, t, p
  <2>2. \A i \in m..k : t[i] \in Byte
    BY <1>3, <1>5, <2>1, ElementOfSeq
  <2>3. /\ SubSeq(t, m, k) \in Seq(Byte)
        /\ Len(SubSeq(t, m, k)) = IF m <= k THEN k - m + 1 ELSE 0
        /\ \A i \in 1..k - m + 1 : SubSeq(t, m, k)[i] = t[m + i - 1]
    BY <2>1, <2>2, SubSeqProperties
  <2>4. ASSUME NEW i \in 1..Len(p)
        PROVE  t[m + i - 1] = p[i]
    <3>1. 4 + i \in 1..Len(u) /\ m + i - 1 = 4 + i
      BY <1>2, <1>3 DEF HeaderSize
    <3>2. t[4 + i] = u[4 + i] /\ u[4 + i] = p[i]
      BY <1>3, <1>5, <3>1 DEF HeaderSize
    <3> QED BY <3>1, <3>2
  <2> HIDE DEF m, k
  <2>5. Len(SubSeq(t, m, k)) = Len(p)
    BY <1>2, <2>1, <2>3
  <2>6. SubSeq(t, m, k) = p
    BY <1>2, <2>1, <2>3, <2>4, <2>5, SeqEqual
  <2> QED BY <2>6 DEF m, k
<1> QED BY <1>6, <1>7 DEF FrameIn, t, p

\* What is on the line is always a sequence of bytes.
LineTypeOK == wire \in Seq(Byte) /\ inStep \in BOOLEAN /\ since \in Nat

LEMMA NextKeepsLine ==
  ASSUME LineTypeOK, [Next]_vars
  PROVE  LineTypeOK'
<1> USE DEF LineTypeOK
<1>1. ASSUME NEW f \in Traffic, StartFrame(f)
      PROVE  LineTypeOK'
  <2>1. wire' \in Seq(Byte) /\ since' = since
    BY <1>1, BuildShape DEF StartFrame
  <2>2. inStep' \in BOOLEAN
    BY <1>1, Zenon DEF StartFrame
  <2> QED BY <2>1, <2>2
<1>2. CASE Deliver
  BY <1>2, HeadTailProperties DEF Deliver
<1>3. CASE Disturbed /\ (wire' = wire \/ (wire # <<>> /\ wire' = Tail(wire)))
  <2>1. wire' \in Seq(Byte) /\ since' \in Nat
    BY <1>3, HeadTailProperties DEF Disturbed
  <2>2. inStep' \in BOOLEAN
    BY <1>3, Zenon DEF Disturbed
  <2> QED BY <2>1, <2>2
<1>4. Noise \/ LoseByte \/ CorruptByte
        => Disturbed /\ (wire' = wire \/ (wire # <<>> /\ wire' = Tail(wire)))
  BY Zenon DEF Noise, LoseByte, CorruptByte
<1>5. CASE UNCHANGED vars
  BY <1>5 DEF vars
<1> QED BY <1>1, <1>2, <1>3, <1>4, <1>5 DEF Next

Typed == IInv /\ LineTypeOK

LEMMA InitTyped == Init => Typed
<1>1. Init => IInv
  BY InitIInv
<1>2. Init => wire \in Seq(Byte) /\ since \in Nat
  BY EmptySeq DEF Init
<1>3. Init => inStep \in BOOLEAN
  BY Zenon DEF Init
<1> QED BY <1>1, <1>2, <1>3 DEF Typed, LineTypeOK

LEMMA NextKeepsTyped == Typed /\ [Next]_vars => Typed'
  BY NextKeepsIInv, NextKeepsLine DEF Typed, LineTypeOK

\* Every variable of the parser has its type: whatever the line carries, no more
\* than MaxPayload bytes are stored.
THEOREM TypeCorrect == Spec => []TypeOK
<1>1. Typed => TypeOK
  BY DEF Typed, LineTypeOK, IInv, ParserTypeOK, TypeOK
<1> QED BY <1>1, InitTyped, NextKeepsTyped, PTL DEF Spec

\* proto_parser_feed() returns a frame exactly when the bytes it took since the
\* sync byte are one, whatever came before.
THEOREM FramesExactly == Spec => []ExactlyFrames
<1>1. Typed => ExactlyFrames
  BY ExactByInvariant DEF Typed
<1> QED BY <1>1, InitTyped, NextKeepsTyped, PTL DEF Spec

-----------------------------------------------------------------------------
(* A parser in step with the sender, and one that finds its way back.  It   *)
(* goes through four phases after a disturbance, or after the last sync     *)
(* byte inside a frame: inside a frame that a stray byte opened, looking    *)
(* for the next sync byte in the rest of the frame this one ended in, in    *)
(* front of a whole frame, and inside that one, in step with the sender.    *)

AtFrame == state = "SYNC" /\ wire # <<>> /\ \E f \in Traffic : wire = Build(f)

InFrame ==
  state # "SYNC" /\ wire # <<>> /\ \E f \in Traffic : taken \o wire = Build(f)

LineOK(n) == wire \in Seq(Byte) /\ Len(wire) <= n

Fresh == since = 0

Stray == state # "SYNC" /\ since <= Len(taken)

Hunting(n) ==
  state = "SYNC" /\ SyncFree(wire) /\ since + Len(wire) < MaxFrame + n

Due(n) == AtFrame /\ since + Len(wire) < MaxFrame + 2 * n

Inside(n) == InFrame /\ since + Len(wire) < MaxFrame + 2 * n

Phase(n) == Fresh \/ Stray \/ Hunting(n) \/ Due(n) \/ Inside(n)

ResyncInv(n) == IInv /\ since \in Nat /\ LineOK(n) /\ Phase(n)

LEMMA Sizes ==
  /\ MaxFrame \in Nat /\ MaxFrame > 0
  /\ \A n \in LengthBounds : n \in Nat /\ \A f \in Traffic : Len(Build(f)) <= n
<1>1. HeaderSize \in Nat /\ MaxPayload \in Nat /\ CrcSize \in Nat \ {0}
  BY ParserAssumption DEF HeaderSize
<1>2. MaxFrame \in Nat /\ MaxFrame > 0
  BY <1>1 DEF MaxFrame
<1> HIDE DEF MaxFrame
<1> QED BY <1>2 DEF LengthBounds

\* There is such a bound, whatever is sent.
LEMMA LongestIsBound == MaxFrame \in LengthBounds
<1>1. MaxFrame \in 0..MaxFrame
  BY Sizes
<1>2. ASSUME NEW f \in Traffic
      PROVE  Len(Build(f)) <= MaxFrame
  <2>1. CASE Build(f) = <<>>
    BY <2>1, EmptySeq, Sizes
  <2>2. CASE Build(f) # <<>>
    <3> DEFINE n == Len(f.payload)  k == Len(Build(f))
    <3>1. n \in 0..MaxPayload /\ k = HeaderSize + n + CrcSize
      BY <2>2, BuildShape
    <3> HIDE DEF n, k
    <3>2. k <= MaxFrame
      BY <3>1, ParserAssumption DEF MaxFrame, HeaderSize
    <3> QED BY <3>2 DEF k
  <2> QED BY <2>1, <2>2
<1> QED BY <1>1, <1>2 DEF LengthBounds

\* Inside a frame less than a longest frame has been taken.
LEMMA TakenShort ==
  ASSUME IInv, state # "SYNC"
  PROVE  taken \in Seq(Byte) /\ Len(taken) \in Nat /\ Len(taken) < MaxFrame
<1>1. /\ calc \in Seq(Byte) /\ rxCrc \in Seq(Byte) /\ taken \in Seq(Byte)
      /\ Len(calc) <= HeaderSize + MaxPayload
      /\ MaxPayload \in Nat /\ CrcSize \in Nat \ {0}
  BY ParserAssumption DEF IInv, ParserTypeOK
<1>2. Len(calc) \in Nat /\ Len(rxCrc) \in Nat /\ Len(taken) \in Nat
  BY <1>1, LenProperties
<1>3. CASE state # "CRC"
  <2>1. taken = calc
    BY <1>3 DEF IInv, ParserTypeOK, Known
  <2>2. Len(taken) = Len(calc)
    BY <2>1, Zenon
  <2> QED BY <1>1, <1>2, <2>2 DEF MaxFrame, HeaderSize
<1>4. CASE state = "CRC"
  <2>1. taken = calc \o rxCrc /\ Len(rxCrc) < CrcSize
    BY <1>4 DEF IInv, Known
  <2>2. Len(taken) = Len(calc) + Len(rxCrc)
    BY <1>1, <2>1, Concatenation
  <2> QED BY <1>1, <1>2, <2>1, <2>2 DEF MaxFrame, HeaderSize
<1> QED BY <1>1, <1>2, <1>3, <1>4

\* Inside a frame every byte is taken.
LEMMA TakesEveryByte ==
  ASSUME NEW b \in Byte, Feed(b), state # "SYNC"
  PROVE  taken' = Append(taken, b)
  BY DEF Feed, SkipByte, TakeSync, TakeCmd, TakeLenLow, TakeLenHigh, TakeData, TakeCrc,
         BadFrame, GoodFrame, Took

\* Out of a frame a byte opens one or is skipped.
LEMMA TakesSyncOnly ==
  ASSUME NEW b \in Byte, Feed(b), state = "SYNC"
  PROVE  /\ b = Sync => state' = "CMD" /\ taken' = <<b>>
         /\ b # Sync => state' = "SYNC" /\ out' = NoFrame
  BY DEF Feed, SkipByte, TakeSync, TakeCmd, TakeLenLow, TakeLenHigh, TakeData, TakeCrc,
         BadFrame, GoodFrame

\* The length of a frame that lacks only its last check byte.
LEMMA LengthInCrc ==
  ASSUME NEW c \in Nat, NEW r \in Nat, NEW n \in Nat, NEW k, NEW z,
         c = HeaderSize + n, k = c + r, r + 1 = z
  PROVE  c >= 4 /\ k >= 4 /\ k + 1 = HeaderSize + n + z
  BY DEF HeaderSize

\* What follows a header announces how much is still to come: while bytes of the
\* frame in step with the sender are missing, the parser does not leave it.
LEMMA StaysInStep ==
  ASSUME IInv, state # "SYNC", NEW b \in Byte, Feed(b), NEW f \in Traffic,
         Len(taken) + 1 < Len(Build(f)),
         \A i \in 1..Len(taken) : Build(f)[i] = taken[i],
         Build(f)[Len(taken) + 1] = b
  PROVE  state' # "SYNC"
<1> DEFINE B == Build(f)
           n == Len(f.payload)
<1>1. taken \in Seq(Byte) /\ Len(taken) \in Nat
  BY LenProperties DEF IInv, ParserTypeOK
<1>3. /\ Len(taken) + 1 < Len(B)
      /\ \A i \in 1..Len(taken) : B[i] = taken[i]
      /\ B[Len(taken) + 1] = b
  OBVIOUS
<1>5. B \in Seq(Byte) /\ B # <<>>
  <2>1. B \in Seq(Byte) /\ Len(B) \in Nat
    BY BuildShape, LenProperties
  <2> HIDE DEF B
  <2>2. Len(B) # 0
    BY <1>1, <1>3, <2>1
  <2> QED BY <2>1, <2>2, EmptySeq
<1> HIDE DEF B
<1>6. /\ n \in 0..MaxPayload /\ MaxPayload \in Nat /\ CrcSize \in Nat \ {0}
      /\ B[3] + Base * B[4] = n /\ Len(B) = HeaderSize + n + CrcSize
  BY <1>5, BuildShape, ParserAssumption DEF B
<1> HIDE DEF n
<1>7. CASE TakeLenHigh(b)
  <2>1. state = "LEN_HI" /\ state' = NextAfterLength(len + Base * b)
    BY <1>7 DEF TakeLenHigh
  <2>2. taken = calc /\ Len(calc) = 3 /\ calc[3] = len
    BY <2>1 DEF IInv, Known, KnownHeader
  <2>3. Len(taken) = 3 /\ taken[3] = len
    BY <2>2, Zenon
  <2>4. B[3] = len /\ B[4] = b
    BY <1>3, <2>3
  <2>5. len + Base * b = n
    BY <1>6, <2>4
  <2> QED BY <1>6, <2>1, <2>5 DEF NextAfterLength
<1>8. CASE BadFrame(b) \/ GoodFrame(b)
  <2>1. state = "CRC" /\ Len(rxCrc) + 1 = CrcSize
    BY <1>8 DEF BadFrame, GoodFrame
  <2>2. /\ taken = calc \o rxCrc /\ calc \in Seq(Byte) /\ rxCrc \in Seq(Byte)
        /\ taken \in Seq(Byte)
    BY <2>1 DEF IInv, ParserTypeOK, Known
  <2>3. /\ Len(calc) = HeaderSize + len /\ len = calc[3] + Base * calc[4] /\ len \in Nat
    BY <2>1 DEF IInv, ParserTypeOK, Known, KnownHeader
  <2>4. /\ Len(taken) = Len(calc) + Len(rxCrc) /\ Len(calc) \in Nat /\ Len(rxCrc) \in Nat
        /\ \A i \in 1..Len(calc) : taken[i] = calc[i]
    BY <2>2, Concatenation
  <2>5. B[3] = calc[3] /\ B[4] = calc[4]
    <3>1. Len(calc) >= 4 /\ Len(taken) >= 4
      BY <2>3, <2>4, <2>1, LengthInCrc, Zenon
    <3>2. taken[3] = calc[3] /\ taken[4] = calc[4]
      BY <2>4, <3>1
    <3>3. B[3] = taken[3] /\ B[4] = taken[4]
      BY <1>1, <1>3, <3>1
    <3> QED BY <3>2, <3>3
  <2>6. len = n
    BY <1>6, <2>3, <2>5
  <2>7. Len(taken) + 1 = HeaderSize + n + CrcSize
    <3>1. Len(taken) + 1 = HeaderSize + len + CrcSize
      <4> DEFINE k == Len(taken)  c == Len(calc)  r == Len(rxCrc)
      <4>1. c \in Nat /\ r \in Nat /\ len \in Nat /\ c = HeaderSize + len
        BY <2>3, <2>4
      <4>2. k = c + r
        BY <2>4
      <4>3. r + 1 = CrcSize
        BY <2>1
      <4> HIDE DEF k, c, r
      <4>4. k + 1 = HeaderSize + len + CrcSize
        BY <4>1, <4>2, <4>3, LengthInCrc
      <4> QED BY <4>4 DEF k
    <3> QED BY <2>6, <3>1, Zenon
  <2>8. FALSE
    BY <1>1, <1>3, <1>6, <2>7 DEF HeaderSize
  <2> QED BY <2>8
<1>9. CASE TakeCmd(b) \/ TakeLenLow(b) \/ TakeData(b) \/ TakeCrc(b)
  BY <1>9 DEF TakeCmd, TakeLenLow, TakeData, TakeCrc
<1> QED BY <1>7, <1>8, <1>9 DEF Feed, SkipByte, TakeSync

\* The last byte of a frame in step with the sender completes it.
LEMMA LastByteCompletes ==
  ASSUME IInv, IInv', state # "SYNC", NEW b \in Byte, Feed(b), NEW f \in Traffic,
         Append(taken, b) = Build(f)
  PROVE  out' # NoFrame /\ state' = "SYNC"
<1>1. taken' = Build(f)
  BY TakesEveryByte
<1>2. Build(f) # <<>>
  <2>1. Len(Append(taken, b)) = Len(taken) + 1 /\ Len(taken) \in Nat
    BY OneMore DEF IInv, ParserTypeOK
  <2> HIDE DEF Build
  <2>2. Len(Append(taken, b)) # 0
    BY <2>1
  <2> QED BY <2>2, EmptySeq
<1>3. IsFrame(taken') /\ taken' \in Seq(Byte)
  BY <1>1, <1>2, BuildShape
<1>4. IInv' => ExactlyFrames'
  BY ExactByInvariant, PTL
<1>5. out' = FrameIn(taken')
  BY <1>3, <1>4 DEF ExactlyFrames
<1>6. taken'[2] \in Byte
  <2>1. Len(taken') >= HeaderSize
    BY <1>3 DEF IsFrame
  <2> DEFINE t == taken'
  <2>2. t \in Seq(Byte) /\ Len(t) >= 4
    BY <1>3, <2>1 DEF HeaderSize
  <2> HIDE DEF t
  <2>3. t[2] \in Byte
    BY <2>2, ElementOfSeq, LenProperties
  <2> QED BY <2>3 DEF t
<1>7. out'.cmd # -1
  BY <1>5, <1>6, ParserAssumption DEF FrameIn, Byte
<1>8. out' # NoFrame
  BY <1>7 DEF NoFrame
<1>9. state' # "SYNC" => out' = NoFrame
  BY DEF IInv, Known
<1> QED BY <1>8, <1>9

-----------------------------------------------------------------------------
(* One byte of the line, in step with the sender.                           *)

\* The next byte and what is left behind it.
LEMMA NextByte ==
  ASSUME wire \in Seq(Byte), Deliver
  PROVE  /\ wire # <<>> /\ Head(wire) \in Byte /\ Feed(Head(wire))
         /\ wire' = Tail(wire) /\ wire' \in Seq(Byte)
         /\ Len(wire) = Len(wire') + 1 /\ Len(wire') \in Nat
<1>1. wire # <<>> /\ Feed(Head(wire)) /\ wire' = Tail(wire)
  BY DEF Deliver
<1>2. /\ Head(wire) \in Byte /\ Tail(wire) \in Seq(Byte)
      /\ Len(wire) = Len(Tail(wire)) + 1 /\ Len(Tail(wire)) \in Nat
  BY <1>1, HeadTailProperties, LenProperties
<1> QED BY <1>1, <1>2

\* Moving a byte from the line to the parser leaves the two together as they were.
LEMMA MoveOne ==
  ASSUME NEW s \in Seq(Byte), NEW w \in Seq(Byte), w # <<>>
  PROVE  /\ Append(s, Head(w)) \o Tail(w) = s \o w
         /\ <<Head(w)>> \o Tail(w) = w
         /\ Head(w) = w[1]
<1> DEFINE h == Head(w)  t == Tail(w)  u == <<h>>
<1>1. /\ h \in Byte /\ t \in Seq(Byte) /\ Len(t) = Len(w) - 1 /\ Len(t) \in Nat
      /\ Len(w) \in Nat /\ \A i \in 1..Len(t) : t[i] = w[i + 1]
  BY HeadTailProperties, LenProperties
<1>2. u \in Seq(Byte) /\ Len(u) = 1 /\ u[1] = h /\ Append(s, h) = s \o u
  BY <1>1, AppendIsConcat
<1>3. h = w[1]
  BY <1>1
<1> HIDE DEF h, t, u
<1>4. u \o t = w
  <2> DEFINE v == u \o t
  <2>1. v = u \o t
    OBVIOUS
  <2> HIDE DEF v
  <2>2. /\ v \in Seq(Byte) /\ Len(v) = Len(u) + Len(t)
        /\ \A i \in 1..Len(u) : v[i] = u[i]
        /\ \A i \in 1..Len(t) : v[Len(u) + i] = t[i]
    BY <1>1, <1>2, <2>1, Concatenation
  <2>3. Len(v) = Len(w)
    BY <1>1, <1>2, <2>2
  <2>4. ASSUME NEW i \in 1..Len(v)
        PROVE  v[i] = w[i]
    <3>1. CASE i = 1
      BY <1>2, <1>3, <2>2, <3>1
    <3>2. CASE i # 1
      <4>1. i - 1 \in 1..Len(t)
        BY <1>1, <1>2, <2>2, <3>2
      <4>2. v[1 + (i - 1)] = t[i - 1] /\ t[i - 1] = w[i - 1 + 1]
        BY <1>1, <1>2, <2>2, <4>1
      <4> QED BY <4>1, <4>2
    <3> QED BY <3>1, <3>2
  <2>5. v = w
    BY <2>2, <2>3, <2>4, SeqEqual
  <2> QED BY <2>5 DEF v
<1>5. (s \o u) \o t = s \o (u \o t)
  BY <1>1, <1>2, ConcatAssociative
<1>6. Append(s, h) \o t = s \o w
  BY <1>2, <1>4, <1>5, Zenon
<1> QED BY <1>3, <1>4, <1>6 DEF h, t, u

\* The first byte of a frame opens it.
LEMMA EntersFrame ==
  ASSUME wire \in Seq(Byte), AtFrame, Deliver
  PROVE  InFrame'
<1> DEFINE b == Head(wire)
<1>1. /\ wire # <<>> /\ b \in Byte /\ Feed(b) /\ wire' = Tail(wire)
      /\ wire' \in Seq(Byte) /\ Len(wire) = Len(wire') + 1 /\ Len(wire') \in Nat
  BY NextByte
<1>2. b = wire[1] /\ <<b>> \o wire' = wire
  <2>1. <<>> \in Seq(Byte)
    BY EmptySeq
  <2> QED BY <1>1, <2>1, MoveOne
<1> HIDE DEF b
<1>3. PICK f \in Traffic : wire = Build(f)
  BY DEF AtFrame
<1>4. /\ wire[1] = Sync /\ Len(wire) = HeaderSize + Len(f.payload) + CrcSize
      /\ Len(f.payload) \in 0..MaxPayload
  BY <1>1, <1>3, BuildShape
<1>5. state' = "CMD" /\ taken' = <<b>>
  BY <1>1, <1>2, <1>4, TakesSyncOnly DEF AtFrame
<1>6. Len(wire') > 0
  <2> DEFINE n == Len(f.payload)
  <2>1. n \in Nat /\ CrcSize \in Nat /\ Len(wire) = HeaderSize + n + CrcSize
    BY <1>4, ParserAssumption
  <2> HIDE DEF n
  <2> QED BY <1>1, <2>1 DEF HeaderSize
<1>7. wire' # <<>>
  BY <1>6, EmptySeq
<1>8. taken' \o wire' = Build(f)
  BY <1>2, <1>3, <1>5, Zenon
<1> QED BY <1>5, <1>7, <1>8 DEF InFrame

\* Every further byte keeps the two in step, and the last one completes the frame.
LEMMA FollowsFrame ==
  ASSUME IInv, IInv', wire \in Seq(Byte), InFrame, Deliver
  PROVE  /\ wire' = <<>> => out' # NoFrame
         /\ wire' # <<>> => InFrame'
<1> DEFINE b == Head(wire)
<1>1. /\ wire # <<>> /\ b \in Byte /\ Feed(b) /\ wire' = Tail(wire)
      /\ wire' \in Seq(Byte) /\ Len(wire) = Len(wire') + 1 /\ Len(wire') \in Nat
  BY NextByte
<1>2. taken \in Seq(Byte) /\ taken' \in Seq(Byte) /\ state # "SYNC"
  BY DEF IInv, ParserTypeOK, InFrame
<1>3. Append(taken, b) \o wire' = taken \o wire
  BY <1>1, <1>2, MoveOne
<1> HIDE DEF b
<1>4. PICK f \in Traffic : taken \o wire = Build(f)
  BY DEF InFrame
<1>5. taken' = Append(taken, b)
  BY <1>1, <1>2, TakesEveryByte
<1>6. taken' \o wire' = Build(f)
  BY <1>3, <1>4, <1>5, Zenon
<1>7. ASSUME wire' = <<>>
      PROVE  out' # NoFrame
  <2>1. taken' \o wire' = taken'
    BY <1>2, <1>7, ConcatEmptySeq, Zenon
  <2>2. Append(taken, b) = Build(f)
    BY <1>5, <1>6, <2>1, Zenon
  <2> QED BY <1>1, <1>2, <2>2, LastByteCompletes
<1>8. ASSUME wire' # <<>>
      PROVE  InFrame'
  <2> DEFINE B == Build(f)  u == taken'  w == wire'
  <2>1. /\ u \in Seq(Byte) /\ Len(u) = Len(taken) + 1 /\ Len(taken) \in Nat
        /\ u[Len(taken) + 1] = b /\ \A i \in 1..Len(taken) : u[i] = taken[i]
    BY <1>1, <1>2, <1>5, OneMore
  <2>2. B = u \o w /\ u \in Seq(Byte) /\ w \in Seq(Byte)
    BY <1>1, <1>6, <2>1
  <2>3. Len(w) > 0
    BY <1>1, <1>8, EmptySeq
  <2> HIDE DEF B, u, w
  <2>4. /\ Len(B) = Len(u) + Len(w) /\ Len(w) \in Nat
        /\ \A i \in 1..Len(u) : B[i] = u[i]
    BY <2>2, Concatenation
  <2>5. /\ Len(taken) + 1 < Len(B) /\ B[Len(taken) + 1] = b
        /\ \A i \in 1..Len(taken) : B[i] = taken[i]
    BY <2>1, <2>3, <2>4
  <2>6. state' # "SYNC"
    BY <1>1, <1>2, <2>5, StaysInStep DEF B
  <2> QED BY <1>6, <1>8, <2>6 DEF InFrame
<1> QED BY <1>7, <1>8

\* What the frame being sent has come to, if it met a waiting parser and a quiet line.
Arriving ==
  inStep => AtFrame \/ InFrame \/ (wire = <<>> /\ out # NoFrame)

\* A frame that finds the parser waiting for one is returned when its last byte is in,
\* whatever its payload and its check bytes are: a byte of them that equals the sync
\* byte is not taken for the start of a frame.
THEOREM InStepFramesArrive == Spec => []InStepArrives
<1>1. Init => Arriving
  BY DEF Init, Arriving
<1>2. Typed /\ Arriving /\ [Next]_vars => Arriving'
  <2> SUFFICES ASSUME Typed, Arriving, [Next]_vars
               PROVE  Arriving'
    OBVIOUS
  <2>1. IInv /\ IInv' /\ wire \in Seq(Byte)
    BY NextKeepsTyped DEF Typed, LineTypeOK
  <2>2. CASE UNCHANGED vars
    BY <2>2 DEF vars, Arriving, AtFrame, InFrame
  <2>3. CASE Deliver
    <3>1. inStep' = inStep /\ wire # <<>>
      BY <2>3 DEF Deliver
    <3>2. AtFrame => InFrame'
      BY <2>1, <2>3, EntersFrame
    <3>3. InFrame => InFrame' \/ (wire' = <<>> /\ out' # NoFrame)
      BY <2>1, <2>3, FollowsFrame
    <3> QED BY <3>1, <3>2, <3>3 DEF Arriving
  <2>4. CASE Noise \/ LoseByte \/ CorruptByte
    BY <2>4 DEF Noise, LoseByte, CorruptByte, Disturbed, Arriving
  <2>5. ASSUME NEW f \in Traffic, StartFrame(f)
        PROVE  Arriving'
    <3>1. wire' = Build(f) /\ state' = state
      BY <2>5 DEF StartFrame, parser
    <3>2. inStep' => state = "SYNC" /\ wire' # <<>>
      BY <2>5 DEF StartFrame
    <3> QED BY <3>1, <3>2 DEF Arriving, AtFrame
  <2> QED BY <2>2, <2>3, <2>4, <2>5 DEF Next
<1>3. Arriving => InStepArrives
  BY DEF Arriving, AtFrame, InFrame, InStepArrives
<1> QED BY <1>1, <1>2, <1>3, InitTyped, NextKeepsTyped, PTL DEF Spec

-----------------------------------------------------------------------------
(* One step of the line, phase by phase.                                    *)

LEMMA NextKeepsLineOK ==
  ASSUME NEW n \in LengthBounds, LineOK(n), [Next]_vars
  PROVE  LineOK(n)'
<1>1. CASE UNCHANGED wire
  BY <1>1 DEF LineOK
<1>2. CASE wire # <<>> /\ wire' = Tail(wire)
  <2>1. /\ Tail(wire) \in Seq(Byte) /\ Len(wire) = Len(Tail(wire)) + 1
        /\ Len(Tail(wire)) \in Nat /\ Len(wire) <= n /\ n \in Nat
    BY <1>2, HeadTailProperties, LenProperties DEF LengthBounds, LineOK
  <2> QED BY <1>2, <2>1 DEF LineOK
<1>3. ASSUME NEW f \in Traffic, StartFrame(f)
      PROVE  LineOK(n)'
  <2>1. wire' = Build(f)
    BY <1>3 DEF StartFrame
  <2>2. wire' \in Seq(Byte)
    BY <2>1, BuildShape
  <2>3. Len(wire') <= n
    BY <2>1 DEF LengthBounds
  <2> QED BY <2>1, <2>2, <2>3 DEF LineOK
<1> QED BY <1>1, <1>2, <1>3 DEF Next, Deliver, Noise, LoseByte, CorruptByte, vars

\* A byte delivered keeps the parser in its phase or takes it to the next.
LEMMA DeliverKeepsPhase ==
  ASSUME NEW n \in LengthBounds, ResyncInv(n), Deliver, IInv'
  PROVE  Phase(n)'
<1> DEFINE b == Head(wire)
<1>1. /\ IInv /\ wire \in Seq(Byte) /\ Len(wire) <= n /\ since \in Nat /\ Phase(n)
  BY DEF ResyncInv, LineOK
<1>2. /\ wire # <<>> /\ b \in Byte /\ Feed(b) /\ wire' = Tail(wire)
      /\ wire' \in Seq(Byte) /\ Len(wire) = Len(wire') + 1 /\ Len(wire') \in Nat
  BY <1>1, NextByte
<1>3. /\ n \in Nat /\ MaxFrame \in Nat /\ MaxFrame > 0
      /\ taken \in Seq(Byte) /\ taken' \in Seq(Byte)
  BY Sizes DEF ResyncInv, IInv, ParserTypeOK
<1>4. b = wire[1]
  BY <1>2, <1>3, MoveOne
<1> HIDE DEF b
<1>5. CASE since' = 0
  BY <1>5 DEF Phase, Fresh
<1>6. CASE since' # 0
  <2>1. /\ since' = since + 1 /\ SyncFree(wire')
        /\ ~(wire' = <<>> /\ out' # NoFrame)
    BY <1>6 DEF Deliver
  <2>2. CASE Fresh
    <3>1. CASE state' = "SYNC"
      <4>1. since' + Len(wire') < MaxFrame + n
        BY <1>1, <1>2, <1>3, <2>1, <2>2 DEF Fresh
      <4> QED BY <2>1, <3>1, <4>1 DEF Phase, Hunting
    <3>2. CASE state' # "SYNC"
      <4>1. taken' = Append(taken, b) \/ taken' = <<b>>
        <5>1. CASE state = "SYNC"
          BY <1>2, <3>2, <5>1, TakesSyncOnly
        <5>2. CASE state # "SYNC"
          BY <1>2, <5>2, TakesEveryByte
        <5> QED BY <5>1, <5>2
      <4>2. /\ Len(Append(taken, b)) = Len(taken) + 1 /\ Len(taken) \in Nat
            /\ Len(<<b>>) = 1
        BY <1>2, <1>3, OneMore
      <4>3. Len(taken') >= 1
        <5>1. CASE taken' = Append(taken, b)
          BY <4>2, <5>1
        <5>2. CASE taken' = <<b>>
          BY <4>2, <5>2
        <5> QED BY <4>1, <5>1, <5>2
      <4>4. since' = 1
        BY <2>1, <2>2 DEF Fresh
      <4>5. since' <= Len(taken')
        BY <1>3, <4>3, <4>4, LenProperties
      <4> QED BY <3>2, <4>5 DEF Phase, Stray
    <3> QED BY <3>1, <3>2
  <2>3. CASE Stray
    <3>1. /\ taken' = Append(taken, b) /\ Len(taken) \in Nat /\ Len(taken) < MaxFrame
          /\ since <= Len(taken)
      BY <1>1, <1>2, <2>3, TakesEveryByte, TakenShort DEF Stray
    <3>2. Len(taken') = Len(taken) + 1
      BY <1>2, <1>3, <3>1, OneMore
    <3>3. CASE state' # "SYNC"
      BY <1>1, <2>1, <3>1, <3>2, <3>3 DEF Phase, Stray
    <3>4. CASE state' = "SYNC"
      <4>1. since' + Len(wire') < MaxFrame + n
        BY <1>1, <1>2, <1>3, <2>1, <3>1
      <4> QED BY <2>1, <3>4, <4>1 DEF Phase, Hunting
    <3> QED BY <3>3, <3>4
  <2>4. CASE Hunting(n)
    <3>1. b # Sync
      <4>1. 1 \in 1..Len(wire)
        BY <1>2
      <4> QED BY <1>4, <2>4, <4>1 DEF Hunting, SyncFree
    <3>2. state' = "SYNC"
      BY <1>2, <2>4, <3>1, TakesSyncOnly DEF Hunting
    <3>3. since' + Len(wire') < MaxFrame + n
      BY <1>1, <1>2, <1>3, <2>1, <2>4 DEF Hunting
    <3> QED BY <2>1, <3>2, <3>3 DEF Phase, Hunting
  <2>5. CASE Due(n)
    <3>1. InFrame'
      BY <1>1, <2>5, EntersFrame DEF Due
    <3>2. since' + Len(wire') < MaxFrame + 2 * n
      BY <1>1, <1>2, <1>3, <2>1, <2>5 DEF Due
    <3> QED BY <3>1, <3>2 DEF Phase, Inside
  <2>6. CASE Inside(n)
    <3>1. InFrame'
      BY <1>1, <2>1, <2>6, FollowsFrame DEF Inside
    <3>2. since' + Len(wire') < MaxFrame + 2 * n
      BY <1>1, <1>2, <1>3, <2>1, <2>6 DEF Inside
    <3> QED BY <3>1, <3>2 DEF Phase, Inside
  <2> QED BY <1>1, <2>2, <2>3, <2>4, <2>5, <2>6 DEF Phase
<1> QED BY <1>5, <1>6

LEMMA NextKeepsResync ==
  ASSUME NEW n \in LengthBounds, ResyncInv(n), [Next]_vars
  PROVE  ResyncInv(n)'
<1>1. IInv'
  BY NextKeepsIInv DEF ResyncInv, LineOK
<1>2. LineOK(n)'
  BY NextKeepsLineOK DEF ResyncInv
<1>3. Phase(n)' /\ since' \in Nat
  <2>0. since \in Nat
    BY DEF ResyncInv
  <2>1. CASE UNCHANGED vars
    BY <2>1 DEF vars, ResyncInv, Phase, Fresh, Stray, Hunting, Due, Inside, AtFrame, InFrame
  <2>2. CASE Deliver
    <3>1. since' \in Nat
      BY <2>0, <2>2 DEF Deliver
    <3> QED BY <1>1, <2>2, <3>1, DeliverKeepsPhase
  <2>3. CASE Noise \/ LoseByte \/ CorruptByte
    BY <2>3 DEF Noise, LoseByte, CorruptByte, Disturbed, Phase, Fresh
  <2>4. ASSUME NEW f \in Traffic, StartFrame(f)
        PROVE  Phase(n)' /\ since' \in Nat
    <3>1. /\ wire = <<>> /\ wire' = Build(f) /\ UNCHANGED <<state, taken, since>>
      BY <2>4 DEF StartFrame, parser
    <3>2. n \in Nat /\ MaxFrame \in Nat /\ since \in Nat /\ Len(wire) = 0
      BY <3>1, EmptySeq, Sizes DEF ResyncInv
    <3>3. CASE Fresh \/ Stray
      BY <3>1, <3>2, <3>3 DEF Phase, Fresh, Stray
    <3>4. CASE Hunting(n)
      <4>1. state' = "SYNC" /\ since' < MaxFrame + n
        BY <3>1, <3>2, <3>4 DEF Hunting
      <4>2. wire' \in Seq(Byte) /\ Len(wire') <= n /\ Len(wire') \in Nat
        BY <1>2, LenProperties DEF LineOK
      <4>3. since' + Len(wire') < MaxFrame + 2 * n
        BY <3>1, <3>2, <4>1, <4>2
      <4>4. CASE wire' = <<>>
        <5>1. Len(wire') = 0
          BY <4>4, EmptySeq
        <5>2. since' + Len(wire') < MaxFrame + n
          BY <3>1, <3>2, <4>1, <5>1
        <5> QED BY <3>1, <3>2, <4>1, <5>1, <5>2 DEF Phase, Hunting, SyncFree
      <4>5. CASE wire' # <<>>
        BY <3>1, <3>2, <4>1, <4>3, <4>5 DEF Phase, Due, AtFrame
      <4> QED BY <4>4, <4>5
    <3>5. ~Due(n) /\ ~Inside(n)
      BY <3>1 DEF Due, Inside, AtFrame, InFrame
    <3> QED BY <3>3, <3>4, <3>5 DEF ResyncInv, Phase
  <2> QED BY <2>1, <2>2, <2>3, <2>4 DEF Next
<1> QED BY <1>1, <1>2, <1>3 DEF ResyncInv

LEMMA ResyncFromPhase ==
  ASSUME NEW n \in LengthBounds, ResyncInv(n)
  PROVE  since < MaxFrame + 2 * n
<1>1. /\ n \in Nat /\ MaxFrame \in Nat /\ MaxFrame > 0
      /\ since \in Nat /\ Len(wire) \in Nat
  BY Sizes, LenProperties DEF ResyncInv, LineOK
<1>2. CASE Stray
  BY <1>1, <1>2, TakenShort DEF Stray, ResyncInv
<1>3. CASE Fresh \/ Hunting(n) \/ Due(n) \/ Inside(n)
  BY <1>1, <1>3 DEF Fresh, Hunting, Due, Inside
<1> QED BY <1>2, <1>3 DEF ResyncInv, Phase

\* After any disturbance of the line, at whatever byte the parser stood and whatever the
\* frames carry, a frame gets through before MaxFrame + 2 n bytes have gone by with no
\* sync byte to come inside the frame being sent, n being any bound of the length of the
\* frames sent.  (Such a byte may open a stray frame, and then the count starts anew.)
THEOREM Resynchronises == Spec => []ResyncBounded
<1> DEFINE Inv == \A n \in LengthBounds : ResyncInv(n)
<1>1. Init => Inv
  <2> SUFFICES ASSUME Init, NEW n \in LengthBounds
               PROVE  ResyncInv(n)
    OBVIOUS
  <2>1. IInv
    BY InitIInv
  <2>2. n \in Nat /\ since = 0 /\ wire = <<>>
    BY DEF Init, LengthBounds
  <2>3. LineOK(n)
    BY <2>2, EmptySeq DEF LineOK
  <2> QED BY <2>1, <2>2, <2>3 DEF ResyncInv, Phase, Fresh
<1>2. Inv /\ [Next]_vars => Inv'
  BY NextKeepsResync DEF LengthBounds
<1>3. Inv => ResyncBounded
  BY ResyncFromPhase DEF ResyncBounded
<1> HIDE DEF Inv
<1> QED BY <1>1, <1>2, <1>3, PTL DEF Spec

===============================================================================
