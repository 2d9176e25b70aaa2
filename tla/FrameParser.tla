----------------------------- MODULE FrameParser -----------------------------
(***************************************************************************)
(* shared/protocol.c: the byte-wise frame parser that all three programs   *)
(* use, and a sender that builds frames and puts them on a disturbed line. *)
(*                                                                         *)
(*   [SYNC][CMD][LEN low][LEN high][payload: LEN bytes][CRC: CrcSize bytes] *)
(*                                                                         *)
(* The running CRC register is a function of the bytes it has covered, so  *)
(* these bytes stand for it; Crc is any function from them to CrcSize      *)
(* bytes.  The four states CRC0 to CRC3 are one state with the bytes       *)
(* received so far.                                                        *)
(***************************************************************************)
EXTENDS Integers, Sequences

CONSTANTS
  Base,        \* number of values of a byte (256 in the code)
  Sync,        \* PROTO_SYNC_BYTE
  MaxPayload,  \* PROTO_MAX_PAYLOAD
  CrcSize,     \* PROTO_CRC_SIZE
  Crc(_),      \* proto_crc32_buf
  Traffic      \* the frames the sender sends, as records [cmd, payload]

Byte == 0..Base - 1
HeaderSize == 4
MaxFrame == HeaderSize + MaxPayload + CrcSize

ASSUME ParserAssumption ==
  /\ Base \in Nat /\ Sync \in Byte
  /\ MaxPayload \in Nat /\ MaxPayload < Base * Base  \* its size fits in two bytes
  /\ CrcSize \in Nat \ {0}

VARIABLES
  state,    \* FrameState_t
  cmd,      \* frame.cmd
  len,      \* frame.len
  payload,  \* frame.payload up to payload_idx
  calc,     \* the bytes calc_crc has covered
  rxCrc,    \* the bytes rx_crc is made of
  out,      \* what the last proto_parser_feed() returned
  taken,    \* history: the bytes since the parser last left SYNC
  wire,     \* what is left of the frame being sent
  inStep,   \* history: the frame being sent met a parser waiting for one, and
            \*          the line was not disturbed since
  since     \* history: bytes since the line was last disturbed, a frame got
            \*          through, or a frame had a sync byte still to come

parser == <<state, cmd, len, payload, calc, rxCrc, out, taken>>
vars == <<state, cmd, len, payload, calc, rxCrc, out, taken, wire, inStep, since>>

\* NULL; no byte is -1.
NoFrame == [cmd |-> -1, payload |-> <<>>]

Init ==
  /\ state = "SYNC" /\ cmd = 0 /\ len = 0
  /\ payload = <<>> /\ calc = <<>> /\ rxCrc = <<>>
  /\ out = NoFrame /\ taken = <<>>
  /\ wire = <<>> /\ inStep = FALSE /\ since = 0

-----------------------------------------------------------------------------
(* proto_parser_feed(), one action for each thing a byte can do.           *)

Took(b) == taken' = Append(taken, b)
Covers(b) == calc' = Append(calc, b)

SkipByte(b) ==
  /\ state = "SYNC" /\ b # Sync
  /\ taken' = <<>> /\ out' = NoFrame
  /\ UNCHANGED <<state, cmd, len, payload, calc, rxCrc>>

\* Mutant: the running CRC is not started afresh.
TakeSyncKeepsCrc(b) ==
  /\ state = "SYNC" /\ b = Sync
  /\ state' = "CMD" /\ cmd' = 0 /\ len' = 0
  /\ payload' = <<>> /\ rxCrc' = <<>> /\ Covers(b)
  /\ taken' = <<b>> /\ out' = NoFrame

\* Everything of the last frame is cleared.
TakeSync(b) ==
  /\ state = "SYNC" /\ b = Sync
  /\ state' = "CMD" /\ cmd' = 0 /\ len' = 0
  /\ payload' = <<>> /\ rxCrc' = <<>> /\ calc' = <<b>>
  /\ taken' = <<b>> /\ out' = NoFrame

TakeCmd(b) ==
  /\ state = "CMD"
  /\ state' = "LEN_LO" /\ cmd' = b
  /\ Took(b) /\ Covers(b) /\ out' = NoFrame
  /\ UNCHANGED <<len, payload, rxCrc>>

TakeLenLow(b) ==
  /\ state = "LEN_LO"
  /\ state' = "LEN_HI" /\ len' = b
  /\ Took(b) /\ Covers(b) /\ out' = NoFrame
  /\ UNCHANGED <<cmd, payload, rxCrc>>

\* Mutant: a payload that fills the array is refused.
NextAfterLengthBelow(n) ==
  IF n >= MaxPayload THEN "SYNC" ELSE IF n = 0 THEN "CRC" ELSE "DATA"

\* Mutant: the length is not checked.
NextAfterUncheckedLength(n) == IF n = 0 THEN "CRC" ELSE "DATA"

NextAfterLength(n) ==
  IF n > MaxPayload THEN "SYNC" ELSE IF n = 0 THEN "CRC" ELSE "DATA"

TakeLenHigh(b) ==
  /\ state = "LEN_HI"
  /\ len' = len + Base * b
  /\ state' = NextAfterLength(len')
  /\ Took(b) /\ Covers(b) /\ out' = NoFrame
  /\ payload' = <<>>
  /\ UNCHANGED <<cmd, rxCrc>>

TakeData(b) ==
  /\ state = "DATA"
  /\ payload' = Append(payload, b)
  /\ state' = IF Len(payload') >= len THEN "CRC" ELSE "DATA"
  /\ Took(b) /\ Covers(b) /\ out' = NoFrame
  /\ UNCHANGED <<cmd, len, rxCrc>>

TakeCrc(b) ==
  /\ state = "CRC" /\ Len(rxCrc) + 1 < CrcSize
  /\ rxCrc' = Append(rxCrc, b)
  /\ Took(b) /\ out' = NoFrame
  /\ UNCHANGED <<state, cmd, len, payload, calc>>

\* Mutant: after a mismatch the parser takes the next byte for a command.
BadFrameOpensNext(b) ==
  /\ state = "CRC" /\ Len(rxCrc) + 1 = CrcSize
  /\ Append(rxCrc, b) # Crc(calc)
  /\ rxCrc' = <<>> /\ payload' = <<>>
  /\ calc' = <<Sync>> /\ taken' = <<Sync>>
  /\ state' = "CMD" /\ out' = NoFrame
  /\ UNCHANGED <<cmd, len>>

BadFrame(b) ==
  /\ state = "CRC" /\ Len(rxCrc) + 1 = CrcSize
  /\ Append(rxCrc, b) # Crc(calc)
  /\ rxCrc' = Append(rxCrc, b)
  /\ state' = "SYNC" /\ out' = NoFrame
  /\ Took(b)
  /\ UNCHANGED <<cmd, len, payload, calc>>

GoodFrame(b) ==
  /\ state = "CRC" /\ Len(rxCrc) + 1 = CrcSize
  /\ Append(rxCrc, b) = Crc(calc)
  /\ rxCrc' = Append(rxCrc, b)
  /\ state' = "SYNC" /\ out' = [cmd |-> cmd, payload |-> payload]
  /\ Took(b)
  /\ UNCHANGED <<cmd, len, payload, calc>>

Feed(b) ==
  \/ SkipByte(b) \/ TakeSync(b) \/ TakeCmd(b) \/ TakeLenLow(b) \/ TakeLenHigh(b)
  \/ TakeData(b) \/ TakeCrc(b) \/ BadFrame(b) \/ GoodFrame(b)

-----------------------------------------------------------------------------
(* proto_build_frame() and the line.                                       *)

\* The length has two bytes, the low one first.
Body(f) ==
  LET n == Len(f.payload)
  IN  <<Sync, f.cmd, n % Base, n \div Base>> \o f.payload

\* Nothing if the frame does not fit; every caller has room for MaxFrame bytes.
Build(f) ==
  IF Len(f.payload) > MaxPayload THEN <<>> ELSE Body(f) \o Crc(Body(f))

ASSUME TrafficAssumption ==
  \A f \in Traffic : /\ f.cmd \in Byte /\ f.payload \in Seq(Byte)
                     /\ Crc(Body(f)) \in [1..CrcSize -> Byte]

SyncFree(s) == \A i \in 1..Len(s) : s[i] # Sync

StartFrame(f) ==
  /\ wire = <<>>
  /\ wire' = Build(f)
  /\ inStep' = (state = "SYNC" /\ wire' # <<>>)
  /\ UNCHANGED <<parser, since>>

\* A byte arrives as it was sent.
Deliver ==
  /\ wire # <<>>
  /\ Feed(Head(wire))
  /\ wire' = Tail(wire)
  /\ since' = IF (wire' = <<>> /\ out' # NoFrame) \/ ~SyncFree(wire')
              THEN 0 ELSE since + 1
  /\ UNCHANGED inStep

Disturbed == since' = 0 /\ inStep' = FALSE

\* A byte that nobody sent, a byte lost, a byte changed.
Noise ==
  \E b \in Byte : Feed(b) /\ Disturbed /\ UNCHANGED wire

LoseByte ==
  wire # <<>> /\ wire' = Tail(wire) /\ Disturbed /\ UNCHANGED parser

CorruptByte ==
  /\ wire # <<>>
  /\ \E b \in Byte \ {Head(wire)} : Feed(b)
  /\ wire' = Tail(wire) /\ Disturbed

Next ==
  \/ \E f \in Traffic : StartFrame(f)
  \/ Deliver \/ Noise \/ LoseByte \/ CorruptByte

Spec == Init /\ [][Next]_vars

-----------------------------------------------------------------------------
\* Every variable has its type: no byte is ever stored beyond the payload
\* array, whatever length a header announces.
TypeOK ==
  /\ state \in {"SYNC", "CMD", "LEN_LO", "LEN_HI", "DATA", "CRC"}
  /\ cmd \in Byte /\ len \in Nat
  /\ payload \in Seq(Byte) /\ Len(payload) <= MaxPayload
  /\ calc \in Seq(Byte) /\ Len(calc) <= HeaderSize + MaxPayload
  /\ rxCrc \in Seq(Byte) /\ Len(rxCrc) <= CrcSize
  /\ out \in [cmd : Byte, payload : Seq(Byte)] \cup {NoFrame}
  /\ taken \in Seq(Byte) /\ wire \in Seq(Byte)
  /\ inStep \in BOOLEAN /\ since \in Nat

\* What the format says of a sequence of bytes, without a parser.
IsFrame(t) ==
  /\ Len(t) >= HeaderSize /\ t[1] = Sync
  /\ LET n == t[3] + Base * t[4]
     IN  /\ n <= MaxPayload
         /\ Len(t) = HeaderSize + n + CrcSize
         /\ SubSeq(t, HeaderSize + n + 1, Len(t)) =
              Crc(SubSeq(t, 1, HeaderSize + n))

FrameIn(t) ==
  [cmd |-> t[2], payload |-> SubSeq(t, HeaderSize + 1, Len(t) - CrcSize)]

\* The parser returns a frame exactly when the bytes from the sync byte on
\* are one, with that frame's command and payload, whatever came before and
\* however often it lost its way.
ExactlyFrames == out = IF IsFrame(taken) THEN FrameIn(taken) ELSE NoFrame

\* A frame that finds the parser waiting gets through, whatever its payload and
\* its check bytes are: a sync byte among them is not taken for the next frame.
InStepArrives == inStep /\ wire = <<>> => out # NoFrame

\* Upper bounds of the length of a frame sent.
LengthBounds == {n \in 0..MaxFrame : \A f \in Traffic : Len(Build(f)) <= n}

\* A disturbance costs a bounded number of good bytes: the frame a stray sync byte
\* opens, the rest of the one it ends in, and then the next one is taken.  Only
\* bytes behind the last sync byte inside a frame count: while the parser is
\* lost, such a byte may open one more stray frame.
ResyncBounded == \A n \in LengthBounds : since < MaxFrame + 2 * n

==============================================================================
