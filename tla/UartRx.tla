-------------------------------- MODULE UartRx --------------------------------
(***************************************************************************)
(* application/Core/Src/uart_comm.c: reception by DMA into a ring, handed  *)
(* over to a stream buffer by the idle interrupt and once, at its start,   *)
(* by the comm task, which then takes byte after byte for the parser.      *)
(*                                                                         *)
(* A byte is the number it has on the line, from zero.  Indices into the   *)
(* ring are kept as counts of bytes; the code sees them modulo the size of *)
(* the ring.  The processor has one core: while the interrupt is handled   *)
(* the task stands still, the DMA and the line do not.                     *)
(*                                                                         *)
(* One call of xStreamBufferSendFromISR with its arguments is one step.    *)
(* The interrupt can also strike inside the task's call, as a second       *)
(* writer of the stream buffer; that too is a case of "clashed", of which  *)
(* nothing is promised.                                                    *)
(***************************************************************************)
EXTENDS Integers, Sequences

CONSTANTS
  RingSize,    \* UART_RX_BUF_SIZE
  StreamSize,  \* UART_RX_STREAM_SIZE
  MaxBytes     \* bound of the model: bytes on the line

ASSUME UartAssumption ==
  RingSize \in Nat \ {0} /\ StreamSize \in Nat \ {0} /\ MaxBytes \in Nat

VARIABLES
  rx,       \* bytes the DMA has written; modulo RingSize the DMA head
  tail,     \* g_dma_tail
  stream,   \* content of g_rx_stream
  busy,     \* bytes have come since the line was last idle
  idle,     \* UART_FLAG_IDLE
  isr,      \* USART1_IRQHandler: "off", "flag" cleared, or head "read"
  isrHead,  \* its head
  pc,       \* uart_comm_init ("init"), then vCommTask
  head,     \* head in the task's drain
  got,      \* history: bytes the parser was fed
  last,     \* history: the last of them, -1 at first
  lost,     \* history: bytes the stream buffer did not take
  clashed,  \* history: the interrupt published inside the task's drain
  lapped    \* history: a whole ring of bytes was unpublished at once

vars == <<rx, tail, stream, busy, idle, isr, isrHead, pc, head, got, last,
          lost, clashed, lapped>>

line == <<rx, busy, lapped>>
handler == <<isr, isrHead, clashed>>
history == <<got, last>>

Index(n) == n % RingSize

\* What the ring holds at index p: the last byte put there; -1 before the
\* first one, and beyond the end of the array.
NoByte == -1
RingAt(p) ==
  LET k == rx - 1 - Index(rx - 1 - p)
  IN  IF p < RingSize /\ k >= 0 THEN k ELSE NoByte

\* n bytes of memory from index p on.
Span(p, n) == [j \in 1..n |-> RingAt(p + j - 1)]

\* In this kernel a stream buffer on static storage holds one byte less than its length.
Space == StreamSize - 1 - Len(stream)

\* Mutant: the stream buffer takes whatever it is given.
TakenAll(n) == n

\* It takes what fits.
Taken(n) == IF n < Space THEN n ELSE Space

Send(p, n) ==
  /\ stream' = stream \o Span(p, Taken(n))
  /\ lost' = lost + n - Taken(n)

\* The task's drain, from reading the DMA counter to moving the tail.
Draining == {"test", "compare", "one", "two", "rest", "set"}

Init ==
  /\ rx = 0 /\ tail = 0 /\ stream = <<>>
  /\ busy = FALSE /\ idle = FALSE
  /\ isr = "off" /\ isrHead = 0
  /\ pc = "init" /\ head = 0
  /\ got = 0 /\ last = NoByte /\ lost = 0
  /\ clashed = FALSE /\ lapped = FALSE

-----------------------------------------------------------------------------
(* The line.                                                               *)

\* A byte arrives and the DMA stores it, whatever the processor does.
ByteArrives ==
  /\ rx < MaxBytes
  /\ rx' = rx + 1 /\ busy' = TRUE
  /\ lapped' = (lapped \/ rx + 1 - tail >= RingSize)
  /\ UNCHANGED <<tail, stream, idle, handler, pc, head, history, lost>>

\* The line has been quiet for the length of a byte.
LineIdle ==
  /\ busy
  /\ busy' = FALSE /\ idle' = TRUE
  /\ UNCHANGED <<rx, lapped, tail, stream, handler, pc, head, history, lost>>

-----------------------------------------------------------------------------
(* The interrupt.                                                          *)

IsrEnter ==
  /\ isr = "off" /\ idle /\ pc # "init"
  /\ isr' = "flag" /\ idle' = FALSE
  /\ UNCHANGED <<line, tail, stream, isrHead, clashed, pc, head, history, lost>>

IsrReadsHead ==
  /\ isr = "flag"
  /\ isr' = "read" /\ isrHead' = rx
  /\ UNCHANGED <<line, tail, stream, idle, clashed, pc, head, history, lost>>

IsrNothingNew ==
  /\ isr = "read" /\ Index(isrHead) = Index(tail)
  /\ isr' = "off"
  /\ UNCHANGED <<line, tail, stream, idle, isrHead, clashed, pc, head, history,
                 lost>>

\* Mutant: the tail is moved to where the DMA is by then.
TailAtCounter(h) == tail' = rx

TailAt(h) == tail' = h

\* Two sends if the new bytes wrap around the end of the ring.
IsrPublishes ==
  /\ isr = "read"
  /\ LET t == Index(tail)
         h == Index(isrHead)
         n == IF h > t THEN h - t ELSE RingSize - t + h
         new == IF h > t THEN Span(t, n)
                ELSE Span(t, RingSize - t) \o Span(0, h)
     IN  /\ h # t
         /\ stream' = stream \o SubSeq(new, 1, Taken(n))
         /\ lost' = lost + n - Taken(n)
  /\ TailAt(isrHead)
  /\ isr' = "off"
  /\ clashed' = (clashed \/ pc \in Draining)
  /\ UNCHANGED <<line, idle, isrHead, pc, head, history>>

-----------------------------------------------------------------------------
(* The task.                                                               *)

\* The end of uart_comm_init: an idle flag from before is dropped.
EnableIdle ==
  /\ pc = "init"
  /\ pc' = "start" /\ idle' = FALSE
  /\ UNCHANGED <<line, tail, stream, handler, head, history, lost>>

\* Mutant: the task does not drain at its start.
NoStartDrain ==
  /\ isr = "off" /\ pc = "start"
  /\ pc' = "loop"
  /\ UNCHANGED <<line, tail, stream, idle, handler, head, history, lost>>

DrainReadsHead ==
  /\ isr = "off" /\ pc = "start"
  /\ pc' = "test" /\ head' = rx
  /\ UNCHANGED <<line, tail, stream, idle, handler, history, lost>>

DrainTests ==
  /\ isr = "off" /\ pc = "test"
  /\ pc' = IF Index(head) = Index(tail) THEN "loop" ELSE "compare"
  /\ UNCHANGED <<line, tail, stream, idle, handler, head, history, lost>>

DrainCompares ==
  /\ isr = "off" /\ pc = "compare"
  /\ pc' = IF Index(head) > Index(tail) THEN "one" ELSE "two"
  /\ UNCHANGED <<line, tail, stream, idle, handler, head, history, lost>>

\* The length is unsigned: if the tail has overtaken the head in the
\* meantime it exceeds every buffer.
DrainSendsSpan ==
  /\ isr = "off" /\ pc = "one"
  /\ LET n == Index(head) - Index(tail)
     IN  Send(Index(tail), IF n >= 0 THEN n ELSE StreamSize)
  /\ pc' = "set"
  /\ UNCHANGED <<line, tail, idle, handler, head, history>>

DrainSendsEnd ==
  /\ isr = "off" /\ pc = "two"
  /\ Send(Index(tail), RingSize - Index(tail))
  /\ pc' = "rest"
  /\ UNCHANGED <<line, tail, idle, handler, head, history>>

DrainSendsBegin ==
  /\ isr = "off" /\ pc = "rest"
  /\ Send(0, Index(head))
  /\ pc' = "set"
  /\ UNCHANGED <<line, tail, idle, handler, head, history>>

DrainSetsTail ==
  /\ isr = "off" /\ pc = "set"
  /\ TailAt(head)
  /\ pc' = "loop"
  /\ UNCHANGED <<line, stream, idle, handler, head, history, lost>>

\* One byte for proto_parser_feed().
TaskReceives ==
  /\ isr = "off" /\ pc = "loop" /\ stream # <<>>
  /\ got' = got + 1 /\ last' = stream[1]
  /\ stream' = Tail(stream)
  /\ UNCHANGED <<line, tail, idle, handler, pc, head, lost>>

Processor ==
  \/ EnableIdle
  \/ IsrEnter \/ IsrReadsHead \/ IsrNothingNew \/ IsrPublishes
  \/ DrainReadsHead \/ DrainTests \/ DrainCompares \/ DrainSendsSpan
  \/ DrainSendsEnd \/ DrainSendsBegin \/ DrainSetsTail
  \/ TaskReceives

Next == ByteArrives \/ LineIdle \/ Processor

\* The processor runs, and every burst ends.
Spec == Init /\ [][Next]_vars /\ WF_vars(Processor) /\ WF_vars(LineIdle)

-----------------------------------------------------------------------------
\* Every variable has its type; the stream buffer is never overfilled.
TypeOK ==
  /\ rx \in 0..MaxBytes /\ tail \in 0..rx /\ head \in 0..rx /\ isrHead \in 0..rx
  /\ stream \in Seq(NoByte..rx - 1) /\ Len(stream) <= StreamSize - 1
  /\ busy \in BOOLEAN /\ idle \in BOOLEAN
  /\ isr \in {"off", "flag", "read"}
  /\ pc \in {"init", "start", "loop"} \cup Draining
  /\ got \in Nat /\ last \in NoByte..rx - 1 /\ lost \in Nat
  /\ clashed \in BOOLEAN /\ lapped \in BOOLEAN

\* The stream continues what the parser has got, in the order of the line,
\* no byte twice and none from a stale place of the ring.
Ordered ==
  \A j \in 1..Len(stream) :
    /\ stream[j] > IF j = 1 THEN last ELSE stream[j - 1]
    /\ stream[j] < rx

\* As long as the two drains have not met and the ring was never lapped, the
\* parser gets the bytes in order and each once, and all bytes up to the tail
\* are accounted for: fed, waiting, or refused by a full stream buffer.
InOrder ==
  ~clashed /\ ~lapped =>
    /\ Ordered
    /\ pc \notin {"rest", "set"} => got + Len(stream) + lost = tail

\* When the line goes quiet everything received reaches the parser without
\* another byte being needed to push it, what came before the interrupt was
\* enabled included.
QuietIsDelivered ==
  ~busy ~> busy \/ clashed \/ lapped \/ got + lost = rx

===============================================================================
