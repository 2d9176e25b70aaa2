----------------------------- MODULE RotaryEncoder -----------------------------
(***************************************************************************)
(* The knob (application/Core/Src/rotary_encoder.c): two contacts read by  *)
(* EXTI9_5_IRQHandler(), which counts quarter steps and publishes a step   *)
(* for a full turn from detent to detent, and vAppTask, which fetches the  *)
(* steps and switches interrupts off now and then.                         *)
(*                                                                         *)
(* The shaft moves, or a contact bounces, by a quarter step at a time, also *)
(* between the handler's reads of the two pins and while interrupts are    *)
(* off.  A position is counted from the one at start-up.                   *)
(***************************************************************************)
EXTENDS Integers

CONSTANT MaxMoves  \* bound of the model: quarter steps of the shaft

ASSUME EncoderAssumption == MaxMoves \in Nat

VARIABLES
  shaft,     \* position of the shaft, in quarter steps
  moves,     \* how often it has moved
  latched,   \* EXTI->PR: the contacts that have changed
  isr,       \* the handler's next step
  pending,   \* its pending
  a,         \* the first pin it has read
  previous,  \* g_previous_ab
  quarter,   \* g_quarter_steps
  delta,     \* g_encoder_delta
  detent,    \* g_detent_ab
  task,      \* vAppTask: "run", "fetch" the steps, send a "frame" to the strip
  masked,    \* PRIMASK
  fetched,   \* the task's local delta
  taken,     \* history: the sum of what the task has fetched
  aAt,       \* history: position when the first pin was read
  seen,      \* history: position of the handler's last sample
  skips,     \* history: samples that were two positions apart
  lost       \* history: more than that, or two moves between the two pins

knob == <<shaft, moves>>
handler == <<isr, pending, a, previous, quarter, aAt, seen, skips, lost>>
app == <<task, masked, fetched, taken>>
knobVars == <<knob, latched, handler, delta, detent, app>>

Contact == {"A", "B"}

\* The contacts A and B as a number 2 * A + B, one full step forward.
Gray == [p \in 0..3 |-> CASE p = 0 -> 0 [] p = 1 -> 2 [] p = 2 -> 3 [] p = 3 -> 1]
Phase == [c \in 0..3 |-> CASE c = 0 -> 0 [] c = 2 -> 1 [] c = 3 -> 2 [] c = 1 -> 3]

\* What the pins say when the shaft is at p.
PinsAt(p) == Gray[(Phase[detent] + p) % 4]

\* g_transition_delta, by 4 * previous + current
TransitionDelta ==
  [t \in 0..15 |-> CASE t \in {2, 4, 11, 13} -> 1
                    [] t \in {1, 7, 8, 14} -> -1
                    [] OTHER -> 0]

Apart(p, q) == IF p < q THEN q - p ELSE p - q

KnobInit ==
  /\ detent \in 0..3 /\ previous = detent
  /\ shaft = 0 /\ moves = 0 /\ latched = {}
  /\ isr = "idle" /\ pending = {} /\ a = 0 /\ quarter = 0 /\ delta = 0
  /\ task = "run" /\ masked = FALSE /\ fetched = 0 /\ taken = 0
  /\ aAt = 0 /\ seen = 0 /\ skips = 0 /\ lost = FALSE

\* The contact that changes is latched.
Moves(d) ==
  /\ moves < MaxMoves /\ moves' = moves + 1
  /\ shaft' = shaft + d
  /\ latched' = latched \cup
       {IF PinsAt(shaft) \div 2 = PinsAt(shaft + d) \div 2 THEN "B" ELSE "A"}
  /\ UNCHANGED <<handler, delta, detent, app>>

-----------------------------------------------------------------------------
(* EXTI9_5_IRQHandler().                                                   *)

ReadsPending ==
  /\ isr = "idle" /\ latched # {} /\ ~masked
  /\ pending' = latched /\ isr' = "clear"
  /\ UNCHANGED <<knob, latched, a, previous, quarter, aAt, seen, skips, lost,
                 delta, detent, app>>

ClearsPending ==
  /\ isr = "clear" /\ isr' = "a"
  /\ latched' = latched \ pending
  /\ UNCHANGED <<knob, pending, a, previous, quarter, aAt, seen, skips, lost,
                 delta, detent, app>>

ReadsA ==
  /\ isr = "a" /\ isr' = "b"
  /\ a' = PinsAt(shaft) \div 2 /\ aAt' = shaft
  /\ UNCHANGED <<knob, latched, pending, previous, quarter, seen, skips, lost,
                 delta, detent, app>>

\* A jump of two positions: the count starts again.
Skips == quarter' = 0 /\ UNCHANGED delta

\* Mutant: the count of an incomplete step is kept.
CountsOn(current, q) ==
  IF current = detent /\ q \in {4, -4}
  THEN delta' = delta + (q \div 4) /\ quarter' = 0
  ELSE quarter' = q /\ UNCHANGED delta

\* At the detent a full step is published, anything else forgotten.
CountsQuarters(current, q) ==
  /\ quarter' = IF current = detent /\ current # previous THEN 0 ELSE q
  /\ delta' = IF current # detent \/ current = previous THEN delta
              ELSE IF q = 4 THEN delta + 1
              ELSE IF q = -4 THEN delta - 1 ELSE delta

\* The position the sample belongs to: one pin at most has changed between the
\* two reads, unless the sample is lost.
Sampled(current) == IF PinsAt(aAt) = current THEN aAt ELSE shaft

Edge(current) == TransitionDelta[4 * previous + current]

Decodes(current) ==
  /\ previous' = current
  /\ IF current # previous /\ Edge(current) = 0
     THEN Skips
     ELSE CountsQuarters(current, quarter + Edge(current))
  /\ seen' = Sampled(current)
  /\ skips' = skips + (IF Apart(seen, seen') = 2 THEN 1 ELSE 0)
  /\ lost' = (lost \/ Apart(aAt, shaft) > 1 \/ Apart(seen, seen') > 2)

\* Mutant: the flags are cleared after the pins are read.
ReadsBAndClears ==
  /\ isr = "b" /\ isr' = "idle"
  /\ Decodes(2 * a + (PinsAt(shaft) % 2)) /\ latched' = latched \ pending
  /\ UNCHANGED <<knob, pending, a, aAt, detent, app>>

ReadsB ==
  /\ isr = "b" /\ isr' = "idle"
  /\ Decodes(2 * a + (PinsAt(shaft) % 2))
  /\ UNCHANGED <<knob, latched, pending, a, aAt, detent, app>>

Handler == ReadsPending \/ ClearsPending \/ ReadsA \/ ReadsB

-----------------------------------------------------------------------------
(* vAppTask.  The handler interrupts it, never the other way round.        *)

\* Mutant: interrupts stay on.
FetchesUnmasked ==
  /\ isr = "idle" /\ task = "run" /\ task' = "fetch"
  /\ fetched' = delta
  /\ UNCHANGED <<knob, latched, handler, delta, detent, masked, taken>>

Fetches ==
  /\ isr = "idle" /\ task = "run" /\ task' = "fetch"
  /\ masked' = TRUE /\ fetched' = delta
  /\ UNCHANGED <<knob, latched, handler, delta, detent, taken>>

Fetched ==
  /\ isr = "idle" /\ task = "fetch" /\ task' = "run"
  /\ delta' = 0 /\ masked' = FALSE
  /\ taken' = taken + fetched /\ fetched' = 0
  /\ UNCHANGED <<knob, latched, handler, detent>>

\* Interrupts are off for half a millisecond.
SendsFrame ==
  /\ isr = "idle" /\ task = "run" /\ task' = "frame" /\ masked' = TRUE
  /\ UNCHANGED <<knob, latched, handler, delta, detent, fetched, taken>>

FrameSent ==
  /\ task = "frame" /\ task' = "run" /\ masked' = FALSE
  /\ UNCHANGED <<knob, latched, handler, delta, detent, fetched, taken>>

App == Fetches \/ Fetched \/ SendsFrame \/ FrameSent

KnobNext == (\E d \in {-1, 1} : Moves(d)) \/ Handler \/ App

KnobSpec == KnobInit /\ [][KnobNext]_knobVars

-----------------------------------------------------------------------------
\* Every variable has its type; a count of quarter steps left standing is less
\* than a step.
KnobTypeOK ==
  /\ shaft \in Int /\ moves \in 0..MaxMoves
  /\ latched \subseteq Contact /\ pending \subseteq Contact
  /\ isr \in {"idle", "clear", "a", "b"} /\ a \in 0..1
  /\ previous \in 0..3 /\ detent \in 0..3
  /\ quarter \in -3..3 /\ delta \in Int
  /\ task \in {"run", "fetch", "frame"} /\ masked \in BOOLEAN
  /\ fetched \in Int /\ taken \in Int
  /\ aAt \in Int /\ seen \in Int /\ skips \in Nat /\ lost \in BOOLEAN

\* Steps published, fetched or not.
Steps == taken + delta

\* As long as no position was skipped, what has been counted is where the shaft
\* is: bounces cancel, no step is counted twice, and none is lost between
\* handler and task.
InStep ==
  skips = 0 /\ ~lost /\ isr = "idle" /\ latched = {} => 4 * Steps + quarter = shaft

\* A skipped position, as happens while interrupts are off, costs two steps at
\* most and leaves nothing behind: at the detents the count is right again.
SkipCostsTwo ==
  ~lost /\ previous = detent => Apart(4 * Steps, seen) <= 8 * skips

=============================================================================
