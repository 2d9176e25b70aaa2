----------------------------- MODULE LightControl -----------------------------
(***************************************************************************)
(* The lamp: vAppTask() of application/Core/Src/main.c as far as it acts on *)
(* commands, knob, buttons, the light sensor and the LED strip.  A round of *)
(* the loop is five steps, in the order of the code: a command, the knob,   *)
(* the button, the back button, sensor and strip.  No other task touches    *)
(* this state.                                                             *)
(*                                                                         *)
(* Left out: relay 1, the buzzer and the language, switches that nothing    *)
(* here reads, and the sensors that are only shown.  The strip forgets what *)
(* it shows when relay 2 takes its power.                                  *)
(***************************************************************************)
EXTENDS Integers

CONSTANTS
  Lux,         \* readings of the light sensor
  NoLux,       \* the reading that failed
  Percent,     \* percentages a command may carry
  Refresh,     \* WS2812_REFRESH_MS / WS2812_UPDATE_MS
  Items,       \* UI_MENU_ITEM_COUNT
  MaxInputs    \* bound of the model: what changes lamp, power or light

ASSUME LightAssumption ==
  /\ Lux \subseteq Nat /\ NoLux \notin Nat
  /\ Percent \subseteq 1..100
  /\ Refresh \in Nat \ {0} /\ Items \in Nat \ {0, 1} /\ MaxInputs \in Nat

VARIABLES
  at,          \* the next step of the round
  auto,        \* g_light_auto_mode
  manual,      \* g_light_manual_percent
  brightness,  \* g_light_brightness
  lux,         \* light_lux, NoLux if not light_valid
  power,       \* the state of relay 2
  ready,       \* g_ws2812b_ready
  sent,        \* ws2812_frame_sent
  lastSent,    \* ws2812_last_sent
  age,         \* updates since last_ws2812_refresh
  shown,       \* what the strip shows, 0 without power
  page, menu, selected, editing,  \* of the display
  inputs

lamp == <<auto, manual, brightness>>
strip == <<ready, sent, lastSent, age>>
ui == <<page, menu, selected, editing>>
vars == <<at, lamp, lux, power, strip, shown, ui, inputs>>

Dark == 160
Bright == 1
DarkLux == 5
BrightLux == 1000
Fallback == 24
Step == 16
Deadband == 2
Menu == 0
LightPage == 2

\* Mutant: only the upper end is looked at.
ClampHigh(n, low, high) == IF n > high THEN high ELSE n

Clamp(n, low, high) == IF n < low THEN low ELSE IF n > high THEN high ELSE n

Distance(a, b) == IF a < b THEN b - a ELSE a - b

ToPercent(b) == Clamp((b * 100 + (Dark \div 2)) \div Dark, 0, 100)

ToBrightness(p) == Clamp((Clamp(p, 1, 100) * Dark + 50) \div 100, 1, Dark)

Target(l) ==
  CASE l = NoLux -> Fallback
    [] l # NoLux /\ l <= DarkLux -> Dark
    [] l # NoLux /\ l >= BrightLux -> Bright
    [] OTHER -> Dark - ((l - DarkLux) * (Dark - Bright)) \div (BrightLux - DarkLux)

\* Mutant: always a whole step, whatever is left.
SmoothAlwaysStep(b, t) ==
  IF Distance(b, t) <= Deadband THEN b
  ELSE IF b < t THEN Clamp(b + Step, 1, Dark) ELSE Clamp(b - Step, 1, Dark)

Smooth(b, t) ==
  IF Distance(b, t) <= Deadband THEN b
  ELSE IF Distance(b, t) <= Step THEN t
  ELSE IF b < t THEN b + Step ELSE b - Step

Init ==
  /\ at = "receive" /\ auto = TRUE /\ manual = 50
  /\ lux \in Lux \cup {NoLux} /\ brightness = Target(lux)
  /\ power = FALSE /\ ready \in BOOLEAN
  /\ sent = FALSE /\ lastSent = 0 /\ age = 0 /\ shown = 0
  /\ page = Menu /\ menu = 0 /\ selected = 0 /\ editing = FALSE
  /\ inputs = 0

-----------------------------------------------------------------------------
\* light_set_auto(): the lamp keeps its level.
SetManual ==
  /\ auto' = FALSE
  /\ manual' = IF auto THEN Clamp(ToPercent(brightness), 1, 100) ELSE manual
  /\ brightness' = ToBrightness(manual')

SetAuto ==
  auto' = TRUE /\ UNCHANGED <<manual, brightness>>

\* A percentage set in automatic mode does nothing for now.
SetPercent(p) ==
  /\ manual' = p
  /\ brightness' = IF auto THEN brightness ELSE ToBrightness(p)
  /\ UNCHANGED auto

SetPower(on) == power' = on /\ shown' = IF on THEN shown ELSE 0

At(stage, next) == at = stage /\ at' = next
Counts == inputs < MaxInputs /\ inputs' = inputs + 1

\* handle_control_command(), with the commands about the lamp.
Command ==
  /\ At("receive", "turn") /\ Counts
  /\ \/ (SetManual \/ SetAuto \/ \E p \in Percent : SetPercent(p)) /\ UNCHANGED <<power, shown>>
     \/ (\E on \in BOOLEAN : SetPower(on)) /\ UNCHANGED lamp
  /\ UNCHANGED <<lux, strip, ui>>

\* The light sensor is read before the strip.
LightChanges ==
  /\ At("update", "update") /\ Counts
  /\ lux' \in (Lux \cup {NoLux}) \ {lux}
  /\ UNCHANGED <<lamp, power, strip, shown, ui>>

\* Mutant: the lamp waits for the next update.
TurnedLater(p) == manual' = p /\ UNCHANGED <<brightness, auto>>

Turned(p) == manual' = p /\ brightness' = ToBrightness(p) /\ UNCHANGED auto

Editable == page = LightPage /\ selected = 2 /\ ~auto

\* The knob, by d notches: a menu entry, the percentage, or a line of the page.
TurnMenu(d) ==
  page = Menu /\ menu' = (menu + d) % Items
    /\ UNCHANGED <<lamp, page, selected, editing, inputs>>
TurnPercent(d) ==
  Editable /\ editing /\ Turned(Clamp(manual + 5 * d, 1, 100)) /\ UNCHANGED ui /\ Counts
TurnLine(d) ==
  page = LightPage /\ ~(Editable /\ editing) /\ selected' = (selected + d) % 3
    /\ UNCHANGED <<lamp, page, menu, editing, inputs>>

Turn(d) ==
  /\ At("turn", "click") /\ (TurnMenu(d) \/ TurnPercent(d) \/ TurnLine(d))
  /\ UNCHANGED <<lux, power, strip, shown>>

\* The button: opens a page, or acts on the line selected.
ClickMenu ==
  /\ page = Menu /\ page' = menu + 1 /\ selected' = 0 /\ editing' = FALSE
  /\ UNCHANGED <<lamp, power, shown, menu, inputs>>
ClickPower ==
  /\ page = LightPage /\ selected = 0 /\ SetPower(~power) /\ Counts
  /\ UNCHANGED <<lamp, ui>>
ClickMode ==
  /\ page = LightPage /\ selected = 1 /\ Counts
  /\ IF auto THEN SetManual ELSE SetAuto
  /\ editing' = FALSE /\ UNCHANGED <<power, shown, page, menu, selected>>
ClickPercent ==
  /\ Editable /\ editing' = ~editing
  /\ UNCHANGED <<lamp, power, shown, page, menu, selected, inputs>>

Click ==
  /\ At("click", "back") /\ (ClickMenu \/ ClickPower \/ ClickMode \/ ClickPercent)
  /\ UNCHANGED <<lux, strip>>

\* Mutant: editing goes on in automatic mode.
StopsNothing == editing' = editing

\* Editing ends with manual mode.
StopsEditing == editing' = (editing /\ ~auto)

Back ==
  /\ At("back", "update")
  /\ IF editing THEN editing' = FALSE /\ UNCHANGED page
                ELSE page' = Menu /\ UNCHANGED editing
  /\ UNCHANGED <<lamp, lux, power, strip, shown, menu, selected, inputs>>

\* Nothing at the queue, the knob or the buttons, and no update due.
Idle ==
  /\ \/ At("receive", "turn") /\ UNCHANGED editing
     \/ At("turn", "click") /\ UNCHANGED editing
     \/ At("click", "back") /\ UNCHANGED editing
     \/ At("back", "update") /\ StopsEditing
     \/ At("update", "receive") /\ UNCHANGED editing
  /\ UNCHANGED <<lamp, lux, power, strip, shown, page, menu, selected, inputs>>

-----------------------------------------------------------------------------
\* Mutant: a frame is sent only if the level has changed.
DueIfChanged(b) == ~sent \/ b # lastSent

\* The first frame, a new level, or the periodic one.
Due(b) == ~sent \/ b # lastSent \/ age + 1 >= Refresh

Aged == IF age < Refresh THEN age + 1 ELSE age

\* The lamp follows the light in automatic mode, the percentage otherwise; the
\* strip, if it has power, gets a frame.  A driver that fails once is given up.
Update ==
  /\ At("update", "receive") /\ ready
  /\ brightness' = IF auto THEN Smooth(brightness, Target(lux)) ELSE ToBrightness(manual)
  /\ CASE ~power ->
            sent' = FALSE /\ age' = Aged /\ UNCHANGED <<ready, lastSent, shown>>
       [] power /\ Due(brightness') ->
            \/ /\ sent' = TRUE /\ lastSent' = brightness' /\ age' = 0
               /\ shown' = brightness' /\ UNCHANGED ready
            \/ ready' = FALSE /\ age' = Aged /\ UNCHANGED <<sent, lastSent, shown>>
       [] power /\ ~Due(brightness') ->
            age' = Aged /\ UNCHANGED <<ready, sent, lastSent, shown>>
  /\ UNCHANGED <<auto, manual, lux, power, ui, inputs>>

Next ==
  \/ Command \/ LightChanges \/ (\E d \in {-1, 1} : Turn(d)) \/ Click \/ Back
  \/ Idle \/ Update

\* The task goes round, and one round in forty an update is due.
Spec == Init /\ [][Next]_vars /\ WF_vars(Idle \/ Update) /\ SF_vars(Update)

-----------------------------------------------------------------------------
\* Levels and percentages stay in their range, by whatever way they come.
TypeOK ==
  /\ at \in {"receive", "turn", "click", "back", "update"}
  /\ auto \in BOOLEAN /\ power \in BOOLEAN /\ ready \in BOOLEAN /\ sent \in BOOLEAN
  /\ manual \in 1..100 /\ brightness \in 1..Dark
  /\ lux \in Lux \cup {NoLux}
  /\ lastSent \in 0..Dark /\ shown \in 0..Dark /\ age \in 0..Refresh
  /\ page \in 0..Items /\ menu \in 0..(Items - 1) /\ selected \in 0..2
  /\ editing \in BOOLEAN /\ inputs \in 0..MaxInputs

\* In manual mode the lamp has the percentage that the display and the snapshot
\* derive from its level: command, knob and mode never drift apart.
ManualIsShown ==
  ~auto => brightness = ToBrightness(manual) /\ ToPercent(brightness) = manual

\* A round ends with the knob bound to the percentage only in manual mode and on
\* its line, though the mode may be changed from afar while it is.
EditingIsManual ==
  at \in {"receive", "update"} /\ editing => Editable

\* "The level is continuous": switching to manual mode moves the lamp by one step
\* of 160 at most.
NoJump == [][auto /\ ~auto' => Distance(brightness, brightness') <= 1]_vars

\* The lamp comes to rest in the dead band around what the light calls for.
Settles ==
  \A l \in Lux \cup {NoLux} :
    <>[](auto /\ ready /\ lux = l) => <>[](Distance(brightness, Target(l)) <= Deadband)

\* A strip with power comes to show the level, even if the power was away for
\* so short a time that nobody noticed.
StripFollows == (power /\ ready) ~> (~power \/ ~ready \/ shown = brightness)

=============================================================================
