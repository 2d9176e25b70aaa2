---------------------------- MODULE ControlsProofs ----------------------------
(***************************************************************************)
(* Proofs about what the hand meets: the lamp (LightControl), for every set *)
(* of light readings and commanded percentages and every bound on the      *)
(* inputs, and the knob (RotaryEncoder), for every number of moves.        *)
(***************************************************************************)
EXTENDS LightControl, RotaryEncoder, TLAPS

-----------------------------------------------------------------------------
(* LightControl.                                                           *)


\* The scale of the lamp.
LEMMA LevelInRange ==
  ASSUME NEW p \in 1..100
  PROVE  ToBrightness(p) \in 1..Dark
  BY DEF ToBrightness, Clamp, Dark

\* A percentage survives the conversion to a level and back.
LEMMA PercentRoundTrip ==
  ASSUME NEW p \in 1..100
  PROVE  ToPercent(ToBrightness(p)) = p
<1>1. PICK q \in Int : q = (p * 160 + 50) \div 100
  OBVIOUS
<1>2. ToBrightness(p) = q /\ 100 * q <= p * 160 + 50 /\ p * 160 + 50 < 100 * q + 100
  BY <1>1 DEF ToBrightness, Clamp, Dark
<1>3. (q * 100 + 80) \div 160 = p
  BY <1>2
<1> QED BY <1>2, <1>3 DEF ToPercent, Clamp, Dark

\* A level comes back from its percentage changed by one step at most.
LEMMA LevelRoundTrip ==
  ASSUME NEW b \in 1..Dark
  PROVE  /\ Clamp(ToPercent(b), 1, 100) \in 1..100
         /\ Distance(b, ToBrightness(Clamp(ToPercent(b), 1, 100))) <= 1
<1>1. PICK q \in Int : q = (b * 100 + 80) \div 160
  OBVIOUS
<1>2. 160 * q <= b * 100 + 80 /\ b * 100 + 80 < 160 * q + 160 /\ b \in 1..160
  BY <1>1 DEF Dark
<1>3. q \in 0..100 /\ (b > 1 => q >= 1)
  BY <1>2
<1>4. ToPercent(b) = q
  BY <1>1, <1>3 DEF ToPercent, Clamp, Dark
<1>5. PICK p \in 1..100 : p = Clamp(ToPercent(b), 1, 100) /\ p = IF q = 0 THEN 1 ELSE q
  BY <1>3, <1>4 DEF Clamp
<1>6. PICK c \in Int : c = (p * 160 + 50) \div 100
  OBVIOUS
<1>7. ToBrightness(p) = c /\ 100 * c <= p * 160 + 50 /\ p * 160 + 50 < 100 * c + 100
  BY <1>6 DEF ToBrightness, Clamp, Dark
<1>8. b - c <= 1 /\ c - b <= 1
  BY <1>2, <1>3, <1>5, <1>7
<1>9. Distance(b, c) <= 1
  BY <1>2, <1>8 DEF Distance
<1> QED BY <1>5, <1>7, <1>9

\* The level the light calls for, and a step towards it, are levels.
LEMMA TargetInRange ==
  ASSUME NEW l \in Lux \cup {NoLux}
  PROVE  Target(l) \in 1..Dark
<1>1. CASE l = NoLux
  BY <1>1 DEF Target, Fallback, Dark
<1>2. CASE l # NoLux /\ l <= DarkLux
  <2>1. l \in Int
    BY <1>2, LightAssumption
  <2>2. l <= 5 /\ ~(l >= 1000)
    BY <1>2, <2>1 DEF DarkLux
  <2>3. Target(l) = 160
    BY <1>2, <2>1, <2>2 DEF Target, DarkLux, BrightLux, Dark
  <2> QED BY <2>3 DEF Dark
<1>3. CASE l # NoLux /\ l > DarkLux /\ l >= BrightLux
  <2>1. l \in Int
    BY <1>3, LightAssumption
  <2>2. ~(l <= 5) /\ l >= 1000
    BY <1>3, <2>1 DEF DarkLux, BrightLux
  <2>3. Target(l) = 1
    BY <1>3, <2>1, <2>2 DEF Target, DarkLux, BrightLux, Bright
  <2> QED BY <2>3 DEF Dark
<1>4. CASE l # NoLux /\ l > DarkLux /\ l < BrightLux
  <2>1. l \in Int
    BY <1>4, LightAssumption
  <2>2. PICK q \in Int : q = ((l - 5) * 159) \div 995
    BY <2>1
  <2>3. 995 * q <= (l - 5) * 159 /\ (l - 5) * 159 < 995 * q + 995
    BY <2>1, <2>2
  <2>4. 160 - q \in 1..160
    BY <1>4, <2>1, <2>3 DEF DarkLux, BrightLux
  <2>5. Target(l) = 160 - q
    BY <1>4, <2>1, <2>2 DEF Target, Dark, Bright, DarkLux, BrightLux
  <2> QED BY <2>4, <2>5 DEF Dark
<1> QED BY <1>1, <1>2, <1>3, <1>4, LightAssumption DEF DarkLux, BrightLux

LEMMA SmoothInRange ==
  ASSUME NEW b \in 1..Dark, NEW t \in 1..Dark
  PROVE  Smooth(b, t) \in 1..Dark
  BY DEF Smooth, Distance, Deadband, Step, Dark

-----------------------------------------------------------------------------
\* Between the button and the end of a round editing may outlast manual mode.
EditingIsOnPage ==
  editing => page = LightPage /\ (auto \/ selected = 2)

LevelIsManual == ~auto => brightness = ToBrightness(manual)

IInv == TypeOK /\ LevelIsManual /\ EditingIsOnPage /\ EditingIsManual

LEMMA InitIInv == Init => IInv
<1> SUFFICES ASSUME Init PROVE IInv
  OBVIOUS
<1>1. brightness \in 1..Dark
  BY TargetInRange DEF Init
<1>2. TypeOK
  <2>1. /\ 0 \in 0..Items /\ 0 \in 0..(Items - 1) /\ 0 \in 0..Refresh /\ 0 \in 0..MaxInputs
        /\ 0 \in 0..2 /\ 0 \in 0..100 /\ 50 \in 1..100 /\ 0 \in 0..Dark
    BY LightAssumption DEF Dark
  <2>2. /\ manual \in 1..100 /\ lastSent \in 0..Dark /\ shown \in 0..Dark /\ age \in 0..Refresh
        /\ page \in 0..Items /\ menu \in 0..(Items - 1) /\ selected \in 0..2
        /\ inputs \in 0..MaxInputs
    BY <2>1, Zenon DEF Init, Menu
  <2>3. /\ at \in {"receive", "turn", "click", "back", "update"}
        /\ auto \in BOOLEAN /\ power \in BOOLEAN /\ ready \in BOOLEAN /\ sent \in BOOLEAN
        /\ lux \in Lux \cup {NoLux} /\ editing \in BOOLEAN
    BY DEF Init
  <2> QED BY <1>1, <2>2, <2>3 DEF TypeOK
<1> QED BY <1>2 DEF Init, IInv, LevelIsManual, EditingIsOnPage, EditingIsManual

\* The commands and buttons that change the lamp leave level and percentage in
\* step.
LEMMA LampKept ==
  ASSUME TypeOK, LevelIsManual,
         \/ SetManual \/ SetAuto \/ (\E p \in 1..100 : SetPercent(p))
         \/ (\E p \in 1..100 : Turned(p)) \/ UNCHANGED lamp
  PROVE  /\ auto' \in BOOLEAN /\ manual' \in 1..100 /\ brightness' \in 1..Dark
         /\ LevelIsManual'
<1>0. /\ auto \in BOOLEAN /\ manual \in 1..100 /\ brightness \in 1..Dark
  BY DEF TypeOK
<1>1. CASE SetManual
  <2>1. manual' \in 1..100
    BY <1>0, <1>1, LevelRoundTrip DEF SetManual
  <2>2. /\ auto' = FALSE /\ brightness' = ToBrightness(manual')
    BY <1>1 DEF SetManual
  <2> QED BY <1>0, <2>1, <2>2, LevelInRange DEF LevelIsManual
<1>2. CASE SetAuto
  BY <1>0, <1>2 DEF SetAuto, LevelIsManual
<1>3. ASSUME NEW p \in 1..100, SetPercent(p) \/ Turned(p)
      PROVE  /\ auto' \in BOOLEAN /\ manual' \in 1..100 /\ brightness' \in 1..Dark
             /\ LevelIsManual'
  <2>1. ToBrightness(p) \in 1..Dark
    BY LevelInRange
  <2>2. /\ auto' = auto /\ manual' = p
        /\ brightness' = ToBrightness(p) \/ (auto /\ brightness' = brightness)
    <3>1. CASE SetPercent(p)
      <4>1. auto' = auto /\ manual' = p
            /\ brightness' = IF auto THEN brightness ELSE ToBrightness(p)
        BY <3>1, Zenon DEF SetPercent
      <4> QED BY <1>0, <4>1
    <3>2. CASE Turned(p)
      BY <3>2, Zenon DEF Turned
    <3> QED BY <1>3, <3>1, <3>2
  <2> QED BY <1>0, <2>1, <2>2 DEF LevelIsManual
<1>4. CASE UNCHANGED lamp
  BY <1>0, <1>4 DEF lamp, LevelIsManual
<1> QED BY <1>1, <1>2, <1>3, <1>4

LEMMA NextKeepsIInv == IInv /\ [Next]_vars => IInv'
<1> SUFFICES ASSUME IInv, [Next]_vars PROVE IInv'
  OBVIOUS
<1> USE DEF IInv
<1>0. /\ Items \in Nat \ {0, 1} /\ Refresh \in Nat \ {0} /\ MaxInputs \in Nat
      /\ Percent \subseteq 1..100
  BY LightAssumption
<1>1. CASE Command
  <2>1. /\ at' = "turn" /\ inputs' = inputs + 1 /\ inputs < MaxInputs
        /\ UNCHANGED <<lux, strip, ui>> /\ at = "receive"
    BY <1>1 DEF Command, At, Counts
  <2>2. /\ auto' \in BOOLEAN /\ manual' \in 1..100 /\ brightness' \in 1..Dark
        /\ LevelIsManual'
    <3>1. SetManual \/ SetAuto \/ (\E p \in 1..100 : SetPercent(p)) \/ UNCHANGED lamp
      BY <1>0, <1>1 DEF Command
    <3> QED BY <3>1, LampKept
  <2>3. power' \in BOOLEAN /\ shown' \in 0..Dark
    BY <1>1 DEF Command, SetPower, TypeOK, Dark
  <2>4. TypeOK'
    <3>1. inputs' \in 0..MaxInputs
      BY <1>0, <2>1 DEF TypeOK
    <3> QED BY <2>1, <2>2, <2>3, <3>1 DEF TypeOK, strip, ui
  <2>5. EditingIsOnPage' /\ EditingIsManual'
    BY <2>1 DEF EditingIsOnPage, EditingIsManual, Editable, ui
  <2> QED BY <2>2, <2>4, <2>5
<1>2. CASE LightChanges
  BY <1>0, <1>2 DEF LightChanges, At, Counts, TypeOK, LevelIsManual, EditingIsOnPage, EditingIsManual,
       Editable, lamp, strip, ui
<1>3. ASSUME NEW d \in {-1, 1}, Turn(d)
      PROVE  IInv'
  <2>1. at = "turn" /\ at' = "click" /\ UNCHANGED <<lux, power, strip, shown>>
    BY <1>3 DEF Turn, At
  <2>2. CASE TurnMenu(d)
    <3>1. (menu + d) % Items \in 0..(Items - 1)
      BY <1>0 DEF TypeOK
    <3> QED BY <2>1, <2>2, <3>1 DEF TurnMenu, TypeOK, LevelIsManual, EditingIsOnPage, EditingIsManual,
              Editable, lamp, strip
  <2>3. CASE TurnPercent(d)
    <3>1. Clamp(manual + 5 * d, 1, 100) \in 1..100
      BY DEF Clamp, TypeOK
    <3>2. /\ auto' \in BOOLEAN /\ manual' \in 1..100 /\ brightness' \in 1..Dark
          /\ LevelIsManual'
      BY <2>3, <3>1, LampKept DEF TurnPercent
    <3>3. UNCHANGED ui /\ inputs' \in 0..MaxInputs /\ auto' = auto
      BY <1>0, <2>3 DEF TurnPercent, Counts, Turned, TypeOK
    <3>4. TypeOK'
      BY <2>1, <3>2, <3>3 DEF TypeOK, strip, ui
    <3> QED BY <2>1, <3>2, <3>3, <3>4 DEF EditingIsOnPage, EditingIsManual, ui
  <2>4. CASE TurnLine(d)
    <3>1. (selected + d) % 3 \in 0..2
      BY DEF TypeOK
    <3> QED BY <2>1, <2>4, <3>1 DEF TurnLine, TypeOK, LevelIsManual, EditingIsOnPage, EditingIsManual,
              Editable, lamp, strip
  <2> QED BY <1>3, <2>2, <2>3, <2>4 DEF Turn
<1>4. CASE Click
  <2>1. at = "click" /\ at' = "back" /\ UNCHANGED <<lux, strip>>
    BY <1>4 DEF Click, At
  <2>2. CASE ClickMenu
    <3>1. menu + 1 \in 0..Items /\ 0 \in 0..2
      BY <1>0 DEF TypeOK
    <3>2. /\ page' \in 0..Items /\ selected' \in 0..2 /\ editing' = FALSE
          /\ UNCHANGED <<lamp, power, shown, menu, inputs>>
      BY <2>2, <3>1 DEF ClickMenu
    <3> QED BY <2>1, <3>2 DEF TypeOK, LevelIsManual, EditingIsOnPage, EditingIsManual, lamp, strip
  <2>3. CASE ClickPower
    BY <1>0, <2>1, <2>3 DEF ClickPower, SetPower, Counts, TypeOK, LevelIsManual, EditingIsOnPage,
         EditingIsManual, lamp, strip, ui, Dark
  <2>4. CASE ClickMode
    <3>1. /\ auto' \in BOOLEAN /\ manual' \in 1..100 /\ brightness' \in 1..Dark
          /\ LevelIsManual'
      BY <2>4, LampKept DEF ClickMode
    <3>2. /\ editing' = FALSE /\ inputs' \in 0..MaxInputs
          /\ UNCHANGED <<power, shown, page, menu, selected>>
      BY <1>0, <2>4 DEF ClickMode, Counts, TypeOK
    <3> QED BY <2>1, <3>1, <3>2 DEF TypeOK, EditingIsOnPage, EditingIsManual, strip
  <2>5. CASE ClickPercent
    BY <2>1, <2>5 DEF ClickPercent, Editable, TypeOK, LevelIsManual, EditingIsOnPage,
         EditingIsManual, lamp, strip
  <2> QED BY <1>4, <2>2, <2>3, <2>4, <2>5 DEF Click
<1>5. CASE Back
  <2>1. /\ at' = "update" /\ UNCHANGED <<lamp, lux, power, strip, shown, menu, selected, inputs>>
        /\ ~editing' /\ editing' \in BOOLEAN
    BY <1>5 DEF Back, At, TypeOK
  <2>2. page' \in 0..Items
    BY <1>0, <1>5 DEF Back, Menu, TypeOK
  <2> QED BY <2>1, <2>2 DEF TypeOK, LevelIsManual, EditingIsOnPage, EditingIsManual, lamp, strip
<1>6. CASE Idle
  <2>1. /\ at' \in {"receive", "turn", "click", "back", "update"}
        /\ UNCHANGED <<lamp, lux, power, strip, shown, page, menu, selected, inputs>>
        /\ \/ at' \in {"turn", "click", "back"} /\ editing' = editing
           \/ at' = "update" /\ editing' = (editing /\ ~auto)
           \/ at = "update" /\ at' = "receive" /\ editing' = editing
    BY <1>6 DEF Idle, At, StopsEditing
  <2>2. TypeOK'
    BY <2>1 DEF TypeOK, lamp, strip
  <2>3. LevelIsManual' /\ EditingIsOnPage'
    BY <2>1 DEF LevelIsManual, EditingIsOnPage, lamp, TypeOK
  <2>4. EditingIsManual'
    BY <2>1 DEF EditingIsManual, EditingIsOnPage, Editable, lamp, TypeOK
  <2> QED BY <2>2, <2>3, <2>4
<1>7. CASE Update
  <2>1. /\ at = "update" /\ at' = "receive" /\ UNCHANGED <<auto, manual, lux, power, ui, inputs>>
        /\ brightness' = IF auto THEN Smooth(brightness, Target(lux)) ELSE ToBrightness(manual)
    BY <1>7 DEF Update, At
  <2>2. brightness' \in 1..Dark
    <3>1. Target(lux) \in 1..Dark /\ brightness \in 1..Dark /\ manual \in 1..100
      BY TargetInRange DEF TypeOK
    <3> QED BY <2>1, <3>1, SmoothInRange, LevelInRange
  <2>3. /\ sent' \in BOOLEAN /\ ready' \in BOOLEAN /\ age' \in 0..Refresh
        /\ lastSent' \in 0..Dark /\ shown' \in 0..Dark
    <3>1. Aged \in 0..Refresh /\ 0 \in 0..Refresh
      BY <1>0 DEF Aged, TypeOK
    <3>2. brightness' \in 0..Dark
      BY <2>2 DEF Dark
    <3> QED BY <1>7, <3>1, <3>2 DEF Update, TypeOK
  <2>4. TypeOK'
    BY <2>1, <2>2, <2>3 DEF TypeOK, ui
  <2>5. LevelIsManual' /\ EditingIsOnPage' /\ EditingIsManual'
    BY <2>1 DEF LevelIsManual, EditingIsOnPage, EditingIsManual, Editable, ui
  <2> QED BY <2>4, <2>5
<1>8. CASE UNCHANGED vars
  BY <1>8 DEF vars, TypeOK, LevelIsManual, EditingIsOnPage, EditingIsManual, Editable, lamp, strip, ui
<1> QED BY <1>1, <1>2, <1>3, <1>4, <1>5, <1>6, <1>7, <1>8 DEF Next

\* Levels, percentages and the display's position stay in their range.
THEOREM TypeCorrect == Spec => []TypeOK
<1>1. IInv => TypeOK
  BY DEF IInv
<1> QED BY <1>1, InitIInv, NextKeepsIInv, PTL DEF Spec

\* In manual mode lamp, display and snapshot agree on the percentage.
THEOREM ManualShown == Spec => []ManualIsShown
<1>1. IInv => ManualIsShown
  BY PercentRoundTrip DEF IInv, TypeOK, LevelIsManual, ManualIsShown
<1> QED BY <1>1, InitIInv, NextKeepsIInv, PTL DEF Spec

\* The knob is bound to the percentage in manual mode only.
THEOREM EditingOnlyManual == Spec => []EditingIsManual
<1>1. IInv => EditingIsManual
  BY DEF IInv
<1> QED BY <1>1, InitIInv, NextKeepsIInv, PTL DEF Spec

\* Switching to manual mode does not make the lamp jump.
THEOREM LampNeverJumps == Spec => NoJump
<1>1. ASSUME IInv, [Next]_vars
      PROVE  [auto /\ ~auto' => Distance(brightness, brightness') <= 1]_vars
  <2>1. CASE UNCHANGED vars
    BY <2>1
  <2>2. CASE Next
    <3>1. SUFFICES ASSUME auto, ~auto'
                   PROVE  Distance(brightness, brightness') <= 1
      OBVIOUS
    <3>2. SetManual
      BY <2>2, <3>1 DEF Next, Command, LightChanges, Turn, TurnMenu, TurnPercent, TurnLine, Turned,
           Click, ClickMenu, ClickPower, ClickMode, ClickPercent, Back, Idle, Update,
           SetAuto, SetPercent, SetPower, lamp
    <3>3. brightness' = ToBrightness(Clamp(ToPercent(brightness), 1, 100))
      BY <3>1, <3>2 DEF SetManual
    <3>4. brightness \in 1..Dark
      BY <1>1 DEF IInv, TypeOK
    <3> QED BY <3>3, <3>4, LevelRoundTrip
  <2> QED BY <1>1, <2>1, <2>2
<1> QED BY <1>1, InitIInv, NextKeepsIInv, PTL DEF Spec, NoJump

-----------------------------------------------------------------------------
(* RotaryEncoder.                                                          *)


\* Quarter steps from the detent to the pins' state c, forward.
Offset(c) == (Phase[c] + 4 - Phase[detent]) % 4

\* Where a handler that has been let in stands.
HandlerAt ==
  /\ isr = "idle" /\ latched = {} => seen = shaft
  /\ isr = "b" => a = PinsAt(aAt) \div 2 /\ (latched = {} => aAt = shaft)
  /\ task = "fetch" => isr = "idle" /\ masked /\ fetched = delta

\* The running count against the position within the step: it was begun at one
\* of the two detents around, or in between after a skip.
CountFits ==
  /\ previous = detent => quarter = 0
  /\ quarter \in (Offset(previous) - 4)..Offset(previous)

\* The positions the count has lost.
Error == seen - 4 * Steps - quarter

\* Begun at a detent.
Sound == Offset(previous) - quarter \in {0, 4}

ErrorBounded ==
  ~lost =>
    /\ previous = PinsAt(seen)
    /\ skips = 0 => Error = 0
    /\ Error \in (0 - 8 * skips)..(8 * skips)
    /\ ~Sound /\ previous # detent => Error \in (3 - 8 * skips)..(8 * skips - 3)

KnobIInv == KnobTypeOK /\ HandlerAt /\ CountFits /\ ErrorBounded

-----------------------------------------------------------------------------
(* The contacts.                                                           *)

LEMMA GrayPhase ==
  /\ Gray[0] = 0 /\ Gray[1] = 2 /\ Gray[2] = 3 /\ Gray[3] = 1
  /\ Phase[0] = 0 /\ Phase[1] = 3 /\ Phase[2] = 1 /\ Phase[3] = 2
BY DEF Gray, Phase

\* Pins and positions correspond.
LEMMA PinsOffset ==
  ASSUME detent \in 0..3, NEW p \in Int
  PROVE  PinsAt(p) \in 0..3 /\ Offset(PinsAt(p)) = p % 4
<1>1. /\ Phase[detent] \in 0..3 /\ (Phase[detent] + p) % 4 \in 0..3
  BY GrayPhase
<1>2. \A k \in 0..3 : Gray[k] \in 0..3 /\ Phase[Gray[k]] = k
  BY GrayPhase
<1>3. Phase[PinsAt(p)] = (Phase[detent] + p) % 4 /\ PinsAt(p) \in 0..3
  BY <1>1, <1>2 DEF PinsAt
<1> HIDE DEF Phase
<1>4. (((Phase[detent] + p) % 4) + 4 - Phase[detent]) % 4 = p % 4
  BY <1>1
<1> QED BY <1>3, <1>4 DEF Offset

LEMMA OffsetOf ==
  ASSUME detent \in 0..3, NEW c \in 0..3
  PROVE  Offset(c) \in 0..3 /\ (Offset(c) = 0 <=> c = detent)
BY GrayPhase DEF Offset

\* The table's entry is the way between neighbours, and 0 for the two others.
LEMMA TableIsDifference ==
  ASSUME detent \in 0..3, NEW c \in 0..3, NEW e \in 0..3
  PROVE  LET d == TransitionDelta[4 * c + e]
         IN  /\ d = 1 <=> Offset(e) = (Offset(c) + 1) % 4
             /\ d = -1 <=> Offset(e) = (Offset(c) + 3) % 4
             /\ d \in {-1, 0, 1}
             /\ c = e <=> Offset(c) = Offset(e)
<1> DEFINE d == TransitionDelta[4 * c + e]
<1>1. /\ d = 1 <=> 4 * c + e \in {2, 4, 11, 13}
      /\ d = -1 <=> 4 * c + e \in {1, 7, 8, 14}
      /\ d \in {-1, 0, 1}
  BY DEF TransitionDelta
<1> HIDE DEF d
<1>2. Phase[detent] \in 0..3
  BY GrayPhase
<1>3. /\ d = 1 <=> Offset(e) = (Offset(c) + 1) % 4
      /\ d = -1 <=> Offset(e) = (Offset(c) + 3) % 4
      /\ c = e <=> Offset(c) = Offset(e)
  <2>1. CASE c = 0
    BY <1>1, <1>2, <2>1, GrayPhase DEF Offset
  <2>2. CASE c = 1
    BY <1>1, <1>2, <2>2, GrayPhase DEF Offset
  <2>3. CASE c = 2
    BY <1>1, <1>2, <2>3, GrayPhase DEF Offset
  <2>4. CASE c = 3
    BY <1>1, <1>2, <2>4, GrayPhase DEF Offset
  <2> QED BY <2>1, <2>2, <2>3, <2>4
<1> QED BY <1>1, <1>3 DEF d

\* Between the reads of two pins the shaft may move on by one: the sample is
\* that of the position before or after.
LEMMA TornByOne ==
  ASSUME detent \in 0..3, NEW p \in Int, NEW q \in Int, Apart(p, q) <= 1
  PROVE  LET c == 2 * (PinsAt(p) \div 2) + (PinsAt(q) % 2)
         IN  c = PinsAt(p) \/ c = PinsAt(q)
<1>1. \A k \in 0..3 : Gray[k] \in 0..3
  BY GrayPhase
<1> DEFINE h == (Phase[detent] + p) % 4
           k == (Phase[detent] + q) % 4
<1>2. Phase[detent] \in 0..3
  BY GrayPhase
<1>3. h \in 0..3 /\ k \in 0..3 /\ (k = h \/ k = (h + 1) % 4 \/ k = (h + 3) % 4)
  <2>1. q = p \/ q = p + 1 \/ q = p - 1
    BY DEF Apart
  <2>2. \A x \in Int : /\ x % 4 \in 0..3 /\ (x + 1) % 4 = ((x % 4) + 1) % 4
                      /\ (x - 1) % 4 = ((x % 4) + 3) % 4
    OBVIOUS
  <2>3. Phase[detent] + p \in Int /\ Phase[detent] + q \in Int
    BY <1>2
  <2>4. CASE q = p
    BY <2>2, <2>3, <2>4
  <2>5. CASE q = p + 1
    <3>1. Phase[detent] + q = (Phase[detent] + p) + 1
      BY <1>2, <2>5
    <3> QED BY <2>2, <2>3, <3>1
  <2>6. CASE q = p - 1
    <3>1. Phase[detent] + q = (Phase[detent] + p) - 1
      BY <1>2, <2>6
    <3> QED BY <2>2, <2>3, <3>1
  <2> QED BY <2>1, <2>4, <2>5, <2>6
<1>4. PinsAt(p) = Gray[h] /\ PinsAt(q) = Gray[k]
  BY DEF PinsAt
<1> HIDE DEF h, k
<1> QED BY <1>3, <1>4, GrayPhase

\* Two positions at most two apart are told by their offsets.
LEMMA WayFromOffsets ==
  ASSUME NEW x \in Int, NEW y \in Int, Apart(x, y) <= 2
  PROVE  /\ y % 4 = x % 4 => y = x
         /\ y % 4 = ((x % 4) + 1) % 4 => y = x + 1
         /\ y % 4 = ((x % 4) + 3) % 4 => y = x - 1
         /\ y \in {x - 2, x - 1, x, x + 1, x + 2}
BY DEF Apart

-----------------------------------------------------------------------------
(* A sample.                                                               *)

\* What the handler makes of a sample c, as one of four cases.
LEMMA DecodeCases ==
  ASSUME KnobTypeOK, CountFits, NEW c \in 0..3, Decodes(c), UNCHANGED detent
  PROVE  \/ /\ c = previous /\ quarter' = quarter /\ delta' = delta
         \/ /\ c # previous /\ quarter' = 0 /\ delta' = delta
            /\ Offset(c) # (Offset(previous) + 1) % 4
            /\ Offset(c) # (Offset(previous) + 3) % 4
         \/ \E d \in {-1, 1} :
              /\ d = 1 => Offset(c) = (Offset(previous) + 1) % 4
              /\ d = -1 => Offset(c) = (Offset(previous) + 3) % 4
              /\ c # previous /\ c # detent
              /\ quarter' = quarter + d /\ delta' = delta
         \/ \E d \in {-1, 1} :
              /\ d = 1 => Offset(c) = (Offset(previous) + 1) % 4
              /\ d = -1 => Offset(c) = (Offset(previous) + 3) % 4
              /\ c # previous /\ c = detent /\ quarter' = 0
              /\ delta' = IF quarter + d = 4 THEN delta + 1
                          ELSE IF quarter + d = -4 THEN delta - 1 ELSE delta
<1> DEFINE d == Edge(c)
<1>1. /\ detent \in 0..3 /\ previous \in 0..3 /\ quarter \in Int /\ delta \in Int
  BY DEF KnobTypeOK
<1>2. /\ d = 1 <=> Offset(c) = (Offset(previous) + 1) % 4
      /\ d = -1 <=> Offset(c) = (Offset(previous) + 3) % 4
      /\ d \in {-1, 0, 1}
      /\ previous = c <=> Offset(previous) = Offset(c)
  BY <1>1, TableIsDifference DEF Edge
<1>3. Offset(previous) \in 0..3 /\ Offset(c) \in 0..3
  BY <1>1, OffsetOf
<1>4. IF c # previous /\ d = 0 THEN Skips ELSE CountsQuarters(c, quarter + d)
  BY DEF Decodes
<1> HIDE DEF d
<1>5. CASE c = previous
  <2>1. d = 0
    BY <1>2, <1>3, <1>5
  <2> QED BY <1>1, <1>4, <1>5, <2>1 DEF CountsQuarters
<1>6. CASE c # previous /\ d = 0
  BY <1>2, <1>4, <1>6 DEF Skips
<1>7. CASE c # previous /\ d # 0
  <2>1. d \in {-1, 1} /\ CountsQuarters(c, quarter + d)
    BY <1>2, <1>4, <1>7
  <2>2. CASE c # detent
    BY <1>2, <1>7, <2>1, <2>2 DEF CountsQuarters
  <2>3. CASE c = detent
    BY <1>2, <1>7, <2>1, <2>3 DEF CountsQuarters
  <2> QED BY <2>2, <2>3
<1> QED BY <1>5, <1>6, <1>7

\* The running count stays within the step.
LEMMA CountStaysFit ==
  ASSUME KnobTypeOK, CountFits, NEW c \in 0..3, Decodes(c), UNCHANGED detent
  PROVE  CountFits' /\ quarter' \in -3..3 /\ delta' \in Int /\ previous' = c
<1>1. /\ detent \in 0..3 /\ previous \in 0..3 /\ quarter \in -3..3 /\ delta \in Int
  BY DEF KnobTypeOK
<1>2. previous' = c /\ Offset(previous)' = Offset(c) /\ detent' = detent
  BY DEF Decodes, Offset
<1>3. /\ Offset(previous) \in 0..3 /\ (Offset(previous) = 0 <=> previous = detent)
      /\ Offset(c) \in 0..3 /\ (Offset(c) = 0 <=> c = detent)
  BY <1>1, OffsetOf
<1>4. /\ previous = detent => quarter = 0
      /\ quarter \in (Offset(previous) - 4)..Offset(previous)
  BY DEF CountFits
<1>5. /\ quarter' \in Int /\ delta' \in Int
      /\ c = detent => quarter' = 0
      /\ quarter' \in (Offset(c) - 4)..Offset(c)
  BY <1>1, <1>3, <1>4, DecodeCases
<1>6. quarter' \in -3..3
  BY <1>3, <1>5
<1> QED BY <1>2, <1>5, <1>6 DEF CountFits

\* The count follows the shaft by the way between two samples, or a skip is
\* counted.
LEMMA ErrorStaysBounded ==
  ASSUME KnobIInv, ReadsB
  PROVE  ErrorBounded'
<1> DEFINE c == 2 * a + (PinsAt(shaft) % 2)
<1>0. /\ detent \in 0..3 /\ previous \in 0..3 /\ quarter \in -3..3 /\ delta \in Int
      /\ taken \in Int /\ seen \in Int /\ aAt \in Int /\ shaft \in Int /\ skips \in Nat
      /\ a \in 0..1 /\ lost \in BOOLEAN
  BY DEF KnobIInv, KnobTypeOK
<1>1. /\ Decodes(c) /\ isr = "b" /\ UNCHANGED <<detent, taken, shaft, aAt>>
  BY DEF ReadsB, knob, app
<1>2. c \in 0..3
  BY <1>0, PinsOffset
<1>3. seen' = Sampled(c) /\ seen' \in Int
  BY <1>0, <1>1 DEF Decodes, Sampled
<1>4. /\ skips' = skips + (IF Apart(seen, seen') = 2 THEN 1 ELSE 0)
      /\ lost' = (lost \/ Apart(aAt, shaft) > 1 \/ Apart(seen, seen') > 2)
  BY <1>1 DEF Decodes
<1>5. SUFFICES ASSUME ~lost'
               PROVE  /\ previous' = PinsAt(seen)'
                      /\ skips' = 0 => Error' = 0
                      /\ Error' \in (0 - 8 * skips')..(8 * skips')
                      /\ ~Sound' /\ previous' # detent' =>
                           Error' \in (3 - 8 * skips')..(8 * skips' - 3)
  BY DEF ErrorBounded
<1>6. ~lost /\ Apart(aAt, shaft) <= 1 /\ Apart(seen, seen') <= 2
  <2>1. ~lost /\ ~(Apart(aAt, shaft) > 1) /\ ~(Apart(seen, seen') > 2)
    BY <1>4, <1>5, Zenon
  <2>2. Apart(aAt, shaft) \in Int /\ Apart(seen, seen') \in Int
    BY <1>0, <1>3 DEF Apart
  <2> QED BY <2>1, <2>2
<1>7. PinsAt(seen') = c
  <2>1. a = PinsAt(aAt) \div 2
    BY <1>1 DEF KnobIInv, HandlerAt
  <2>2. c = PinsAt(aAt) \/ c = PinsAt(shaft)
    BY <1>0, <1>6, <2>1, TornByOne
  <2> QED BY <1>3, <2>2 DEF Sampled
<1>8. previous = PinsAt(seen)
  BY <1>6 DEF KnobIInv, ErrorBounded
<1> HIDE DEF c
<1>9. /\ previous' = c /\ PinsAt(seen)' = c /\ CountFits'
      /\ Offset(previous)' = Offset(c) /\ detent' = detent
  BY <1>1, <1>2, <1>7, CountStaysFit DEF KnobIInv, PinsAt, Offset
<1>10. /\ Offset(previous) = seen % 4 /\ Offset(c) = seen' % 4
       /\ Offset(previous) \in 0..3 /\ (Offset(previous) = 0 <=> previous = detent)
       /\ Offset(c) \in 0..3 /\ (Offset(c) = 0 <=> c = detent)
  BY <1>0, <1>2, <1>3, <1>7, <1>8, PinsOffset, OffsetOf
<1>11. /\ seen' % 4 = seen % 4 => seen' = seen
       /\ seen' % 4 = ((seen % 4) + 1) % 4 => seen' = seen + 1
       /\ seen' % 4 = ((seen % 4) + 3) % 4 => seen' = seen - 1
       /\ seen' \in {seen - 2, seen - 1, seen, seen + 1, seen + 2}
  BY <1>0, <1>3, <1>6, WayFromOffsets
<1>12. /\ previous = detent => quarter = 0
       /\ quarter \in (Offset(previous) - 4)..Offset(previous)
  BY DEF KnobIInv, CountFits
<1>13. /\ skips = 0 => Error = 0
       /\ Error \in (0 - 8 * skips)..(8 * skips)
       /\ ~Sound /\ previous # detent => Error \in (3 - 8 * skips)..(8 * skips - 3)
  BY <1>6 DEF KnobIInv, ErrorBounded
<1>14. /\ Error = seen - 4 * (taken + delta) - quarter
       /\ Error' = seen' - 4 * (taken + delta') - quarter'
       /\ Sound <=> Offset(previous) - quarter \in {0, 4}
       /\ Sound' <=> Offset(c) - quarter' \in {0, 4}
  BY <1>1, <1>9 DEF Error, Steps, Sound
<1>15. CASE c = previous /\ quarter' = quarter /\ delta' = delta
  <2>0. seen' = seen
    BY <1>10, <1>11, <1>15
  <2>1. seen' = seen /\ skips' = skips
    BY <1>0, <1>4, <2>0 DEF Apart
  <2> QED BY <1>9, <1>13, <1>14, <1>15, <2>1
<1>16. CASE /\ c # previous /\ quarter' = 0 /\ delta' = delta
            /\ Offset(c) # (Offset(previous) + 1) % 4
            /\ Offset(c) # (Offset(previous) + 3) % 4
  <2>1. seen' = seen + 2 \/ seen' = seen - 2
    <3>1. seen' # seen
      BY <1>7, <1>8, <1>16
    <3>2. seen' # seen + 1
      BY <1>0, <1>10, <1>16
    <3>3. seen' # seen - 1
      BY <1>0, <1>10, <1>16
    <3> QED BY <1>11, <3>1, <3>2, <3>3
  <2>2. skips' = skips + 1
    BY <1>0, <1>4, <2>1 DEF Apart
  <2>3. Error' = Error + (seen' - seen) + quarter
    BY <1>0, <1>3, <1>14, <1>16
  <2>4. /\ Error' \in (3 - 8 * skips')..(8 * skips' - 3)
    BY <1>0, <1>10, <1>12, <1>13, <1>14, <2>1, <2>2, <2>3
  <2> QED BY <1>0, <1>9, <2>2, <2>4
<1>17. ASSUME NEW d \in {-1, 1},
              d = 1 => Offset(c) = (Offset(previous) + 1) % 4,
              d = -1 => Offset(c) = (Offset(previous) + 3) % 4
       PROVE  seen' = seen + d /\ skips' = skips
  <2>1. seen' = seen + d
    BY <1>10, <1>11, <1>17
  <2> QED BY <1>0, <1>4, <2>1 DEF Apart
<1>18. ASSUME NEW d \in {-1, 1},
              d = 1 => Offset(c) = (Offset(previous) + 1) % 4,
              d = -1 => Offset(c) = (Offset(previous) + 3) % 4,
              c # previous, c # detent,
              quarter' = quarter + d, delta' = delta
       PROVE  ErrorBounded'
  <2>1. seen' = seen + d /\ skips' = skips
    BY <1>17, <1>18
  <2>2. Error' = Error
    BY <1>0, <1>14, <1>18, <2>1
  <2>3. ~Sound' => ~Sound /\ previous # detent
    BY <1>0, <1>10, <1>12, <1>14, <1>18
  <2> QED BY <1>9, <1>13, <2>1, <2>2, <2>3 DEF ErrorBounded
<1>19. ASSUME NEW d \in {-1, 1},
              d = 1 => Offset(c) = (Offset(previous) + 1) % 4,
              d = -1 => Offset(c) = (Offset(previous) + 3) % 4,
              c # previous, c = detent, quarter' = 0,
              delta' = IF quarter + d = 4 THEN delta + 1
                       ELSE IF quarter + d = -4 THEN delta - 1 ELSE delta
       PROVE  ErrorBounded'
  <2>1. seen' = seen + d /\ skips' = skips
    BY <1>17, <1>19
  <2>2. CASE quarter + d \in {4, 0, -4}
    <3>1. Error' = Error
      BY <1>0, <1>14, <1>19, <2>1, <2>2
    <3> QED BY <1>9, <1>13, <1>19, <2>1, <3>1 DEF ErrorBounded
  <2>3. CASE quarter + d \notin {4, 0, -4}
    <3>1. ~Sound /\ previous # detent
      BY <1>0, <1>10, <1>12, <1>14, <1>19, <2>3
    <3>2. Error' = Error + (quarter + d)
      BY <1>0, <1>14, <1>19, <2>1, <2>3
    <3>3. quarter + d \in -3..3
      BY <1>0, <2>3
    <3>4. skips # 0 /\ Error' \in (0 - 8 * skips)..(8 * skips)
      BY <1>0, <1>13, <1>14, <3>1, <3>2, <3>3
    <3> QED BY <1>9, <1>19, <2>1, <3>4 DEF ErrorBounded
  <2> QED BY <2>2, <2>3
<1>20. \/ c = previous /\ quarter' = quarter /\ delta' = delta
       \/ /\ c # previous /\ quarter' = 0 /\ delta' = delta
          /\ Offset(c) # (Offset(previous) + 1) % 4
          /\ Offset(c) # (Offset(previous) + 3) % 4
       \/ ErrorBounded'
  BY <1>1, <1>2, <1>18, <1>19, DecodeCases, Zenon DEF KnobIInv
<1> QED BY <1>5, <1>15, <1>16, <1>20 DEF ErrorBounded

-----------------------------------------------------------------------------
(* The other steps leave the count alone.                                  *)

\* Nothing the count is made of changes.
LEMMA CountUntouched ==
  ASSUME CountFits, ErrorBounded,
         UNCHANGED <<previous, detent, quarter, seen, skips, lost>>, Steps' = Steps
  PROVE  CountFits' /\ ErrorBounded'
<1>1. /\ Offset(previous)' = Offset(previous) /\ PinsAt(seen)' = PinsAt(seen)
      /\ Error' = Error /\ Sound' = Sound
  BY DEF Offset, PinsAt, Error, Sound
<1> QED BY <1>1 DEF CountFits, ErrorBounded

LEMMA KnobInitIInv == KnobInit => KnobIInv
<1> SUFFICES ASSUME KnobInit PROVE KnobIInv
  OBVIOUS
<1>1. KnobTypeOK
  <2>1. 0 \in 0..MaxMoves /\ 0 \in 0..1 /\ 0 \in -3..3 /\ 0 \in Int /\ 0 \in Nat
    BY EncoderAssumption
  <2>2. /\ shaft \in Int /\ moves \in 0..MaxMoves /\ a \in 0..1 /\ quarter \in -3..3
        /\ delta \in Int /\ fetched \in Int /\ taken \in Int /\ aAt \in Int
        /\ seen \in Int /\ skips \in Nat /\ previous \in 0..3 /\ detent \in 0..3
    BY <2>1, Zenon DEF KnobInit
  <2>3. /\ latched \subseteq Contact /\ pending \subseteq Contact
        /\ isr \in {"idle", "clear", "a", "b"} /\ task \in {"run", "fetch", "frame"}
        /\ masked \in BOOLEAN /\ lost \in BOOLEAN
    BY DEF KnobInit
  <2> QED BY <2>2, <2>3 DEF KnobTypeOK
<1>2. HandlerAt
  BY DEF KnobInit, HandlerAt
<1>3. /\ Offset(previous) = 0 /\ PinsAt(seen) \in 0..3 /\ Offset(PinsAt(seen)) = 0
  BY OffsetOf, PinsOffset DEF KnobInit
<1>4. PinsAt(seen) = previous
  BY <1>3, OffsetOf DEF KnobInit
<1>5. CountFits
  BY <1>3 DEF KnobInit, CountFits
<1>6. /\ quarter = 0 /\ taken = 0 /\ delta = 0 /\ seen = 0 /\ skips = 0 /\ previous = detent
  BY DEF KnobInit
<1>7. Error = 0
  BY <1>6 DEF Error, Steps
<1>8. ErrorBounded
  BY <1>4, <1>6, <1>7 DEF ErrorBounded
<1> QED BY <1>1, <1>2, <1>5, <1>8 DEF KnobIInv

LEMMA KnobNextKeepsIInv == KnobIInv /\ [KnobNext]_knobVars => KnobIInv'
<1> SUFFICES ASSUME KnobIInv, [KnobNext]_knobVars PROVE KnobIInv'
  OBVIOUS
<1>0. KnobTypeOK /\ HandlerAt /\ CountFits /\ ErrorBounded
  BY DEF KnobIInv
<1>1. ASSUME NEW d \in {-1, 1}, Moves(d) PROVE KnobIInv'
  <2>1. /\ moves < MaxMoves /\ moves' = moves + 1 /\ shaft' = shaft + d
        /\ UNCHANGED <<handler, delta, detent, app>>
        /\ latched' # {} /\ latched' \subseteq latched \cup Contact
    BY <1>1 DEF Moves, Contact
  <2>2. KnobTypeOK'
    BY <1>0, <2>1, EncoderAssumption DEF KnobTypeOK, handler, app
  <2>3. HandlerAt'
    <3>1. PinsAt(aAt)' = PinsAt(aAt)
      BY <2>1 DEF PinsAt, handler
    <3> QED BY <1>0, <2>1, <3>1 DEF HandlerAt, handler, app
  <2>4. Steps' = Steps
    BY <2>1 DEF Steps, app
  <2> QED BY <1>0, <2>1, <2>2, <2>3, <2>4, CountUntouched DEF KnobIInv, handler
<1>2. CASE ReadsPending
  <2>1. KnobTypeOK' /\ HandlerAt'
    BY <1>0, <1>2 DEF ReadsPending, KnobTypeOK, HandlerAt, knob, app
  <2>2. Steps' = Steps
    BY <1>2 DEF ReadsPending, Steps, app
  <2> QED BY <1>0, <1>2, <2>1, <2>2, CountUntouched DEF KnobIInv, ReadsPending
<1>3. CASE ClearsPending
  <2>1. KnobTypeOK' /\ HandlerAt'
    BY <1>0, <1>3 DEF ClearsPending, KnobTypeOK, HandlerAt, knob, app
  <2>2. Steps' = Steps
    BY <1>3 DEF ClearsPending, Steps, app
  <2> QED BY <1>0, <1>3, <2>1, <2>2, CountUntouched DEF KnobIInv, ClearsPending
<1>4. CASE ReadsA
  <2>1. /\ isr = "a" /\ isr' = "b" /\ a' = PinsAt(shaft) \div 2 /\ aAt' = shaft
        /\ UNCHANGED <<knob, latched, pending, previous, quarter, seen, skips, lost,
                       delta, detent, app>>
    BY <1>4 DEF ReadsA
  <2>2. PinsAt(shaft) \in 0..3
    BY <1>0, PinsOffset DEF KnobTypeOK
  <2>3. KnobTypeOK'
    BY <1>0, <2>1, <2>2 DEF KnobTypeOK, knob, app
  <2>4. HandlerAt'
    <3>1. PinsAt(aAt)' = PinsAt(shaft)
      BY <2>1 DEF PinsAt
    <3> QED BY <1>0, <2>1, <3>1 DEF HandlerAt, knob, app
  <2>5. Steps' = Steps
    BY <2>1 DEF Steps, app
  <2> QED BY <1>0, <2>1, <2>3, <2>4, <2>5, CountUntouched DEF KnobIInv
<1>5. CASE ReadsB
  <2> DEFINE c == 2 * a + (PinsAt(shaft) % 2)
  <2>1. /\ isr = "b" /\ isr' = "idle" /\ Decodes(c)
        /\ UNCHANGED <<knob, latched, pending, a, aAt, detent, app>>
    BY <1>5 DEF ReadsB
  <2>2. c \in 0..3
    BY <1>0, PinsOffset DEF KnobTypeOK
  <2>3. CountFits' /\ quarter' \in -3..3 /\ delta' \in Int /\ previous' = c
    BY <1>0, <2>1, <2>2, CountStaysFit
  <2>4. /\ seen' = Sampled(c)
        /\ skips' = skips + (IF Apart(seen, seen') = 2 THEN 1 ELSE 0)
        /\ lost' = (lost \/ Apart(aAt, shaft) > 1 \/ Apart(seen, seen') > 2)
    BY <2>1 DEF Decodes
  <2>5. seen' \in Int /\ skips' \in Nat
    BY <1>0, <2>4 DEF Sampled, KnobTypeOK
  <2>6. lost' \in BOOLEAN
    BY <2>4, Zenon
  <2> HIDE DEF c
  <2>7. KnobTypeOK'
    BY <1>0, <2>1, <2>2, <2>3, <2>5, <2>6 DEF KnobTypeOK, knob, app
  <2>8. HandlerAt'
    <3>1. latched = {} => aAt = shaft
      BY <1>0, <2>1 DEF HandlerAt
    <3>2. latched' = {} => seen' = shaft'
      BY <2>1, <2>4, <3>1 DEF Sampled, knob
    <3>3. task' # "fetch"
      BY <1>0, <2>1 DEF HandlerAt, app
    <3> QED BY <2>1, <3>2, <3>3 DEF HandlerAt
  <2> QED BY <1>5, <2>3, <2>7, <2>8, ErrorStaysBounded DEF KnobIInv
<1>6. CASE Fetches
  <2>1. KnobTypeOK' /\ HandlerAt'
    BY <1>0, <1>6 DEF Fetches, KnobTypeOK, HandlerAt, knob, handler
  <2>2. Steps' = Steps
    BY <1>6 DEF Fetches, Steps
  <2> QED BY <1>0, <1>6, <2>1, <2>2, CountUntouched DEF KnobIInv, Fetches, handler
<1>7. CASE Fetched
  <2>1. KnobTypeOK' /\ HandlerAt'
    <3>1. KnobTypeOK'
      <4>1. taken' \in Int /\ delta' = 0 /\ fetched' = 0
        BY <1>0, <1>7 DEF Fetched, KnobTypeOK
      <4>2. task' = "run" /\ masked' = FALSE /\ UNCHANGED <<knob, latched, handler, detent>>
        BY <1>7 DEF Fetched
      <4>3. taken' \in Int /\ delta' \in Int /\ fetched' \in Int
        BY <4>1
      <4>5. task' \in {"run", "fetch", "frame"}
        BY <4>2
      <4>6. masked' \in BOOLEAN
        BY <4>2, Zenon
      <4>4. /\ UNCHANGED <<shaft, moves, latched, isr, pending, a, previous, quarter, detent>>
            /\ UNCHANGED <<aAt, seen, skips, lost>>
        BY <4>2 DEF knob, handler
      <4> QED BY <1>0, <4>3, <4>4, <4>5, <4>6 DEF KnobTypeOK
    <3>2. HandlerAt'
      BY <1>0, <1>7 DEF Fetched, HandlerAt, knob, handler
    <3> QED BY <3>1, <3>2
  <2>2. taken' = taken + delta /\ delta' = 0
    BY <1>0, <1>7 DEF Fetched, HandlerAt
  <2>3. Steps' = Steps
    BY <1>0, <2>2 DEF Steps, KnobTypeOK
  <2> QED BY <1>0, <1>7, <2>1, <2>3, CountUntouched DEF KnobIInv, Fetched, handler
<1>8. CASE SendsFrame
  <2>1. KnobTypeOK' /\ HandlerAt'
    BY <1>0, <1>8 DEF SendsFrame, KnobTypeOK, HandlerAt, knob, handler
  <2>2. Steps' = Steps
    BY <1>8 DEF SendsFrame, Steps
  <2> QED BY <1>0, <1>8, <2>1, <2>2, CountUntouched DEF KnobIInv, SendsFrame, handler
<1>9. CASE FrameSent
  <2>1. KnobTypeOK' /\ HandlerAt'
    <3>1. KnobTypeOK'
      BY <1>0, <1>9 DEF FrameSent, KnobTypeOK, knob, handler
    <3>2. PinsAt(aAt)' = PinsAt(aAt)
      BY <1>9 DEF FrameSent, PinsAt, handler
    <3>3. HandlerAt'
      BY <1>0, <1>9, <3>2 DEF FrameSent, HandlerAt, knob, handler
    <3> QED BY <3>1, <3>3
  <2>2. Steps' = Steps
    BY <1>9 DEF FrameSent, Steps
  <2> QED BY <1>0, <1>9, <2>1, <2>2, CountUntouched DEF KnobIInv, FrameSent, handler
<1>10. CASE UNCHANGED knobVars
  <2>1. KnobTypeOK' /\ Steps' = Steps
    BY <1>0, <1>10 DEF knobVars, knob, handler, app, KnobTypeOK, Steps
  <2>2. HandlerAt'
    <3>1. PinsAt(aAt)' = PinsAt(aAt)
      BY <1>10 DEF knobVars, handler, PinsAt
    <3> QED BY <1>0, <1>10, <3>1 DEF knobVars, knob, handler, app, HandlerAt
  <2> QED BY <1>0, <1>10, <2>1, <2>2, CountUntouched DEF KnobIInv, knobVars, handler
<1> QED
  BY <1>1, <1>2, <1>3, <1>4, <1>5, <1>6, <1>7, <1>8, <1>9, <1>10 DEF KnobNext, Handler, App

-----------------------------------------------------------------------------
\* The inductive invariant: how far the running count and the published steps
\* may stand from the shaft, in every position of the handler and the task.
THEOREM KnobInvariant == KnobSpec => []KnobIInv
BY KnobInitIInv, KnobNextKeepsIInv, PTL DEF KnobSpec

\* Every variable keeps its type, and less than a step is left standing.
THEOREM KnobTypes == KnobSpec => []KnobTypeOK
<1>1. KnobIInv => KnobTypeOK
  BY DEF KnobIInv
<1> QED BY <1>1, KnobInvariant, PTL

\* While no position is skipped the firmware's count is where the shaft is,
\* whatever bounces and however handler and task interrupt each other.
THEOREM CountInStep == KnobSpec => []InStep
<1>1. KnobIInv => InStep
  <2> SUFFICES ASSUME KnobIInv, skips = 0, ~lost, isr = "idle", latched = {}
               PROVE  4 * Steps + quarter = shaft
    BY DEF InStep
  <2>1. seen - 4 * Steps - quarter = 0 /\ seen = shaft
    BY DEF KnobIInv, ErrorBounded, Error, HandlerAt
  <2>2. seen \in Int /\ Steps \in Int /\ quarter \in Int
    BY DEF KnobIInv, KnobTypeOK, Steps
  <2> QED BY <2>1, <2>2
<1> QED BY <1>1, KnobInvariant, PTL

\* Each skipped position costs two steps at most, for any number of them.
THEOREM SkipsCostTwo == KnobSpec => []SkipCostsTwo
<1>1. KnobIInv => SkipCostsTwo
  <2> SUFFICES ASSUME KnobIInv, ~lost, previous = detent
               PROVE  Apart(4 * Steps, seen) <= 8 * skips
    BY DEF SkipCostsTwo
  <2>1. seen \in Int /\ Steps \in Int /\ skips \in Nat
    BY DEF KnobIInv, KnobTypeOK, Steps
  <2>2. quarter = 0 /\ Error \in (0 - 8 * skips)..(8 * skips)
    BY DEF KnobIInv, ErrorBounded, CountFits
  <2> QED BY <2>1, <2>2 DEF Error, Apart
<1> QED BY <1>1, KnobInvariant, PTL

================================================================================
