---------------------------- MODULE FrontendProofs ----------------------------
(***************************************************************************)
(* The controller's pin, the keys, the window and the LCD's cursor, for    *)
(* every set of sources and keys, every keyboard layout and every size of  *)
(* the LCD's matrix. The four parts share no state: each has an inductive  *)
(* invariant of its own, which the steps of the others leave alone.        *)
(***************************************************************************)
EXTENDS Frontend, TLAPS

(* What the handlers have in common: the pin ends up equal to "something is  *)
(* pending" whenever it was so before and the handler either adds sources    *)
(* and raises it or removes sources and has its state checked.               *)
LEMMA AddingKeepsThePin ==
  ASSUME NEW flags \in SUBSET Sources, TypeOK, PinTracksPending,
         ti_interrupts_interrupt(flags)
  PROVE  /\ interrupted' \subseteq Sources
         /\ interrupt' \in {0, 1}
         /\ PinTracksPending'
<1>1. CASE flags \cap enabled = {}
  BY <1>1 DEF ti_interrupts_interrupt, TypeOK, PinTracksPending
<1>2. CASE flags \cap enabled # {}
  <2>1. interrupt' = 1 /\ interrupted' # {}
    BY <1>2 DEF ti_interrupts_interrupt
  <2>2. interrupted' \subseteq Sources
    BY DEF ti_interrupts_interrupt, TypeOK
  <2> QED
    BY <2>1, <2>2 DEF PinTracksPending
<1> QED
  BY <1>1, <1>2

LEMMA RemovingKeepsThePin ==
  ASSUME TypeOK, PinTracksPending, interrupted' \subseteq interrupted,
         check_state(interrupted')
  PROVE  /\ interrupted' \subseteq Sources
         /\ interrupt' \in {0, 1}
         /\ PinTracksPending'
<1>1. CASE interrupted' = {}
  BY <1>1 DEF check_state, TypeOK, PinTracksPending
<1>2. CASE interrupted' # {}
  <2>1. interrupted # {} /\ interrupt = 1
    BY <1>2 DEF PinTracksPending
  <2> QED
    BY <1>2, <2>1 DEF check_state, TypeOK, PinTracksPending
<1> QED
  BY <1>1, <1>2

PinInv == TypeOK /\ PinTracksPending

LEMMA ControllerKeepsThePin == PinInv /\ [Next]_vars => PinInv'
<1> SUFFICES ASSUME TypeOK, PinTracksPending, [Next]_vars
             PROVE  (TypeOK /\ PinTracksPending)'
  BY DEF PinInv
<1>1. ASSUME NEW s \in Sources, Fire(s)
      PROVE  (TypeOK /\ PinTracksPending)'
  BY <1>1, AddingKeepsThePin DEF Fire, TypeOK
<1>2. CASE depress_on_key
  BY <1>2, OnKeyAssumption, AddingKeepsThePin DEF depress_on_key, TypeOK
<1>3. CASE release_on_key
  BY <1>3 DEF release_on_key, TypeOK, PinTracksPending
<1>4. ASSUME NEW value \in SUBSET Sources, write_interrupt_mask(value)
      PROVE  (TypeOK /\ PinTracksPending)'
  BY <1>4, RemovingKeepsThePin DEF write_interrupt_mask, TypeOK
<1>5. ASSUME NEW value \in SUBSET Sources, write_acknowledged_interrupts(value)
      PROVE  (TypeOK /\ PinTracksPending)'
  BY <1>5, RemovingKeepsThePin DEF write_acknowledged_interrupts, TypeOK
<1>6. ASSUME NEW flags \in SUBSET Sources, NEW set_to \in BOOLEAN,
             ti_interrupts_set_interrupt_enabled(flags, set_to)
      PROVE  (TypeOK /\ PinTracksPending)'
  BY <1>6 DEF ti_interrupts_set_interrupt_enabled, TypeOK, PinTracksPending
<1>7. ASSUME NEW flags \in SUBSET Sources, ti_interrupts_acknowledge_interrupt(flags)
      PROVE  (TypeOK /\ PinTracksPending)'
  BY <1>7, RemovingKeepsThePin DEF ti_interrupts_acknowledge_interrupt, TypeOK
<1>8. CASE UNCHANGED vars
  BY <1>8 DEF vars, TypeOK, PinTracksPending
<1> QED
  BY <1>1, <1>2, <1>3, <1>4, <1>5, <1>6, <1>7, <1>8 DEF Next

-----------------------------------------------------------------------------
(* The keys *)

(* KeysSeen with what it rests on: two keys of one code that are both held    *)
(* have clashed, so that the one that stays held after the other's release   *)
(* is accounted for.                                                         *)
KeysInv ==
  /\ held \subseteq HostKeys
  /\ asked = group_mask
  /\ on_key_pressed = 0 <=> on_held
  /\ on_held \in BOOLEAN
  /\ \A code \in groups : \E key \in held : KeyCode[key] = code
  /\ \A key \in held : KeyCode[key] \in groups \cup clashed
  /\ \A key, other \in held : key # other /\ KeyCode[key] = KeyCode[other]
                                => KeyCode[key] \in clashed

LEMMA KeysInvShows == KeysInv => KeysSeen
  BY DEF KeysInv, KeysSeen, read_keyboard

LEMMA KeyDownKeepsKeys ==
  ASSUME KeysInv, NEW key \in HostKeys, KeyDown(key)
  PROVE  KeysInv'
<1>1. held' \subseteq HostKeys /\ asked' = group_mask' /\ (on_key_pressed' = 0 <=> on_held') /\ on_held' \in BOOLEAN
  BY DEF KeysInv, KeyDown, depress_key, vars
<1>2. \A code \in groups' : \E k \in held' : KeyCode[k] = code
  BY DEF KeysInv, KeyDown, depress_key
<1>3. \A k \in held' : KeyCode[k] \in groups' \cup clashed'
  BY DEF KeysInv, KeyDown, depress_key
<1>4. \A k, other \in held' : k # other /\ KeyCode[k] = KeyCode[other] => KeyCode[k] \in clashed'
  BY DEF KeysInv, KeyDown, Others
<1> QED
  BY <1>1, <1>2, <1>3, <1>4 DEF KeysInv

LEMMA KeyUpKeepsKeys ==
  ASSUME KeysInv, NEW key \in HostKeys, KeyUp(key)
  PROVE  KeysInv'
<1>1. held' \subseteq HostKeys /\ asked' = group_mask' /\ (on_key_pressed' = 0 <=> on_held') /\ on_held' \in BOOLEAN
  BY DEF KeysInv, KeyUp, release_key, vars
<1>2. \A code \in groups' : \E k \in held' : KeyCode[k] = code
  BY DEF KeysInv, KeyUp, release_key
<1>3. \A k \in held' : KeyCode[k] \in groups' \cup clashed'
  <2> SUFFICES ASSUME NEW k \in held' PROVE KeyCode[k] \in groups' \cup clashed'
    OBVIOUS
  <2>1. k \in held /\ k # key /\ key \in held
    BY DEF KeyUp
  <2>2. CASE KeyCode[k] = KeyCode[key]
    <3>1. KeyCode[key] \in clashed
      BY <2>1, <2>2 DEF KeysInv
    <3>2. Others(key) # {}
      BY <2>1, <2>2 DEF Others
    <3> QED
      BY <2>2, <3>1, <3>2 DEF KeyUp
  <2>3. CASE KeyCode[k] # KeyCode[key]
    BY <2>1, <2>3 DEF KeysInv, KeyUp, release_key
  <2> QED
    BY <2>2, <2>3
<1>4. \A k, other \in held' : k # other /\ KeyCode[k] = KeyCode[other] => KeyCode[k] \in clashed'
  <2> SUFFICES ASSUME NEW k \in held', NEW other \in held', k # other,
                      KeyCode[k] = KeyCode[other]
               PROVE  KeyCode[k] \in clashed'
    OBVIOUS
  <2>1. k \in held \ {key} /\ other \in held
    BY DEF KeyUp
  <2>2. KeyCode[k] \in clashed
    BY <2>1 DEF KeysInv
  <2>3. KeyCode[k] = KeyCode[key] => Others(key) # {}
    BY <2>1 DEF Others
  <2> QED
    BY <2>2, <2>3 DEF KeyUp
<1> QED
  BY <1>1, <1>2, <1>3, <1>4 DEF KeysInv

LEMMA KeysKeepKeys == KeysInv /\ Keys => KeysInv'
<1> SUFFICES ASSUME KeysInv, Keys PROVE KeysInv'
  OBVIOUS
<1>1. ASSUME NEW key \in HostKeys, KeyDown(key) \/ KeyUp(key) PROVE KeysInv'
  BY <1>1, KeyDownKeepsKeys, KeyUpKeepsKeys
<1>2. CASE OnDown
  BY <1>2 DEF OnDown, KeysInv, depress_on_key, keyboardVars
<1>3. CASE OnUp
  <2>1. on_key_pressed' # 0 /\ on_held' = FALSE
    BY <1>3 DEF OnUp, release_on_key
  <2> QED
    BY <1>3, <2>1, Zenon DEF OnUp, KeysInv, keyboardVars
<1>4. ASSUME NEW zeros \in SUBSET Groups, SelectGroups(zeros) PROVE KeysInv'
  BY <1>4 DEF SelectGroups, KeysInv, write_keyboard, vars
<1>5. CASE Controller
  BY <1>5 DEF Controller, KeysInv, keyboardVars, keyHistory
<1> QED
  BY <1>1, <1>2, <1>3, <1>4, <1>5 DEF Keys

-----------------------------------------------------------------------------
(* The window *)

LEMMA CleanWriteChangesNothing ==
  ASSUME NEW value, data_write(value), ~Dirty(value)
  PROVE  ram' = ram
<1> DEFINE cells == {Location(i) : i \in 0..(Bits - 1)}
<1>1. \A i \in 0..(Bits - 1) : i \in value <=> Location(i) \in ram
  BY DEF Dirty
<1>2. ram' = (ram \ cells) \cup {Location(i) : i \in {j \in 0..(Bits - 1) : j \in value}}
  BY DEF data_write
<1>3. \A n \in ram' : n \in ram
  BY <1>1, <1>2
<1>4. \A n \in ram : n \in ram'
  BY <1>1, <1>2
<1> QED
  BY <1>3, <1>4

ScreenInv ==
  /\ lcd_changed \in BOOLEAN /\ scrolled \in BOOLEAN
  /\ ScreenCurrent

LEMMA SameScreen ==
  ASSUME ram' = ram, Z' = Z, display_on' = display_on
  PROVE  Drawn(Width)' = Drawn(Width)
  BY DEF Drawn

LEMMA ScreenKeepsScreen == ScreenInv /\ Screen => ScreenInv'
<1> SUFFICES ASSUME ScreenInv, Screen PROVE ScreenInv'
  OBVIOUS
<1> USE DEF ScreenInv, ScreenCurrent
<1>1. CASE MovesCursor /\ UNCHANGED windowVars
  BY <1>1, SameScreen DEF MovesCursor, set_x, set_y, set_word_length, screenVars, windowVars
<1>2. CASE WriteData
  <2>1. PICK value \in Words : data_write(value)
    BY <1>2 DEF WriteData
  <2>2. Z' = Z /\ display_on' = display_on /\ shown' = shown /\ scrolled' = scrolled
        /\ lcd_changed' = (lcd_changed \/ Dirty(value))
    BY <1>2, <2>1 DEF WriteData, data_write
  <2>3. lcd_changed' \in BOOLEAN
    BY <2>2 DEF Dirty
  <2>4. ASSUME ~lcd_changed', ~scrolled' PROVE shown' = Drawn(Width)'
    <3>1. ram' = ram
      BY <2>1, <2>2, <2>4, CleanWriteChangesNothing
    <3> QED
      BY <2>2, <2>4, <3>1, SameScreen
  <2> QED
    BY <2>2, <2>3, <2>4
<1>3. CASE SwitchDisplay
  BY <1>3 DEF SwitchDisplay, set_display, windowVars
<1>4. CASE Scroll
  <2>1. ram' = ram /\ display_on' = display_on /\ lcd_changed' = lcd_changed /\ shown' = shown
        /\ scrolled' = (scrolled \/ Z' # Z)
    BY <1>4 DEF Scroll, set_z
  <2> QED
    BY <2>1, SameScreen
<1>5. CASE Redraw
  <2>1. ram' = ram /\ Z' = Z /\ display_on' = display_on /\ lcd_changed' = FALSE
        /\ shown' = (IF lcd_changed THEN Drawn(Width) ELSE shown)
        /\ scrolled' = (scrolled /\ ~lcd_changed)
    BY <1>5 DEF Redraw, lcd_timer_tick
  <2> QED
    BY <2>1, SameScreen
<1>6. CASE WindowEvent
  BY <1>6 DEF WindowEvent, windowVars
<1> QED
  BY <1>1, <1>2, <1>3, <1>4, <1>5, <1>6 DEF Screen

-----------------------------------------------------------------------------
(* The cursor *)

LEMMA ModStep ==
  ASSUME NEW l \in Nat \ {0}, NEW y \in 0..(l - 1)
  PROVE  (y + 1) % l = IF y + 1 = l THEN 0 ELSE y + 1
<1>1. CASE y + 1 = l
  BY <1>1
<1>2. CASE y + 1 < l
  BY <1>2
<1> QED
  BY <1>1, <1>2

(* One move up or down a coordinate with `extent' words, whose register holds *)
(* `values' values.                                                          *)
Stepped(position, extent, values, upwards) ==
  IF upwards
    THEN IF position + 1 = extent \/ position + 1 = values THEN 0 ELSE position + 1
    ELSE IF position = 0 THEN extent - 1 ELSE position - 1

(* How many moves it takes to a word. *)
Distance(word, position, extent, values, upwards) ==
  IF upwards
    THEN IF position >= extent THEN values - position + word
         ELSE IF word >= position THEN word - position ELSE extent - position + word
    ELSE IF word <= position THEN position - word ELSE position + extent - word

(* Every move brings each word it does not reach one nearer. *)
LEMMA StepsApproach ==
  ASSUME NEW values \in Nat \ {0}, NEW extent \in 1..values, NEW upwards \in BOOLEAN,
         NEW position \in 0..(values - 1), NEW word \in 0..(extent - 1), word # position
  PROVE  Distance(word, Stepped(position, extent, values, upwards), extent, values, upwards) + 1
           = Distance(word, position, extent, values, upwards)
<1>1. CASE upwards
  BY <1>1 DEF Distance, Stepped
<1>2. CASE ~upwards
  BY <1>2 DEF Distance, Stepped
<1> QED
  BY <1>1, <1>2

LEMMA StepStaysInRegister ==
  ASSUME NEW values \in Nat \ {0}, NEW extent \in 1..values, NEW upwards \in BOOLEAN,
         NEW position \in 0..(values - 1)
  PROVE  Stepped(position, extent, values, upwards) \in 0..(values - 1)
  BY DEF Stepped

LEMMA DistanceWithinRegister ==
  ASSUME NEW values \in Nat \ {0}, NEW extent \in 1..values, NEW upwards \in BOOLEAN,
         NEW position \in 0..(values - 1), NEW word \in 0..(extent - 1)
  PROVE  Distance(word, position, extent, values, upwards) \in 0..(values - 1)
<1>1. CASE upwards
  BY <1>1 DEF Distance
<1>2. CASE ~upwards
  BY <1>2 DEF Distance
<1> QED
  BY <1>1, <1>2

(* A walk so far: words not visited are near enough for the moves that are    *)
(* left, and a position beyond the extent is as near to it as the moves say. *)
Walked(position, extent, values, upwards, visited, n) ==
  /\ \A word \in 0..(extent - 1) :
       word \in visited \/ Distance(word, position, extent, values, upwards) + n < values
  /\ position >= extent =>
       IF upwards THEN position >= extent + n ELSE position + n < values

LEMMA WalkBegins ==
  ASSUME NEW values \in Nat \ {0}, NEW extent \in 1..values, NEW upwards \in BOOLEAN,
         NEW position \in 0..(values - 1)
  PROVE  Walked(position, extent, values, upwards, {}, 0)
  BY DistanceWithinRegister DEF Walked

LEMMA WalkGoesOn ==
  ASSUME NEW values \in Nat \ {0}, NEW extent \in 1..values, NEW upwards \in BOOLEAN,
         NEW position \in 0..(values - 1), NEW visited, NEW n \in Nat,
         Walked(position, extent, values, upwards, visited, n)
  PROVE  Walked(Stepped(position, extent, values, upwards), extent, values, upwards,
                visited \cup {position}, n + 1)
<1> DEFINE next == Stepped(position, extent, values, upwards)
<1>1. ASSUME NEW word \in 0..(extent - 1), word \notin visited \cup {position}
      PROVE  Distance(word, next, extent, values, upwards) + (n + 1) < values
  <2>1. Distance(word, position, extent, values, upwards) + n < values
    BY <1>1 DEF Walked
  <2>2. Distance(word, next, extent, values, upwards) + 1
          = Distance(word, position, extent, values, upwards)
    BY <1>1, StepsApproach
  <2>3. next \in 0..(values - 1)
    BY StepStaysInRegister
  <2>4. Distance(word, next, extent, values, upwards) \in Int
    BY <2>3, DistanceWithinRegister
  <2> HIDE DEF next
  <2> QED
    BY <2>1, <2>2, <2>4
<1>2. next >= extent => IF upwards THEN next >= extent + (n + 1) ELSE next + (n + 1) < values
  <2>1. position >= extent => IF upwards THEN position >= extent + n ELSE position + n < values
    BY DEF Walked
  <2> QED
    BY <2>1 DEF Stepped
<1> QED
  BY <1>1, <1>2 DEF Walked

LEMMA WalkEnds ==
  ASSUME NEW values \in Nat \ {0}, NEW extent \in 1..values, NEW upwards \in BOOLEAN,
         NEW position \in 0..(values - 1), NEW visited, NEW n \in Nat,
         Walked(position, extent, values, upwards, visited, n)
  PROVE  /\ n >= values - extent => position \in 0..(extent - 1)
         /\ n >= values => 0..(extent - 1) \subseteq visited
<1>1. ASSUME n >= values - extent PROVE position < extent
  BY <1>1 DEF Walked
<1>2. ASSUME n >= values, NEW word \in 0..(extent - 1) PROVE word \in visited
  <2>1. Distance(word, position, extent, values, upwards) \in 0..(values - 1)
    BY DistanceWithinRegister
  <2> QED
    BY <1>2, <2>1 DEF Walked
<1> QED
  BY <1>1, <1>2

CursorTypes ==
  /\ X \in 0..(Rows - 1) /\ Y \in 0..(YLimit - 1)
  /\ up \in BOOLEAN /\ counter \in BOOLEAN /\ word_length \in BOOLEAN

CursorInv ==
  /\ CursorTypes
  /\ moves \in Nat
  /\ focus # "cursor" => moves = 0 /\ seen = {}
  /\ Walked(Position, Extent, Values, up, seen, moves)

LEMMA Ranges ==
  ASSUME CursorTypes
  PROVE  /\ Values \in Nat \ {0} /\ Extent \in 1..Values
         /\ Position \in 0..(Values - 1)
         /\ Columns \in 1..YLimit
<1>1. Columns \in 1..YLimit /\ YLimit \in Nat
  BY MatrixAssumption DEF Columns
<1>2. Rows \in Nat \ {0}
  BY MatrixAssumption
<1> HIDE DEF Columns
<1> QED
  BY <1>1, <1>2 DEF CursorTypes, Values, Extent, Position

LEMMA CursorInvShows == CursorInv => CursorWalks
<1> SUFFICES ASSUME CursorInv PROVE CursorWalks
  OBVIOUS
<1> QED
  BY Ranges, WalkEnds DEF CursorInv, CursorTypes, CursorWalks

(* Wherever the cursor is set, a walk may begin. *)
LEMMA SetCursorBegins ==
  ASSUME CursorTypes', moves' = 0, seen' = {}
  PROVE  CursorInv'
<1>1. Values' \in Nat \ {0} /\ Extent' \in 1..Values' /\ Position' \in 0..(Values' - 1)
  <2>1. Columns' \in 1..YLimit /\ YLimit \in Nat
    BY MatrixAssumption DEF Columns
  <2>2. Rows \in Nat \ {0}
    BY MatrixAssumption
  <2> QED
    BY <2>1, <2>2 DEF CursorTypes, Values, Extent, Position
<1>2. Walked(Position', Extent', Values', up', {}, 0)
  BY <1>1, WalkBegins DEF CursorTypes
<1> QED
  BY <1>2 DEF CursorInv

LEMMA StatusKeepsTypes ==
  ASSUME CursorTypes,
         MovesCursor \/ \E by_y \in BOOLEAN, upwards \in BOOLEAN : set_direction(by_y, upwards)
  PROVE  CursorTypes'
<1>1. ASSUME NEW value \in 0..(Rows - 1), set_x(value) PROVE CursorTypes'
  BY <1>1 DEF set_x, CursorTypes
<1>2. ASSUME NEW value \in 0..(YLimit - 1), set_y(value) PROVE CursorTypes'
  BY <1>2 DEF set_y, CursorTypes
<1>3. ASSUME NEW long \in BOOLEAN, set_word_length(long) PROVE CursorTypes'
  BY <1>3 DEF set_word_length, CursorTypes
<1>4. ASSUME NEW by_y \in BOOLEAN, NEW upwards \in BOOLEAN, set_direction(by_y, upwards)
      PROVE  CursorTypes'
  BY <1>4 DEF set_direction, CursorTypes
<1> QED
  BY <1>1, <1>2, <1>3, <1>4 DEF MovesCursor

LEMMA AdvanceSteps ==
  ASSUME CursorTypes, advance_pointer, UNCHANGED <<up, counter, word_length>>
  PROVE  /\ Position' = Stepped(Position, Extent, Values, up)
         /\ Extent' = Extent /\ Values' = Values
         /\ CursorTypes'
<1>1. Extent' = Extent /\ Values' = Values
  BY DEF Extent, Values, Columns
<1>2. Columns \in 1..YLimit /\ YLimit \in Nat \ {0} /\ Rows \in Nat \ {0}
  BY Ranges, MatrixAssumption
<1>3. CASE counter
  <2>1. (Y + 1) % YLimit = IF Y + 1 = YLimit THEN 0 ELSE Y + 1
    BY <1>2, ModStep DEF CursorTypes
  <2>2. Y' = IF up THEN NextY(Y) ELSE PreviousY(Y)
    BY <1>3 DEF advance_pointer
  <2>3. X' = X
    BY <1>3 DEF advance_pointer
  <2>4. Y' = Stepped(Y, Columns, YLimit, up)
    BY <1>2, <2>1, <2>2 DEF Stepped, NextY, PreviousY, CursorTypes
  <2>5. Y' \in 0..(YLimit - 1)
    BY <1>2, <2>4, StepStaysInRegister DEF CursorTypes
  <2>6. Position' = Stepped(Position, Extent, Values, up)
    BY <1>3, <2>4 DEF Position, Extent, Values
  <2> QED
    BY <1>1, <2>3, <2>5, <2>6 DEF CursorTypes
<1>4. CASE ~counter
  <2>1. (X + 1) % Rows = IF X + 1 = Rows THEN 0 ELSE X + 1
    BY <1>2, ModStep DEF CursorTypes
  <2>2. X' = IF up THEN NextX(X) ELSE PreviousX(X)
    BY <1>4 DEF advance_pointer
  <2>3. Y' = Y
    BY <1>4 DEF advance_pointer
  <2>4. X' = Stepped(X, Rows, Rows, up)
    BY <1>2, <2>1, <2>2 DEF Stepped, NextX, PreviousX, CursorTypes
  <2>5. X' \in 0..(Rows - 1)
    BY <1>2, <2>4, StepStaysInRegister DEF CursorTypes
  <2>6. Position' = Stepped(Position, Extent, Values, up)
    BY <1>4, <2>4 DEF Position, Extent, Values
  <2> QED
    BY <1>1, <2>3, <2>5, <2>6 DEF CursorTypes
<1> QED
  BY <1>3, <1>4 DEF CursorTypes

LEMMA CursorKeepsCursor == CursorInv /\ Cursor => CursorInv'
<1> SUFFICES ASSUME CursorInv, Cursor PROVE CursorInv'
  OBVIOUS
<1>1. CASE SetCursor
  BY <1>1, StatusKeepsTypes, SetCursorBegins DEF CursorInv, SetCursor
<1>2. CASE ReadData
  <2>1. CursorTypes /\ advance_pointer /\ UNCHANGED <<up, counter, word_length>>
    BY <1>2 DEF CursorInv, ReadData, data_read
  <2>2. /\ Position' = Stepped(Position, Extent, Values, up)
        /\ Extent' = Extent /\ Values' = Values /\ CursorTypes'
    BY <2>1, AdvanceSteps
  <2>3. Walked(Stepped(Position, Extent, Values, up), Extent, Values, up,
               seen \cup {Position}, moves + 1)
    BY <2>1, Ranges, WalkGoesOn DEF CursorInv, CursorTypes
  <2>4. moves' = moves + 1 /\ seen' = seen \cup {Position} /\ up' = up /\ moves \in Nat
    BY <1>2, <2>1 DEF ReadData, CursorInv
  <2>5. Walked(Position', Extent', Values', up', seen', moves')
    BY <2>2, <2>3, <2>4
  <2>6. focus' = "cursor"
    BY DEF Cursor
  <2> QED
    BY <2>2, <2>4, <2>5, <2>6 DEF CursorInv
<1> QED
  BY <1>1, <1>2 DEF Cursor

LEMMA ScreenKeepsCursor == CursorInv /\ Screen => CursorInv'
<1> SUFFICES ASSUME CursorInv, Screen PROVE CursorInv'
  OBVIOUS
<1>1. moves' = 0 /\ seen' = {}
  BY DEF Screen, CursorInv, walkVars
<1>2. CursorTypes'
  <2>1. CASE MovesCursor
    BY <2>1, StatusKeepsTypes DEF CursorInv
  <2>2. CASE WriteData
    <3>1. advance_pointer /\ UNCHANGED <<up, counter, word_length>>
      BY <2>2 DEF WriteData, data_write
    <3> QED
      BY <3>1, AdvanceSteps DEF CursorInv
  <2>3. CASE SwitchDisplay \/ Scroll \/ Redraw \/ WindowEvent
    <3>1. UNCHANGED cursorVars
      BY <2>3 DEF SwitchDisplay, set_display, Scroll, set_z, Redraw, lcd_timer_tick, WindowEvent
    <3> QED
      BY <3>1 DEF CursorInv, CursorTypes, cursorVars
  <2> QED
    BY <2>1, <2>2, <2>3 DEF Screen
<1> QED
  BY <1>1, <1>2, SetCursorBegins

-----------------------------------------------------------------------------
(* All four *)

FaceInv == PinInv /\ KeysInv /\ ScreenInv /\ CursorInv

LEMMA InitiallyCorrect == FaceInit => FaceInv
<1> SUFFICES ASSUME FaceInit PROVE FaceInv
  OBVIOUS
<1>1. PinInv
  BY DEF FaceInit, Init, PinInv, TypeOK, PinTracksPending
<1>2. KeysInv
  <2>1. on_key_pressed # 0 /\ on_held = FALSE
    BY DEF FaceInit, Init
  <2> QED
    BY <2>1, Zenon DEF FaceInit, InitKeyboard, KeysInv
<1>3. ScreenInv
  BY DEF FaceInit, InitLcd, ScreenInv, ScreenCurrent, Drawn
<1>4. CursorInv
  <2>1. CursorTypes
    <3>1. Rows \in Nat \ {0}
      BY MatrixAssumption
    <3>2. YLimit \in Nat \ {0}
      <4> DEFINE words == RowBits \div Long
      <4>1. words \in 1..YLimit /\ YLimit \in Nat
        BY MatrixAssumption
      <4> HIDE DEF words
      <4> QED
        BY <4>1
    <3>3. X = 0 /\ Y = 0 /\ up = TRUE /\ counter = FALSE /\ word_length = TRUE
      BY DEF FaceInit, InitLcd
    <3>4. 0 \in 0..(Rows - 1) /\ 0 \in 0..(YLimit - 1)
      BY <3>1, <3>2
    <3> QED
      BY <3>3, <3>4, Zenon DEF CursorTypes
  <2>2. moves = 0 /\ seen = {}
    BY DEF FaceInit
  <2>3. Walked(Position, Extent, Values, up, {}, 0)
    BY <2>1, Ranges, WalkBegins DEF CursorTypes
  <2> QED
    BY <2>1, <2>2, <2>3 DEF CursorInv
<1> QED
  BY <1>1, <1>2, <1>3, <1>4 DEF FaceInv

(* A step of one part and the invariants of the others. *)
LEMMA PinAlone == PinInv /\ UNCHANGED vars => PinInv'
  BY DEF PinInv, vars, TypeOK, PinTracksPending
LEMMA KeysAlone == KeysInv /\ UNCHANGED <<vars, keyboardVars, keyHistory>> => KeysInv'
  BY DEF KeysInv, vars, keyboardVars, keyHistory
LEMMA ScreenAlone == ScreenInv /\ UNCHANGED <<screenVars, windowVars>> => ScreenInv'
  BY DEF ScreenInv, ScreenCurrent, Drawn, screenVars, windowVars
LEMMA CursorAlone == CursorInv /\ UNCHANGED <<cursorVars, walkVars, focus>> => CursorInv'
  BY DEF CursorInv, CursorTypes, Walked, Position, Extent, Values, Columns, cursorVars, walkVars

LEMMA KeysStepsOfThePin == Keys => [Next]_vars
<1> SUFFICES ASSUME Keys PROVE [Next]_vars
  OBVIOUS
<1>1. ASSUME NEW key \in HostKeys, KeyDown(key) \/ KeyUp(key) PROVE UNCHANGED vars
  BY <1>1 DEF KeyDown, KeyUp
<1>2. CASE OnDown
  BY <1>2 DEF OnDown, Next
<1>3. CASE OnUp
  BY <1>3 DEF OnUp, Next
<1>4. ASSUME NEW zeros \in SUBSET Groups, SelectGroups(zeros) PROVE UNCHANGED vars
  BY <1>4 DEF SelectGroups
<1>5. CASE Controller
  BY <1>5 DEF Controller
<1> QED
  BY <1>1, <1>2, <1>3, <1>4, <1>5 DEF Keys

LEMMA StepsCorrect == FaceInv /\ [FaceNext]_faceVars => FaceInv'
<1> SUFFICES ASSUME FaceInv, [FaceNext]_faceVars PROVE FaceInv'
  OBVIOUS
<1>1. CASE Keys
  <2>1. UNCHANGED <<cursorVars, screenVars, windowVars, walkVars, focus>>
    BY <1>1 DEF Keys, lcdVars
  <2> QED
    BY <1>1, <2>1, KeysStepsOfThePin, ControllerKeepsThePin, KeysKeepKeys,
       ScreenAlone, CursorAlone DEF FaceInv
<1>2. CASE Screen
  BY <1>2, PinAlone, KeysAlone, ScreenKeepsScreen, ScreenKeepsCursor DEF FaceInv, Screen
<1>3. CASE Cursor
  <2>1. UNCHANGED <<screenVars, windowVars>>
    BY <1>3 DEF Cursor, SetCursor, ReadData, MovesCursor, set_x, set_y, set_word_length,
                set_direction, data_read
  <2> QED
    BY <1>3, <2>1, PinAlone, KeysAlone, ScreenAlone, CursorKeepsCursor DEF FaceInv, Cursor
<1>4. CASE UNCHANGED faceVars
  BY <1>4, PinAlone, KeysAlone, ScreenAlone, CursorAlone DEF FaceInv, faceVars, lcdVars
<1> QED
  BY <1>1, <1>2, <1>3, <1>4 DEF FaceNext

THEOREM FaceCorrect == FaceSpec => []FaceInv
  BY InitiallyCorrect, StepsCorrect, PTL DEF FaceSpec

(* The pin is high exactly while something is pending, after every sequence   *)
(* of timer ticks, key presses, port writes and calls of the library.        *)
THEOREM PinCorrect == FaceSpec => []PinTracksPending
<1>1. FaceInv => PinTracksPending
  BY DEF FaceInv, PinInv
<1> QED
  BY <1>1, FaceCorrect, PTL

(* The guest reads the keys that are held, and no others, for every layout    *)
(* of the host's keys over the codes.                                        *)
THEOREM KeysCorrect == FaceSpec => []KeysSeen
<1>1. FaceInv => KeysSeen
  BY KeysInvShows DEF FaceInv
<1> QED
  BY <1>1, FaceCorrect, PTL

(* The window shows the LCD unless a change is announced or Z has moved.      *)
THEOREM ScreenCorrect == FaceSpec => []ScreenCurrent
<1>1. FaceInv => ScreenCurrent
  BY DEF FaceInv, ScreenInv
<1> QED
  BY <1>1, FaceCorrect, PTL

(* A walk of the cursor comes into the row, stays there and reaches every     *)
(* word, for every size of the matrix, of the words and of the register.     *)
THEOREM CursorCorrect == FaceSpec => []CursorWalks
<1>1. FaceInv => CursorWalks
  BY CursorInvShows DEF FaceInv
<1> QED
  BY <1>1, FaceCorrect, PTL

-----------------------------------------------------------------------------
(* Words do not overlap                                                      *)

(* The word that would be read with the cursor at row x and column y.         *)
Cell(x, y, i) == x * RowBits + y * Bits + (Bits - 1 - i)
WordAt(x, y) == {i \in 0..(Bits - 1) : Cell(x, y, i) \in ram}

(* A write within the row changes the word under the cursor to the low bits   *)
(* of the value and no other word of the matrix, in either word length.       *)
ChangesOneWord(value) ==
  \A x \in 0..(Rows - 1), y \in 0..(Columns - 1) :
     WordAt(x, y)' = IF x = X /\ y = Y THEN value \cap (0..(Bits - 1)) ELSE WordAt(x, y)

InRow == Y < Columns
OneWordWritten == \A value \in Words : data_write(value) /\ InRow => ChangesOneWord(value)
WritesKeepOthers == [][OneWordWritten]_faceVars

(* Quotient and remainder are unique: what keeps rows, words and bits apart.  *)
LEMMA Smaller ==
  ASSUME NEW n \in Nat, NEW a \in Nat, NEW b \in Nat, a < b,
         NEW r \in 0..(n - 1), NEW s \in 0..(n - 1)
  PROVE  a * n + r < b * n + s
<1> DEFINE k == b - (a + 1)
<1>1. k \in Nat /\ b = a + 1 + k
  OBVIOUS
<1>2. k * n \in Nat /\ a * n \in Nat
  BY <1>1
<1>3. (a + 1 + k) * n = a * n + n + k * n
  BY <1>1
<1> HIDE DEF k
<1> QED
  BY <1>1, <1>2, <1>3

LEMMA Unique ==
  ASSUME NEW n \in Nat, NEW a \in Nat, NEW b \in Nat,
         NEW r \in 0..(n - 1), NEW s \in 0..(n - 1), a * n + r = b * n + s
  PROVE  a = b /\ r = s
<1>1. ~(a < b)
  <2> SUFFICES ASSUME a < b PROVE FALSE
    OBVIOUS
  <2>1. a * n \in Nat /\ b * n \in Nat
    OBVIOUS
  <2>2. a * n + r < b * n + s
    BY Smaller
  <2> QED
    BY <2>1, <2>2
<1>2. ~(b < a)
  <2> SUFFICES ASSUME b < a PROVE FALSE
    OBVIOUS
  <2>1. a * n \in Nat /\ b * n \in Nat
    OBVIOUS
  <2>2. b * n + s < a * n + r
    BY Smaller
  <2> QED
    BY <2>1, <2>2
<1>3. a = b
  BY <1>1, <1>2
<1>4. a * n \in Nat
  OBVIOUS
<1> QED
  BY <1>3, <1>4

(* The last word of a row ends within it.                                     *)
LEMMA WithinRow ==
  ASSUME word_length \in BOOLEAN, NEW y \in 0..(Columns - 1), NEW i \in 0..(Bits - 1)
  PROVE  /\ RowBits \in Nat /\ Bits \in Nat /\ y * Bits \in Nat
         /\ y * Bits + (Bits - 1 - i) \in 0..(RowBits - 1)
<1>1. /\ RowBits \in Nat /\ Bits \in Nat \ {0} /\ Columns \in Nat
      /\ Columns = RowBits \div Bits
  BY MatrixAssumption DEF Bits, Columns
<1> HIDE DEF Bits, Columns
<1>2. Columns * Bits \in Nat /\ Columns * Bits <= RowBits
  BY <1>1
<1> DEFINE k == Columns - (y + 1)
<1>3. k \in Nat /\ Columns = y + 1 + k
  BY <1>1
<1>4. k * Bits \in Nat /\ y * Bits \in Nat
  BY <1>1, <1>3
<1>5. (y + 1 + k) * Bits = y * Bits + Bits + k * Bits
  BY <1>1, <1>3
<1> HIDE DEF k
<1>6. y * Bits + Bits <= RowBits
  BY <1>1, <1>2, <1>3, <1>4, <1>5
<1> QED
  BY <1>1, <1>4, <1>6

LEMMA CellsApart ==
  ASSUME word_length \in BOOLEAN,
         NEW x \in 0..(Rows - 1), NEW y \in 0..(Columns - 1), NEW i \in 0..(Bits - 1),
         NEW u \in 0..(Rows - 1), NEW v \in 0..(Columns - 1), NEW j \in 0..(Bits - 1),
         Cell(x, y, i) = Cell(u, v, j)
  PROVE  x = u /\ y = v /\ i = j
<1> DEFINE r == y * Bits + (Bits - 1 - i)
           s == v * Bits + (Bits - 1 - j)
<1>1. /\ RowBits \in Nat /\ Bits \in Nat /\ x \in Nat /\ u \in Nat
      /\ y * Bits \in Nat /\ v * Bits \in Nat
      /\ r \in 0..(RowBits - 1) /\ s \in 0..(RowBits - 1)
  BY WithinRow, MatrixAssumption
<1>2. x * RowBits \in Nat /\ u * RowBits \in Nat
  BY <1>1
<1>3. x * RowBits + r = u * RowBits + s
  BY <1>1, <1>2 DEF Cell
<1>4. x = u /\ r = s
  <2> HIDE DEF r, s
  <2> QED
    BY <1>1, <1>3, Unique
<1>5. y \in Nat /\ v \in Nat
  BY MatrixAssumption DEF Columns
<1>6. Bits - 1 - i \in 0..(Bits - 1) /\ Bits - 1 - j \in 0..(Bits - 1)
  BY <1>1
<1>7. y = v /\ Bits - 1 - i = Bits - 1 - j
  BY <1>1, <1>4, <1>5, <1>6, Unique
<1> QED
  BY <1>1, <1>4, <1>7

(* WritesKeepOthers for every size of the matrix, the words and the register: *)
(* a word that does not fit its row exactly leaves bits over at the row's end, *)
(* and never reaches into the next row.                                      *)
THEOREM WritesKeepOthersCorrect == FaceSpec => WritesKeepOthers
<1>1. CursorInv => OneWordWritten
  <2> SUFFICES ASSUME CursorInv, NEW value \in Words, data_write(value), InRow,
                      NEW x \in 0..(Rows - 1), NEW y \in 0..(Columns - 1)
               PROVE  WordAt(x, y)' = IF x = X /\ y = Y
                                        THEN value \cap (0..(Bits - 1)) ELSE WordAt(x, y)
    BY DEF OneWordWritten, ChangesOneWord
  <2>1. /\ word_length \in BOOLEAN /\ X \in 0..(Rows - 1) /\ Y \in 0..(Columns - 1)
        /\ Bits' = Bits
    <3>1. Columns \in Nat /\ YLimit \in Nat
      BY MatrixAssumption DEF CursorInv, CursorTypes, Columns
    <3> QED
      BY <3>1 DEF CursorInv, CursorTypes, InRow, data_write, Bits
  <2>2. \A i \in 0..(Bits - 1) : Location(i) = Cell(X, Y, i)
    BY DEF Location, Cell
  <2>3. /\ ram' = (ram \ {Location(i) : i \in 0..(Bits - 1)})
                    \cup {Location(i) : i \in {j \in 0..(Bits - 1) : j \in value}}
        /\ WordAt(x, y)' = {i \in 0..(Bits - 1) : Cell(x, y, i) \in ram'}
    BY <2>1 DEF data_write, WordAt, Cell
  <2>4. CASE x = X /\ y = Y
    <3>1. ASSUME NEW i \in 0..(Bits - 1)
          PROVE  Cell(X, Y, i) \in ram' <=> i \in value
      <4>1. \A j \in 0..(Bits - 1) : Cell(X, Y, j) = Cell(X, Y, i) => j = i
        BY <2>1, CellsApart
      <4> QED
        BY <2>2, <2>3, <4>1
    <3> QED
      BY <2>3, <2>4, <3>1
  <2>5. CASE ~(x = X /\ y = Y)
    <3>1. ASSUME NEW i \in 0..(Bits - 1)
          PROVE  Cell(x, y, i) \in ram' <=> Cell(x, y, i) \in ram
      <4>1. \A j \in 0..(Bits - 1) : Cell(x, y, i) # Cell(X, Y, j)
        BY <2>1, <2>5, CellsApart
      <4> QED
        BY <2>2, <2>3, <4>1
    <3> QED
      BY <2>3, <2>5, <3>1 DEF WordAt
  <2> QED
    BY <2>4, <2>5
<1>2. FaceInv => CursorInv
  BY DEF FaceInv
<1>3. FaceInv /\ [FaceNext]_faceVars => OneWordWritten
  BY <1>1, <1>2
<1> QED
  BY <1>3, FaceCorrect, PTL DEF FaceSpec, WritesKeepOthers
==============================================================================
