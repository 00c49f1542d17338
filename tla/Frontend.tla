------------------------------- MODULE Frontend -------------------------------
(***************************************************************************)
(* The calculator's face: the window of frontends/sdl/main.c, which feeds  *)
(* key events to the keyboard and the ON key and draws the LCD, and a      *)
(* guest that uses the ports of the keyboard, the LCD and the interrupt    *)
(* controller in any order.                                                *)
(*                                                                         *)
(* The ports share no state, so that a behaviour exercises a part of them: *)
(* `focus' says which, and never changes.                                  *)
(***************************************************************************)
EXTENDS Interrupts, Lcd, Keyboard

CONSTANTS HostKeys,        \* keys of the host, the one for ON not among them
          KeyCode,         \* the code sdl_events_hook has for each
          Width,           \* 96, the columns of the window
          Garbage,         \* what may lie in memory behind the LCD's matrix
          Words,           \* what the guest writes to the LCD, and what the register
                           \* may hold before anything is read
          MaxWrites,       \* bound on data written to the LCD
          MaxMoves         \* bound on moves of the cursor

ASSUME KeyCodeAssumption == KeyCode \in [HostKeys -> Codes]
ASSUME WidthAssumption == Width \in 1..RowBits
ASSUME GarbageAssumption == \A g \in Garbage : g \subseteq Nat /\ \A n \in g : n >= Rows * RowBits

VARIABLES
  focus,     \* "keys", "screen" or "cursor"
  held,      \* history: the host's keys that are down
  on_held,   \* history: the host's key for ON is down
  clashed,   \* history: codes that two host keys have held at once
  asked,     \* history: groups selected since the last FF
  shown,     \* what the window shows
  scrolled,  \* history: Z has changed since the window was drawn
  seen,      \* history: where the cursor was moved from since it was last set,
  moves,     \* history: and how often
  writes     \* history: data written to the LCD

keyHistory == <<held, on_held, clashed, asked>>
windowVars == <<shown, scrolled, writes>>
walkVars == <<seen, moves>>
faceVars == <<vars, keyboardVars, lcdVars, keyHistory, windowVars, walkVars, focus>>

Groups == {code[1] : code \in Codes}

-----------------------------------------------------------------------------
(* sdl_events_hook, one event at a time *)

Others(key) == {k \in held \ {key} : KeyCode[k] = KeyCode[key]}

KeyDown(key) ==
  /\ depress_key(KeyCode[key])
  /\ held' = held \cup {key}
  /\ clashed' = IF Others(key) # {} THEN clashed \cup {KeyCode[key]} ELSE clashed
  /\ UNCHANGED <<vars, on_held, asked>>

KeyUp(key) ==
  /\ key \in held
  /\ release_key(KeyCode[key])
  /\ held' = held \ {key}
  /\ clashed' = IF Others(key) = {} THEN clashed \ {KeyCode[key]} ELSE clashed
  /\ UNCHANGED <<vars, on_held, asked>>

OnDown ==
  /\ depress_on_key
  /\ on_held' = TRUE
  /\ UNCHANGED <<keyboardVars, held, clashed, asked>>

OnUp ==
  /\ on_held
  /\ release_on_key
  /\ on_held' = FALSE
  /\ UNCHANGED <<keyboardVars, held, clashed, asked>>

SelectGroups(zeros) ==
  /\ write_keyboard(zeros)
  /\ asked' = IF zeros = {} THEN {} ELSE asked \cup zeros
  /\ UNCHANGED <<vars, held, on_held, clashed>>

(* Timers and the guest at the controller; the ON key is the user's. *)
Controller ==
  /\ Next
  /\ on_key_pressed' = on_key_pressed
  /\ UNCHANGED <<keyboardVars, keyHistory>>

Keys ==
  /\ focus = "keys"
  /\ \/ \E key \in HostKeys : KeyDown(key) \/ KeyUp(key)
     \/ OnDown \/ OnUp
     \/ \E zeros \in SUBSET Groups : SelectGroups(zeros)
     \/ Controller
  /\ UNCHANGED <<lcdVars, windowVars, walkVars, focus>>

-----------------------------------------------------------------------------
MovesCursor ==
  \/ \E value \in 0..(Rows - 1) : set_x(value)
  \/ \E value \in 0..(YLimit - 1) : set_y(value)
  \/ \E long \in BOOLEAN : set_word_length(long)

WriteData ==
  /\ writes < MaxWrites
  /\ \E value \in Words : data_write(value)
  /\ writes' = writes + 1
  /\ UNCHANGED <<shown, scrolled>>

SwitchDisplay == (\E on \in BOOLEAN : set_display(on)) /\ UNCHANGED windowVars

Scroll ==
  /\ \E value \in 0..(Rows - 1) : set_z(value)
  /\ scrolled' = (scrolled \/ Z' # Z)
  /\ UNCHANGED <<shown, writes>>

(* The timer's tick: the window is drawn if something called the hook. *)
Redraw ==
  /\ lcd_timer_tick
  /\ shown' = IF lcd_changed THEN Drawn(Width) ELSE shown
  /\ scrolled' = (scrolled /\ ~lcd_changed)
  /\ UNCHANGED writes

(* SDL_WINDOWEVENT *)
WindowEvent ==
  /\ lcd_changed' = TRUE
  /\ UNCHANGED <<cursorVars, ram, Z, display_on, read_reg, windowVars>>

Screen ==
  /\ focus = "screen"
  /\ \/ MovesCursor /\ UNCHANGED windowVars
     \/ WriteData \/ SwitchDisplay \/ Scroll \/ Redraw \/ WindowEvent
  /\ UNCHANGED <<vars, keyboardVars, keyHistory, walkVars, focus>>

-----------------------------------------------------------------------------
(* One coordinate moves; the guest walks along it by reading. *)

Position == IF counter THEN Y ELSE X

SetCursor ==
  /\ \/ MovesCursor
     \/ \E by_y \in BOOLEAN, upwards \in BOOLEAN : set_direction(by_y, upwards)
  /\ seen' = {} /\ moves' = 0

ReadData ==
  /\ moves < MaxMoves
  /\ data_read
  /\ seen' = seen \cup {Position}
  /\ moves' = moves + 1

Cursor ==
  /\ focus = "cursor"
  /\ SetCursor \/ ReadData
  /\ UNCHANGED <<vars, keyboardVars, keyHistory, windowVars, focus>>

-----------------------------------------------------------------------------
FaceInit ==
  /\ Init /\ InitLcd(Garbage, Words) /\ InitKeyboard
  /\ focus \in {"keys", "screen", "cursor"}
  /\ held = {} /\ on_held = FALSE /\ clashed = {} /\ asked = {}
  /\ shown = {} /\ scrolled = FALSE /\ writes = 0
  /\ seen = {} /\ moves = 0

FaceNext == Keys \/ Screen \/ Cursor

FaceSpec == FaceInit /\ [][FaceNext]_faceVars

-----------------------------------------------------------------------------
(* What the guest reads from the groups it has asked for is what the user     *)
(* holds down: never a key nobody holds; and every key somebody holds, but    *)
(* for a code that two keys of the host stand for and both were held: it is   *)
(* released with the first of them. The ON key's line follows its key.        *)
KeysSeen ==
  LET code(key) == KeyCode[key]
      pressed == {code(key) : key \in held}
      bits(codes) == {c[2] : c \in {d \in codes : d[1] \in asked}}
  IN
  /\ read_keyboard \subseteq bits(pressed)
  /\ bits(pressed \ clashed) \subseteq read_keyboard
  /\ on_key_pressed = 0 <=> on_held

(* Unless a change is announced, the window shows the LCD: whatever the guest *)
(* wrote where, in either word length, and however the display was switched.  *)
(* Scrolling is the exception: it is not announced, and shows with the next   *)
(* change.                                                                   *)
ScreenCurrent == ~lcd_changed /\ ~scrolled => shown = Drawn(Width)

(* A walk, up or down, along a row or a column, in either word length and     *)
(* from wherever the cursor was set: a Y beyond the row's last word comes     *)
(* back into the row after as many moves as there are such values, and stays; *)
(* and within the values of the register the walk has been to every word.     *)
Extent == IF counter THEN Columns ELSE Rows
Values == IF counter THEN YLimit ELSE Rows

CursorWalks ==
  /\ moves >= Values - Extent => Position \in 0..(Extent - 1)
  /\ moves >= Values => 0..(Extent - 1) \subseteq seen
==============================================================================
