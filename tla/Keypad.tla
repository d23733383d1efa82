------------------------------- MODULE Keypad -------------------------------
(***************************************************************************)
(* The keypad: the lines of keypad_io (dev/keypad_dev.cpp) and the buttons *)
(* of the widget (widgets/keypad.cpp), which the mouse, the keyboard and   *)
(* the timers of the autostart press and release.  A key is one bit of one *)
(* row, so the rows are the set of the keys that are low.                  *)
(***************************************************************************)

CONSTANTS
  Keys,      \* the keys with a line
  RowOf      \* the address of the row of each of them

KeyReset == "reset"    \* has no line: it calls et3400emu::reset
Buttons == Keys \union {KeyReset}

ASSUME KeypadAssumption ==
  /\ KeyReset \notin Keys
  /\ RowOf \in [Keys -> {"C003", "C005", "C006"}]

VARIABLES
  running,   \* et3400emu::is_running, as the GUI thread sets it
  low,       \* the keys whose bit is low
  state      \* _buttons_state, and the buttons that show the icon _on

keypadVars == <<low, state>>

(* keypad_io::press_key *)
PullLow(key) == low' = low \union ({key} \cap Keys)

(* Mutant: a row is forgotten. *)
PullHighForgetful(key) == low' = {k \in low : RowOf[k] = "C005"}

(* keypad_io::release_key: all rows, whatever the key *)
PullHigh(key) == low' = {}

(* Keypad::press_key: while the emulator is paused, a button that is on is
   switched off. *)
PressKey(key) ==
  \/ /\ running \/ key \notin state
     /\ PullLow(key)
     /\ state' = state \union {key}
  \/ /\ ~running /\ key \in state
     /\ PullHigh(key)
     /\ state' = state \ {key}

(* Mutant: a release while paused changes the icon only. *)
ReleaseKeySilent(key) ==
  \/ /\ running
     /\ PullHigh(key)
     /\ state' = state \ {key}
  \/ ~running /\ state' = state \ {key} /\ UNCHANGED low

(* Keypad::release_key: ignored while the emulator is paused *)
ReleaseKey(key) ==
  \/ /\ running
     /\ PullHigh(key)
     /\ state' = state \ {key}
  \/ ~running /\ UNCHANGED keypadVars

(* keypad_io::read: the keys that are low in a row *)
ReadRow(row) == {k \in low : RowOf[k] = row}

=============================================================================
