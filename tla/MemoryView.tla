----------------------------- MODULE MemoryView -----------------------------
(***************************************************************************)
(* The memory view (widgets/memory_view.cpp): selection, scrolling, and    *)
(* the editing of bytes digit by digit.  The program changes the memory at *)
(* any moment, so that a byte that is read is not tracked: of each of the  *)
(* two digits of editing_value only the address is kept at which it was    *)
(* read, typed or cleared.  The heat map is left out.                      *)
(***************************************************************************)
EXTENDS Integers

CONSTANTS
  Devices,   \* the devices of the selector: name, first and last address, writable
  Columns,   \* bytes in a row, 8
  Heights,   \* what visible_items can be
  AddressSpace  \* 2^16

ASSUME MemoryViewAssumption ==
  /\ \A d \in Devices : d.start \in Nat /\ d.end \in Nat /\ d.start <= d.end
                        /\ d.writable \in BOOLEAN
  /\ Columns \in Nat \ {0} /\ Heights \subseteq Nat \ {0}
  /\ AddressSpace \in Nat \ {0} /\ \A d \in Devices : d.end < AddressSpace

VARIABLES
  device, visible_items, offset,
  selected, last_selected,           \* addresses, or -1
  is_editing, editing_address, editing_nibble,
  high_digit, low_digit,             \* where the digits of editing_value stem from
  focused,
  written,                           \* the byte that this step has written
  strayed                            \* history: the selection has left its device

window == <<device, visible_items, offset>>
selection == <<selected, last_selected, strayed>>
editor == <<is_editing, editing_address, editing_nibble, high_digit, low_digit>>
viewVars == <<window, selection, editor, focused, written>>

NoByte == [at |-> -1, high |-> -1, low |-> -1]

Bottom == device.start
Top == device.end
InShownDevice(a) == Bottom <= a /\ a <= Top

-----------------------------------------------------------------------------
(* Scrolling *)

Within(min, i, max) == IF i < min THEN min ELSE IF i > max THEN max ELSE i
Greater(i, j) == IF i > j THEN i ELSE j

(* Mutant: the last row is not counted. *)
MaxScrollShort(d, height) ==
  Greater(0, ((d.end - d.start) \div Columns) - height)

(* resizeEvent: max_vscroll *)
MaxScroll(d, height) ==
  Greater(0, ((d.end - d.start) \div Columns) - height + 2)

MaxOffset == MaxScroll(device, visible_items)

(* scrollIntoView: where the view is once the address has been scrolled to *)
ScrolledTo(a) ==
  LET row == (a - Bottom) \div Columns
  IN  IF row < offset THEN Greater(0, row)
      ELSE IF row >= offset + visible_items
        THEN Within(0, row - visible_items + 1, MaxOffset)
      ELSE offset

(* scroll, scrollTo: the wheel and the bar *)
Scroll(to) ==
  /\ offset' = Within(0, to, MaxOffset)
  /\ written' = NoByte
  /\ UNCHANGED <<device, visible_items, selection, editor, focused>>

Resize(height) ==
  /\ visible_items' = height
  /\ offset' = Within(0, offset, MaxScroll(device, height))
  /\ written' = NoByte
  /\ UNCHANGED <<device, selection, editor, focused>>

-----------------------------------------------------------------------------
(* Selection *)

(* stop_editing.  The members of the editor are of no use until start_editing sets
   them again. *)
StopEditing ==
  /\ is_editing' = FALSE
  /\ editing_address' = 0 /\ editing_nibble' = 0
  /\ high_digit' = -1 /\ low_digit' = -1

(* set_device, from the selector or when another view asks for an address: the
   view has no focus then. *)
SetDevice(d) ==
  /\ ~focused
  /\ device' = d /\ offset' = 0
  /\ selected' = -1
  /\ written' = NoByte
  /\ UNCHANGED <<visible_items, last_selected, strayed, editor, focused>>

Select(a) ==
  /\ selected' = a /\ last_selected' = a
  /\ strayed' = (strayed \/ ~InShownDevice(a))

(* goToAddress: the device has been selected by the address *)
GoToAddress(a) ==
  /\ ~focused /\ InShownDevice(a)
  /\ Select(a)
  /\ offset' = ScrolledTo(a)
  /\ written' = NoByte
  /\ UNCHANGED <<device, visible_items, editor, focused>>

(* focusInEvent, by the mouse or by another window, or by a key *)
FocusIn(byKey) ==
  /\ ~focused /\ focused' = TRUE
  /\ IF byKey /\ selected = -1 THEN Select(Bottom) ELSE UNCHANGED selection
  /\ offset' = IF byKey THEN ScrolledTo(selected') ELSE offset
  /\ written' = NoByte
  /\ UNCHANGED <<device, visible_items, editor>>

FocusOut ==
  /\ focused /\ focused' = FALSE
  /\ StopEditing
  /\ written' = NoByte
  /\ UNCHANGED <<window, selection>>

(* mousePressEvent: on the selected byte it clears the selection, unless it has
   brought the focus. *)
Click(row, column) ==
  LET a == Bottom + ((offset + row) * Columns) + column
  IN  /\ focused /\ ~is_editing
      /\ a <= Top
      /\ \/ Select(a)
         \/ selected = a /\ selected' = -1 /\ UNCHANGED <<last_selected, strayed>>
      /\ written' = NoByte
      /\ UNCHANGED <<window, editor, focused>>

(* Where the keys lead from the selected address *)
Up == IF selected > Bottom /\ selected - Columns >= Bottom THEN selected - Columns
      ELSE selected
Down == IF selected + Columns <= Top THEN selected + Columns ELSE selected
Left == IF selected > Bottom THEN selected - 1 ELSE selected
Right == IF selected < Top THEN selected + 1 ELSE selected
PageUp ==
  IF selected > Bottom THEN Greater(Bottom, selected - (visible_items * Columns))
  ELSE selected
PageDown ==
  IF selected < Top
    THEN Within(-1, selected + (visible_items * Columns), Top) ELSE selected

(* keyPressEvent outside of editing *)
Move(a) ==
  /\ focused /\ ~is_editing
  /\ a # selected
  /\ Select(a)
  /\ offset' = ScrolledTo(a)
  /\ written' = NoByte
  /\ UNCHANGED <<device, visible_items, editor, focused>>

(* The space bar: the selection is cleared, or comes back. *)
Space ==
  /\ focused /\ ~is_editing
  /\ selected' = IF selected > -1 THEN -1 ELSE last_selected
  /\ strayed' = (strayed \/ (selected' > -1 /\ ~InShownDevice(selected')))
  /\ written' = NoByte
  /\ UNCHANGED <<window, last_selected, editor, focused>>

-----------------------------------------------------------------------------
(* Editing *)

(* editing_value is read from the byte at the address. *)
ReadByte(a) == high_digit' = a /\ low_digit' = a

(* An address has 16 bits: -1 becomes the last one. *)
AsAddress(a) == a % AddressSpace

(* start_editing *)
StartEditing(a) ==
  /\ device.writable
  /\ is_editing' = TRUE
  /\ editing_address' = AsAddress(a)
  /\ editing_nibble' = 0
  /\ ReadByte(AsAddress(a))

(* F2, also when nothing is selected, and Edit in the menu *)
Edit ==
  /\ focused /\ ~is_editing
  /\ StartEditing(selected)
  /\ strayed' = (strayed \/ selected = -1)
  /\ written' = NoByte
  /\ UNCHANGED <<window, selected, last_selected, focused>>

(* mouseDoubleClickEvent *)
DoubleClick(row, column) ==
  LET a == Bottom + ((offset + row) * Columns) + column
  IN  /\ focused /\ a <= Top
      /\ Select(a)
      /\ IF device.writable THEN StartEditing(a)
         ELSE IF is_editing THEN StopEditing ELSE UNCHANGED editor
      /\ written' = NoByte
      /\ UNCHANGED <<window, focused>>

Editing == focused /\ is_editing

(* Escape, or a double click beside the bytes *)
Escape ==
  /\ Editing
  /\ StopEditing
  /\ written' = NoByte
  /\ UNCHANGED <<window, selection, focused>>

Writes(h, l) == written' = [at |-> editing_address, high |-> h, low |-> l]

Enter ==
  /\ Editing
  /\ Writes(high_digit, low_digit)
  /\ StopEditing
  /\ UNCHANGED <<window, selection, focused>>

(* Mutant: the value is not read again behind a byte that was typed. *)
NextByteKept(a) ==
  /\ editing_address' = a
  /\ UNCHANGED <<high_digit, low_digit>>

(* The cursor goes on to a byte. *)
NextByte(a) ==
  /\ editing_address' = a
  /\ ReadByte(a)

HighDigit ==
  /\ Editing /\ editing_nibble = 0
  /\ high_digit' = editing_address /\ editing_nibble' = 1
  /\ written' = NoByte
  /\ UNCHANGED <<window, selection, is_editing, editing_address, low_digit, focused>>

(* The second digit writes the byte; at the end the cursor stays. *)
LowDigit ==
  /\ Editing /\ editing_nibble = 1
  /\ Writes(high_digit, editing_address)
  /\ editing_nibble' = 0
  /\ IF editing_address < Top
       THEN Select(editing_address + 1) /\ NextByte(editing_address + 1)
       ELSE NextByte(editing_address) /\ UNCHANGED selection
  /\ UNCHANGED <<window, is_editing, focused>>

Backspace ==
  /\ Editing
  /\ \/ /\ editing_nibble = 0 /\ editing_nibble' = 1
        /\ NextByte(Greater(Bottom, editing_address - 1))
        /\ selected' = editing_address'
     \/ /\ editing_nibble = 1 /\ editing_nibble' = 0
        /\ low_digit' = editing_address
        /\ UNCHANGED <<editing_address, high_digit, selected>>
  /\ written' = NoByte
  /\ UNCHANGED <<window, last_selected, strayed, is_editing, focused>>

CursorLeft ==
  /\ Editing
  /\ \/ /\ editing_nibble = 0 /\ editing_address - 1 >= Bottom
        /\ editing_nibble' = 1
        /\ NextByte(editing_address - 1)
        /\ selected' = editing_address'
     \/ /\ editing_nibble = 0 /\ editing_address - 1 < Bottom
        /\ editing_address' = Bottom
        /\ UNCHANGED <<editing_nibble, high_digit, low_digit, selected>>
     \/ /\ editing_nibble = 1 /\ editing_nibble' = 0
        /\ UNCHANGED <<editing_address, high_digit, low_digit, selected>>
  /\ written' = NoByte
  /\ UNCHANGED <<window, last_selected, strayed, is_editing, focused>>

CursorRight ==
  /\ Editing
  /\ \/ /\ editing_nibble = 0 /\ editing_nibble' = 1
        /\ UNCHANGED <<editing_address, high_digit, low_digit, selection>>
     \/ /\ editing_nibble = 1 /\ editing_address + 1 <= Top
        /\ editing_nibble' = 0
        /\ NextByte(editing_address + 1)
        /\ Select(editing_address')
     \/ /\ editing_nibble = 1 /\ editing_address + 1 > Top
        /\ editing_address' = Top
        /\ UNCHANGED <<editing_nibble, high_digit, low_digit, selection>>
  /\ written' = NoByte
  /\ UNCHANGED <<window, is_editing, focused>>

-----------------------------------------------------------------------------

ViewInit ==
  /\ device \in Devices /\ visible_items \in Heights /\ offset = 0
  /\ selected = -1 /\ last_selected = -1
  /\ is_editing = FALSE /\ editing_address = 0 /\ editing_nibble = 0
  /\ high_digit = -1 /\ low_digit = -1
  /\ focused = FALSE
  /\ written = NoByte /\ strayed = FALSE

ViewNext ==
  \/ \E to \in {offset - 1, offset + 1, 0, MaxOffset} : Scroll(to)
  \/ \E height \in Heights : Resize(height)
  \/ \E d \in Devices : SetDevice(d)
  \/ \E a \in Bottom .. Top : GoToAddress(a)
  \/ \E byKey \in BOOLEAN : FocusIn(byKey)
  \/ FocusOut
  \/ \E row \in 0 .. visible_items, column \in 0 .. Columns :
       Click(row, column) \/ DoubleClick(row, column)
  \/ \E a \in {Bottom, Top, Up, Down, Left, Right, PageUp, PageDown} : Move(a)
  \/ Space \/ Edit
  \/ Escape \/ Enter \/ HighDigit \/ LowDigit \/ Backspace \/ CursorLeft \/ CursorRight

ViewSpec == ViewInit /\ [][ViewNext]_viewVars

-----------------------------------------------------------------------------
(* Properties *)

(* A byte that is written lies in the device, which may be written, and both of
   its digits were read, typed or cleared at its own address: whatever the order of
   digits, cursor keys, focus and devices, no digit of another byte comes along
   with the cursor.  Once the selection has left the device neither is certain:
   editing starts at whatever is selected, at FFFF when nothing is; the arrows count
   from -1 when nothing is selected, the space bar brings back what was selected in
   another device, and the cursor is moved back inside without reading the byte. *)
EditsOwnByte ==
  written # NoByte =>
    /\ device.writable
    /\ strayed \/ (/\ InShownDevice(written.at)
                   /\ written.high = written.at
                   /\ written.low = written.at)

(* A key that moves the selection, and a request to show an address, leave it
   inside the window, from any scroll position and size.  (The cursor of the
   editor does not take the view with it.) *)
MovesInView ==
  \A a \in Bottom - 1 .. Top :
    ((Move(a) \/ GoToAddress(a)) /\ InShownDevice(a)) =>
      /\ Bottom + (offset' * Columns) <= a
      /\ a < Bottom + ((offset' + visible_items) * Columns)

SelectionShown == [][MovesInView]_viewVars

=============================================================================
