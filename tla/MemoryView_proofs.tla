-------------------------- MODULE MemoryView_proofs --------------------------
(***************************************************************************)
(* Proofs about MemoryView, for any devices, row and window size.          *)
(***************************************************************************)
EXTENDS MemoryView, TLAPS

(* The editor is open only on a device that may be written, in a view that has
   the focus: this is what keeps the device from changing under it. *)
EditorGuarded == is_editing => focused /\ device.writable

(* As long as the selection stays in the device, so does the cursor, and the
   digits are those of its byte. *)
OwnDigits ==
  is_editing => /\ InShownDevice(editing_address)
                /\ high_digit = editing_address /\ low_digit = editing_address

Selectable == Nat \union {-1}

(* What it takes to compute with addresses *)
Addresses ==
  /\ device \in Devices
  /\ visible_items \in Heights /\ offset \in Nat
  /\ selected \in Selectable /\ last_selected \in Selectable
  /\ editing_address \in Nat

EditorInv ==
  /\ Addresses
  /\ strayed \in BOOLEAN
  /\ EditorGuarded
  /\ ~strayed => /\ selected = -1 \/ InShownDevice(selected)
                 /\ OwnDigits
  /\ EditsOwnByte

-----------------------------------------------------------------------------
(* Addresses *)

LEMMA Bounds ==
  ASSUME NEW d \in Devices
  PROVE /\ d.start \in Nat /\ d.end \in Nat
        /\ d.start <= d.end /\ d.end < AddressSpace
        /\ AddressSpace \in Nat /\ Columns \in Nat \ {0} /\ Heights \subseteq Nat
BY MemoryViewAssumption

LEMMA AddressKept ==
  ASSUME NEW a \in Int
  PROVE AsAddress(a) \in Nat /\ (a \in 0 .. AddressSpace - 1 => AsAddress(a) = a)
BY MemoryViewAssumption DEF AsAddress

LEMMA MaxScrollType ==
  ASSUME NEW d \in Devices, NEW height \in Heights
  PROVE MaxScroll(d, height) \in Nat
<1>1. (d.end - d.start) \div Columns \in Int
  BY Bounds
<1> QED
  BY <1>1, Bounds DEF MaxScroll, Greater

LEMMA ScrolledToType ==
  ASSUME Addresses, NEW a \in Int
  PROVE ScrolledTo(a) \in Nat
<1>1. /\ MaxOffset \in Nat /\ offset \in Nat /\ visible_items \in Nat
      /\ (a - Bottom) \div Columns \in Int
  BY Bounds, MaxScrollType DEF Addresses, MaxOffset, Bottom
<1> QED
  BY <1>1 DEF ScrolledTo, Greater, Within

LEMMA KeysType ==
  ASSUME Addresses
  PROVE {Bottom, Top, Up, Down, Left, Right, PageUp, PageDown} \subseteq Selectable
<1>1. /\ Bottom \in Nat /\ Top \in Nat /\ selected \in Selectable
      /\ Columns \in Nat /\ visible_items \in Nat
  BY Bounds DEF Addresses, Bottom, Top
<1>2. visible_items * Columns \in Nat
  BY <1>1
<1> QED
  BY <1>1, <1>2 DEF Up, Down, Left, Right, PageUp, PageDown, Greater, Within, Selectable

(* What selecting an address leaves *)
LEMMA Selected ==
  ASSUME strayed \in BOOLEAN, NEW a \in Int, Select(a)
  PROVE /\ selected' = a /\ last_selected' = a
        /\ strayed' \in BOOLEAN
        /\ ~strayed' => ~strayed /\ InShownDevice(a)
BY DEF Select

-----------------------------------------------------------------------------
(* Each step *)

LEMMA InitEditor == ViewInit => EditorInv
<1> SUFFICES ASSUME ViewInit PROVE EditorInv
  OBVIOUS
<1>1. Addresses
  BY DEF ViewInit, Addresses, Selectable
<1>2. selected = -1 /\ strayed \in BOOLEAN
  BY DEF ViewInit
<1>3. ~is_editing /\ written = NoByte
  BY DEF ViewInit
<1> QED
  BY <1>1, <1>2, <1>3 DEF EditorInv, EditorGuarded, OwnDigits, EditsOwnByte

LEMMA NextEditor == EditorInv /\ [ViewNext]_viewVars => EditorInv'
<1> SUFFICES ASSUME EditorInv, [ViewNext]_viewVars PROVE EditorInv'
  OBVIOUS
<1>b. /\ Bottom \in Nat /\ Top \in Nat /\ Bottom <= Top /\ Top < AddressSpace
      /\ AddressSpace \in Nat /\ Columns \in Nat /\ Heights \subseteq Nat
      /\ visible_items \in Nat
  BY Bounds DEF EditorInv, Addresses, Bottom, Top
<1>t. Addresses /\ strayed \in BOOLEAN /\ MaxOffset \in Nat
  BY MaxScrollType DEF EditorInv, Addresses, MaxOffset
<1> USE DEF EditorInv, Addresses, EditorGuarded, OwnDigits, EditsOwnByte, InShownDevice, NoByte,
            Bottom, Top, window, selection, editor, Selectable
<1>1. ASSUME NEW to \in Int, Scroll(to) PROVE EditorInv'
  BY <1>t, <1>1 DEF Scroll, Within
<1>2. ASSUME NEW height \in Heights, Resize(height) PROVE EditorInv'
  BY <1>2, MaxScrollType DEF Resize, Within
<1>3. ASSUME NEW d \in Devices, SetDevice(d) PROVE EditorInv'
  BY <1>3 DEF SetDevice
<1>4. ASSUME NEW a \in Bottom .. Top, GoToAddress(a) PROVE EditorInv'
  BY <1>b, <1>t, <1>4, ScrolledToType, Selected DEF GoToAddress
<1>5. ASSUME NEW byKey \in BOOLEAN, FocusIn(byKey) PROVE EditorInv'
  BY <1>b, <1>t, <1>5, ScrolledToType, Selected DEF FocusIn
<1>6. CASE FocusOut
  BY <1>6 DEF FocusOut, StopEditing
<1>7. ASSUME NEW row \in 0 .. visible_items, NEW column \in 0 .. Columns
      PROVE /\ Click(row, column) => EditorInv'
            /\ DoubleClick(row, column) => EditorInv'
  <2> DEFINE a == Bottom + ((offset + row) * Columns) + column
  <2>1. a \in Nat
    <3>1. offset + row \in Nat
      BY <1>t
    <3>2. (offset + row) * Columns \in Nat
      BY <1>b, <3>1
    <3> QED
      BY <1>b, <3>2
  <2>2. CASE Click(row, column)
    <3>1. a <= Top /\ (Select(a) \/ (selected' = -1 /\ UNCHANGED <<last_selected, strayed>>))
      BY <2>2 DEF Click
    <3>2. ~is_editing /\ written' = NoByte /\ UNCHANGED <<window, editor, focused>>
      BY <2>2 DEF Click
    <3> QED
      BY <1>t, <2>1, <3>1, <3>2, Selected
  <2>3. CASE DoubleClick(row, column)
    <3>1. /\ focused /\ a <= Top /\ Select(a)
          /\ written' = NoByte /\ UNCHANGED <<window, focused>>
      BY <2>3 DEF DoubleClick
    <3>2. \/ StartEditing(a)
          \/ StopEditing
          \/ ~is_editing /\ UNCHANGED editor
      BY <2>3 DEF DoubleClick
    <3>3. AsAddress(a) \in Nat /\ (InShownDevice(a) => AsAddress(a) = a)
      BY <1>b, <2>1, AddressKept
    <3> HIDE DEF a
    <3>4. CASE StartEditing(a)
      BY <1>t, <2>1, <3>1, <3>3, <3>4, Selected DEF StartEditing, ReadByte
    <3>5. CASE StopEditing
      BY <1>t, <2>1, <3>1, <3>5, Selected DEF StopEditing
    <3>6. CASE ~is_editing /\ UNCHANGED editor
      BY <1>t, <2>1, <3>1, <3>6, Selected
    <3> QED
      BY <3>2, <3>4, <3>5, <3>6
  <2> QED
    BY <2>2, <2>3
<1>8. ASSUME NEW a \in Selectable, Move(a) PROVE EditorInv'
  BY <1>b, <1>t, <1>8, ScrolledToType, Selected DEF Move
<1>9. CASE Space
  <2>1. /\ selected' \in {-1, last_selected}
        /\ strayed' = (strayed \/ (selected' > -1 /\ ~InShownDevice(selected')))
        /\ ~is_editing /\ written' = NoByte
        /\ UNCHANGED <<window, last_selected, editor, focused>>
    BY <1>9 DEF Space
  <2>2. strayed' \in BOOLEAN /\ (~strayed' /\ selected' > -1 => InShownDevice(selected'))
    BY <1>t, <2>1
  <2> QED
    BY <1>t, <2>1, <2>2
<1>10. CASE Edit
  <2>1. AsAddress(selected) \in Nat /\ (InShownDevice(selected) => AsAddress(selected) = selected)
    BY <1>b, AddressKept
  <2>2. strayed' \in BOOLEAN /\ (~strayed' => ~strayed /\ selected # -1)
    BY <1>t, <1>10 DEF Edit
  <2> QED
    BY <1>t, <1>10, <2>1, <2>2 DEF Edit, StartEditing, ReadByte
<1>11. CASE Escape
  BY <1>11 DEF Escape, StopEditing
<1>12. CASE Enter
  BY <1>12 DEF Enter, Editing, Writes, StopEditing
<1>13. CASE HighDigit
  BY <1>13 DEF HighDigit, Editing
<1>14. CASE LowDigit
  <2>1. /\ Editing /\ UNCHANGED <<window, is_editing, focused>>
        /\ written' = [at |-> editing_address, high |-> high_digit, low |-> editing_address]
    BY <1>14 DEF LowDigit, Writes
  <2>2. EditsOwnByte' \/ (strayed /\ ~strayed')
    BY <1>t, <1>14, <2>1, Selected DEF LowDigit, Editing
  <2>3. CASE editing_address < Top
    <3>1. Select(editing_address + 1) /\ NextByte(editing_address + 1)
      BY <1>14, <2>3 DEF LowDigit
    <3> QED
      BY <1>b, <1>t, <2>1, <2>2, <2>3, <3>1, Selected DEF Editing, NextByte, ReadByte
  <2>4. CASE ~(editing_address < Top)
    BY <1>b, <1>t, <1>14, <2>1, <2>2, <2>4 DEF LowDigit, Editing, NextByte, ReadByte
  <2> QED
    BY <2>3, <2>4
<1>15. CASE Backspace
  BY <1>b, <1>15 DEF Backspace, Editing, NextByte, ReadByte, Greater
<1>16. CASE CursorLeft
  BY <1>b, <1>16 DEF CursorLeft, Editing, NextByte, ReadByte
<1>17. CASE CursorRight
  BY <1>b, <1>t, <1>17, Selected DEF CursorRight, Editing, NextByte, ReadByte
<1>18. CASE UNCHANGED viewVars
  BY <1>18 DEF viewVars
<1>19. ASSUME NEW to \in {offset - 1, offset + 1, 0, MaxOffset} PROVE to \in Int
  BY <1>t
<1>20. ASSUME NEW a \in {Bottom, Top, Up, Down, Left, Right, PageUp, PageDown} PROVE a \in Selectable
  BY <1>t, KeysType
<1> HIDE DEF EditorInv, Bottom, Top
<1> QED
  BY <1>1, <1>2, <1>3, <1>4, <1>5, <1>6, <1>7, <1>8, <1>9, <1>10, <1>11, <1>12, <1>13,
     <1>14, <1>15, <1>16, <1>17, <1>18, <1>19, <1>20 DEF ViewNext

(* Theorem: whatever is clicked, typed and focused in which order, on any
   devices, a byte that the view writes lies in the device that is shown, which
   may be written, and consists of digits of its own address, as long as the
   selection has not left the device (EditsOwnByte; memory_view.cpp:489-586). *)
THEOREM EditsAlwaysOwnByte == ViewSpec => []EditsOwnByte
<1>1. EditorInv => EditsOwnByte
  BY DEF EditorInv
<1> QED
  BY <1>1, InitEditor, NextEditor, PTL DEF ViewSpec

-----------------------------------------------------------------------------
(* Scrolling to an address *)

(* The row of an address in its device *)
LEMMA RowHolds ==
  ASSUME NEW i \in Nat
  PROVE /\ i \div Columns \in Nat
        /\ (i \div Columns) * Columns <= i
        /\ i < (i \div Columns) * Columns + Columns
BY MemoryViewAssumption

LEMMA RowsInOrder ==
  ASSUME NEW i \in Nat, NEW j \in Nat, i <= j
  PROVE i \div Columns <= j \div Columns
<1> DEFINE p == i \div Columns
           q == j \div Columns
<1>1. /\ p \in Nat /\ q \in Nat /\ Columns \in Nat \ {0}
      /\ p * Columns <= i /\ j < q * Columns + Columns
  BY RowHolds, MemoryViewAssumption
<1> HIDE DEF p, q
<1>2. p * Columns < (q + 1) * Columns
  BY <1>1
<1>3. p < q + 1
  BY <1>1, <1>2
<1> QED BY <1>1, <1>3 DEF p, q

(* scrollIntoView ends with the row in the window: the largest offset, which
   resizeEvent computes, is never too small for it. *)
LEMMA ScrolledIntoView ==
  ASSUME Addresses, NEW a \in Int, InShownDevice(a)
  PROVE /\ Bottom + (ScrolledTo(a) * Columns) <= a
        /\ a < Bottom + ((ScrolledTo(a) + visible_items) * Columns)
<1> DEFINE row == (a - Bottom) \div Columns
           last == (Top - Bottom) \div Columns
           o == ScrolledTo(a)
<1>1. /\ Bottom \in Nat /\ Top \in Nat /\ Columns \in Nat \ {0}
      /\ visible_items \in Nat \ {0} /\ offset \in Nat
  BY Bounds, MemoryViewAssumption DEF Addresses, Bottom, Top
<1>2. /\ row \in Nat /\ row * Columns <= a - Bottom
      /\ a - Bottom < row * Columns + Columns
      /\ last \in Nat /\ row <= last
  BY <1>1, RowHolds, RowsInOrder DEF InShownDevice
<1>3. MaxOffset = Greater(0, last - visible_items + 2)
  BY DEF MaxOffset, MaxScroll, Bottom, Top
<1>4. o = IF row < offset THEN Greater(0, row)
          ELSE IF row >= offset + visible_items
            THEN Within(0, row - visible_items + 1, MaxOffset)
          ELSE offset
  BY DEF ScrolledTo
<1> HIDE DEF row, last, o
<1>5. o \in Nat /\ o <= row /\ row + 1 <= o + visible_items
  BY <1>1, <1>2, <1>3, <1>4 DEF Greater, Within
<1>6. o * Columns <= row * Columns
  BY <1>1, <1>2, <1>5
<1>7. (row + 1) * Columns <= (o + visible_items) * Columns
  BY <1>1, <1>2, <1>5
<1>8. (row + 1) * Columns = row * Columns + Columns
  BY <1>1, <1>2
<1>9. row * Columns \in Int /\ o * Columns \in Int /\ (o + visible_items) * Columns \in Int
  BY <1>1, <1>2, <1>5
<1> QED BY <1>1, <1>2, <1>6, <1>7, <1>8, <1>9 DEF o

(* Theorem: a key that moves the selection, and a request to show an address,
   leave it inside the window, on any devices, from any scroll position and in a
   window of any size (SelectionShown; scrollIntoView and resizeEvent,
   memory_view.cpp). *)
THEOREM SelectionAlwaysShown == ViewSpec => SelectionShown
<1>1. EditorInv => MovesInView
  <2> SUFFICES ASSUME EditorInv, NEW a \in Bottom - 1 .. Top,
                      Move(a) \/ GoToAddress(a), InShownDevice(a)
               PROVE /\ Bottom + (offset' * Columns) <= a
                     /\ a < Bottom + ((offset' + visible_items) * Columns)
    BY DEF MovesInView
  <2>1. Addresses /\ a \in Int
    BY Bounds DEF EditorInv, Addresses, Bottom, Top
  <2>2. offset' = ScrolledTo(a)
    BY DEF Move, GoToAddress
  <2> QED BY <2>1, <2>2, ScrolledIntoView
<1>2. EditorInv /\ [ViewNext]_viewVars => [MovesInView]_viewVars
  BY <1>1
<1> QED BY <1>2, InitEditor, NextEditor, PTL DEF ViewSpec, SelectionShown

=============================================================================
