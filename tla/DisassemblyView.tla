-------------------------- MODULE DisassemblyView --------------------------
(***************************************************************************)
(* The disassembly view (widgets/disassembly_view.cpp) with its scroll bar *)
(* and its label dialogs, the table of the labels dialog                   *)
(* (windows/labels.cpp), and the debugger's Run, Stop and Step as far as   *)
(* they concern the view.  All run on the GUI thread; the program, on the  *)
(* worker, changes the memory, and the lines are built again by a timer    *)
(* (Auto Refresh), which also fires while a menu or a dialog is open.      *)
(*                                                                         *)
(* One device is shown.  Positions of lines count from 0, as in the code.  *)
(***************************************************************************)
EXTENDS DisassemblyBuilder

CONSTANTS
  Memories,     \* what the program can make of the memory
  Candidates,   \* the labels the user enters
  Files,        \* the files of labels he loads
  MaxLabels,    \* bound of the list
  Visible       \* visible_items

Labelling == [start : 0 .. Highest, end : 0 .. Highest, type : Types]

ASSUME ViewAssumption ==
  /\ Memories \subseteq [Start .. Highest -> 1 .. 3]
  /\ Candidates \subseteq {label \in Labelling : label.start <= label.end}
  /\ Files \subseteq Seq(Labelling)
  /\ Visible \in Nat \ {0}

VARIABLES
  memory, running, pc,   \* the emulator; pc is what a pause has shown
  labels,                \* the label manager
  table,                 \* the rows of the labels dialog
  lines, offset, bar,    \* bar is the value of the scroll bar
  selected_line, current,
  dialog,                \* the menu or the dialog that is open
  status                 \* "ok", "hung" in build, or "aborted" by an exception

emulator == <<memory, running, pc>>
view == <<lines, offset, bar, selected_line, current>>
vars == <<emulator, labels, table, view, dialog, status>>

NoDialog == [op |-> "none", slot |-> 0, label |-> 0]
Quiet == status = "ok" /\ dialog = NoDialog

Size == Len(lines)
LineAt(position) == lines[position + 1]
Positions == 0 .. Size - 1
IsComment(position) == LineAt(position).type = "Comment"
Within(low, x, high) == IF x < low THEN low ELSE IF x > high THEN high ELSE x
Aborts == status' = "aborted" /\ UNCHANGED <<emulator, labels, table, view, dialog>>

-----------------------------------------------------------------------------
(* The scroll bar.  Scrolling is a pair of the offset of the view and the value
   of the bar, whose range is 0 .. max - 1; when everything fits both of its
   ends are -1. *)

MaxScroll(size) == Within(0, size - Visible + 2, size + 2)

At(o, b) == [offset |-> o, bar |-> b]
Scrolling == At(offset, bar)
IsScrolled(scroll) == offset' = scroll.offset /\ bar' = scroll.bar

(* scrollTo, which the bar calls when its value changes *)
ScrollTo(value, max) == Within(0, value, max)

(* QScrollBar::setValue *)
SetValue(scroll, value, max) ==
  LET bounded == IF max = 0 THEN -1 ELSE Within(0, value, max - 1)
  IN  IF bounded = scroll.bar THEN scroll
      ELSE At(ScrollTo(bounded, max), bounded)

(* The offset is set, and then the bar. *)
MoveTo(scroll, o, max) == SetValue(At(o, scroll.bar), o, max)

(* Mutant: the scroll bar keeps its range. *)
ResizedNot(size) == Scrolling

(* resizeEvent, after the lines have changed: a bar that had no range starts
   at 0. *)
Resized(size) ==
  LET max == MaxScroll(size)
      before == IF bar = -1 THEN At(0, 0) ELSE Scrolling
  IN  IF max = 0 THEN At(0, -1) ELSE SetValue(before, before.bar, max)

(* ensureVisible.  The comparisons are unsigned: an offset of -1 is large. *)
EnsureVisible(scroll, position, max) ==
  LET o == scroll.offset
      centred == position - (Visible \div 2)
  IN  MoveTo(scroll,
             IF position > o + Visible THEN Smaller(centred, max)
             ELSE IF position = o + Visible THEN Smaller(o + 1, max)
             ELSE IF position < o \/ o < 0 THEN Within(0, centred, Size)
             ELSE o, max)

(* scrollIntoView *)
ScrollIntoView(scroll, position, max) ==
  LET up == IF position > Visible + scroll.offset - 1
              THEN MoveTo(scroll, Smaller(position - Visible + 1, max), max)
              ELSE scroll
  IN  IF position < up.offset THEN MoveTo(up, Within(0, position, Size), max) ELSE up

(* scroll: the wheel *)
Wheel(steps) ==
  /\ Quiet
  /\ LET max == MaxScroll(Size)
     IN  IsScrolled(MoveTo(Scrolling,
                           Smaller(Within(0, offset - steps, Size + 2), max - 1), max))
  /\ UNCHANGED <<emulator, labels, table, lines, selected_line, current, dialog, status>>

(* The user moves the bar. *)
Slide(value) ==
  /\ Quiet
  /\ value \in 0 .. MaxScroll(Size) - 1
  /\ IsScrolled(SetValue(Scrolling, value, MaxScroll(Size)))
  /\ UNCHANGED <<emulator, labels, table, lines, selected_line, current, dialog, status>>

-----------------------------------------------------------------------------
(* Building the lines *)

(* rebuild: `list` is the list of labels from now on *)
Rebuild(list) ==
  LET built == Build(memory, list)
  IN  /\ IF built.returns
           THEN /\ lines' = built.lines
                /\ IsScrolled(Resized(Len(built.lines)))
                /\ status' = status
           ELSE /\ status' = "hung"
                /\ UNCHANGED <<lines, offset, bar>>

(* reset_disassembly_view: rebuild and set_range *)
ResetView(list) ==
  LET built == Build(memory, list)
  IN  IF built.returns
        THEN /\ lines' = built.lines
             /\ offset' = 0
             /\ bar' = IF MaxScroll(Len(built.lines)) = 0 THEN -1 ELSE 0
             /\ selected_line' = -1
             /\ UNCHANGED <<current, status>>
        ELSE status' = "hung" /\ UNCHANGED view

(* The timer, with Auto Refresh *)
Refresh ==
  /\ status = "ok"
  /\ Rebuild(labels)
  /\ UNCHANGED <<emulator, labels, table, selected_line, current, dialog>>

-----------------------------------------------------------------------------
(* The emulator and the debugger's buttons *)

Program ==
  /\ status = "ok" /\ running
  /\ memory' \in Memories \ {memory}
  /\ UNCHANGED <<running, pc, labels, table, view, dialog, status>>

(* start *)
Run ==
  /\ Quiet /\ ~running
  /\ running' = TRUE /\ pc' = Start
  /\ current' = -1
  /\ UNCHANGED <<memory, labels, table, lines, offset, bar, selected_line, dialog, status>>

(* Mutant: the last byte of an instruction is not part of it. *)
CoversShort(line, address) ==
  line.address <= address /\ address < line.address + line.bytes - 1

(* The line holds the address.  `bytes - 1` is unsigned: an empty line at
   address 0 holds all. *)
Covers(line, address) ==
  \/ line.address <= address /\ address < line.address + line.bytes
  \/ line.address + line.bytes = 0

FirstOf(positions) == IF positions = {} THEN -1 ELSE Min(positions)

(* setCurrent and setSelected: where they find the address, or -1 *)
CurrentAt(address) == FirstOf({p \in Positions : LineAt(p).address = address})
SelectedAt(address) ==
  FirstOf({p \in Positions : ~IsComment(p) /\ Covers(LineAt(p), address)})

OrElse(position, other) == IF position = -1 THEN other ELSE position

(* pauseAndUpdateDisassembler, stepAndUpdateDisassembler, and a breakpoint *)
Show(address) ==
  LET max == MaxScroll(Size)
      marked == CurrentAt(address)
      chosen == SelectedAt(address)
      first == IF marked = -1 THEN Scrolling ELSE EnsureVisible(Scrolling, marked, max)
  IN  /\ current' = OrElse(marked, current)
      /\ selected_line' = OrElse(chosen, selected_line)
      /\ IsScrolled(IF chosen = -1 THEN first ELSE EnsureVisible(first, chosen, max))

Stop(address) ==
  /\ Quiet /\ running
  /\ running' = FALSE /\ pc' = address
  /\ Show(address)
  /\ UNCHANGED <<memory, labels, table, lines, dialog, status>>

BreakpointHit(address) ==
  /\ status = "ok" /\ running
  /\ running' = FALSE /\ pc' = address
  /\ Show(address)
  /\ UNCHANGED <<memory, labels, table, lines, dialog, status>>

(* The instruction may write. *)
Step(address) ==
  /\ Quiet /\ ~running
  /\ memory' \in Memories /\ pc' = address
  /\ Show(address)
  /\ UNCHANGED <<running, labels, table, lines, dialog, status>>

-----------------------------------------------------------------------------
(* The mouse and the keys *)

(* mousePressEvent on a line; the row may be below the last one.  A click on
   the selected line clears the selection, unless it also gave the view the
   focus. *)
Click(row) ==
  /\ Quiet
  /\ selected_line' \in {offset + row}
                          \union (IF selected_line = offset + row THEN {-1} ELSE {})
  /\ UNCHANGED <<emulator, labels, table, lines, offset, bar, current, dialog, status>>

(* A click left of a line toggles its breakpoint: addOrRemoveBreakpoint throws
   below the last one. *)
ClickMargin(row) ==
  /\ Quiet
  /\ offset + row >= Size
  /\ Aborts

(* adjustSelected: the next line that is not a comment in the direction, or the
   first or last one *)
Adjusted(direction) ==
  LET from == Within(0, selected_line + direction, Size - 1)
      tries == {k \in 0 .. Size :
                  LET p == from + (k * direction)
                  IN  p \notin Positions \/ ~IsComment(p)}
      reached == from + (Min(tries) * direction)
      forward(p) == Min({q \in p .. Size - 1 : ~IsComment(q)})
  IN  IF reached \in Positions THEN [selected |-> reached, offset |-> offset]
      ELSE IF reached < 0 THEN [selected |-> forward(0), offset |-> 0]
      ELSE [selected |-> forward(Size - 1), offset |-> MaxScroll(Size)]

(* keyPressEvent: up, down and the pages *)
Key(direction) ==
  /\ Quiet
  /\ LET adjusted == Adjusted(direction)
     IN  /\ selected_line' = adjusted.selected
         /\ IsScrolled(ScrollIntoView(At(adjusted.offset, bar), adjusted.selected,
                                      MaxScroll(Size)))
  /\ UNCHANGED <<emulator, labels, table, lines, current, dialog, status>>

(* Home and End *)
KeyTo(address) ==
  /\ Quiet
  /\ LET max == MaxScroll(Size)
         chosen == SelectedAt(address)
         shown == IF chosen = -1 THEN Scrolling ELSE EnsureVisible(Scrolling, chosen, max)
     IN  /\ selected_line' = OrElse(chosen, selected_line)
         /\ IsScrolled(ScrollIntoView(shown, selected_line', max))
  /\ UNCHANGED <<emulator, labels, table, lines, current, dialog, status>>

-----------------------------------------------------------------------------
(* The menu and the label dialogs of the view.  They hold a pointer to the
   selected line, a slot of the vector of lines. *)

(* What the slot holds when it is read; it is garbage behind the last line. *)
SlotLabels(slot) ==
  IF slot \in Positions THEN {LineAt(slot).label} ELSE 0 .. Len(labels)

(* showContextMenu: what it offers depends on the line as it is now. *)
OpenMenu ==
  /\ Quiet /\ selected_line > -1
  /\ IF selected_line \notin Positions THEN Aborts
     ELSE /\ dialog' = [op |-> IF LineAt(selected_line).label = 0 THEN "unlabelled"
                               ELSE "labelled",
                        slot |-> selected_line, label |-> 0]
          /\ UNCHANGED <<emulator, labels, table, view, status>>

(* The dialog opens with the label that the slot holds now. *)
Opens(op, slot) ==
  \E label \in SlotLabels(slot) :
    IF op # "add" /\ label = 0 THEN Aborts
    ELSE /\ dialog' = [op |-> op, slot |-> slot, label |-> label]
         /\ UNCHANGED <<emulator, labels, table, view, status>>

Choose(op) ==
  /\ status = "ok"
  /\ dialog.op = IF op = "add" THEN "unlabelled" ELSE "labelled"
  /\ Opens(op, dialog.slot)

(* Insert, F2 and Delete; only F2 catches the exception. *)
Shortcut(op) ==
  /\ Quiet /\ selected_line > -1
  /\ IF selected_line \notin Positions THEN op # "edit" /\ Aborts
     ELSE /\ op = "add" <=> LineAt(selected_line).label = 0
          /\ Opens(op, selected_line)

(* LabelDialog::validate *)
Validates(label, edited) == ~HasCollision(labels, edited, label.start, label.end)

Closes == dialog' = NoDialog

AcceptAdd(label) ==
  /\ status = "ok" /\ dialog.op = "add"
  /\ Len(labels) < MaxLabels
  /\ Validates(label, 0)
  /\ labels' = AddLabel(labels, label)
  /\ Rebuild(labels')
  /\ Closes
  /\ UNCHANGED <<emulator, table, selected_line, current>>

(* editLabel: the slot is read again. *)
AcceptEdit(label) ==
  /\ status = "ok" /\ dialog.op = "edit"
  /\ Validates(label, dialog.label)
  /\ \E edited \in SlotLabels(dialog.slot) :
       labels' = AddLabel(RemoveLabel(labels, edited), label)
  /\ Len(labels') <= MaxLabels
  /\ Rebuild(labels')
  /\ Closes
  /\ UNCHANGED <<emulator, table, selected_line, current>>

(* removeLabel *)
AcceptRemove ==
  /\ status = "ok" /\ dialog.op = "remove"
  /\ \E removed \in SlotLabels(dialog.slot) : labels' = RemoveLabel(labels, removed)
  /\ Rebuild(labels')
  /\ Closes
  /\ UNCHANGED <<emulator, table, selected_line, current>>

Cancel ==
  /\ status = "ok" /\ dialog # NoDialog
  /\ Closes
  /\ UNCHANGED <<emulator, labels, table, view, status>>

-----------------------------------------------------------------------------
(* The labels dialog, which stays open beside the debugger *)

(* populate_labels_table: a row keeps the position of its label. *)
Rows(list) ==
  SelectSeq([i \in DOMAIN list |-> [idx |-> i, label |-> list[i]]],
            LAMBDA row : row.label.start >= Start /\ row.label.start <= End)

(* The dialog changes the labels, fills the table, and resets the view. *)
Changes(list) ==
  /\ labels' = list
  /\ table' = Rows(list)
  /\ ResetView(list)
  /\ UNCHANGED <<emulator, dialog>>

TableAdd(label) ==
  /\ Quiet /\ Len(labels) < MaxLabels
  /\ Validates(label, 0)
  /\ Changes(AddLabel(labels, label))

(* edit_label edits a copy, which is dropped, and collides with the original. *)
TableEdit(label) ==
  /\ Quiet /\ table # <<>>
  /\ Validates(label, 0)
  /\ Changes(labels)

(* delete_label *)
TableDelete(row) ==
  /\ Quiet
  /\ table[row].idx \in DOMAIN labels
  /\ Changes(RemoveLabel(labels, table[row].idx))

TableClear ==
  /\ Quiet
  /\ Changes(ClearLabels(labels, Start, End))

(* clear_and_load_labels, of a file or of the defaults *)
TableLoad(file) ==
  /\ Quiet
  /\ Len(labels) + Len(file) <= MaxLabels \/ labels = <<>>
  /\ IF \E i \in DOMAIN file : file[i].start < Start \/ file[i].end > End
       THEN Changes(labels)
       ELSE Changes(AddLabels(ClearLabels(labels, Start, End), file))

-----------------------------------------------------------------------------

(* The main window loads the default labels and then those of -l; the debugger
   opens and shows the device. *)
Init ==
  /\ memory \in Memories /\ running = TRUE /\ pc = Start
  /\ \E default, file \in Files \union {<<>>} :
       labels = AddLabels(AddLabels(<<>>, default), file)
  /\ table = Rows(labels)
  /\ LET built == Build(memory, labels)
     IN  lines = built.lines /\ status = IF built.returns THEN "ok" ELSE "hung"
  /\ offset = 0 /\ bar = IF MaxScroll(Size) = 0 THEN -1 ELSE 0
  /\ selected_line = -1 /\ current = -1
  /\ dialog = NoDialog

Next ==
  \/ Program \/ Refresh \/ Run
  \/ \E address \in Start .. End :
       Stop(address) \/ BreakpointHit(address) \/ Step(address)
  \/ Wheel(1) \/ Wheel(-1)
  \/ \E value \in 0 .. End - Start + MaxLabels : Slide(value)
  \/ \E row \in 0 .. Visible : Click(row) \/ ClickMargin(row)
  \/ \E direction \in {-1, 1, -Visible, Visible} : Key(direction)
  \/ KeyTo(Start) \/ KeyTo(End)
  \/ OpenMenu \/ Cancel
  \/ \E op \in {"add", "edit", "remove"} : Choose(op) \/ Shortcut(op)
  \/ \E label \in Candidates :
       AcceptAdd(label) \/ AcceptEdit(label) \/ TableAdd(label) \/ TableEdit(label)
  \/ AcceptRemove
  \/ \E row \in DOMAIN table : TableDelete(row)
  \/ TableClear
  \/ \E file \in Files : TableLoad(file)

Spec == Init /\ [][Next]_vars

-----------------------------------------------------------------------------
(* Properties *)

(* The bar stays in the range of the lines that are there.  The offset does not
   always: when everything fits the wheel leaves it at -1, and a page down that
   ends on a comment sets it without the bar, so that it can stay behind the
   lines when they become fewer. *)
TypeOK ==
  /\ memory \in Memories /\ running \in BOOLEAN /\ pc \in Start .. End
  /\ labels \in Seq(Labelling)
  /\ status = "ok" => \A p \in Positions : LineAt(p).label \in 0 .. Len(labels)
  /\ offset >= -1 /\ bar \in -1 .. MaxScroll(Size) - 1
  /\ offset = -1 => MaxScroll(Size) = 0
  /\ selected_line >= -1 /\ current >= -1
  /\ dialog.op \in {"none", "labelled", "unlabelled", "add", "edit", "remove"}
  /\ dialog.label \in 0 .. Len(labels)
  /\ status \in {"ok", "hung", "aborted"}

Marks(line) == line.bytes = 0
ReachesBehind(list) == \E i \in DOMAIN list : list[i].end > End
IsFiller(line) == line.type = "Data" /\ line.label = 0

(* The listing shows every address of the device once and in order, whatever
   the labels are and wherever instructions begin: a line begins where the one
   before it ended.  (Filler lines claim too many bytes.)  And building ends:
   only a label that reaches behind the device can keep it in its loop, however
   the labels came there and whatever the memory makes of the instructions. *)
LinesTile ==
  /\ Size > 0 =>
       /\ LineAt(0).address = Start
       /\ \A p \in Positions \ {0} :
            LET last == LineAt(p - 1)
                ends == last.address + last.bytes
            IN  IF IsFiller(last)
                  THEN LineAt(p).address \in last.address + 1 .. ends
                  ELSE LineAt(p).address = ends
       /\ lines[Size].address + lines[Size].bytes > End
  /\ status = "hung" => ReachesBehind(labels)

(* Labels never overlap and stay in order through everything the user does in
   the view and in the table.  The exception: the line of a label that is being
   edited was built again with other labels under the open dialog, so that
   another label is removed, or none. *)
StaysTidy ==
  \/ Tidy(labels) => Tidy(labels')
  \/ dialog.op = "edit" /\ SlotLabels(dialog.slot) # {dialog.label}

LabelsStayTidy == [][StaysTidy]_vars

(* Every label that starts in the device is shown, right in front of the line
   that begins with it, unless the instruction of the label before it covers
   its start: what is listed is the labels there are, not those of an earlier
   build. *)
LabelsShown ==
  status = "ok" /\ Tidy(labels) =>
    \A i \in DOMAIN labels : labels[i].start \in Start .. End =>
      \E p \in Positions :
        \/ /\ Marks(LineAt(p)) /\ LineAt(p).label = i
           /\ p + 1 \in Positions /\ LineAt(p + 1).address = labels[i].start
        \/ /\ LineAt(p).label \in 1 .. i - 1
           /\ LineAt(p).type = "Assembly"
           /\ LineAt(p).address < labels[i].start
           /\ labels[i].start < LineAt(p).address + LineAt(p).bytes

(* A pause and a step select the line that holds the program counter and
   scroll it into the window, from any scroll position, and also when the lines
   are not those of the memory as it is now.  (Not when a line claims bytes that
   are not its own.) *)
ShowsPc ==
  \A address \in Start .. End :
    (Stop(address) \/ BreakpointHit(address) \/ Step(address))
      /\ ~(\E p \in Positions : IsFiller(LineAt(p)) \/ (Marks(LineAt(p)) /\ ~IsComment(p)))
    => /\ selected_line' \in Positions /\ ~IsComment(selected_line')
       /\ LineAt(selected_line').address <= address
       /\ address < LineAt(selected_line').address + LineAt(selected_line').bytes
       /\ selected_line' \in offset' .. offset' + Visible - 1

PausesShowPc == [][ShowsPc]_vars

=============================================================================
