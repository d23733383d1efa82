------------------------------ MODULE LabelFile ------------------------------
(***************************************************************************)
(* The file of labels (util/label.cpp) and the rows that util/csv.cpp      *)
(* reads from it, and the labels of a device that are saved and loaded     *)
(* again (windows/file.cpp).  A file is a sequence of characters; the      *)
(* numbers and the types, which hold no character that matters to the      *)
(* reader, are one character each.                                         *)
(***************************************************************************)
EXTENDS Labels, TLC

CONSTANTS
  DeviceStart, DeviceEnd,   \* the device that is shown
  Texts,         \* the comments the user enters, sequences of characters
  Given,         \* the lists of labels there may be at the start
  Provided       \* the lists in files that were not saved here

VARIABLES
  labels,        \* the labels, with their comments
  file,          \* the file, or None
  kept,          \* history: the labels in it
  outcome        \* of the last load: "none", "ok", "refused" or "aborted"

labelVars == <<labels, file, kept, outcome>>

At(start, end, type, text) == [start |-> start, end |-> end, type |-> type, text |-> text]
None == <<"none">>
Quote == "\""

-----------------------------------------------------------------------------
(* Rows of comma separated values *)

(* The states of readCSVRow: where each kind of character leads *)
Kind(ch) == CASE ch = "," -> 1 [] ch = Quote -> 2 [] ch = "\n" -> 3 [] OTHER -> 4
Eof == 5

Delta == <<<<1, 2, -1, 0, -1>>,    \* 0: parsing, the character is stored
           <<1, 2, -1, 0, -1>>,    \* 1: parsing, behind a column
           <<3, 4, 3, 3, -2>>,     \* 2: a quote was entered
           <<3, 4, 3, 3, -2>>,     \* 3: inside quotes, the character is stored
           <<1, 3, -1, 0, -1>>>>   \* 4: a quote was left

RowStart == [state |-> 0, cell |-> <<>>, row |-> <<>>]

(* Mutant: the cell is not emptied behind a column. *)
CharacterKept(in, kind, ch) ==
  LET state == Delta[in.state + 1][kind]
  IN  CASE state \in {0, 3} -> [in EXCEPT !.state = state, !.cell = Append(@, ch)]
        [] state \in {-1, 1} -> [in EXCEPT !.state = state, !.row = Append(@, in.cell)]
        [] OTHER -> [in EXCEPT !.state = state]

(* One turn of its loop *)
Character(in, kind, ch) ==
  LET state == Delta[in.state + 1][kind]
  IN  CASE state \in {0, 3} -> [in EXCEPT !.state = state, !.cell = Append(@, ch)]
        [] state \in {-1, 1} -> [state |-> state, cell |-> <<>>,
                                 row |-> Append(in.row, in.cell)]
        [] OTHER -> [in EXCEPT !.state = state]

(* readCSVRow, from a place of the text that has not ended *)
RECURSIVE ReadCsvRow(_, _, _)
ReadCsvRow(text, place, in) ==
  IF in.state < 0 THEN [thrown |-> in.state = -2, row |-> in.row, place |-> place]
  ELSE IF place > Len(text) THEN ReadCsvRow(text, place, Character(in, Eof, ""))
  ELSE ReadCsvRow(text, place + 1, Character(in, Kind(text[place]), text[place]))

(* All rows, up to the end or to an end of file inside quotes, which is thrown *)
RECURSIVE ReadRows(_, _, _)
ReadRows(text, place, rows) ==
  LET read == ReadCsvRow(text, place, RowStart)
  IN  IF place > Len(text) THEN [thrown |-> FALSE, rows |-> rows]
      ELSE IF read.thrown THEN [thrown |-> TRUE, rows |-> rows]
      ELSE ReadRows(text, read.place, Append(rows, read.row))

-----------------------------------------------------------------------------
(* Labels *)

(* LabelReader::Write: the comment between quotes, as it is *)
Row(label) ==
  <<ToString(label.start), ",", ToString(label.end), ",", label.type, ",", Quote>>
    \o label.text \o <<Quote, "\n">>

Write(list) ==
  LET text[i \in 0 .. Len(list)] == IF i = 0 THEN <<>> ELSE text[i - 1] \o Row(list[i])
  IN  text[Len(list)]

(* The fields of a row, read back *)
LabelAddresses == 0 .. DeviceEnd + 1
IsAddress(cell) == \E a \in LabelAddresses : cell = <<ToString(a)>>
Address(cell) == CHOOSE a \in LabelAddresses : cell = <<ToString(a)>>
IsType(cell) == \E type \in Types : cell = <<type>>

Parses(row) ==
  /\ Len(row) = 4
  /\ IsAddress(row[1]) /\ IsAddress(row[2]) /\ IsType(row[3])

LabelOf(row) ==
  [start |-> Address(row[1]), end |-> Address(row[2]), type |-> row[3][1], text |-> row[4]]

(* clear_and_load_labels *)
RowInDevice(row) == Address(row[1]) >= DeviceStart /\ Address(row[2]) <= DeviceEnd

(* isValid, the part about the text *)
HasText(label) == label.text # <<>>

LoadAll(list, rows) ==
  LET read == [i \in DOMAIN rows |-> LabelOf(rows[i])]
  IN  AddLabels(ClearLabels(list, DeviceStart, DeviceEnd), SelectSeq(read, HasText))

-----------------------------------------------------------------------------
(* The user *)

Running == outcome # "aborted"

(* save_labels_dialog, of the device that is shown *)
SaveLabels ==
  /\ Running
  /\ kept' = LabelsIn(labels, DeviceStart, DeviceEnd)
  /\ file' = Write(kept')
  /\ UNCHANGED <<labels, outcome>>

(* The user chooses a file that something else has written, with what no dialog
   accepts in it: labels without a text, that end before they start, or that are
   not in the device. *)
ProvideLabels(list) ==
  /\ Running
  /\ kept' = list
  /\ file' = Write(list)
  /\ UNCHANGED <<labels, outcome>>

LoadLabels ==
  /\ Running /\ file # None
  /\ LET read == ReadRows(file, 1, <<>>)
         good == \A i \in DOMAIN read.rows : Parses(read.rows[i])
     IN  IF good /\ read.thrown THEN outcome' = "aborted" /\ UNCHANGED labels
         ELSE IF good /\ \A i \in DOMAIN read.rows : RowInDevice(read.rows[i])
           THEN outcome' = "ok" /\ labels' = LoadAll(labels, read.rows)
         ELSE outcome' = "refused" /\ UNCHANGED labels
  /\ UNCHANGED <<file, kept>>

(* What the dialog returns: with Data chosen, a range; else a comment *)
Edited(label, text) ==
  IF label.type = "DATA" THEN [label EXCEPT !.text = text]
  ELSE At(label.start, label.start, "COMMENT", text)

(* The user edits a comment.  The dialog refuses an empty one. *)
EditText(i, text) ==
  /\ Running
  /\ LET edited == Edited(labels[i], text)
     IN  /\ HasText(edited)
         /\ ~HasCollision(labels, i, edited.start, edited.end)
         /\ labels' = AddLabel(RemoveLabel(labels, i), edited)
  /\ UNCHANGED <<file, kept, outcome>>

(* The user removes a label. *)
DeleteLabel(i) ==
  /\ Running
  /\ labels' = RemoveLabel(labels, i)
  /\ UNCHANGED <<file, kept, outcome>>

LabelInit ==
  /\ labels \in Given
  /\ file = None /\ kept = <<>> /\ outcome = "none"

LabelNext ==
  \/ SaveLabels \/ LoadLabels
  \/ \E list \in Provided : ProvideLabels(list)
  \/ \E i \in DOMAIN labels : DeleteLabel(i) \/ \E text \in Texts : EditText(i, text)

-----------------------------------------------------------------------------
(* Properties *)

Quoted(text) == \E i \in DOMAIN text : text[i] = Quote
Inside(label) == DeviceStart <= label.start /\ label.end <= DeviceEnd
Starts(label) == DeviceStart <= label.start /\ label.start <= DeviceEnd

(* A load puts the labels of the file in the place of those of the device, in
   order and with their comments, commas included; those of other devices stay.
   Labels that the dialogs would not accept (no text, an end before the start)
   are left out, and one label outside the device makes the load refuse all.  A
   load that does not succeed changes no label.  The exceptions: a comment that
   holds a quote, which is written as it is, comes back without it or makes the
   file unreadable; and a label that starts in the device and ends behind it is
   not saved, but cleared by the load. *)
LabelsRestored ==
  LoadLabels =>
    LET Others(list) == SelectSeq(list, LAMBDA label : ~Starts(label))
        accepted == SelectSeq(kept, LAMBDA label : HasText(label) /\ label.start <= label.end)
    IN  /\ Others(labels') = Others(labels)
        /\ outcome' # "ok" => labels' = labels
        /\ ~(\E i \in DOMAIN kept : Quoted(kept[i].text)) =>
             IF \A i \in DOMAIN kept : Inside(kept[i])
               THEN outcome' = "ok" /\ SelectSeq(labels', Inside) = accepted
               ELSE outcome' = "refused"

LabelsReadBack == [][LabelsRestored]_labelVars

=============================================================================
