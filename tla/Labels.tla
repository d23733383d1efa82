------------------------------- MODULE Labels -------------------------------
(***************************************************************************)
(* The list of labels (util/label_manager.cpp).  A label names a range of  *)
(* addresses; its text is left out.  A pointer to a label is its position  *)
(* in the list, 0 is nullptr.                                              *)
(***************************************************************************)
EXTENDS Integers, Sequences, SequencesExt, FiniteSetsExt

Types == {"COMMENT", "ASSEMBLY", "DATA"}

Label(start, end, type) == [start |-> start, end |-> end, type |-> type]

(* Mutant: ranges that share their last address do not collide. *)
HasCollisionStrict(labels, label, start, end) ==
  \E i \in DOMAIN labels \ {label} : start < labels[i].end /\ end > labels[i].start

(* hasCollision: `label` is the label that is being edited *)
HasCollision(labels, label, start, end) ==
  \E i \in DOMAIN labels \ {label} : start <= labels[i].end /\ end >= labels[i].start

(* addLabel: in front of the first label that starts later.  A label with the
   same start is replaced, and the new one is appended as well. *)
AddLabel(labels, label) ==
  LET later == {i \in DOMAIN labels : labels[i].start >= label.start}
      i == Min(later)
  IN  IF later = {} THEN Append(labels, label)
      ELSE IF labels[i].start = label.start
        THEN Append(ReplaceAt(labels, i, label), label)
      ELSE InsertAt(labels, i, label)

(* addLabels: those that isValid accepts, one after the other.  isValid asks for
   a text as well: a label without one is no label here, and LabelFile, where
   labels have texts, takes them out of the list first. *)
AddIfValid(labels, label) ==
  IF label.end >= label.start THEN AddLabel(labels, label) ELSE labels

AddLabels(labels, file) ==
  LET after[n \in 0 .. Len(file)] ==
        IF n = 0 THEN labels ELSE AddIfValid(after[n - 1], file[n])
  IN  after[Len(file)]

(* removeLabel *)
RemoveLabel(labels, label) ==
  IF label \in DOMAIN labels THEN RemoveAt(labels, label) ELSE labels

(* clearLabels of a range *)
KeepOutside(kept, label, start, end) ==
  IF label.start \in start .. end THEN kept ELSE Append(kept, label)

ClearLabels(labels, start, end) ==
  LET kept[n \in 0 .. Len(labels)] ==
        IF n = 0 THEN <<>> ELSE KeepOutside(kept[n - 1], labels[n], start, end)
  IN  kept[Len(labels)]

(* getLabels of a range: what is saved *)
LabelsIn(labels, start, end) ==
  SelectSeq(labels, LAMBDA label : label.start >= start /\ label.end <= end)

(* Sorted, and no two labels overlap *)
Tidy(labels) ==
  \A i, j \in DOMAIN labels : i < j => labels[i].end < labels[j].start

=============================================================================
