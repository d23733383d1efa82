------------------------ MODULE DisassemblyBuilder ------------------------
(***************************************************************************)
(* The lines of the disassembly view (util/disassembly_builder.cpp), built *)
(* from the memory of a device and the labels.  Of an instruction only its *)
(* length matters here, so `memory` gives the length of the instruction    *)
(* that each address would start; it goes on behind the device, where a    *)
(* label may reach.                                                        *)
(***************************************************************************)
EXTENDS Labels

CONSTANTS
  Start, End,   \* the addresses of the device
  Highest,      \* the highest address that a label may have
  PerLine       \* bytes of data in a line, 8

ASSUME BuilderAssumption ==
  /\ Start \in Nat /\ End \in Nat /\ Highest \in Nat
  /\ Start <= End /\ End <= Highest
  /\ PerLine \in Nat \ {0}

(* DisassemblyLine *)
Line(address, type, bytes, label) ==
  [address |-> address, type |-> type, bytes |-> bytes, label |-> label]

Smaller(i, j) == IF i < j THEN i ELSE j

(* Mutant: a last line that is not full is left out. *)
DataLinesFull(first, last, label) ==
  [i \in 1 .. (last - first + 1) \div PerLine |->
     Line(first + (i - 1) * PerLine, "Data", PerLine, label)]

(* Lines of data from `first` to `last`, which is not behind the device *)
DataLines(first, last, label) ==
  [i \in 1 .. (last - first) \div PerLine + 1 |->
     LET address == first + (i - 1) * PerLine
     IN  Line(address, "Data", Smaller(PerLine, last - address + 1), label)]

(* The bytes in front of a label that would be decoded into it: `bytes` counts
   the blanks too. *)
FillerLines(first, last) ==
  LET lines == DataLines(first, last, 0)
  IN  [i \in DOMAIN lines |-> [lines[i] EXCEPT !.bytes = PerLine]]

(* Mutant: an instruction may run into the next label. *)
ConflictsNever(memory, address, label) == FALSE

(* try_disassemble: the instruction would cover the start of the label. *)
Conflicts(memory, address, label) == address + memory[address] > label.start

(* The first label from `next` on that does not start before the address *)
Skipped(labels, address, next) ==
  Min({i \in next .. Len(labels) : labels[i].start >= address} \union {Len(labels) + 1})

-----------------------------------------------------------------------------
(* The loops of build.  What is built so far: the address and the label that
   come next, the label of type ASSEMBLY whose range is being listed, or 0, and
   the lines.  A range of data that reaches behind the device is never finished:
   `returns` becomes FALSE. *)

Beginning ==
  [address |-> Start, next |-> 1, inside |-> 0, lines |-> <<>>, returns |-> TRUE]

(* disassemble: an instruction, with the label it belongs to *)
Decoded(memory, b, label) ==
  [b EXCEPT !.lines = Append(@, Line(b.address, "Assembly", memory[b.address], label)),
            !.address = @ + memory[@]]

Listed(b, lines, address) == [b EXCEPT !.lines = @ \o lines, !.address = address]

Stuck(b) == [b EXCEPT !.returns = FALSE]

(* A label i at this address: what marks it, and its data or its instruction.
   The instructions of a label of type ASSEMBLY follow one by one. *)
Labelled(memory, labels, b, i) ==
  LET label == labels[i]
      Marked(type) == [b EXCEPT !.lines = Append(@, Line(b.address, type, 0, i)),
                                !.next = i + 1]
  IN  IF label.type = "COMMENT" THEN Decoded(memory, Marked("Comment"), i)
      ELSE IF label.type = "ASSEMBLY"
        THEN [Marked("Assembly") EXCEPT !.inside = i]
      ELSE IF label.end > End THEN Stuck(b)
      ELSE Listed(Marked("Comment"), DataLines(label.start, label.end, i),
                  label.end + 1)

(* One turn of a loop: the first label from `next` on that does not start before
   this address is ahead, and the instruction here must not run into it. *)
Outside(memory, labels, b) ==
  LET i == Skipped(labels, b.address, b.next)
      at == [b EXCEPT !.next = i, !.inside = 0]
      label == labels[i]
  IN  IF i > Len(labels) THEN Decoded(memory, at, 0)
      ELSE IF label.start = b.address THEN Labelled(memory, labels, at, i)
      ELSE IF ~Conflicts(memory, b.address, label) THEN Decoded(memory, at, 0)
      ELSE IF label.start - 1 > End THEN Stuck(at)
      ELSE Listed(at, FillerLines(b.address, label.start - 1), label.start)

Turn(memory, labels, b) ==
  IF ~b.returns THEN b
  ELSE IF b.inside # 0 /\ b.address < labels[b.inside].end
    THEN Decoded(memory, b, b.inside)
  ELSE IF b.address <= End THEN Outside(memory, labels, b)
  ELSE b

(* Every turn gets past an address or past a label. *)
Turns(labels) == Highest - Start + Len(labels) + 1

Build(memory, labels) ==
  LET after[n \in 0 .. Turns(labels)] ==
        IF n = 0 THEN Beginning ELSE Turn(memory, labels, after[n - 1])
      built == after[Turns(labels)]
  IN  [lines |-> IF built.returns THEN built.lines ELSE <<>>,
       returns |-> built.returns]

=============================================================================
