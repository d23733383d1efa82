---------------------------- MODULE Disassembler ----------------------------
(***************************************************************************)
(* dasm/disassembler.cpp: for every opcode its kind of argument, whether   *)
(* the 6800 has it, and what the debugger's Step Over asks of it.  The     *)
(* text of an instruction is left out, but for the address it shows.       *)
(***************************************************************************)
EXTENDS Integers

Rows(first, last) == 16 * first .. 16 * last + 15
Cells(rows, columns) == {16 * r + c : r \in rows, c \in columns}

(* op_table, in four parts: the opcodes with each kind of argument.  The
   other kinds are inh. *)
Args00To3F == [sx1 |-> {18, 19}, rel |-> Rows(2, 2)]

Args40To7F ==
  LET masks == {1, 2, 5, 11}
  IN  [idx |-> Rows(6, 6) \ Cells({6}, masks), imx |-> Cells({6}, masks),
       ext |-> Rows(7, 7) \ Cells({7}, masks), imd |-> Cells({7}, masks)]

Args80ToBF ==
  LET words == Cells({8}, {3, 12, 14, 15})
  IN  [imb |-> Rows(8, 8) \ (words \union {141}), imw |-> words, rel |-> {141},
       dir |-> Rows(9, 9), idx |-> Rows(10, 10), ext |-> Rows(11, 11)]

ArgsC0ToFF ==
  LET words == Cells({12}, {3} \union 12 .. 15)
  IN  [imb |-> Rows(12, 12) \ words, imw |-> words,
       dir |-> Rows(13, 13), idx |-> Rows(14, 14), ext |-> Rows(15, 15)]

(* op_table: the opcodes that are not marked invalid for the 6800 *)
Valid00To3F ==
  Rows(0, 3) \ (Cells({0}, {0} \union 2 .. 5)
                 \union Cells({1}, 2 .. 5 \union {8, 10} \union 12 .. 15)
                 \union {33} \union Cells({3}, {8, 10, 12, 13}))

Valid40To7F ==
  Rows(4, 7) \ (Cells(4 .. 7, {1, 2, 5, 11}) \union Cells({4, 5}, {14}))

Valid80ToBF == Rows(8, 11) \ (Cells(8 .. 11, {3}) \union {135, 143, 157})

ValidC0ToFF ==
  Rows(12, 15) \ (Cells(12 .. 15, {3}) \union {199, 207}
                   \union Cells(12 .. 15, {12, 13}))

Valid == Valid00To3F \union Valid40To7F \union Valid80ToBF \union ValidC0ToFF

ArgsOf(code) ==
  LET part == IF code < 64 THEN Args00To3F ELSE IF code < 128 THEN Args40To7F
              ELSE IF code < 192 THEN Args80ToBF ELSE ArgsC0ToFF
      kinds == {k \in DOMAIN part : code \in part[k]}
  IN  IF kinds = {} THEN "inh" ELSE CHOOSE k \in kinds : TRUE

(* get_instruction_length *)
ArgsLength(args) ==
  CASE args \in {"rel", "imb", "idx", "dir"} -> 2
    [] args \in {"imw", "imx", "imd", "ext"} -> 3
    [] args \in {"sx1", "inh"} -> 1

(* Mutant: CMPX and the loads of words take a byte. *)
InstructionLengthShort(code) ==
  IF code \notin Valid THEN 1
  ELSE IF ArgsOf(code) = "imw" THEN 2
  ELSE ArgsLength(ArgsOf(code))

(* byteLength: an opcode that is invalid for the 6800 is a line of one byte. *)
InstructionLength(code) == IF code \in Valid THEN ArgsLength(ArgsOf(code)) ELSE 1

(* The names bsr and jsr, valid or not; rti and rts *)
IsSubroutine(code) == code \in {141, 157, 173, 189}
IsReturn(code) == code \in {57, 59}

(* The address in the text of a branch, a jump or a call: it is not wrapped. *)
ShownTarget(code, address, first, second) ==
  CASE ArgsOf(code) = "rel" ->
         address + (IF first >= 128 THEN first - 256 ELSE first) + 2
    [] ArgsOf(code) = "ext" -> 256 * first + second
    [] ArgsOf(code) = "dir" -> first

=============================================================================
