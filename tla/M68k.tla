-------------------------------- MODULE M68k --------------------------------
(***************************************************************************)
(* What the words of an instruction say to a 68000, after the processor's  *)
(* manual and only for the instructions the compiler uses.  It is not part *)
(* of the repository: the assembler's output is read back with it.         *)
(***************************************************************************)
EXTENDS Integers, Sequences

Field(w, low, width) == (w \div 2 ^ low) % 2 ^ width

Signed8(w) == IF w % 256 >= 128 THEN (w % 256) - 256 ELSE w % 256
Signed16(w) == IF w >= 32768 THEN w - 65536 ELSE w
Signed32(hi, lo) == Signed16(hi) * 65536 + lo

Operand(kind, reg, value) == [kind |-> kind, reg |-> reg, value |-> value]
NoOperand == Operand("none", 0, 0)

ImmediateValue(size, ext) ==
  CASE size = "B" -> Signed8(ext[1])
    [] size = "W" -> Signed16(ext[1])
    [] size = "L" -> Signed32(ext[1], ext[2])

(* An effective address, and how many of the extension words it takes.       *)
Address(mode, reg, size, ext) ==
  CASE mode = 0 -> Operand("d", reg, 0)
    [] mode = 1 -> Operand("a", reg, 0)
    [] mode = 2 -> Operand("(a)", reg, 0)
    [] mode = 3 -> Operand("(a)+", reg, 0)
    [] mode = 4 -> Operand("-(a)", reg, 0)
    [] mode = 5 -> Operand("d(a)", reg, Signed16(ext[1]))
    [] mode = 7 /\ reg = 1 -> Operand("abs", 0, Signed32(ext[1], ext[2]))
    [] mode = 7 /\ reg = 4 -> Operand("#", 0, ImmediateValue(size, ext))
    [] OTHER -> Operand("invalid", reg, mode)

Extensions(mode, reg, size) ==
  CASE mode = 5 -> 1
    [] mode = 7 /\ reg = 1 -> 2
    [] mode = 7 /\ reg = 4 -> IF size = "L" THEN 2 ELSE 1
    [] OTHER -> 0

Says(op, size, src, dst, length) == [op |-> op, size |-> size, src |-> src, dst |-> dst, length |-> length]
Invalid == Says("invalid", "W", NoOperand, NoOperand, 1)

SizeOf(two) == CASE two = 0 -> "B" [] two = 1 -> "W" [] two = 2 -> "L" [] OTHER -> "none"

(* op <ea>,Dn or op <ea>,An: the register is in bits 9 to 11.                *)
ToRegister(op, size, kind, w, ext) ==
  Says(op, size, Address(Field(w, 3, 3), Field(w, 0, 3), size, ext), Operand(kind, Field(w, 9, 3), 0),
       1 + Extensions(Field(w, 3, 3), Field(w, 0, 3), size))

OneOperand(op, size, w, ext) ==
  Says(op, size, NoOperand, Address(Field(w, 3, 3), Field(w, 0, 3), size, ext),
       1 + Extensions(Field(w, 3, 3), Field(w, 0, 3), size))

Move(size, w, ext) ==
  LET taken == Extensions(Field(w, 3, 3), Field(w, 0, 3), size)
  IN Says("move", size, Address(Field(w, 3, 3), Field(w, 0, 3), size, ext),
          Address(Field(w, 6, 3), Field(w, 9, 3), size, SubSeq(ext, taken + 1, Len(ext))),
          1 + taken + Extensions(Field(w, 6, 3), Field(w, 9, 3), size))

(* The registers of a MOVEM, as a number with d0 in bit 0 and a7 in bit 15.  *)
Reversed(mask) == LET bit(k) == Field(mask, 15 - k, 1) * 2 ^ k
                  IN bit(0) + bit(1) + bit(2) + bit(3) + bit(4) + bit(5) + bit(6) + bit(7) + bit(8)
                       + bit(9) + bit(10) + bit(11) + bit(12) + bit(13) + bit(14) + bit(15)
Movem(w, ext) ==
  LET size == IF Field(w, 6, 1) = 1 THEN "L" ELSE "W"
      where == Address(Field(w, 3, 3), Field(w, 0, 3), size, Tail(ext))
      regs == Operand("regs", 0, IF Field(w, 3, 3) = 4 THEN Reversed(ext[1]) ELSE ext[1])
  IN IF Field(w, 10, 1) = 0 THEN Says("movem", size, regs, where, 2) ELSE Says("movem", size, where, regs, 2)

Miscellaneous(w, ext) ==
  CASE w = \h4E75 -> Says("rts", "none", NoOperand, NoOperand, 1)
    [] Field(w, 3, 13) = \h9CA -> Says("link", "W", Operand("#", 0, Signed16(ext[1])), Operand("a", Field(w, 0, 3), 0), 2)
    [] Field(w, 3, 13) = \h9CB -> Says("unlk", "none", NoOperand, Operand("a", Field(w, 0, 3), 0), 1)
    [] Field(w, 6, 10) = \h13A -> OneOperand("jsr", "none", w, ext)
    [] Field(w, 6, 3) = 7 -> ToRegister("lea", "L", "a", w, ext)
    [] Field(w, 3, 13) = \h908 -> Says("swap", "none", NoOperand, Operand("d", Field(w, 0, 3), 0), 1)
    [] Field(w, 3, 13) \in {\h910, \h918} ->
         Says("ext", IF Field(w, 6, 1) = 1 THEN "L" ELSE "W", NoOperand, Operand("d", Field(w, 0, 3), 0), 1)
    [] Field(w, 11, 5) = 9 /\ Field(w, 7, 3) = 1 -> Movem(w, ext)
    [] Field(w, 8, 8) = \h44 -> OneOperand("neg", SizeOf(Field(w, 6, 2)), w, ext)
    [] Field(w, 8, 8) = \h46 -> OneOperand("not", SizeOf(Field(w, 6, 2)), w, ext)
    [] Field(w, 8, 8) = \h4A -> OneOperand("tst", SizeOf(Field(w, 6, 2)), w, ext)
    [] OTHER -> Invalid

(* A count of zero in the instruction is a count of eight.                   *)
Quick(w) == Operand("#", 0, IF Field(w, 9, 3) = 0 THEN 8 ELSE Field(w, 9, 3))

Shift(w) ==
  LET name == <<"asr", "asl", "lsr", "lsl">>[Field(w, 3, 2) * 2 + Field(w, 8, 1) + 1]
      count == IF Field(w, 5, 1) = 1 THEN Operand("d", Field(w, 9, 3), 0) ELSE Quick(w)
  IN IF Field(w, 6, 2) = 3 \/ Field(w, 3, 2) > 1 THEN Invalid
     ELSE Says(name, SizeOf(Field(w, 6, 2)), count, Operand("d", Field(w, 0, 3), 0), 1)

(* Two-operand arithmetic: the name by the line and the mode of operation.   *)
Arithmetic(line, w, ext) ==
  LET mode == Field(w, 6, 3)
      plain == CASE line = 8 -> "or" [] line = 9 -> "sub" [] line = 11 -> "cmp" [] line = 12 -> "and" [] line = 13 -> "add"
  IN CASE mode < 3 -> ToRegister(plain, SizeOf(mode), "d", w, ext)
       [] mode \in {3, 7} /\ line \in {9, 13} -> ToRegister(plain, IF mode = 3 THEN "W" ELSE "L", "a", w, ext)
       [] mode \in {3, 7} /\ line = 8 -> ToRegister(IF mode = 3 THEN "divu" ELSE "divs", "W", "d", w, ext)
       [] mode \in {3, 7} /\ line = 12 -> ToRegister(IF mode = 3 THEN "mulu" ELSE "muls", "W", "d", w, ext)
       [] mode \in 4 .. 6 /\ line = 11 /\ Field(w, 3, 3) # 1 ->
            Says("eor", SizeOf(mode - 4), Operand("d", Field(w, 9, 3), 0),
                 Address(Field(w, 3, 3), Field(w, 0, 3), SizeOf(mode - 4), ext), 1)
       [] OTHER -> Invalid

Branches == <<"bra", "bsr", "bhi", "bls", "bhs", "blo", "bne", "beq",
              "bvc", "bvs", "bpl", "bmi", "bge", "blt", "bgt", "ble">>
Sets == <<"st", "sf", "shi", "sls", "shs", "slo", "sne", "seq",
          "svc", "svs", "spl", "smi", "sge", "slt", "sgt", "sle">>

Decoded(words) ==
  LET w == words[1]
      ext == Tail(words)
      line == Field(w, 12, 4)
  IN CASE line = 0 /\ Field(w, 8, 4) = 2 ->
            LET size == SizeOf(Field(w, 6, 2))
            IN Says("and", size, Operand("#", 0, ImmediateValue(size, ext)), Operand("d", Field(w, 0, 3), 0),
                    IF size = "L" THEN 3 ELSE 2)
       [] line \in 1 .. 3 -> Move(<<"B", "L", "W">>[line], w, ext)
       [] line = 4 -> Miscellaneous(w, ext)
       [] line = 5 /\ Field(w, 6, 2) = 3 ->
            Says(Sets[Field(w, 8, 4) + 1], "B", NoOperand, Operand("d", Field(w, 0, 3), 0), 1)
       [] line = 5 /\ Field(w, 6, 2) < 3 ->
            Says(IF Field(w, 8, 1) = 1 THEN "sub" ELSE "add", SizeOf(Field(w, 6, 2)), Quick(w),
                 Address(Field(w, 3, 3), Field(w, 0, 3), "W", ext), 1)
       [] line = 6 /\ Field(w, 0, 8) = 0 ->
            Says(Branches[Field(w, 8, 4) + 1], "W", NoOperand, Operand("pc", 0, Signed16(ext[1])), 2)
       [] line \in {8, 9, 11, 12, 13} -> Arithmetic(line, w, ext)
       [] line = 14 -> Shift(w)
       [] OTHER -> Invalid
=============================================================================
