---------------------------- MODULE Instructions ----------------------------
(***************************************************************************)
(* How the assembler (assem.c) encodes an instruction: the words that the  *)
(* emit_... functions put together, field by field, and the label an       *)
(* operand names.  ENABLE_ASSMBLER_OPT is not set: no ADDQ and no MOVEQ.   *)
(***************************************************************************)
EXTENDS Integers, Sequences, FiniteSetsExt, SequencesExt

None == "none"

(* The instruction set of the code generator: the fields of AS_instr, regs   *)
(* for the offset of a MOVEM.  A constant is its type, the number it rounds  *)
(* to, and, for a single, the four bytes of its FFP form.                    *)
Instr(mn) == [mn |-> mn, w |-> "L", src |-> None, dst |-> None, imm |-> [ty |-> "long", i |-> 0, ffp |-> <<>>],
              offset |-> 0, regs |-> {}, label |-> None, line |-> 0]

Bytes(words) == FlattenSeq([k \in DOMAIN words |-> <<words[k] \div 256, words[k] % 256>>])
Word16(n) == <<n % 65536>>
Word32(n) == <<(n \div 65536) % 65536, n % 65536>>

-----------------------------------------------------------------------------
(* Registers: AS_isAn, AS_regNumDn, AS_regNumAn, and the masks of MOVEM.     *)
regNumDn == [d0 |-> 0, d1 |-> 1, d2 |-> 2, d3 |-> 3, d4 |-> 4, d5 |-> 5, d6 |-> 6, d7 |-> 7]
regNumAn == [a0 |-> 0, a1 |-> 1, a2 |-> 2, a3 |-> 3, a4 |-> 4, a6 |-> 6]

AS_isAn(r) == r \in DOMAIN regNumAn
Number(r) == IF AS_isAn(r) THEN regNumAn[r] ELSE regNumDn[r]
Mode(r) == IF AS_isAn(r) THEN 1 ELSE 0

REG_MASK(r) == IF AS_isAn(r) THEN 256 * 2 ^ regNumAn[r] ELSE 2 ^ regNumDn[r]
REG_MASK_PREDECR(r) == IF AS_isAn(r) THEN 2 ^ (7 - regNumAn[r]) ELSE 2 ^ (15 - regNumDn[r])

(* The fields of an instruction word never overlap: | is a sum.              *)
Size(w) == CASE w = "B" -> 0 [] w = "W" -> 64 [] w = "L" -> 128
EA(mode, reg) == mode * 8 + reg
ToReg(r) == r * 512
Absolute == EA(7, 1)
Immediate == EA(7, 4)
FramePointer == EA(5, 5)

getConstInt(c) == IF c.ty = "bool" /\ c.i # 0 THEN -1 ELSE c.i

emit_Imm(w, imm) ==
  CASE w = "B" -> <<getConstInt(imm) % 256>>
    [] w = "W" -> Word16(getConstInt(imm))
    [] w = "L" -> IF imm.ty = "single" THEN imm.ffp ELSE Word32(getConstInt(imm))

emit_ADD(w, regDst, dstIsAn, ea) ==
  \hD000 + ToReg(regDst) + ea + (IF dstIsAn THEN (IF w = "W" THEN 3 ELSE 7) * 64 ELSE Size(w))
emit_AND(w, regDst, ea) == \hC000 + Size(w) + ToReg(regDst) + ea
emit_ANDI(w, ea) == \h0200 + Size(w) + ea
emit_ASL_ASR(w, cnt_reg, dr, i_r, reg) == \hE000 + Size(w) + ToReg(cnt_reg) + dr * 256 + i_r * 32 + reg
emit_LSL_LSR(w, cnt_reg, dr, i_r, reg) == \hE008 + Size(w) + ToReg(cnt_reg) + dr * 256 + i_r * 32 + reg
emit_JSR(ea) == \h4E80 + ea
emit_Bcc(cc) == \h6000 + cc * 256
emit_CMP(w, regDst, ea) == \hB000 + Size(w) + ToReg(regDst) + ea
emit_DIVS(regDst, ea) == \h81C0 + ToReg(regDst) + ea
emit_DIVU(regDst, ea) == \h80C0 + ToReg(regDst) + ea
emit_EOR(w, regSrc, ea) == \hB100 + Size(w) + ToReg(regSrc) + ea
emit_EXT(w, reg) == \h4840 + Size(w) + reg
emit_LEA(regDst, ea) == \h41C0 + ToReg(regDst) + ea
emit_MULS(regDst, ea) == \hC1C0 + ToReg(regDst) + ea
emit_MULU(regDst, ea) == \hC0C0 + ToReg(regDst) + ea
emit_NEG(w, ea) == \h4400 + Size(w) + ea
emit_NOT(w, ea) == \h4600 + Size(w) + ea
emit_OR(w, ea, regDst) == \h8000 + Size(w) + ToReg(regDst) + ea
emit_Scc(cc, ea) == \h50C0 + cc * 256 + ea
emit_SUB(w, regDst, ea) == \h9000 + Size(w) + ToReg(regDst) + ea
emit_SUBA(w, regDst, ea) == \h9000 + (IF w = "W" THEN 3 ELSE 7) * 64 + ToReg(regDst) + ea
emit_SUBQ(w, data, ea) == \h5100 + Size(w) + ToReg(data) + ea
emit_SWAP(reg) == \h4840 + reg
emit_TST(w, reg) == \h4A00 + Size(w) + reg
emit_UNLK(reg) == \h4E58 + reg

(* The mode of the destination comes after its register, unlike the source.  *)
emit_MOVE(w, regDst, modeDst, ea) ==
  (CASE w = "B" -> \h1000 [] w = "W" -> \h3000 [] w = "L" -> \h2000) + ToReg(regDst) + modeDst * 64 + ea

emit_MOVEM(w, dr, mode, regs) ==
  <<\h4880 + dr * 1024 + EA(mode, 7) + (IF w = "L" THEN 64 ELSE 0),
    SumSet({IF mode = 4 THEN REG_MASK_PREDECR(r) ELSE REG_MASK(r) : r \in regs})>>

-----------------------------------------------------------------------------
(* What AS_assembleCode emits for an instruction: words, at most one label,  *)
(* as a displacement or as an address, and words behind it.                  *)
Plain(words) == [head |-> words, label |-> None, displacement |-> FALSE, tail |-> <<>>]
Labelled(word, words, i, tail) == [head |-> <<word>> \o words, label |-> i.label, displacement |-> FALSE, tail |-> tail]

Additive(i) ==
  CASE i.mn = "ADD_AnDn_AnDn" -> Plain(<<emit_ADD(i.w, Number(i.dst), AS_isAn(i.dst), EA(Mode(i.src), Number(i.src)))>>)
    [] i.mn = "ADD_Imm_AnDn" -> Plain(<<emit_ADD(i.w, Number(i.dst), AS_isAn(i.dst), Immediate)>> \o emit_Imm(i.w, i.imm))
    [] i.mn = "ADD_Imm_sp" -> Plain(<<emit_ADD(i.w, 7, TRUE, Immediate)>> \o emit_Imm(i.w, i.imm))
    [] i.mn = "AND_Dn_Dn" -> Plain(<<emit_AND(i.w, regNumDn[i.dst], regNumDn[i.src])>>)
    [] i.mn = "AND_Imm_Dn" -> Plain(<<emit_ANDI(i.w, regNumDn[i.dst])>> \o emit_Imm(i.w, i.imm))

(* A count of eight is written as none.                                      *)
Count(i) == getConstInt(i.imm) % 8

ArithmeticShift(i) ==
  CASE i.mn = "ASL_Dn_Dn" -> Plain(<<emit_ASL_ASR(i.w, regNumDn[i.src], 1, 1, regNumDn[i.dst])>>)
    [] i.mn = "ASL_Imm_Dn" -> Plain(<<emit_ASL_ASR(i.w, Count(i), 1, 0, regNumDn[i.dst])>>)
    [] i.mn = "ASR_Dn_Dn" -> Plain(<<emit_ASL_ASR(i.w, regNumDn[i.src], 0, 1, regNumDn[i.dst])>>)

LogicalShift(i) ==
  CASE i.mn = "LSL_Dn_Dn" -> Plain(<<emit_LSL_LSR(i.w, regNumDn[i.src], 1, 1, regNumDn[i.dst])>>)
    [] i.mn = "LSL_Imm_Dn" -> Plain(<<emit_LSL_LSR(i.w, Count(i), 1, 0, regNumDn[i.dst])>>)
    [] i.mn = "LSR_Dn_Dn" -> Plain(<<emit_LSL_LSR(i.w, regNumDn[i.src], 0, 1, regNumDn[i.dst])>>)

Conditions == [BRA |-> 0, BEQ |-> 7, BNE |-> 6, BLT |-> 13, BGT |-> 14, BLE |-> 15, BGE |-> 12,
               BLO |-> 5, BHI |-> 2, BLS |-> 3, BHS |-> 4]
Branch(i) ==
  [head |-> <<emit_Bcc(Conditions[i.mn])>>, label |-> i.label, displacement |-> TRUE, tail |-> <<>>]

Middle(i) ==
  CASE i.mn = "CMP_Dn_Dn" -> Plain(<<emit_CMP(i.w, regNumDn[i.dst], regNumDn[i.src])>>)
    [] i.mn = "DIVS_Dn_Dn" -> Plain(<<emit_DIVS(regNumDn[i.dst], regNumDn[i.src])>>)
    [] i.mn = "DIVU_Dn_Dn" -> Plain(<<emit_DIVU(regNumDn[i.dst], regNumDn[i.src])>>)
    [] i.mn = "EOR_Dn_Dn" -> Plain(<<emit_EOR(i.w, regNumDn[i.src], regNumDn[i.dst])>>)
    [] i.mn = "EXT_Dn" -> Plain(<<emit_EXT(i.w, regNumDn[i.dst])>>)
    [] i.mn = "LEA_Ofp_An" -> Plain(<<emit_LEA(regNumAn[i.dst], FramePointer)>> \o Word16(i.offset))
    [] i.mn = "LINK_fp" -> Plain(<<\h4E55>> \o emit_Imm(i.w, i.imm))
    [] i.mn = "MOVEM_Rs_PDsp" -> Plain(emit_MOVEM(i.w, 0, 4, i.regs))
    [] i.mn = "MOVEM_spPI_Rs" -> Plain(emit_MOVEM(i.w, 1, 3, i.regs))

Source(i) == EA(Mode(i.src), Number(i.src))

MoveRegister(i) ==
  CASE i.mn = "MOVE_AnDn_AnDn" -> Plain(<<emit_MOVE(i.w, Number(i.dst), Mode(i.dst), Source(i))>>)
    [] i.mn = "MOVE_Imm_RAn" -> Plain(<<emit_MOVE(i.w, regNumAn[i.dst], 2, Immediate)>> \o emit_Imm(i.w, i.imm))
    [] i.mn = "MOVE_Imm_AnDn" -> Plain(<<emit_MOVE(i.w, Number(i.dst), Mode(i.dst), Immediate)>> \o emit_Imm(i.w, i.imm))
    [] i.mn = "MOVE_AnDn_RAn" -> Plain(<<emit_MOVE(i.w, regNumAn[i.dst], 2, Source(i))>>)
    [] i.mn = "MOVE_RAn_AnDn" -> Plain(<<emit_MOVE(i.w, Number(i.dst), Mode(i.dst), EA(2, regNumAn[i.src]))>>)
    [] i.mn = "MOVE_AnDn_PDsp" -> Plain(<<emit_MOVE(i.w, 7, 4, Source(i))>>)
    [] i.mn = "MOVE_Imm_PDsp" -> Plain(<<emit_MOVE(i.w, 7, 4, Immediate)>> \o emit_Imm(i.w, i.imm))

(* The words of the source come before those of the destination.             *)
MoveMemory(i) ==
  CASE i.mn = "MOVE_ILabel_AnDn" -> Labelled(emit_MOVE(i.w, Number(i.dst), Mode(i.dst), Immediate), <<>>, i, <<>>)
    [] i.mn = "MOVE_Label_AnDn" -> Labelled(emit_MOVE(i.w, Number(i.dst), Mode(i.dst), Absolute), <<>>, i, <<>>)
    [] i.mn = "MOVE_Label_Ofp" -> Labelled(emit_MOVE(i.w, 5, 5, Absolute), <<>>, i, Word16(i.offset))
    [] i.mn = "MOVE_AnDn_Label" -> Labelled(emit_MOVE(i.w, 1, 7, Source(i)), <<>>, i, <<>>)
    [] i.mn = "MOVE_Ofp_AnDn" -> Plain(<<emit_MOVE(i.w, Number(i.dst), Mode(i.dst), FramePointer)>> \o Word16(i.offset))
    [] i.mn = "MOVE_Ofp_RAn" -> Plain(<<emit_MOVE(i.w, regNumAn[i.dst], 2, FramePointer)>> \o Word16(i.offset))
    [] i.mn = "MOVE_Ofp_Label" -> Labelled(emit_MOVE(i.w, 1, 7, FramePointer), Word16(i.offset), i, <<>>)
    [] i.mn = "MOVE_AnDn_Ofp" -> Plain(<<emit_MOVE(i.w, 5, 5, Source(i))>> \o Word16(i.offset))
    [] i.mn = "MOVE_Imm_Ofp" -> Plain(<<emit_MOVE(i.w, 5, 5, Immediate)>> \o emit_Imm(i.w, i.imm) \o Word16(i.offset))
    [] i.mn = "MOVE_Imm_Label" -> Labelled(emit_MOVE(i.w, 1, 7, Immediate), emit_Imm(i.w, i.imm), i, <<>>)

Multiplicative(i) ==
  CASE i.mn = "MULS_Dn_Dn" -> Plain(<<emit_MULS(regNumDn[i.dst], regNumDn[i.src])>>)
    [] i.mn = "MULS_Imm_Dn" -> Plain(<<emit_MULS(regNumDn[i.dst], Immediate)>> \o emit_Imm(i.w, i.imm))
    [] i.mn = "MULU_Dn_Dn" -> Plain(<<emit_MULU(regNumDn[i.dst], regNumDn[i.src])>>)
    [] i.mn = "MULU_Imm_Dn" -> Plain(<<emit_MULU(regNumDn[i.dst], Immediate)>> \o emit_Imm(i.w, i.imm))
    [] i.mn = "NEG_Dn" -> Plain(<<emit_NEG(i.w, regNumDn[i.dst])>>)
    [] i.mn = "NOT_Dn" -> Plain(<<emit_NOT(i.w, regNumDn[i.dst])>>)
    [] i.mn = "OR_Dn_Dn" -> Plain(<<emit_OR(i.w, regNumDn[i.src], regNumDn[i.dst])>>)

Transfer(i) ==
  CASE i.mn = "JSR_Label" -> Labelled(emit_JSR(Absolute), <<>>, i, <<>>)
    [] i.mn = "JSR_An" -> Plain(<<emit_JSR(EA(2, regNumAn[i.src]))>>)
    [] i.mn = "JSR_RAn" -> Plain(<<emit_JSR(EA(5, regNumAn[i.src]))>> \o Word16(i.offset))
    [] i.mn = "RTS" -> Plain(<<\h4E75>>)

IsQuick(c) == c \in 1 .. 8
Subtractive(i) ==
  CASE i.mn = "SUB_Dn_Dn" -> Plain(<<emit_SUB(i.w, regNumDn[i.dst], regNumDn[i.src])>>)
    [] i.mn = "SUB_Imm_AnDn" /\ AS_isAn(i.dst) ->
         Plain(<<emit_SUBA(i.w, regNumAn[i.dst], Immediate)>> \o emit_Imm(i.w, i.imm))
    [] i.mn = "SUB_Imm_AnDn" /\ ~ AS_isAn(i.dst) /\ IsQuick(getConstInt(i.imm)) ->
         Plain(<<emit_SUBQ(i.w, Count(i), regNumDn[i.dst])>>)
    [] i.mn = "SUB_Imm_AnDn" /\ ~ AS_isAn(i.dst) /\ ~ IsQuick(getConstInt(i.imm)) ->
         Plain(<<emit_SUB(i.w, regNumDn[i.dst], Immediate)>> \o emit_Imm(i.w, i.imm))
    [] i.mn = "SWAP_Dn" -> Plain(<<emit_SWAP(regNumDn[i.dst])>>)
    [] i.mn = "TST_Dn" -> Plain(<<emit_TST(i.w, regNumDn[i.src])>>)
    [] i.mn = "UNLK_fp" -> Plain(<<emit_UNLK(5)>>)
    [] i.mn = "SNE_Dn" -> Plain(<<emit_Scc(6, regNumDn[i.dst])>>)

(* The instructions by the function above that knows them; the assembler     *)
(* asserts on any other.                                                     *)
AdditiveSet == {"ADD_AnDn_AnDn", "ADD_Imm_AnDn", "ADD_Imm_sp", "AND_Dn_Dn", "AND_Imm_Dn"}
ASSet == {"ASL_Dn_Dn", "ASL_Imm_Dn", "ASR_Dn_Dn"}
LSSet == {"LSL_Dn_Dn", "LSL_Imm_Dn", "LSR_Dn_Dn"}
MiddleSet == {"CMP_Dn_Dn", "DIVS_Dn_Dn", "DIVU_Dn_Dn", "EOR_Dn_Dn", "EXT_Dn", "LEA_Ofp_An", "LINK_fp",
              "MOVEM_Rs_PDsp", "MOVEM_spPI_Rs"}
MoveRegisterSet == {"MOVE_AnDn_AnDn", "MOVE_Imm_RAn", "MOVE_Imm_AnDn", "MOVE_AnDn_RAn", "MOVE_RAn_AnDn",
                    "MOVE_AnDn_PDsp", "MOVE_Imm_PDsp"}
MoveMemorySet == {"MOVE_ILabel_AnDn", "MOVE_Label_AnDn", "MOVE_Label_Ofp", "MOVE_AnDn_Label", "MOVE_Ofp_AnDn",
                  "MOVE_Ofp_RAn", "MOVE_Ofp_Label", "MOVE_AnDn_Ofp", "MOVE_Imm_Ofp", "MOVE_Imm_Label"}
MultiplicativeSet == {"MULS_Dn_Dn", "MULS_Imm_Dn", "MULU_Dn_Dn", "MULU_Imm_Dn", "NEG_Dn", "NOT_Dn", "OR_Dn_Dn"}
TransferSet == {"JSR_Label", "JSR_An", "JSR_RAn", "RTS"}
SubtractiveSet == {"SUB_Dn_Dn", "SUB_Imm_AnDn", "SWAP_Dn", "TST_Dn", "UNLK_fp", "SNE_Dn"}
Known == UNION {AdditiveSet, ASSet, LSSet, DOMAIN Conditions, MiddleSet, MoveRegisterSet, MoveMemorySet,
                MultiplicativeSet, TransferSet, SubtractiveSet}

Encoding(i) ==
  CASE i.mn \in AdditiveSet -> Additive(i)
    [] i.mn \in ASSet -> ArithmeticShift(i)
    [] i.mn \in LSSet -> LogicalShift(i)
    [] i.mn \in DOMAIN Conditions -> Branch(i)
    [] i.mn \in MiddleSet -> Middle(i)
    [] i.mn \in MoveRegisterSet -> MoveRegister(i)
    [] i.mn \in MoveMemorySet -> MoveMemory(i)
    [] i.mn \in MultiplicativeSet -> Multiplicative(i)
    [] i.mn \in TransferSet -> Transfer(i)
    [] i.mn \in SubtractiveSet -> Subtractive(i)

(* A shift by a constant must be by one to eight bits.                       *)
Accepted(i) == i.mn \in Known /\ (i.mn \in {"ASL_Imm_Dn", "LSL_Imm_Dn"} => IsQuick(getConstInt(i.imm)))
=============================================================================
