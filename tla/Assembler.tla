----------------------------- MODULE Assembler -----------------------------
(***************************************************************************)
(* The assembler (assem.c) as compiler.c drives it: the fragments the code *)
(* generator left are turned, one after the other, into a code and a data  *)
(* segment.  A label that is not defined yet leaves a fixup behind, which  *)
(* defineLabel patches and AS_resolveLabels turns into a reference for the *)
(* linker.  The memory of a segment is the sequence of its bytes up to     *)
(* mem_pos.                                                                *)
(***************************************************************************)
EXTENDS Instructions, M68k, FiniteSets

CONSTANTS
  Debug,         (* OPTION_DEBUG                                             *)
  BranchReach    (* a displacement is one of 2 * BranchReach numbers: 32768  *)

VARIABLES
  source,        (* the fragments of the program                             *)
  asm,           (* what the driver is at, or how it ended                   *)
  frags,         (* the fragments left, the one being assembled first        *)
  rest,          (* what is left of it: instructions, or nodes of data       *)
  obj,           (* the two segments of the AS_object                        *)
  labels,        (* obj->labels                                              *)
  cur_line, first_label, code_start,    (* the locals of AS_assembleCode     *)
  unresolved,    (* the labels AS_resolveLabels has not come to              *)
  EM_anyErrors,
  listing,       (* history: the instructions, and where they are            *)
  uses           (* history: the places that name a label                    *)

place == <<cur_line, first_label, code_start>>
said == <<listing, uses>>
asmVars == <<source, asm, frags, rest, obj, labels, place, unresolved, EM_anyErrors, said>>

(* AS_ensureSegmentSize, on a segment that has memory.                       *)
Ensured(size, min) ==
  IF size >= min THEN size
  ELSE size * 2 ^ (CHOOSE k \in 1 .. 20 : size * 2 ^ k >= min /\ size * 2 ^ (k - 1) < min)

AS_Segment(size) ==
  [mem |-> <<>>, mem_size |-> size, relocs |-> <<>>, refs |-> <<>>, defs |-> <<>>,
   srcMap |-> <<>>, frameMap |-> <<>>, globals |-> <<>>]

AS_Object == [code |-> AS_Segment(16 * 1024), data |-> AS_Segment(64)]

(* The driver starts on the fragments of a program.                          *)
Start(fragments) ==
  /\ source = fragments /\ frags = fragments
  /\ asm = "fragment" /\ rest = <<>>
  /\ obj = AS_Object /\ labels = <<>>
  /\ cur_line = -1 /\ first_label = TRUE /\ code_start = 0
  /\ unresolved = {} /\ EM_anyErrors = FALSE
  /\ listing = <<>> /\ uses = {}

mem_pos(s) == Len(obj[s].mem)

(* emit_u1, emit_u2 and emit_u4.                                             *)
Emitted(segment, bytes) ==
  [segment EXCEPT !.mem = @ \o bytes, !.mem_size = Ensured(@, Len(segment.mem) + Len(bytes))]

Give(how) == asm' = how /\ UNCHANGED <<source, frags, rest, obj, labels, place, unresolved, EM_anyErrors, said>>

-----------------------------------------------------------------------------
(* emit_Label: the bytes for a label at this place, the fixup it leaves if   *)
(* the label is not defined yet, the relocation if it is.                    *)
IsDefined(l) == l \in DOMAIN labels /\ labels[l].defined

Short(o) == Bytes(Word16(((o + BranchReach) % (2 * BranchReach)) - BranchReach))
Address32(o) == Bytes(Word32(o))

LabelBytes(l, offset, displacement) ==
  IF displacement THEN Short(IF IsDefined(l) THEN labels[l].offset - offset ELSE 0)
  ELSE Address32(IF IsDefined(l) THEN labels[l].offset ELSE 0)

Undefined(fixups) == [defined |-> FALSE, seg |-> None, offset |-> 0, fixups |-> fixups, ty |-> FALSE]

LabelsUsing(l, s, offset, displacement) ==
  LET fixup == [seg |-> s, offset |-> offset, displacement |-> displacement]
  IN IF l = None \/ IsDefined(l) THEN labels
     ELSE IF l \in DOMAIN labels THEN [labels EXCEPT ![l].fixups = <<fixup>> \o @]
     ELSE [k \in DOMAIN labels \cup {l} |-> IF k = l THEN Undefined(<<fixup>>) ELSE labels[k]]

RelocsUsing(l, offset, displacement) ==
  IF l # None /\ ~ displacement /\ IsDefined(l) THEN <<[to |-> labels[l].seg, offset |-> offset]>> ELSE <<>>

(* Only a displacement to a label defined before is checked.                 *)
TooFar(l, offset, displacement) ==
  /\ displacement /\ IsDefined(l)
  /\ labels[l].offset - offset \notin -BranchReach .. BranchReach - 1

(* defineLabel: the fixups the label left are patched.                       *)
Fixups(l) == IF l \in DOMAIN labels THEN labels[l].fixups ELSE <<>>
Patch(fixup, offset) == IF fixup.displacement THEN Short(offset - fixup.offset) ELSE Address32(offset)

Patched(mem, s, fixups, offset) ==
  LET here == {fixups[k] : k \in {j \in DOMAIN fixups : fixups[j].seg = s}}
      covers(f, p) == p > f.offset /\ p <= f.offset + (IF f.displacement THEN 2 ELSE 4)
  IN [p \in DOMAIN mem |->
        IF \E f \in here : covers(f, p)
        THEN LET f == CHOOSE f \in here : covers(f, p) IN Patch(f, offset)[p - f.offset]
        ELSE mem[p]]

(* As if a patched address was final.                                        *)
PatchedRelocsForgotten(s, fixups, to) == <<>>

PatchedRelocs(s, fixups, to) ==
  LET here == SelectSeq(fixups, LAMBDA f : f.seg = s /\ ~ f.displacement)
  IN Reverse([k \in DOMAIN here |-> [to |-> to, offset |-> here[k].offset]])

Defining(segments, l, s, expt) ==
  LET offset == Len(segments[s].mem)
      at(k) == [segments[k] EXCEPT !.mem = Patched(@, k, Fixups(l), offset),
                                   !.relocs = PatchedRelocs(k, Fixups(l), s) \o @,
                                   !.defs = IF expt /\ k = s THEN <<[sym |-> l, offset |-> offset]>> \o @ ELSE @]
  IN [code |-> at("code"), data |-> at("data")]

LabelsDefining(l, s, offset, ty) ==
  [k \in DOMAIN labels \cup {l} |->
     IF k = l THEN [defined |-> TRUE, seg |-> s, offset |-> offset, fixups |-> <<>>, ty |-> ty] ELSE labels[k]]

(* A branch to a label of the data segment is an assertion.                  *)
BranchesElsewhere(l, s) == \E k \in DOMAIN Fixups(l) : Fixups(l)[k].displacement /\ Fixups(l)[k].seg # s
Definable(l, s) == ~ IsDefined(l) /\ ~ BranchesElsewhere(l, s)

-----------------------------------------------------------------------------
(* AS_assembleCode: a procedure is taken up, an instruction is assembled, a  *)
(* label defined; only the first label of a procedure is exported.           *)
Current == Head(frags)

(* As if the line last noted was remembered from one procedure to the next.  *)
ProcFragmentGoingOn ==
  /\ asm = "fragment" /\ frags # <<>> /\ Current.kind = "proc"
  /\ asm' = "code" /\ rest' = Current.body
  /\ cur_line' = cur_line /\ first_label' = TRUE /\ code_start' = mem_pos("code")
  /\ UNCHANGED <<source, frags, obj, labels, unresolved, EM_anyErrors, said>>

ProcFragment ==
  /\ asm = "fragment" /\ frags # <<>> /\ Current.kind = "proc"
  /\ asm' = "code" /\ rest' = Current.body
  /\ cur_line' = -1 /\ first_label' = TRUE /\ code_start' = mem_pos("code")
  /\ UNCHANGED <<source, frags, obj, labels, unresolved, EM_anyErrors, said>>

AtCode == asm = "code" /\ rest # <<>>

(* A line is noted when it is beyond those noted before.                     *)
WithLine(segment, line) ==
  IF Debug /\ line > cur_line THEN [segment EXCEPT !.srcMap = Append(@, [line |-> line, offset |-> mem_pos("code")])]
  ELSE segment
NoteLine(line) == cur_line' = IF Debug /\ line > cur_line THEN line ELSE cur_line

DefineCodeLabel ==
  /\ AtCode /\ Head(rest).mn = "LABEL"
  /\ LET l == Head(rest).label
     IN /\ Definable(l, "code")
        /\ obj' = Defining([obj EXCEPT !.code = WithLine(@, Head(rest).line)], l, "code",
                           Current.expt /\ first_label)
        /\ labels' = LabelsDefining(l, "code", mem_pos("code"), FALSE)
  /\ NoteLine(Head(rest).line)
  /\ first_label' = FALSE
  /\ rest' = Tail(rest)
  /\ UNCHANGED <<source, asm, frags, code_start, unresolved, EM_anyErrors, said>>

AssembleInstruction ==
  /\ AtCode /\ Head(rest).mn # "LABEL" /\ Accepted(Head(rest))
  /\ \E i \in {Head(rest)} : \E e \in {Encoding(i)} : \E at \in {mem_pos("code") + 2 * Len(e.head)} :
       /\ ~ TooFar(e.label, at, e.displacement)
       /\ obj' = [obj EXCEPT !.code =
                    [Emitted(WithLine(@, i.line),
                             Bytes(e.head) \o (IF e.label = None THEN <<>> ELSE LabelBytes(e.label, at, e.displacement))
                               \o Bytes(e.tail))
                       EXCEPT !.relocs = RelocsUsing(e.label, at, e.displacement) \o @]]
       /\ labels' = LabelsUsing(e.label, "code", at, e.displacement)
       /\ uses' = IF e.label = None THEN uses
                  ELSE uses \cup {[seg |-> "code", offset |-> at, label |-> e.label, displacement |-> e.displacement]}
       /\ listing' = Append(listing, [instr |-> i, at |-> mem_pos("code")])
  /\ NoteLine(Head(rest).line)
  /\ rest' = Tail(rest)
  /\ UNCHANGED <<source, asm, frags, first_label, code_start, unresolved, EM_anyErrors>>

(* FALSE is returned: a label for the second time, a branch too far back.    *)
AssembleFails ==
  /\ AtCode
  /\ \/ Head(rest).mn = "LABEL" /\ IsDefined(Head(rest).label)
     \/ Head(rest).mn \in DOMAIN Conditions /\ TooFar(Head(rest).label, mem_pos("code") + 2, TRUE)
  /\ Give("failed")

AssembleAsserts ==
  /\ AtCode /\ Head(rest).mn # "LABEL" /\ ~ Accepted(Head(rest))
  /\ Give("assert")

(* The frame's variables, for the debugger; the ones without a name are not  *)
(* noted, and the last comes first.                                          *)
EndProc ==
  /\ asm = "code" /\ rest = <<>>
  /\ LET named == SelectSeq(Current.frame, LAMBDA v : v.sym # None)
         frame == [label |-> Current.label, code_start |-> code_start, code_end |-> mem_pos("code"),
                   vars |-> Reverse(named)]
     IN obj' = IF Debug THEN [obj EXCEPT !.code.frameMap = Append(@, frame)] ELSE obj
  /\ asm' = "fragment" /\ frags' = Tail(frags)
  /\ UNCHANGED <<source, rest, labels, place, unresolved, EM_anyErrors, said>>

-----------------------------------------------------------------------------
(* Strings and data.  The data segment is aligned before each fragment.      *)
AS_assembleDataAlign2 == IF mem_pos("data") % 2 = 1 THEN Emitted(obj.data, <<0>>) ELSE obj.data
Aligned == [obj EXCEPT !.data = AS_assembleDataAlign2]
Zeros(n) == [k \in 1 .. n |-> 0]

StringFragment ==
  /\ asm = "fragment" /\ frags # <<>> /\ Current.kind = "string"
  /\ Definable(Current.label, "data")
  /\ LET defined == Defining(Aligned, Current.label, "data", FALSE)
     IN /\ obj' = [defined EXCEPT !.data = Emitted(@, Current.bytes)]
        /\ labels' = LabelsDefining(Current.label, "data", Len(Aligned.data.mem), FALSE)
  /\ frags' = Tail(frags)
  /\ UNCHANGED <<source, asm, rest, place, unresolved, EM_anyErrors, said>>

EmptyFragment ==
  /\ asm = "fragment" /\ frags # <<>> /\ Current.kind = "data" /\ Current.size = 0
  /\ frags' = Tail(frags)
  /\ UNCHANGED <<source, asm, rest, obj, labels, place, unresolved, EM_anyErrors, said>>

(* Without a list of nodes the fragment is so many bytes of zeros.           *)
DataFragment ==
  /\ asm = "fragment" /\ frags # <<>> /\ Current.kind = "data" /\ Current.size > 0
  /\ Definable(Current.label, "data")
  /\ LET defined == Defining(Aligned, Current.label, "data", Current.expt)
     IN obj' = IF Current.init = <<>> THEN [defined EXCEPT !.data = Emitted(@, Zeros(Current.size))] ELSE defined
  /\ labels' = LabelsDefining(Current.label, "data", Len(Aligned.data.mem), Current.ty)
  /\ IF Current.init = <<>> THEN asm' = asm /\ rest' = rest /\ frags' = Tail(frags)
     ELSE asm' = "data" /\ rest' = Current.init /\ frags' = frags
  /\ UNCHANGED <<source, place, unresolved, EM_anyErrors, said>>

AtData(kind) == asm = "data" /\ rest # <<>> /\ Head(rest).kind = kind

LabelNode ==
  /\ AtData("label") /\ Definable(Head(rest).label, "data")
  /\ obj' = Defining(obj, Head(rest).label, "data", Head(rest).expt)
  /\ labels' = LabelsDefining(Head(rest).label, "data", mem_pos("data"), FALSE)
  /\ rest' = Tail(rest)
  /\ UNCHANGED <<source, asm, frags, place, unresolved, EM_anyErrors, said>>

(* A constant by its type; the characters of a string and a zero behind.     *)
ConstBytes(c) ==
  CASE c.ty \in {"integer", "uinteger"} -> Bytes(Word16(c.i))
    [] c.ty \in {"long", "ulong"} -> Bytes(Word32(c.i))
    [] c.ty = "single" -> Bytes(c.ffp)
    [] c.ty = "string" -> c.chars \o <<0>>

ConstNode ==
  /\ AtData("const")
  /\ obj' = [obj EXCEPT !.data = Emitted(@, ConstBytes(Head(rest).c))]
  /\ rest' = Tail(rest)
  /\ UNCHANGED <<source, asm, frags, labels, place, unresolved, EM_anyErrors, said>>

PtrNode ==
  /\ AtData("ptr")
  /\ LET l == Head(rest).label
         at == mem_pos("data")
     IN /\ obj' = [obj EXCEPT !.data =
                     [Emitted(@, IF l = None THEN Zeros(4) ELSE LabelBytes(l, at, FALSE))
                        EXCEPT !.relocs = RelocsUsing(l, at, FALSE) \o @]]
        /\ labels' = LabelsUsing(l, "data", at, FALSE)
        /\ uses' = IF l = None THEN uses
                   ELSE uses \cup {[seg |-> "data", offset |-> at, label |-> l, displacement |-> FALSE]}
  /\ rest' = Tail(rest)
  /\ UNCHANGED <<source, asm, frags, place, unresolved, EM_anyErrors, listing>>

EndData ==
  /\ asm = "data" /\ rest = <<>>
  /\ asm' = "fragment" /\ frags' = Tail(frags)
  /\ UNCHANGED <<source, rest, obj, labels, place, unresolved, EM_anyErrors, said>>

(* The label the data fragment at hand would define.                         *)
NextDataLabel ==
  CASE asm = "fragment" /\ frags # <<>> ->
         IF Current.kind = "string" \/ (Current.kind = "data" /\ Current.size > 0) THEN Current.label ELSE None
    [] AtData("label") -> Head(rest).label
    [] OTHER -> None
DataFails == NextDataLabel # None /\ IsDefined(NextDataLabel) /\ Give("failed")
DataAsserts ==
  /\ NextDataLabel # None /\ ~ IsDefined(NextDataLabel) /\ BranchesElsewhere(NextDataLabel, "data")
  /\ Give("assert")

-----------------------------------------------------------------------------
(* AS_resolveLabels goes through a hash table.  A label that is not defined  *)
(* is the linker's, unless a branch goes there.                              *)
StartResolve ==
  /\ asm = "fragment" /\ frags = <<>>
  /\ asm' = "resolve" /\ unresolved' = DOMAIN labels
  /\ UNCHANGED <<source, frags, rest, obj, labels, place, EM_anyErrors, said>>

External(l, s) ==
  LET addresses == SelectSeq(labels[l].fixups, LAMBDA f : f.seg = s /\ ~ f.displacement)
  IN Reverse([k \in DOMAIN addresses |-> [sym |-> l, offset |-> addresses[k].offset]])

WithExternal(segment, s, l) == IF labels[l].defined THEN segment ELSE [segment EXCEPT !.refs = External(l, s) \o @]

ResolveLabel(l) ==
  /\ asm = "resolve" /\ l \in unresolved
  /\ LET code == WithExternal(obj.code, "code", l)
         data == WithExternal(obj.data, "data", l)
         global == <<[label |-> l, offset |-> labels[l].offset]>>
         seen(segment, s) == IF Debug /\ labels[l].ty /\ labels[l].seg = s
                             THEN [segment EXCEPT !.globals = global \o @] ELSE segment
     IN obj' = [code |-> seen(code, "code"), data |-> seen(data, "data")]
  /\ EM_anyErrors' = IF ~ labels[l].defined /\ \E k \in DOMAIN labels[l].fixups : labels[l].fixups[k].displacement
                     THEN TRUE ELSE EM_anyErrors
  /\ unresolved' = unresolved \ {l}
  /\ UNCHANGED <<source, asm, frags, rest, labels, place, said>>

Assembled ==
  /\ asm = "resolve" /\ unresolved = {}
  /\ Give(IF EM_anyErrors THEN "failed" ELSE "done")

Code == ProcFragment \/ DefineCodeLabel \/ AssembleInstruction \/ AssembleFails \/ AssembleAsserts \/ EndProc
Data == \/ StringFragment \/ EmptyFragment \/ DataFragment \/ LabelNode \/ ConstNode \/ PtrNode \/ EndData
        \/ DataFails \/ DataAsserts
Next == Code \/ Data \/ StartResolve \/ (\E l \in unresolved : ResolveLabel(l)) \/ Assembled

-----------------------------------------------------------------------------
(* What the code generator means by an instruction, in the manual's terms.   *)
DataRegisters == <<"d0", "d1", "d2", "d3", "d4", "d5", "d6", "d7">>
AddressRegisters == <<"a0", "a1", "a2", "a3", "a4", "a5", "a6", "a7">>
Bit(r) == IF r \in {DataRegisters[k] : k \in DOMAIN DataRegisters}
          THEN 2 ^ ((CHOOSE k \in DOMAIN DataRegisters : DataRegisters[k] = r) - 1)
          ELSE 2 ^ ((CHOOSE k \in DOMAIN AddressRegisters : AddressRegisters[k] = r) + 7)
Register(r) ==
  IF \E k \in DOMAIN DataRegisters : DataRegisters[k] = r
  THEN Operand("d", (CHOOSE k \in DOMAIN DataRegisters : DataRegisters[k] = r) - 1, 0)
  ELSE Operand("a", (CHOOSE k \in DOMAIN AddressRegisters : AddressRegisters[k] = r) - 1, 0)

LabelValue(l) == IF IsDefined(l) THEN labels[l].offset ELSE 0
Constant(c, w) ==
  CASE c.ty = "bool" -> IF c.i = 0 THEN 0 ELSE -1
    [] c.ty = "single" /\ w = "L" -> Signed32(c.ffp[1], c.ffp[2])
    [] OTHER -> IF w = "B" THEN Signed8(c.i % 256) ELSE IF w = "W" THEN Signed16(c.i % 65536) ELSE c.i

Means(kind, r, i, at) ==
  CASE kind = "Reg" -> Register(r)
    [] kind = "RAn" -> Operand("(a)", Register(r).reg, 0)
    [] kind = "OAn" -> Operand("d(a)", Register(r).reg, i.offset)
    [] kind = "Imm" -> Operand("#", 0, Constant(i.imm, i.w))
    [] kind = "Label" -> Operand("abs", 0, LabelValue(i.label))
    [] kind = "ILabel" -> Operand("#", 0, LabelValue(i.label))
    [] kind = "Target" -> Operand("pc", 0, LabelValue(i.label) - (at + 2))
    [] kind = "Ofp" -> Operand("d(a)", 5, i.offset)
    [] kind = "PDsp" -> Operand("-(a)", 7, 0)
    [] kind = "spPI" -> Operand("(a)+", 7, 0)
    [] kind = "sp" -> Operand("a", 7, 0)
    [] kind = "fp" -> Operand("a", 5, 0)
    [] kind = "Rs" -> Operand("regs", 0, SumSet({Bit(q) : q \in i.regs}))
    [] kind = "-" -> NoOperand

(* Operation, source and destination of every instruction.                   *)
Statement ==
  [ADD_AnDn_AnDn |-> <<"add", "Reg", "Reg">>, ADD_Imm_AnDn |-> <<"add", "Imm", "Reg">>, ADD_Imm_sp |-> <<"add", "Imm", "sp">>,
   AND_Dn_Dn |-> <<"and", "Reg", "Reg">>, AND_Imm_Dn |-> <<"and", "Imm", "Reg">>,
   ASL_Dn_Dn |-> <<"asl", "Reg", "Reg">>, ASL_Imm_Dn |-> <<"asl", "Imm", "Reg">>, ASR_Dn_Dn |-> <<"asr", "Reg", "Reg">>,
   LSL_Dn_Dn |-> <<"lsl", "Reg", "Reg">>, LSL_Imm_Dn |-> <<"lsl", "Imm", "Reg">>, LSR_Dn_Dn |-> <<"lsr", "Reg", "Reg">>,
   BRA |-> <<"bra", "-", "Target">>, BEQ |-> <<"beq", "-", "Target">>, BNE |-> <<"bne", "-", "Target">>,
   BLT |-> <<"blt", "-", "Target">>, BGT |-> <<"bgt", "-", "Target">>, BLE |-> <<"ble", "-", "Target">>,
   BGE |-> <<"bge", "-", "Target">>, BLO |-> <<"blo", "-", "Target">>, BHI |-> <<"bhi", "-", "Target">>,
   BLS |-> <<"bls", "-", "Target">>, BHS |-> <<"bhs", "-", "Target">>,
   CMP_Dn_Dn |-> <<"cmp", "Reg", "Reg">>, DIVS_Dn_Dn |-> <<"divs", "Reg", "Reg">>, DIVU_Dn_Dn |-> <<"divu", "Reg", "Reg">>,
   EOR_Dn_Dn |-> <<"eor", "Reg", "Reg">>, EXT_Dn |-> <<"ext", "-", "Reg">>, LEA_Ofp_An |-> <<"lea", "Ofp", "Reg">>,
   LINK_fp |-> <<"link", "Imm", "fp">>, MOVEM_Rs_PDsp |-> <<"movem", "Rs", "PDsp">>, MOVEM_spPI_Rs |-> <<"movem", "spPI", "Rs">>,
   MOVE_AnDn_AnDn |-> <<"move", "Reg", "Reg">>, MOVE_Imm_RAn |-> <<"move", "Imm", "RAn">>,
   MOVE_Imm_AnDn |-> <<"move", "Imm", "Reg">>, MOVE_AnDn_RAn |-> <<"move", "Reg", "RAn">>,
   MOVE_RAn_AnDn |-> <<"move", "RAn", "Reg">>, MOVE_AnDn_PDsp |-> <<"move", "Reg", "PDsp">>,
   MOVE_Imm_PDsp |-> <<"move", "Imm", "PDsp">>, MOVE_ILabel_AnDn |-> <<"move", "ILabel", "Reg">>,
   MOVE_Label_AnDn |-> <<"move", "Label", "Reg">>, MOVE_Label_Ofp |-> <<"move", "Label", "Ofp">>,
   MOVE_AnDn_Label |-> <<"move", "Reg", "Label">>, MOVE_Ofp_AnDn |-> <<"move", "Ofp", "Reg">>,
   MOVE_Ofp_RAn |-> <<"move", "Ofp", "RAn">>, MOVE_Ofp_Label |-> <<"move", "Ofp", "Label">>,
   MOVE_AnDn_Ofp |-> <<"move", "Reg", "Ofp">>, MOVE_Imm_Ofp |-> <<"move", "Imm", "Ofp">>,
   MOVE_Imm_Label |-> <<"move", "Imm", "Label">>,
   MULS_Dn_Dn |-> <<"muls", "Reg", "Reg">>, MULS_Imm_Dn |-> <<"muls", "Imm", "Reg">>,
   MULU_Dn_Dn |-> <<"mulu", "Reg", "Reg">>, MULU_Imm_Dn |-> <<"mulu", "Imm", "Reg">>,
   NEG_Dn |-> <<"neg", "-", "Reg">>, NOT_Dn |-> <<"not", "-", "Reg">>, OR_Dn_Dn |-> <<"or", "Reg", "Reg">>,
   JSR_Label |-> <<"jsr", "-", "Label">>, JSR_An |-> <<"jsr", "-", "RAn">>, JSR_RAn |-> <<"jsr", "-", "OAn">>,
   RTS |-> <<"rts", "-", "-">>, SNE_Dn |-> <<"sne", "-", "Reg">>, SUB_Dn_Dn |-> <<"sub", "Reg", "Reg">>,
   SUB_Imm_AnDn |-> <<"sub", "Imm", "Reg">>, SWAP_Dn |-> <<"swap", "-", "Reg">>, TST_Dn |-> <<"tst", "-", "Reg">>,
   UNLK_fp |-> <<"unlk", "-", "fp">>]

OperationSize(i, op) ==
  CASE op \in {"jsr", "rts", "swap", "unlk"} -> "none"
    [] op = "sne" -> "B"
    [] op = "lea" -> "L"
    [] op \in {"divs", "divu", "muls", "mulu", "link"} \/ i.mn \in DOMAIN Conditions -> "W"
    [] OTHER -> i.w

(* JSR and TST name their only operand src.                                  *)
Only(i) == IF i.mn \in {"JSR_An", "JSR_RAn", "TST_Dn"} THEN i.src ELSE i.dst

Meant(i, at, length) ==
  LET s == Statement[i.mn]
  IN Says(s[1], OperationSize(i, s[1]), Means(s[2], i.src, i, at), Means(s[3], Only(i), i, at), length)

(* The words of the memory from an offset up to another.                     *)
WordsBetween(mem, from, to) == [k \in 1 .. (to - from) \div 2 |-> mem[from + 2 * k - 1] * 256 + mem[from + 2 * k]]
Until(k) == IF k = Len(listing) THEN mem_pos("code") ELSE listing[k + 1].at

InReach(offset, l) == LabelValue(l) - offset \in -BranchReach .. BranchReach - 1
Reaches(i, at) == i.mn \in DOMAIN Conditions => InReach(at + 2, i.label)

(* A processor that reads the assembled code finds, one behind the other,    *)
(* the instructions the code generator wrote: operation, size, registers,    *)
(* constants, offsets, addresses and branch targets, whether their labels    *)
(* came before or after them (AS_assembleCode, emit_Label, defineLabel).     *)
InstructionsEncoded ==
  asm = "done" =>
    \A k \in DOMAIN listing :
      \E item \in {listing[k]} : \E words \in {WordsBetween(obj.code.mem, item.at, Until(k))} :
        Reaches(item.instr, item.at) => Decoded(words) = Meant(item.instr, item.at, Len(words))

(* Every place that names a label is bound once: one of a label defined here *)
(* by a relocation, one of any other by a reference for the linker, and a    *)
(* branch by neither.  A branch back that does not reach is never assembled. *)
Places(s, defined) == {u \in uses : u.seg = s /\ ~ u.displacement /\ IsDefined(u.label) = defined}
LabelsBound ==
  asm = "done" =>
    /\ \A s \in {"code", "data"} :
         /\ Len(obj[s].relocs) = Cardinality(Places(s, TRUE))
         /\ \A u \in Places(s, TRUE) : \E k \in DOMAIN obj[s].relocs :
              obj[s].relocs[k] = [to |-> labels[u.label].seg, offset |-> u.offset]
         /\ Len(obj[s].refs) = Cardinality(Places(s, FALSE))
         /\ \A u \in Places(s, FALSE) : \E k \in DOMAIN obj[s].refs :
              obj[s].refs[k] = [sym |-> u.label, offset |-> u.offset]
    /\ \A u \in uses : u.displacement =>
         /\ IsDefined(u.label) /\ labels[u.label].seg = "code"
         /\ labels[u.label].offset <= u.offset => InReach(u.offset, u.label)
    /\ \A u \in uses : u.seg = "data" =>
         WordsBetween(obj.data.mem, u.offset, u.offset + 4) = Word32(LabelValue(u.label))

(* The line table gives an instruction its own line, in every procedure      *)
(* whose lines do not go back; the debugger reports where a program stopped. *)
LineAt(offset) ==
  LET before == {k \in DOMAIN obj.code.srcMap : obj.code.srcMap[k].offset <= offset}
  IN IF before = {} THEN 0 ELSE obj.code.srcMap[Max(before)].line
InOrder(frame) ==
  \A j, k \in DOMAIN listing :
    (/\ j < k /\ listing[j].at >= frame.code_start /\ listing[k].at < frame.code_end)
      => listing[j].instr.line <= listing[k].instr.line
LinesFound ==
  \A f \in DOMAIN obj.code.frameMap :
    InOrder(obj.code.frameMap[f]) =>
      \A k \in DOMAIN listing :
        (/\ listing[k].at >= obj.code.frameMap[f].code_start
         /\ listing[k].at < obj.code.frameMap[f].code_end) => LineAt(listing[k].at) = listing[k].instr.line

(* The assembler gives up on a label that is there twice, a branch without a *)
(* label or too far from one before it, and on nothing else; it asserts on a *)
(* shift by too much, an instruction it does not know or a branch to data.   *)
LabelPlaces(f) ==
  CASE f.kind = "proc" -> {<<f.body[k].label, k>> : k \in {j \in DOMAIN f.body : f.body[j].mn = "LABEL"}}
    [] f.kind = "data" /\ f.size = 0 -> {}
    [] f.kind = "data" /\ f.size > 0 ->
         {<<f.label, 0>>} \cup {<<f.init[k].label, k>> : k \in {j \in DOMAIN f.init : f.init[j].kind = "label"}}
    [] f.kind = "string" -> {<<f.label, 0>>}
LabelPlacesIn(kinds) ==
  UNION {{<<p[1], k, p[2]>> : p \in LabelPlaces(source[k])} : k \in {j \in DOMAIN source : source[j].kind \in kinds}}
AllPlaces == LabelPlacesIn({"proc", "data", "string"})
Twice == \E p, q \in AllPlaces : p # q /\ p[1] = q[1]
AllInstructions ==
  UNION {{source[k].body[j] : j \in DOMAIN source[k].body} : k \in {j \in DOMAIN source : source[j].kind = "proc"}}
BranchTargets == {i.label : i \in {j \in AllInstructions : j.mn \in DOMAIN Conditions}}
Missing == BranchTargets \ {p[1] : p \in AllPlaces} # {}
ToData == BranchTargets \cap {p[1] : p \in LabelPlacesIn({"data", "string"})} # {}
Refused == \E i \in AllInstructions : i.mn # "LABEL" /\ ~ Accepted(i)
FarBack == rest # <<>> /\ ~ InReach(mem_pos("code") + 2, Head(rest).label)

RefusalsExplained ==
  /\ asm = "failed" => Twice \/ Missing \/ FarBack
  /\ asm = "assert" => ToData \/ Refused
  /\ asm = "done" => ~ (Twice \/ Missing \/ Refused)
=============================================================================
