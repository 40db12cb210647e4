------------------------------ MODULE RegAlloc ------------------------------
(***************************************************************************)
(* From a source to registers: Frontend emits the code, linscan.c finds    *)
(* the live intervals of its temps, allocates registers by linear scan and *)
(* rewrites the instructions; the result is executed on a 68000, beside an *)
(* execution of the code as it was emitted, in which every temp is a       *)
(* variable of its own, and beside what the language says of the source.   *)
(***************************************************************************)
EXTENDS LinearScan, Language

CONSTANTS
  Inputs,      (* values the program's variables may have at its start       *)
  Junk         (* values a register may hold at the program's start          *)

VARIABLES
  phase,       (* compile, extend, allocate, interpret or run                *)
  spans,       (* first and last instruction of every temp                   *)
  order,       (* the temps in the order of g_ivs                            *)
  pc,          (* index of the next instruction                              *)
  temps,       (* value of every temp in the code as emitted                 *)
  regs,        (* value of every machine register                            *)
  slots,       (* value of the frame slot of every spilled temp              *)
  memory,      (* the program's variables                                    *)
  cc,          (* operands of the last comparison                            *)
  trail        (* plain statements executed                                  *)

execVars == <<pc, temps, regs, slots, memory, cc, trail>>
allVars  == <<frontVars, langVars, vars, phase, spans, order, execVars>>

Undef == -1000                              (* a value nothing computes    *)

-----------------------------------------------------------------------------
(* computeLiveIntervals.                                                     *)

TempsOf(ins)   == {ins.src, ins.dst} \ {NoTemp}
CodeTemps(c)   == UNION {TempsOf(c[k]) : k \in DOMAIN c}
LabelIndex(c)  == [l \in {c[k].lab : k \in {x \in DOMAIN c : c[x].op = "label"}} |->
                     CHOOSE k \in DOMAIN c : c[k].op = "label" /\ c[k].lab = l]
(* isJump: AS_BRA is not one.                                                *)
Jumps(c)       == {k \in DOMAIN c : c[k].op = "bxx"}

Occurrences(c, t) == {k \in DOMAIN c : t \in TempsOf(c[k])}

(* One pass of the fixpoint: a temp that is live where a jump goes is live   *)
(* at the jump too.                                                          *)
Extended(c, s) ==
  LET target == LabelIndex(c)
      all == {s.first, s.last}
             \cup {k \in Jumps(c) : s.first <= target[c[k].lab] /\ target[c[k].lab] <= s.last}
  IN [first |-> Min(all), last |-> Max(all)]

(* AS_isPrecolored, g_regMapDn and g_regMapAn                                *)
Precolored(t)  == t < NumRegisters
RegIndex(t)    == IF t \in 8 .. 12 THEN t - 8 ELSE IF t \in 2 .. 3 THEN t - 2 ELSE NoReg
ColorOf(c, r)  == IF c = "D" THEN r + 8 ELSE r + 2        (* dRegSet, aRegSet *)

(* g_ivs: temps that start together are in the order of their numbers.       *)
ByNumber == SelectSeq([k \in 1 .. gen.temp |-> k - 1], LAMBDA t : t \in DOMAIN spans)
Sorted ==
  SortSeq(ByNumber, LAMBDA a, b : \/ spans[a].first < spans[b].first
                                  \/ (spans[a].first = spans[b].first /\ a < b))
IntervalOfTemp(t) ==
  [first |-> spans[t].first, last |-> spans[t].last, needsA |-> FALSE, needsD |-> ~Precolored(t),
   pre |-> Precolored(t), ri |-> IF Precolored(t) THEN RegIndex(t) ELSE NoReg]

-----------------------------------------------------------------------------
(* Where a temp is: in a register, or in a slot of the frame.                *)

IntervalOf(t) == CHOOSE k \in DOMAIN ivs : order[k] = t
InSlot(t)     == t # NoTemp /\ ~Precolored(t) /\ reg[IntervalOf(t)] = NoReg
Color(t)      == IF Precolored(t) THEN t ELSE ColorOf(Class(IntervalOf(t)), reg[IntervalOf(t)])

(* LS_regalloc's rewriting: a spilled source is fetched to d0, a spilled     *)
(* destination is written by way of d1, and fetched to it first when the     *)
(* instruction reads it (dstIsAlsoSrc).                                      *)
ReadsDst == {"add_imm", "cmp"}
SrcReg(ins)  == IF ins.src = NoTemp \/ InSlot(ins.src) THEN D0 ELSE Color(ins.src)
DstReg(ins)  == IF InSlot(ins.dst) THEN D1 ELSE Color(ins.dst)
FetchNoSrc(ins) ==
  IF ins.op \in ReadsDst /\ InSlot(ins.dst) THEN [regs EXCEPT ![D1] = slots[ins.dst]] ELSE regs
Fetched(ins) ==
  LET r == IF InSlot(ins.src) THEN [regs EXCEPT ![D0] = slots[ins.src]] ELSE regs
  IN IF ins.op \in ReadsDst /\ InSlot(ins.dst)
       THEN [r EXCEPT ![D1] = slots[ins.dst]] ELSE r

(* What an instruction computes, given the values of its operands.           *)
Result(ins, s, d) == CASE ins.op = "move_imm" -> ins.num
                       [] ins.op = "move_var" -> memory[ins.var]
                       [] ins.op = "move"     -> s
                       [] ins.op = "add_imm"  -> IF d = Undef THEN Undef ELSE d + ins.num
Sign(n) == IF n < 0 THEN -1 ELSE IF n > 0 THEN 1 ELSE 0
Function(fn, a, b) == CASE fn = "lib" -> 0
                        [] fn # "lib" /\ Undef \in {a, b} -> Undef
                        [] fn = "cmp" /\ Undef \notin {a, b} -> Sign(a - b)
                        [] fn = "add" /\ Undef \notin {a, b} -> a + b

-----------------------------------------------------------------------------
Nothing == [t \in {} |-> 0]

AllInit ==
  /\ CompileInit /\ phase = "compile"
  /\ ip = 1 /\ said = <<>> /\ env = [x \in 1 .. 4 |-> 0]
  /\ spans = Nothing /\ order = <<>>
  /\ ivs = <<>> /\ i = 1 /\ active = {} /\ reg = <<>> /\ failed = FALSE
  /\ busy = [c \in Classes |-> {}]
  /\ pc = 1 /\ temps = Nothing /\ regs = Nothing /\ slots = Nothing
  /\ memory = env /\ cc = <<0, 0>> /\ trail = <<>>

CompileStep ==
  /\ phase = "compile" /\ Compile
  /\ UNCHANGED <<langVars, vars, phase, spans, order, execVars>>

(* The naive intervals.                                                      *)
Occur ==
  /\ phase = "compile" /\ Compiled
  /\ spans' = [t \in CodeTemps(gen.code) |-> [first |-> Min(Occurrences(gen.code, t)),
                                               last |-> Max(Occurrences(gen.code, t))]]
  /\ phase' = "extend"
  /\ UNCHANGED <<frontVars, langVars, vars, order, execVars>>

Extend ==
  /\ phase = "extend"
  /\ spans' = [t \in DOMAIN spans |-> Extended(gen.code, spans[t])]
  /\ spans' # spans
  /\ UNCHANGED <<frontVars, langVars, vars, phase, order, execVars>>

(* quickSort, and the state linearScan starts with.                          *)
Sort ==
  /\ phase = "extend" /\ \A t \in DOMAIN spans : Extended(gen.code, spans[t]) = spans[t]
  /\ order' = Sorted
  /\ ivs' = [k \in DOMAIN order' |-> IntervalOfTemp(order'[k])]
  /\ reg' = [k \in DOMAIN order' |-> NoReg]
  /\ phase' = "allocate"
  /\ UNCHANGED <<frontVars, langVars, i, active, busy, failed, spans, execVars>>

Allocate ==
  /\ phase = "allocate" /\ Next
  /\ UNCHANGED <<frontVars, langVars, phase, spans, order, execVars>>

(* What the program should do is found out, then it is started.              *)
InterpretStep ==
  /\ phase = "interpret" /\ Interpret
  /\ UNCHANGED <<frontVars, vars, phase, spans, order, execVars>>

Allocated ==
  /\ phase = "allocate" /\ i > Len(ivs) /\ phase' = "interpret"
  /\ \E v \in Inputs : env' = [x \in 1 .. 4 |-> v]
  /\ memory' = env'
  /\ UNCHANGED <<frontVars, ip, said, vars, spans, order, pc, temps, regs, slots, cc, trail>>

Load ==
  /\ phase = "interpret" /\ Interpreted /\ phase' = "run"
  /\ \E v \in Junk : /\ regs' = [r \in 0 .. NumRegisters - 1 |-> v]
                     /\ slots' = [t \in DOMAIN spans |-> v]
  /\ temps' = [t \in DOMAIN spans \cup 0 .. NumRegisters - 1 |-> Undef]
  /\ UNCHANGED <<frontVars, langVars, vars, spans, order, pc, memory, cc, trail>>

-----------------------------------------------------------------------------
At(op) == /\ phase = "run" /\ pc \in DOMAIN gen.code /\ gen.code[pc].op = op
          /\ UNCHANGED <<frontVars, langVars, vars, phase, spans, order>>
Ins    == gen.code[pc]
Goto(l) == pc' = LabelIndex(gen.code)[l]
Step   == pc' = pc + 1

Skip(op) == At(op) /\ Step /\ UNCHANGED <<temps, regs, slots, memory, cc, trail>>

(* The moves and the addition.                                               *)
Compute(op) ==
  /\ At(op) /\ Step
  /\ LET r == Fetched(Ins)
         v == Result(Ins, r[SrcReg(Ins)], r[DstReg(Ins)])
     IN /\ regs' = [r EXCEPT ![DstReg(Ins)] = v]
        /\ slots' = IF InSlot(Ins.dst) THEN [slots EXCEPT ![Ins.dst] = v] ELSE slots
  /\ temps' = [temps EXCEPT ![Ins.dst] =
                 Result(Ins, IF Ins.src = NoTemp THEN Undef ELSE temps[Ins.src], @)]
  /\ UNCHANGED <<memory, cc, trail>>

Store ==
  /\ At("store") /\ Step
  /\ regs' = Fetched(Ins)
  /\ memory' = [memory EXCEPT ![Ins.var] = regs'[SrcReg(Ins)]]
  /\ UNCHANGED <<temps, slots, cc, trail>>

StoreImm ==
  /\ At("store_imm") /\ Step
  /\ memory' = [memory EXCEPT ![Ins.var] = Ins.num]
  /\ UNCHANGED <<temps, regs, slots, cc, trail>>

(* The code that compares its destination is written back when spilled.      *)
Compare ==
  /\ At("cmp") /\ Step
  /\ regs' = Fetched(Ins)
  /\ cc' = <<regs'[DstReg(Ins)], regs'[SrcReg(Ins)]>>
  /\ slots' = IF InSlot(Ins.dst) THEN [slots EXCEPT ![Ins.dst] = regs'[D1]] ELSE slots
  /\ UNCHANGED <<temps, memory, trail>>

Test ==
  /\ At("tst") /\ Step
  /\ regs' = Fetched(Ins)
  /\ cc' = <<regs'[SrcReg(Ins)], 0>>
  /\ UNCHANGED <<temps, slots, memory, trail>>

Branch ==
  /\ At("bxx")
  /\ IF Holds(Ins.sym, cc[1], cc[2]) THEN Goto(Ins.lab) ELSE Step
  /\ UNCHANGED <<temps, regs, slots, memory, cc, trail>>

BranchAlways ==
  /\ At("bra") /\ Goto(Ins.lab)
  /\ UNCHANGED <<temps, regs, slots, memory, cc, trail>>

(* A call: the result is in d0; a0, a1 and d1 are the callee's to use.       *)
Call ==
  /\ At("jsr") /\ Step
  /\ \E j \in Junk :
       regs' = [regs EXCEPT ![D0] = Function(Ins.sym, regs[D1], regs[D0]),
                            ![D1] = j, ![A0] = j, ![A1] = j]
  /\ temps' = [temps EXCEPT ![D0] = Function(Ins.sym, temps[D1], temps[D0]),
                            ![D1] = Undef, ![A0] = Undef, ![A1] = Undef]
  /\ UNCHANGED <<slots, memory, cc, trail>>

(* Bound: the machine stops when it has executed more than it should.        *)
Execute ==
  /\ At("stmt") /\ Step /\ Len(trail) <= Len(said)
  /\ trail' = Append(trail, Ins.num)
  /\ UNCHANGED <<temps, regs, slots, memory, cc>>

Run == \/ \E op \in {"nop", "label"} : Skip(op)
       \/ \E op \in {"move_imm", "move_var", "move", "add_imm"} : Compute(op)
       \/ Store \/ StoreImm \/ Compare \/ Test \/ Branch \/ BranchAlways \/ Call \/ Execute

AllNext == \/ CompileStep \/ Occur \/ Extend \/ Sort \/ Allocate \/ Allocated
           \/ InterpretStep \/ Load \/ Run
AllSpec == AllInit /\ [][AllNext]_allVars /\ WF_allVars(AllNext)

-----------------------------------------------------------------------------
Running  == phase = "run" /\ pc \in DOMAIN gen.code
Finished == phase = "run" /\ pc = Len(gen.code) + 1

MachineTypeOK ==
  /\ phase \in {"compile", "extend", "allocate", "interpret", "run"}
  /\ at \in 1 .. Len(source) + 1 /\ ip \in 1 .. Len(source) + 1
  /\ pc \in 1 .. Len(gen.code) + 1
  /\ \A k \in DOMAIN reg : reg[k] \in NoReg .. NumDRs - 1
  /\ phase = "run" => /\ DOMAIN regs = 0 .. NumRegisters - 1
                      /\ DOMAIN temps = DOMAIN slots \cup DOMAIN regs

(* Every jump of a compiled program has its label, once: whatever statements *)
(* are nested in each other and however their conditions were merged and     *)
(* inverted, the labels handed from one statement to the next are all placed *)
(* by the time the last one is closed.                                       *)
JumpsHaveTargets ==
  (phase = "extend") =>
    \A k \in DOMAIN gen.code :
      gen.code[k].op \in {"bra", "bxx"} =>
        Cardinality({l \in DOMAIN gen.code : /\ gen.code[l].op = "label"
                                             /\ gen.code[l].lab = gen.code[k].lab}) = 1

(* The intervals linear scan is given are those its correctness rests on:    *)
(* sorted by their first instruction.                                        *)
ScannedIsTable == phase = "allocate" => IsTable(ivs)

(* The temps the next instruction reads, and the values it reads for them.   *)
Reads == IF Ins.op = "jsr" THEN Ins.regs
         ELSE ({Ins.src} \cup (IF Ins.op \in ReadsDst THEN {Ins.dst} ELSE {})) \ {NoTemp}
ReadValue(t) == IF Precolored(t) THEN regs[t]
                ELSE IF InSlot(t) THEN slots[t] ELSE regs[Color(t)]

(* Allocation keeps the meaning of the code: whenever an instruction reads a *)
(* temp that has a value, its register or its slot holds that value,         *)
(* whatever other temps were put there before and between.                   *)
Agree == Running => \A t \in Reads : temps[t] # Undef => ReadValue(t) = temps[t]

(* The arguments of a call are in their registers when it is made, those     *)
(* whose temps were spilled included.                                        *)
ArgumentsInPlace ==
  Running /\ Ins.op = "jsr" => \A t \in Ins.regs : temps[t] # Undef => regs[t] = temps[t]

(* No instruction reads a temp that nothing wrote on the way to it.          *)
NoUndefinedUse == Running => \A t \in Reads : temps[t] # Undef

(* Whatever the program does, allocation and code fit each other at every  *)
(* step of it: the machine's types, jumps to labels that exist, a table    *)
(* that is sorted, and in every temp that is read the value that was       *)
(* written to it last.                                                     *)
CodeFits == MachineTypeOK /\ JumpsHaveTargets /\ ScannedIsTable /\ Agree /\ NoUndefinedUse

(* The program executes the statements the language says, in their order,    *)
(* and leaves the values in its variables: the code emitted for nested and   *)
(* exited loops, branches and cases, register by register.                   *)
RunsAsWritten ==
  /\ phase = "run" => IsPrefix(trail, said)
  /\ Finished => trail = said /\ memory = env

(* Every one of these programs comes to its end.                             *)
ComesToEnd == <>Finished
=============================================================================
