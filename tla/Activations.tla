----------------------------- MODULE Activations ----------------------------
(***************************************************************************)
(* A program of procedures from its first line to its last instruction:    *)
(* the frontend reads it line by line (Procedures), and a 68000 executes   *)
(* what was generated, with its stack in memory, byte by byte: arguments,  *)
(* return addresses, saved frame pointers and local variables are where    *)
(* the code has put them.  The temps of an activation are its own, as the  *)
(* register allocation and the saving of registers make them.              *)
(***************************************************************************)
EXTENDS Procedures

CONSTANTS
  Programs,    (* sequences of lines                                        *)
  Radix,       (* values of a byte                                          *)
  StackTop,    (* size of the memory; the stack grows down from its end     *)
  Rubbish      (* what is in a register or in memory nobody wrote           *)

ASSUME ActivationsAssumption == Radix \in Nat \ {0, 1} /\ StackTop \in Nat /\ Rubbish \in Nat

VARIABLES
  prog,        (* the source                                                *)
  at,          (* the line FE_sourceProgram reads                           *)
  phase,       (* source, refused, running, crashed or done                 *)
  gen,         (* what the frontend knows and has generated                 *)
  cpu          (* the machine                                               *)
vars == <<prog, at, phase, gen, cpu>>

Idle == [frag |-> 0, pc |-> 0, mem |-> <<>>, sp |-> 0, fp |-> 0, temps |-> <<>>, saved |-> <<>>]

Init == prog \in Programs /\ at = 1 /\ phase = "source" /\ gen = Start /\ cpu = Idle

-----------------------------------------------------------------------------
(* One line; the first error is the end of it.                             *)
Reading(op) == phase = "source" /\ at \in DOMAIN prog /\ prog[at].op = op
Continue(g) ==
  /\ gen' = g
  /\ IF g.error = "" THEN at' = at + 1 /\ UNCHANGED phase ELSE phase' = "refused" /\ UNCHANGED at
  /\ UNCHANGED <<prog, cpu>>
Statement(Op(_)) == Continue(Guarded(gen, prog[at].guard, Op))

ReadDeclare == Reading("declare") /\ Continue(stmtProcDecl(gen, prog[at]))
ReadBegin   == Reading("begin") /\ Continue(stmtProcBegin(gen, prog[at]))
ReadEnd     == Reading("end") /\ Continue(stmtEnd(gen, prog[at]))
ReadSub     == Reading("sub") /\ Statement(LAMBDA g : subCall(g, prog[at]))
ReadCall    == Reading("call") /\ Statement(LAMBDA g : stmtCall(g, prog[at]))
ReadLet     == Reading("let") /\ Statement(LAMBDA g : assignment(g, prog[at]))
ReadReturn  == Reading("return") /\ Statement(LAMBDA g : stmtReturn(g, prog[at].exp))

-----------------------------------------------------------------------------
(* Memory: the first byte of a number is the highest.                      *)
Digit(v, k)  == (v \div Radix^k) % Radix
Written(m, a, n, v) == [x \in DOMAIN m |-> IF x \in a .. a + n - 1 THEN Digit(v, a + n - 1 - x) ELSE m[x]]
ReadAt(m, a, n) == CASE n = 1 -> m[a]
                     [] n = 2 -> m[a] * Radix + m[a + 1]
                     [] n = 4 -> ((m[a] * Radix + m[a + 1]) * Radix + m[a + 2]) * Radix + m[a + 3]
Inside(m, a, n) == a \in DOMAIN m /\ a + n - 1 \in DOMAIN m
Low(v, n)  == v % Radix^n
Over(old, v, n) == old - Low(old, n) + v                 (* the low bytes   *)
Extended(v, ty) ==
  LET low == Low(v, Size(ty)) IN
  IF ty # "ubyte" /\ 2 * low >= Radix^Size(ty) THEN low + Radix^4 - Radix^Size(ty) ELSE low

FragOf(label) == {k \in DOMAIN gen.frags : gen.frags[k].label = label}
Address(frag, pc) == 128 * frag + pc                   (* of an instruction *)

(* The start-up code calls the main program.                               *)
Loaded(g) ==
  LET top == StackTop - 4 IN
  [Idle EXCEPT !.frag = Len(g.frags), !.sp = top, !.fp = StackTop,
     !.mem = Written([x \in 0 .. StackTop - 1 |-> IF x < g.heap THEN 0 ELSE Rubbish % Radix], top, 4, Address(0, 1))]
LoadProgram ==
  /\ phase = "source" /\ at > Len(prog)
  /\ gen' = SourceEnd(gen)
  /\ IF gen'.error = "" /\ LabelsOnce(gen') THEN phase' = "running" /\ cpu' = Loaded(gen')
                                            ELSE phase' = "refused" /\ UNCHANGED cpu
  /\ UNCHANGED <<prog, at>>

-----------------------------------------------------------------------------
(* Instructions.                                                           *)
Code == gen.frags[cpu.frag].code
Ins  == Code[cpu.pc]
Running(op) == phase = "running" /\ cpu.pc \in DOMAIN Code /\ Ins[1] = op
Become(c)   == cpu' = c /\ UNCHANGED <<prog, at, phase, gen>>
Crash       == phase' = "crashed" /\ UNCHANGED <<prog, at, gen, cpu>>

TempAt(t) == IF t \in DOMAIN cpu.temps THEN cpu.temps[t] ELSE Rubbish
Next1     == [cpu EXCEPT !.pc = @ + 1]
Put(t, v) == Become([Next1 EXCEPT !.temps = (t :> v) @@ @])
Place(mode, ref) == CASE mode = "frame" -> cpu.fp + ref [] mode = "heap" -> ref [] mode = "ind" -> TempAt(ref)

Move ==
  \/ Running("movei") /\ Put(Ins[2], Ins[3] % Radix^4)
  \/ Running("move") /\ Put(Ins[2], TempAt(Ins[3]))
  \/ Running("lea") /\ Put(Ins[2], cpu.fp + Ins[3])
  \/ Running("ext") /\ Put(Ins[2], Extended(TempAt(Ins[2]), Ins[3]))
  \/ Running("and") /\ Put(Ins[2], Low(TempAt(Ins[2]), 1))
  \/ Running("add") /\ Put(Ins[2], (TempAt(Ins[2]) + TempAt(Ins[3])) % Radix^4)
Load ==
  /\ Running("load")
  /\ LET a == Place(Ins[4], Ins[5]) IN
     IF Inside(cpu.mem, a, Ins[3]) THEN Put(Ins[2], Over(TempAt(Ins[2]), ReadAt(cpu.mem, a, Ins[3]), Ins[3]))
                                   ELSE Crash
Store ==
  /\ Running("store")
  /\ LET a == Place(Ins[4], Ins[5]) IN
     IF Inside(cpu.mem, a, Ins[3]) THEN Become([Next1 EXCEPT !.mem = Written(@, a, Ins[3], TempAt(Ins[2]))])
                                   ELSE Crash
Goto(l) == CHOOSE k \in DOMAIN Code : Code[k] = <<"label", l>>
Jump ==
  \/ Running("label") /\ Become(Next1)
  \/ Running("bra") /\ Become([cpu EXCEPT !.pc = Goto(Ins[2])])
  \/ /\ Running("beq")
     /\ Become([cpu EXCEPT !.pc = IF Low(TempAt(Ins[2]), Ins[3]) = 0 THEN Goto(Ins[4]) ELSE @ + 1])

(* The stack.                                                              *)
OnStack(c, v) == [c EXCEPT !.sp = @ - 4, !.mem = Written(@, c.sp - 4, 4, v)]
Push == Running("push") /\ IF cpu.sp >= gen.heap + 4 THEN Become(OnStack(Next1, TempAt(Ins[2]))) ELSE Crash
Pop  == Running("pop") /\ Become([Next1 EXCEPT !.sp = @ + 4 * Ins[2]])
Jsr ==
  /\ Running("jsr")
  /\ IF cpu.sp >= gen.heap + 4 /\ FragOf(Ins[2]) # {}
     THEN Become([OnStack(cpu, Address(cpu.frag, cpu.pc + 1)) EXCEPT
                    !.frag = CHOOSE k \in FragOf(Ins[2]) : TRUE, !.pc = 0,
                    !.saved = Append(@, cpu.temps), !.temps = <<>>])
     ELSE Crash

(* CG_procEntryExitAS: link before the body, unlk and rts after it.        *)
Link ==
  /\ phase = "running" /\ cpu.pc = 0
  /\ LET frame == gen.frags[cpu.frag].size IN
     IF cpu.sp >= gen.heap + frame + 4
     THEN Become([OnStack(cpu, cpu.fp) EXCEPT !.fp = cpu.sp - 4, !.sp = @ - frame, !.pc = 1]) ELSE Crash
Unlink ==
  /\ phase = "running" /\ cpu.pc = Len(Code) + 1
  /\ IF ~Inside(cpu.mem, cpu.fp, 8) THEN Crash
     ELSE LET to == ReadAt(cpu.mem, cpu.fp + 4, 4)  frag == to \div 128
              over == [cpu EXCEPT !.sp = cpu.fp + 8, !.fp = ReadAt(cpu.mem, @, 4)] IN
          CASE frag = 0 -> phase' = "done" /\ cpu' = over /\ UNCHANGED <<prog, at, gen>>
            [] frag \in DOMAIN gen.frags /\ cpu.saved # <<>> ->
                 Become([over EXCEPT !.frag = frag, !.pc = to % 128,
                           !.temps = (0 :> TempAt(0)) @@ Last(cpu.saved), !.saved = Front(@)])
            [] OTHER -> Crash

Read    == ReadDeclare \/ ReadBegin \/ ReadEnd \/ ReadSub \/ ReadCall \/ ReadLet \/ ReadReturn
Execute == Move \/ Load \/ Store \/ Jump \/ Push \/ Pop \/ Jsr \/ Link \/ Unlink
Next == Read \/ LoadProgram \/ Execute
Spec == Init /\ [][Next]_vars
=============================================================================
