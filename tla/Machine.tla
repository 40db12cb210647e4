------------------------------- MODULE Machine ------------------------------
(***************************************************************************)
(* What executes the code of an expression: a processor whose byte, word   *)
(* and long operations change only that much of a register, and the        *)
(* routines of amath.c and of mathffp.library the code calls.  The jumps   *)
(* of an expression all go forward, so that its code is executed in one    *)
(* pass: skip is the label a jump is on its way to.                        *)
(***************************************************************************)
EXTENDS Conditions

Garbage == (2 ^ Bits["L"] - 1) \div 3        (* what a register held before  *)
Low(w, p) == p % 2 ^ Bits[w]
Half == 2 ^ Bits["W"]
Hi(p) == p \div Half
Lo(p) == p % Half
LongOf(v) == Pattern("L", v)
LongIn(p) == Signed("L", p)

(* m.t: the registers and temps, def: those with a value, mem: the         *)
(* variables, stack: what is pushed, cmp: the values last compared.        *)
Put(m, t, w, v) ==
  LET old == m.t[t] IN
  [m EXCEPT !.t[t] = old - Low(w, old) + Pattern(w, v), !.def = @ \cup {t}]
Get(m, w, t) == Low(w, m.t[t])

(* __mulsi4, __udivsi4, __divsi4: long arithmetic from that of words.      *)
mulsi4(a, b) == LongOf(Lo(a) * Lo(b) + Half * Lo(Hi(b) * Lo(a)) + Half * Lo(Hi(a) * Lo(b)))
udivsi4(a, b) ==
  IF Hi(b) = 0
  THEN LET r1 == Hi(a) % b IN
       [q |-> Half * (Hi(a) \div b) + (Half * r1 + Lo(a)) \div b, r |-> (Half * r1 + Lo(a)) % b]
  ELSE LET steps[n \in 0..Bits["W"]] ==
             IF n = 0 THEN [q |-> Half * Lo(a), r |-> Hi(a)]
             ELSE With(steps[n - 1], LAMBDA s :
                    LET r == 2 * s.r + s.q \div 2 ^ (Bits["L"] - 1)
                        q == LongOf(2 * s.q) IN
                    IF b > r THEN [q |-> q, r |-> r] ELSE [q |-> q + 1, r |-> r - b])
       IN steps[Bits["W"]]
divsi4(a, b) ==
  LET negA == LongIn(a) < 0  negB == LongIn(b) < 0
      d == udivsi4(IF negA THEN LongOf(-a) ELSE a, IF negB THEN LongOf(-b) ELSE b) IN
  [q |-> IF negA THEN LongOf(-d.q) ELSE d.q,
   r |-> IF negA # negB THEN LongOf(-d.r) ELSE d.r]

(* amath.c's routines for small values: C promotes to int, the result is   *)
(* cut to the type; pow_* multiplies in the type all along.                *)
SubSize == [___mul_s1 |-> "byte", ___mul_u1 |-> "ubyte", ___div_s1 |-> "byte", ___div_u1 |-> "ubyte",
            ___mod_s1 |-> "byte", ___mod_u1 |-> "ubyte",
            ___pow_s1 |-> "byte", ___pow_u1 |-> "ubyte", ___pow_s2 |-> "integer", ___pow_u2 |-> "uinteger",
            ___pow_s4 |-> "long", ___pow_u4 |-> "ulong"]
PowLoop(ty, base, exp) ==
  LET power[n \in 0..exp] == IF n = 0 THEN 1 ELSE ValueOf(ty, Pattern(Size(ty), base * power[n - 1]))
  IN power[exp]
IntSub(sym, x, y) ==
  LET ty == SubSize[sym]
      a == ValueOf(ty, Low(Size(ty), x))  b == ValueOf(ty, Low(Size(ty), y)) IN
  CASE sym \in {"___mul_s1", "___mul_u1"} -> a * b
    [] sym \in {"___div_s1", "___div_u1"} -> Quo(a, b)
    [] sym \in {"___mod_s1", "___mod_u1"} -> Rem(a, b)
    [] OTHER -> PowLoop(ty, a, b)
NoAnswer(sym, y) ==                (* a division by 0; pow_* without an end *)
  \/ sym \in {"___div_s1", "___div_u1", "___mod_s1", "___mod_u1"} /\ Low("B", y) = 0
  \/ /\ sym \in {"___pow_s1", "___pow_s2", "___pow_s4"}
     /\ ValueOf(SubSize[sym], Low(Size(SubSize[sym]), y)) < 0

(* ... and for singles, which are rounded to LONGs first (CLNG_).          *)
CLNG(p) == Round(LongIn(p))
SPFlt(v) == LongOf(2 * v)
SingleSub(sym, x, y) ==
  LET a == CLNG(x)  b == CLNG(y) IN
  CASE sym = "___aqb_mod"           -> SPFlt(Rem(a, b))
    [] sym = "___aqb_intdiv_single" -> SPFlt(Quo(a, b))
    [] sym = "___aqb_shl_single"    -> SPFlt(a * 2 ^ Count(b))
    [] sym = "___aqb_shr_single"    -> SPFlt(a \div 2 ^ Count(b))
    [] sym = "___aqb_xor_single"    -> SPFlt(Signed("L", BitOp("xor", "L", a, b)))
    [] sym = "___aqb_eqv_single"    -> SPFlt(Signed("L", BitOp("eqv", "L", a, b)))
    [] sym = "___aqb_imp_single"    -> SPFlt(Signed("L", BitOp("imp", "L", a, b)))
    [] sym = "___aqb_and_single"    -> SPFlt(Signed("L", BitOp("and", "L", a, b)))
    [] sym = "___aqb_or_single"     -> SPFlt(Signed("L", BitOp("or", "L", a, b)))
    [] sym = "___pow_single"        -> LongOf(HalvesPower(LongIn(x), LongIn(y)))

(* A routine called with its arguments on the stack, the first on top.     *)
Fault(m) == [m EXCEPT !.bad = @ \cup {"fault"}]
Popped(m, n) == [m EXCEPT !.stack = SubSeq(@, 1, Len(@) - n)]
ByStack(m, sym, n) ==
  LET x == m.stack[Len(m.stack)]
      y == IF n = 2 THEN m.stack[Len(m.stack) - 1] ELSE x IN
  CASE NoAnswer(sym, y) -> Fault(m)
    [] sym \in DOMAIN SubSize /\ ~NoAnswer(sym, y) ->
         Put(Popped(m, n), D0, Size(SubSize[sym]), IntSub(sym, x, y))
    [] sym = "___aqb_not_single" -> Put(Popped(m, n), D0, "L", SPFlt(-1 - CLNG(x)))
    [] sym \in {"___aqb_mod", "___aqb_intdiv_single"} /\ CLNG(y) = 0 -> Fault(m)
    [] OTHER -> Put(Popped(m, n), D0, "L", SingleSub(sym, x, y))

(* A routine called with its arguments in D0 and D1.                       *)
ByRegisters(m, sym) ==
  LET x == m.t[D0]  y == m.t[D1]  a == LongIn(x)  b == LongIn(y) IN
  CASE sym \in {"___divsi4", "___modsi4"} /\ y = 0 -> Fault(m)
    [] sym = "___mulsi4" -> Put(m, D0, "L", mulsi4(x, y))
    [] sym = "___divsi4" /\ y # 0 -> Put(m, D0, "L", divsi4(x, y).q)
    [] sym = "___modsi4" /\ y # 0 -> Put(m, D0, "L", divsi4(x, y).r)
    [] sym = "SPAdd" -> Put(m, D0, "L", a + b)
    [] sym = "SPSub" -> Put(m, D0, "L", a - b)
    [] sym = "SPMul" -> Put(m, D0, "L", (a * b) \div 2)
    [] sym = "SPDiv" -> IF b = 0 THEN Fault(m) ELSE Put(m, D0, "L", Quo(2 * a, b))
    [] sym = "SPNeg" -> Put(m, D0, "L", -a)
    [] sym = "SPCmp" -> Put(m, D0, "L", IF b > a THEN 1 ELSE IF b = a THEN 0 ELSE -1)
    [] sym = "SPFlt" -> Put(m, D0, "L", SPFlt(a))
    [] sym = "SPFix" -> Put(m, D0, "L", Quo(a, 2))
-----------------------------------------------------------------------------
(* Instructions.  A variable holds a value of one size.                    *)
Access(m, w, var) == var \in DOMAIN m.mem /\ m.mem[var].w = w
Fetch(m, w, var, t) ==
  IF Access(m, w, var) THEN Put(m, t, w, m.mem[var].v) ELSE [m EXCEPT !.bad = @ \cup {"access"}]
Store(m, w, var, v) ==
  IF Access(m, w, var) THEN [m EXCEPT !.mem[var].v = Pattern(w, v)] ELSE [m EXCEPT !.bad = @ \cup {"access"}]

Binary(op, w, s, d) ==
  CASE op \in {"add", "add_imm"} -> d + s
    [] op \in {"sub", "sub_imm"} -> d - s
    [] op = "eor" -> d ^^ s  [] op = "or" -> d | s  [] op \in {"and", "and_imm"} -> d & s
    [] op = "neg" -> -d      [] op = "not" -> Complement(w, d)
    [] op \in {"asl", "lsl", "asl_imm"} -> d * 2 ^ s
    [] op = "asr" -> Signed(w, d) \div 2 ^ s
    [] op = "lsr" -> d \div 2 ^ s
Divided(m, i) ==
  LET signed == i.op = "divs"
      a == IF signed THEN LongIn(m.t[i.dst]) ELSE m.t[i.dst]
      b == IF signed THEN Signed("W", Get(m, "W", i.src)) ELSE Get(m, "W", i.src)
      q == IF b = 0 THEN 0 ELSE Quo(a, b)
      fits == IF signed THEN Signed("W", Pattern("W", q)) = q ELSE Pattern("W", q) = q IN
  CASE b = 0 -> Fault(m)
    [] b # 0 /\ fits  -> Put(m, i.dst, "L", Half * Pattern("W", Rem(a, b)) + Pattern("W", q))
    [] b # 0 /\ ~fits -> m
Multiplied(op, a, b) ==
  IF op \in {"muls", "muls_imm"} THEN Signed("W", a) * Signed("W", b) ELSE a * b

TwoOperands == {"add", "sub", "eor", "or", "and", "asl", "lsl", "asr", "lsr"}
WithImm     == {"add_imm", "sub_imm", "and_imm", "asl_imm"}
Reads(i) ==
  CASE i.op \in TwoOperands \cup {"cmp", "divs", "divu", "muls", "mulu", "store_ind"} -> {i.src, i.dst}
    [] i.op \in {"move", "load_ind", "store", "push"} -> {i.src}
    [] i.op = "tst" -> {i.src}
    [] i.op \in {"neg", "not", "ext", "swap", "sne", "muls_imm", "mulu_imm", "store_imm_ind"} \cup WithImm -> {i.dst}
    [] OTHER -> {}
Decided(m, i) ==
  i.sym = "ra" \/ Holds(i.sym, m.cmp[1 + 2 * (1 - i.src)], m.cmp[2 + 2 * (1 - i.src)])

Effect(m, i) ==
  CASE i.op = "move"      -> Put(m, i.dst, i.w, Get(m, i.w, i.src))
    [] i.op = "move_imm"  -> Put(m, i.dst, i.w, i.imm)
    [] i.op = "load"      -> Fetch(m, i.w, i.imm, i.dst)
    [] i.op = "load_ind"  -> Fetch(m, i.w, m.t[i.src], i.dst)
    [] i.op = "store"     -> Store(m, i.w, i.imm, Get(m, i.w, i.src))
    [] i.op = "store_ind" -> Store(m, i.w, m.t[i.dst], Get(m, i.w, i.src))
    [] i.op = "store_imm"     -> Store(m, i.w, i.imm, i.src)
    [] i.op = "store_imm_ind" -> Store(m, i.w, m.t[i.dst], i.imm)
    [] i.op = "lea"       -> Put(m, i.dst, "L", i.imm)
    [] i.op = "ext"       -> Put(m, i.dst, i.w, IF i.w = "W" THEN Signed("B", Get(m, "B", i.dst))
                                                            ELSE Signed("W", Get(m, "W", i.dst)))
    [] i.op = "swap"      -> Put(m, i.dst, "L", Half * Lo(m.t[i.dst]) + Hi(m.t[i.dst]))
    [] i.op = "sne"       -> Put(m, i.dst, "B", IF m.cmp[1] # m.cmp[2] THEN -1 ELSE 0)
    [] i.op \in {"muls", "mulu"} -> Put(m, i.dst, "L", Multiplied(i.op, Get(m, "W", i.dst), Get(m, "W", i.src)))
    [] i.op \in {"muls_imm", "mulu_imm"} ->
         Put(m, i.dst, "L", Multiplied(i.op, Get(m, "W", i.dst), Pattern("W", i.imm)))
    [] i.op \in {"divs", "divu"} -> Divided(m, i)
    [] i.op \in {"asl", "lsl", "asr", "lsr"} ->     (* the count: no more bits than a byte has *)
         Put(m, i.dst, i.w, Binary(i.op, i.w, Count(Get(m, "B", i.src)), Get(m, i.w, i.dst)))
    [] i.op \in {"add", "sub", "eor", "or", "and", "neg", "not"} ->
         Put(m, i.dst, i.w, Binary(i.op, i.w, Get(m, i.w, i.src), Get(m, i.w, i.dst)))
    [] i.op \in WithImm ->
         Put(m, i.dst, i.w, Binary(i.op, i.w, Pattern(i.w, i.imm), Get(m, i.w, i.dst)))
    [] i.op \in {"tst", "cmp"} ->       (* dst - src, or src - 0; signed, then as naturals *)
         LET a == IF i.op = "tst" THEN Get(m, i.w, i.src) ELSE Get(m, i.w, i.dst)
             b == IF i.op = "tst" THEN 0 ELSE Get(m, i.w, i.src) IN
         [m EXCEPT !.cmp = <<Signed(i.w, a), Signed(i.w, b), a, b>>]
    [] i.op = "bxx"   -> IF Decided(m, i) THEN [m EXCEPT !.skip = i.imm] ELSE m
    [] i.op = "label" -> m
    [] i.op = "push"  -> [m EXCEPT !.stack = Append(@, m.t[i.src])]
    [] i.op = "jsr"   -> IF i.imm = 0 THEN ByRegisters(m, i.sym) ELSE ByStack(m, i.sym, i.imm)

Step(i, m) ==
  CASE m.skip # 0 -> IF i.op = "label" /\ i.imm = m.skip THEN [m EXCEPT !.skip = 0] ELSE m
    [] m.skip = 0 /\ "fault" \in m.bad -> m
    [] m.skip = 0 /\ "fault" \notin m.bad ->
         With(Effect(m, i), LAMBDA n :
           IF Reads(i) \subseteq m.def THEN n ELSE [n EXCEPT !.bad = @ \cup {"undefined"}])

NewMachine(mem, temps) ==
  [t |-> [n \in 0..temps |-> Garbage], def |-> {}, mem |-> mem, stack |-> <<>>, skip |-> 0,
   cmp |-> <<0, 0, 0, 0>>, bad |-> {}]
Executed(g, mem) == FoldLeft(LAMBDA m, i : With(m, LAMBDA n : Step(i, n)), NewMachine(mem, g.temp), g.code)
=============================================================================
