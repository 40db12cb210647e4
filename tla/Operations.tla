----------------------------- MODULE Operations -----------------------------
(***************************************************************************)
(* Values, operators and conversions: the instructions codegen.c emits for *)
(* them and the constants it computes itself, as pure operators.  The      *)
(* module Expressions has the frontend that calls them and the machine     *)
(* that executes the code.                                                 *)
(*                                                                         *)
(* An item is where a value is; a generator state g holds the code so far  *)
(* and the next temp and label.  Every operator returns a generator state  *)
(* and the item of its result.                                             *)
(***************************************************************************)
EXTENDS Integers, Sequences, SequencesExt, Bitwise

CONSTANTS
  Bits,        (* the bits of a machine size: "B", "W" and "L"               *)
  BigEndian    (* the compiler runs on a big-endian machine, as the Amiga is *)

ASSUME BitsAssumption ==
  /\ Bits \in [{"B", "W", "L"} -> Nat \ {0}]
  /\ BigEndian \in BOOLEAN
  /\ Bits["B"] <= Bits["W"] /\ Bits["L"] = 2 * Bits["W"]

Ints     == {"byte", "ubyte", "integer", "uinteger", "long", "ulong"}
Unsigned == {"ubyte", "uinteger", "ulong"}
Types    == Ints \cup {"bool", "single"}

(* CG_tySize.                                                              *)
Size(ty) == CASE ty \in {"byte", "ubyte"} -> "B"
              [] ty \in {"bool", "integer", "uinteger"} -> "W"
              [] ty \in {"long", "ulong", "single"} -> "L"

(* Bit patterns are naturals.  A single is a number of halves.             *)
Pattern(w, v) == v % 2 ^ Bits[w]
Signed(w, p)  == IF p >= 2 ^ (Bits[w] - 1) THEN p - 2 ^ Bits[w] ELSE p
ValueOf(ty, p) == IF ty \in Unsigned THEN p ELSE Signed(Size(ty), p)
Complement(w, p) == 2 ^ Bits[w] - 1 - p

(* Op of v: v is computed once.                                            *)
With(v, Op(_)) == CHOOSE r \in {Op(x) : x \in {v}} : TRUE
-----------------------------------------------------------------------------
(* Items: a constant, a temp, a variable in the frame or on the heap, a    *)
(* temp or a slot of the frame that holds the address of one, or a         *)
(* condition: code that falls through when it equals post and jumps to the *)
(* label val otherwise.                                                    *)
Item(kind, ty, val)  == [kind |-> kind, ty |-> ty, val |-> val, post |-> TRUE]
Const(ty, v)         == Item("const", ty, v)
Reg(ty, t)           == Item("reg", ty, t)
Cond(l, post)        == [kind |-> "cond", ty |-> "bool", val |-> l, post |-> post]
Refused(why)         == Item(why, "bool", 0)      (* or it never answers    *)
Stopped(item)        == item.kind \in {"assert", "error", "hang", "crash"}
Variables == {"frame", "heap"}

D0 == 0  D1 == 1  FirstTemp == 2
NewCode == [code |-> <<>>, temp |-> FirstTemp, label |-> 1]
Res(g, item) == [g |-> g, item |-> item]

Ins(op, w, src, dst) == [op |-> op, w |-> w, src |-> src, dst |-> dst, imm |-> 0, sym |-> ""]
Imm(op, w, imm, dst) == [Ins(op, w, 0, dst) EXCEPT !.imm = imm]
Mem(op, w, var, t)   == [Ins(op, w, t, t) EXCEPT !.imm = var]
Branch(sym, l)       == [Imm("bxx", "W", l, 0) EXCEPT !.sym = sym]
Jsr(sym, n)          == [Imm("jsr", "L", n, 0) EXCEPT !.sym = sym]
Emit(g, instrs)      == [g EXCEPT !.code = @ \o instrs]

(* A C int of the compiler: as wide as a LONG.                             *)
CInt(v) == Signed("L", Pattern("L", v))
Round(h) == IF h < 0 THEN -((1 - h) \div 2) ELSE (h + 1) \div 2

(* CG_getConstInt, CG_getConstFloat (in halves), CG_getConstBool.          *)
IntOf(c)   == IF c.ty = "single" THEN Round(c.val) ELSE c.val
FloatOf(c) == IF c.ty = "single" THEN c.val ELSE 2 * c.val
TrueConst(c) == c.val # 0
ConstBool(b) == Const("bool", IF b THEN -1 ELSE 0)
IsZero(item) == item.kind = "const" /\ ~TrueConst(item)

(* The constant a fold leaves, computed in C ints.                         *)
Folded(g, ty, v) == Res(g, Const(ty, IF ty = "single" THEN 2 * CInt(v) ELSE CInt(v)))

(* C's division of ints, and the helpers of the bitwise operators.         *)
Abs(v) == IF v < 0 THEN -v ELSE v
Quo(a, b) == IF (a < 0) = (b < 0) THEN Abs(a) \div Abs(b) ELSE -(Abs(a) \div Abs(b))
Rem(a, b) == a - b * Quo(a, b)
BitOp(op, w, a, b) ==
  LET p == Pattern(w, a)  q == Pattern(w, b) IN
  CASE op = "xor" -> p ^^ q
    [] op = "eqv" -> Complement(w, p ^^ q)
    [] op = "imp" -> Complement(w, p) | q
    [] op = "and" -> p & q
    [] op = "or"  -> p | q
-----------------------------------------------------------------------------
(* CG_loadVal: the value goes to the temp g.temp.  LoadCode is all but the *)
(* labels of a condition.                                                  *)
LoadCode(item, t) ==
  LET w == Size(item.ty) IN
  CASE item.kind = "reg"   -> <<Ins("move", w, item.val, t)>>
    [] item.kind = "const" -> <<Imm("move_imm", w, item.val, t)>>
    [] item.kind \in Variables -> <<Mem("load", w, item.val, t)>>
    [] item.kind = "ptr"   -> <<Ins("load_ind", w, item.val, t)>>
    [] item.kind = "ref"   -> <<Mem("load", "L", item.val, t + 1), Ins("load_ind", w, t + 1, t)>>
Loaded(g, item) ==
  IF item.kind = "cond"
  THEN [Emit(g, <<Imm("move_imm", "W", IF item.post THEN -1 ELSE 0, g.temp),
                  Branch("ra", g.label), Imm("label", "W", item.val, 0),
                  Imm("move_imm", "W", IF item.post THEN 0 ELSE -1, g.temp),
                  Imm("label", "W", g.label, 0)>>)
          EXCEPT !.temp = @ + 1, !.label = @ + 1]
  ELSE [Emit(g, LoadCode(item, g.temp)) EXCEPT !.temp = @ + 2]

LoadedItem(g, item) == Res(Loaded(g, item), Reg(item.ty, g.temp))

(* Op of the state behind both loads and of the temps they went to.        *)
LoadBoth(g, left, right, Op(_, _, _)) ==
  With(Loaded(g, left), LAMBDA h : Op(Loaded(h, right), g.temp, h.temp))

(* emitRegCall: the arguments go to registers, the result to a new temp.   *)
RegCall(g, sym, moves, ty) ==
  Res([Emit(g, [n \in 1..Len(moves) |-> Ins("move", "L", moves[n][1], moves[n][2])]
               \o <<Jsr(sym, 0), Ins("move", "L", D0, g.temp)>>) EXCEPT !.temp = @ + 1],
      Reg(ty, g.temp))

(* munchArgsStack: the arguments are pushed from last to first, a byte     *)
(* without what is above it.  emitBinOpJsr, emitUnaryOpJsr: the values are *)
(* loaded (again), and the result is assigned to the first one's temp.     *)
Pushed(ty, temps) ==
  FlattenSeq([n \in 1..Len(temps) |->
    LET t == temps[Len(temps) + 1 - n] IN
    (IF Size(ty) = "B" THEN <<Imm("and_imm", "L", 2 ^ Bits["B"] - 1, t)>> ELSE <<>>)
      \o <<Ins("push", "L", t, 0)>>])
BinOpJsr(g, sym, left, right, ty) ==
  LoadBoth(g, left, right, LAMBDA h, l, r :
    Res(Emit(h, Pushed(ty, <<l, r>>) \o <<Jsr(sym, 2), Ins("move", Size(ty), D0, l)>>), Reg(ty, l)))
UnaryOpJsr(g, sym, left, ty) ==
  Res(Emit(Loaded(g, left), Pushed(ty, <<g.temp>>) \o <<Jsr(sym, 1), Ins("move", Size(ty), D0, g.temp)>>),
      Reg(ty, g.temp))
-----------------------------------------------------------------------------
(* CG_transBinOp.  In place: op.x right, left.                             *)
InPlace(g, ops, left, right, ty) ==
  LoadBoth(g, left, right, LAMBDA h, l, r :
    Res(Emit(h, [n \in 1..Len(ops) |-> Ins(ops[n], Size(ty), r, l)]), Reg(ty, l)))

(* A call with both values in registers: left in the first one named.      *)
InRegs(g, sym, left, right, ty, regs) ==
  LoadBoth(g, left, right, LAMBDA h, l, r : RegCall(h, sym, <<<<l, regs[1]>>, <<r, regs[2]>>>>, ty))
SPAdd(g, left, right) == InRegs(g, "SPAdd", left, right, "single", <<D1, D0>>)
SPSub(g, left, right) == InRegs(g, "SPSub", left, right, "single", <<D0, D1>>)

(* c + ?, v + ?                                                            *)
Fails(g) == Res(g, Refused("assert"))
ConstPlus(g, left, right, ty) ==
  CASE IsZero(left) -> LoadedItem(g, right)
    [] ~IsZero(left) /\ right.kind = "const" /\ ty \in Ints ->
         Folded(g, ty, IntOf(left) + IntOf(right))
    [] ~IsZero(left) /\ right.kind = "const" /\ ty = "single" ->
         Res(g, Const(ty, FloatOf(left) + FloatOf(right)))
    [] ~IsZero(left) /\ right.kind # "const" /\ ty \in Ints ->
         Res(Emit(Loaded(g, right), <<Imm("add_imm", Size(ty), left.val, g.temp)>>), Reg(ty, g.temp))
    [] ~IsZero(left) /\ right.kind # "const" /\ ty = "single" -> SPAdd(g, left, right)
    [] OTHER -> Fails(g)
Plus(g, left, right, ty) ==
  CASE IsZero(right) -> LoadedItem(g, left)
    [] ~IsZero(right) /\ right.kind = "const" /\ ty \in Ints ->
         Res(Emit(Loaded(g, left), <<Imm("add_imm", Size(ty), right.val, g.temp)>>), Reg(ty, g.temp))
    [] right.kind \notin {"const", "cond"} /\ ty \in Ints -> InPlace(g, <<"add">>, left, right, ty)
    [] ~IsZero(right) /\ right.kind # "cond" /\ ty = "single" -> SPAdd(g, left, right)
    [] OTHER -> Fails(g)

(* c - ?, v - ?                                                            *)
ConstMinus(g, left, right, ty) ==
  CASE right.kind = "const" /\ ty \in Ints -> Folded(g, ty, IntOf(left) - IntOf(right))
    [] right.kind = "const" /\ ty = "single" -> Res(g, Const(ty, FloatOf(left) - FloatOf(right)))
    [] right.kind # "const" /\ ty \in Ints /\ IsZero(left) ->
         Res(Emit(Loaded(g, right), <<Ins("neg", Size(ty), 0, g.temp)>>), Reg(ty, g.temp))
    [] right.kind # "const" /\ ty \in Ints /\ ~IsZero(left) -> InPlace(g, <<"sub">>, left, right, ty)
    [] right.kind # "const" /\ ty = "single" -> SPSub(g, left, right)
    [] OTHER -> Fails(g)
Minus(g, left, right, ty) ==
  CASE IsZero(right) -> LoadedItem(g, left)
    [] ~IsZero(right) /\ right.kind = "const" /\ ty \in Ints ->
         Res(Emit(Loaded(g, left), <<Imm("sub_imm", Size(ty), right.val, g.temp)>>), Reg(ty, g.temp))
    [] right.kind \notin {"const", "cond"} /\ ty \in Ints -> InPlace(g, <<"sub">>, left, right, ty)
    [] ~IsZero(right) /\ right.kind # "cond" /\ ty = "single" -> SPSub(g, left, right)
    [] OTHER -> Fails(g)

(* Names of the subroutines of amath.c for the values of one byte.         *)
ByteSub == [mul |-> [byte |-> "___mul_s1", ubyte |-> "___mul_u1"],
            div |-> [byte |-> "___div_s1", ubyte |-> "___div_u1"],
            mod |-> [byte |-> "___mod_s1", ubyte |-> "___mod_u1"]]

(* A value times a constant c, by shifting when c is a power of two.       *)
Shifts == {1, 2, 4, 8, 16, 32, 64, 128, 256}
Log2(c) == CHOOSE n \in 0..8 : 2 ^ n = c
Shifted(c, w, t) ==
  IF c <= 4 THEN [n \in 1..Log2(c) |-> Ins("add", w, t, t)] ELSE <<Imm("asl_imm", w, Log2(c), t)>>
Times(g, c, item, ty, Otherwise(_)) ==
  CASE ty \in Ints /\ IntOf(c) \in Shifts ->
         Res(Emit(Loaded(g, item), Shifted(IntOf(c), Size(ty), g.temp)), Reg(ty, g.temp))
    [] ty \in {"integer", "uinteger"} /\ IntOf(c) \notin Shifts ->
         Res(Emit(Loaded(g, item), <<Imm(IF ty = "integer" THEN "muls_imm" ELSE "mulu_imm",
                                        Size(ty), c.val, g.temp)>>), Reg(ty, g.temp))
    [] OTHER -> Otherwise(g)

(* c * ?, v * ?                                                            *)
Product(g, left, right, ty) ==
  CASE ty \in {"byte", "ubyte"} -> BinOpJsr(g, ByteSub.mul[ty], left, right, ty)
    [] ty = "integer"  -> InPlace(g, <<"muls">>, left, right, ty)
    [] ty = "uinteger" -> InPlace(g, <<"mulu">>, left, right, ty)
    [] ty \in {"long", "ulong"} -> InRegs(g, "___mulsi4", left, right, ty, <<D0, D1>>)
    [] ty = "single" -> InRegs(g, "SPMul", left, right, ty, <<D0, D1>>)
    [] OTHER -> Fails(g)
ConstMul(g, left, right, ty) ==
  CASE IsZero(left) -> Res(g, left)
    [] ~IsZero(left) /\ right.kind = "const" /\ ty \in Ints -> Folded(g, ty, IntOf(left) * IntOf(right))
    [] ~IsZero(left) /\ right.kind = "const" /\ ty = "single" ->
         Res(g, Const(ty, (FloatOf(left) * FloatOf(right)) \div 2))
    [] ~IsZero(left) /\ right.kind # "const" ->
         Times(g, left, right, ty, LAMBDA h : Product(h, left, right, ty))
    [] OTHER -> Fails(g)
Mul(g, left, right, ty) ==
  CASE IsZero(right) -> Res(g, right)
    [] ~IsZero(right) /\ right.kind = "const" ->
         Times(g, right, left, ty, LAMBDA h : Product(h, left, right, ty))
    [] right.kind \notin {"const", "cond"} -> Product(g, left, right, ty)
    [] OTHER -> Fails(g)

(* c / ?, c \ ?, v / ?, v \ ?                                              *)
LongBy(g, ops, left, right, ty) ==
  LoadBoth(g, left, right, LAMBDA h, l, r :
    Res(Emit(h, <<Ins("ext", "L", 0, l)>> \o [n \in 1..Len(ops) |-> Ins(ops[n], Size(ty), r, l)]), Reg(ty, l)))
Div(g, o, left, right, ty) ==
  CASE ty \in {"byte", "ubyte"} -> BinOpJsr(g, ByteSub.div[ty], left, right, ty)
    [] ty = "integer"  -> LongBy(g, <<"divs">>, left, right, ty)
    [] ty = "uinteger" -> LongBy(g, <<"divu">>, left, right, ty)
    [] ty \in {"long", "ulong"} -> InRegs(g, "___divsi4", left, right, ty, <<D0, D1>>)
    [] ty = "single" /\ o = "div"    -> InRegs(g, "SPDiv", left, right, ty, <<D0, D1>>)
    [] ty = "single" /\ o = "intDiv" -> BinOpJsr(g, "___aqb_intdiv_single", left, right, ty)
    [] OTHER -> Fails(g)
Infinite == 2 ^ (Bits["L"] - 1) - 1
ConstDiv(g, o, left, right, ty) ==
  CASE right.kind # "const" -> Div(g, o, left, right, ty)
    [] right.kind = "const" /\ ty = "single" /\ o = "div" ->
         Res(g, Const(ty, IF FloatOf(right) = 0 THEN Infinite ELSE Quo(2 * FloatOf(left), FloatOf(right))))
    [] right.kind = "const" /\ ty # "bool" /\ (ty # "single" \/ o = "intDiv") ->
         IF IntOf(right) = 0 THEN Res(g, Refused("crash"))
         ELSE Folded(g, ty, Quo(IntOf(left), IntOf(right)))
    [] OTHER -> Fails(g)

(* c MOD ?, v MOD ?                                                        *)
Mod(g, left, right, ty) ==
  CASE ty \in {"byte", "ubyte"} -> BinOpJsr(g, ByteSub.mod[ty], left, right, ty)
    [] ty = "integer"  -> LongBy(g, <<"divs", "swap">>, left, right, ty)
    [] ty = "uinteger" -> LongBy(g, <<"divu", "swap">>, left, right, ty)
    [] ty \in {"long", "ulong"} -> InRegs(g, "___modsi4", left, right, ty, <<D0, D1>>)
    [] ty = "single" -> BinOpJsr(g, "___aqb_mod", left, right, ty)
    [] OTHER -> Fails(g)
ConstMod(g, left, right, ty) ==
  CASE right.kind # "const" -> Mod(g, left, right, ty)
    [] right.kind = "const" /\ ty # "bool" ->
         IF IntOf(right) = 0 THEN Res(g, Refused("crash"))
         ELSE Folded(g, ty, Rem(IntOf(left), IntOf(right)))
    [] OTHER -> Fails(g)
-----------------------------------------------------------------------------
(* Shifts by less than 0 or more than a LONG has bits are undefined in C.  *)
Count(n) == IF n \in 0..Bits["L"] THEN n ELSE Bits["L"]

(* SHL, SHR: only a constant on the left is shifted as unsigned when it is *)
(* a byte.                                                                 *)
ShiftBy(g, o, logical, left, right, ty) ==
  CASE ty \in logical        -> InPlace(g, <<IF o = "shl" THEN "lsl" ELSE "lsr">>, left, right, ty)
    [] ty \in Ints \ logical -> InPlace(g, <<IF o = "shl" THEN "asl" ELSE "asr">>, left, right, ty)
    [] ty = "single" ->
         BinOpJsr(g, IF o = "shl" THEN "___aqb_shl_single" ELSE "___aqb_shr_single", left, right, ty)
    [] OTHER -> Fails(g)
ConstShl(g, left, right, ty) ==
  CASE right.kind # "const" -> ShiftBy(g, "shl", Unsigned, left, right, ty)
    [] right.kind = "const" /\ ty # "bool" -> Folded(g, ty, IntOf(left) * 2 ^ Count(IntOf(right)))
    [] OTHER -> Fails(g)
ConstShr(g, left, right, ty) ==
  CASE right.kind # "const" -> ShiftBy(g, "shr", Unsigned, left, right, ty)
    [] right.kind = "const" /\ ty # "bool" -> Folded(g, ty, IntOf(left) \div 2 ^ Count(IntOf(right)))
    [] OTHER -> Fails(g)
Shl(g, left, right, ty) == ShiftBy(g, "shl", {"uinteger", "ulong"}, left, right, ty)
Shr(g, left, right, ty) == ShiftBy(g, "shr", {"uinteger", "ulong"}, left, right, ty)

(* ipow, which does not end for an exponent below 0; c ^ ?, v ^ ?          *)
PowSub == [byte |-> "___pow_s1", ubyte |-> "___pow_u1", integer |-> "___pow_s2", uinteger |-> "___pow_u2",
           long |-> "___pow_s4", ulong |-> "___pow_u4", single |-> "___pow_single"]
ipow(base, exp) ==
  LET power[n \in 0..exp] == IF n = 0 THEN 1 ELSE CInt(base * power[n - 1]) IN power[exp]
(* pow of two numbers of halves; the roots and fractions a negative or     *)
(* broken exponent gives are not told apart.                               *)
HalvesPower(base, exp) ==
  LET power[n \in 0..(exp \div 2)] == IF n = 0 THEN 2 ELSE CInt((base * power[n - 1]) \div 2) IN
  IF exp >= 0 THEN power[exp \div 2] ELSE 0
ConstPower(g, left, right, ty) ==
  CASE right.kind # "const" /\ ty # "bool" -> BinOpJsr(g, PowSub[ty], left, right, ty)
    [] right.kind = "const" /\ ty \in Ints ->
         IF IntOf(right) < 0 THEN Res(g, Refused("hang"))
         ELSE Folded(g, ty, ipow(IntOf(left), IntOf(right)))
    [] right.kind = "const" /\ ty = "single" ->
         Res(g, Const(ty, HalvesPower(FloatOf(left), FloatOf(right))))
    [] OTHER -> Fails(g)
Power(g, left, right, ty) ==
  CASE right.kind = "const" /\ ty \in Ints /\ IntOf(right) = 0 -> Res(g, Const(ty, 1))
    [] right.kind = "const" /\ ty \in Ints /\ IntOf(right) = 1 -> Res(g, left)
    [] right.kind = "const" /\ ty \in Ints /\ IntOf(right) \notin {0, 1} ->
         BinOpJsr(g, PowSub[ty], left, right, ty)
    [] right.kind = "const" /\ ty = "single" -> BinOpJsr(g, PowSub[ty], left, right, ty)
    [] right.kind \in {"frame", "reg", "heap", "ref"} /\ ty # "bool" -> BinOpJsr(g, PowSub[ty], left, right, ty)
    [] OTHER -> Fails(g)

(* -c, -v                                                                  *)
ConstNeg(g, left, ty) ==
  CASE ty \in Ints -> Folded(g, ty, -IntOf(left))
    [] ty = "single" -> Res(g, Const(ty, -FloatOf(left)))
    [] OTHER -> Fails(g)
Neg(g, left, ty) ==
  CASE ty \in {"bool", "byte", "integer", "long"} ->
         Res(Emit(Loaded(g, left), <<Ins("neg", Size(ty), 0, g.temp)>>), Reg(ty, g.temp))
    [] ty = "single" -> RegCall(Loaded(g, left), "SPNeg", <<<<g.temp, D0>>>>, ty)
    [] OTHER -> Fails(g)
-----------------------------------------------------------------------------
(* A folded truth value is written as the integer 1 and read as a char.    *)
BoolAsInt(b) == ConstBool(b /\ ~BigEndian)

(* XOR, EQV, IMP, NOT, AND and OR of constants: xor, and and or in C ints, *)
(* the others in the width of an unsigned type.                            *)
FoldBits(g, o, left, right, ty) ==
  LET w == IF ty \in Unsigned /\ o \in {"eqv", "imp"} THEN Size(ty) ELSE "L"
      p == BitOp(o, w, IntOf(left), IntOf(right)) IN
  IF ty = "bool" THEN Res(g, BoolAsInt(Signed("L", BitOp(o, "L", left.val, right.val)) # 0))
                 ELSE Folded(g, ty, IF w = "L" THEN Signed("L", p) ELSE p)

BitSub == [xor |-> "___aqb_xor_single", eqv |-> "___aqb_eqv_single", imp |-> "___aqb_imp_single",
           and |-> "___aqb_and_single", or |-> "___aqb_or_single"]
BitCode == [xor |-> <<"eor">>, eqv |-> <<"eor", "not">>, imp |-> <<"not", "or">>, and |-> <<"and">>, or |-> <<"or">>]
Combined(g, o, left, right, ty) ==
  IF ty = "single" THEN BinOpJsr(g, BitSub[o], left, right, ty) ELSE InPlace(g, BitCode[o], left, right, ty)

ConstXor(g, left, right, ty) ==
  IF right.kind = "const" THEN FoldBits(g, "xor", left, right, ty) ELSE Combined(g, "xor", left, right, ty)
ConstEqv(g, left, right, ty) ==
  IF right.kind = "const" THEN FoldBits(g, "eqv", left, right, ty) ELSE Combined(g, "eqv", left, right, ty)
ConstImp(g, left, right, ty) ==
  IF right.kind = "const" THEN FoldBits(g, "imp", left, right, ty) ELSE Combined(g, "imp", left, right, ty)
ConstAnd(g, left, right, ty) ==
  CASE IsZero(left) -> Res(g, left)
    [] ~IsZero(left) /\ right.kind = "const" -> FoldBits(g, "and", left, right, ty)
    [] ~IsZero(left) /\ right.kind # "const" -> Combined(g, "and", left, right, ty)
ConstOr(g, left, right, ty) ==
  CASE IsZero(left) -> Res(g, right)
    [] ~IsZero(left) /\ right.kind = "const" -> FoldBits(g, "or", left, right, ty)
    [] ~IsZero(left) /\ right.kind # "const" -> Combined(g, "or", left, right, ty)
ConstNot(g, left, ty) ==
  CASE ty = "bool"      -> Res(g, ConstBool(~TrueConst(left)))
    [] ty \in Unsigned -> Folded(g, ty, Complement(Size(ty), Pattern(Size(ty), IntOf(left))))
    [] OTHER            -> Folded(g, ty, -1 - IntOf(left))

VarXor(g, left, right, ty) == Combined(g, "xor", left, right, ty)
VarEqv(g, left, right, ty) == Combined(g, "eqv", left, right, ty)
VarImp(g, left, right, ty) == Combined(g, "imp", left, right, ty)
VarAnd(g, left, right, ty) == IF IsZero(right) THEN Res(g, right) ELSE Combined(g, "and", left, right, ty)
VarOr(g, left, right, ty)  == IF IsZero(right) THEN Res(g, left) ELSE Combined(g, "or", left, right, ty)
VarNot(g, left, ty) ==
  IF ty = "single" THEN UnaryOpJsr(g, "___aqb_not_single", left, ty)
  ELSE Res(Emit(Loaded(g, left), <<Ins("not", Size(ty), 0, g.temp)>>), Reg(ty, g.temp))

CG_transBinOp(g, o, left, right, ty) ==
  LET c == left.kind = "const" IN
  CASE o = "plus"  -> IF c THEN ConstPlus(g, left, right, ty) ELSE Plus(g, left, right, ty)
    [] o = "minus" -> IF c THEN ConstMinus(g, left, right, ty) ELSE Minus(g, left, right, ty)
    [] o = "mul"   -> IF c THEN ConstMul(g, left, right, ty) ELSE Mul(g, left, right, ty)
    [] o \in {"div", "intDiv"} -> IF c THEN ConstDiv(g, o, left, right, ty) ELSE Div(g, o, left, right, ty)
    [] o = "mod"   -> IF c THEN ConstMod(g, left, right, ty) ELSE Mod(g, left, right, ty)
    [] o = "shl"   -> IF c THEN ConstShl(g, left, right, ty) ELSE Shl(g, left, right, ty)
    [] o = "shr"   -> IF c THEN ConstShr(g, left, right, ty) ELSE Shr(g, left, right, ty)
    [] o = "power" -> IF c THEN ConstPower(g, left, right, ty) ELSE Power(g, left, right, ty)
    [] o = "neg"   -> IF c THEN ConstNeg(g, left, ty) ELSE Neg(g, left, ty)
    [] o = "xor"   -> IF c THEN ConstXor(g, left, right, ty) ELSE VarXor(g, left, right, ty)
    [] o = "eqv"   -> IF c THEN ConstEqv(g, left, right, ty) ELSE VarEqv(g, left, right, ty)
    [] o = "imp"   -> IF c THEN ConstImp(g, left, right, ty) ELSE VarImp(g, left, right, ty)
    [] o = "not"   -> IF c THEN ConstNot(g, left, ty) ELSE VarNot(g, left, ty)
    [] o = "and"   -> IF c THEN ConstAnd(g, left, right, ty) ELSE VarAnd(g, left, right, ty)
    [] o = "or"    -> IF c THEN ConstOr(g, left, right, ty) ELSE VarOr(g, left, right, ty)
=============================================================================
