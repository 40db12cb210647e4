------------------------------- MODULE Meaning ------------------------------
(***************************************************************************)
(* What an expression means, apart from how it is compiled: integers and   *)
(* halves, no sizes and no temps.  And the places where the compiled code  *)
(* is known to differ.                                                     *)
(***************************************************************************)
EXTENDS Expressions

Width(ty) == Bits[CASE ty \in {"byte", "ubyte"} -> "B" [] ty \in {"integer", "uinteger"} -> "W" [] OTHER -> "L"]
Least(ty) == IF ty = "bool" THEN -1 ELSE IF ty \in {"ubyte", "uinteger", "ulong"} THEN 0 ELSE -(2 ^ (Width(ty) - 1))
Most(ty)  == CASE ty = "bool" -> 0
               [] ty \in {"ubyte", "uinteger", "ulong"} -> 2 ^ Width(ty) - 1
               [] OTHER -> 2 ^ (Width(ty) - 1) - 1

(* Values are counted in halves.  A type has the value h.                  *)
Whole(h) == h % 2 = 0
Has(ty, h) == IF ty = "single" THEN Least(ty) <= h /\ h <= Most(ty)
                               ELSE Whole(h) /\ 2 * Least(ty) <= h /\ h <= 2 * Most(ty)

(* The narrowest type that holds what both hold; LONG if none does.        *)
ByWidth == <<"bool", "byte", "ubyte", "integer", "uinteger", "long", "ulong">>
Common(t1, t2) ==
  LET holds(i) == \A t \in {t1, t2} : Least(ByWidth[i]) <= Least(t) /\ Most(t) <= Most(ByWidth[i])
      fit == {i \in 1..7 : holds(i)} IN
  IF "single" \in {t1, t2} THEN "single"
  ELSE IF fit = {} THEN "long" ELSE ByWidth[CHOOSE i \in fit : \A j \in fit : i <= j]


Truth(b) == IF b THEN -2 ELSE 0
BitsOf(ty, v) == v % 2 ^ Width(ty)
FromBits(ty, p) == IF Least(ty) < 0 /\ p >= 2 ^ (Width(ty) - 1) THEN p - 2 ^ Width(ty) ELSE p
Logical(o, ty, a, b) ==
  LET p == BitsOf(ty, a)  q == BitsOf(ty, b)  ones == 2 ^ Width(ty) - 1 IN
  FromBits(ty, CASE o = "xor" -> p ^^ q          [] o = "eqv" -> ones - (p ^^ q)
                 [] o = "imp" -> (ones - p) | q  [] o = "and" -> p & q  [] o = "or" -> p | q)
IsRelated(o, a, b) == CASE o = "eq" -> a = b [] o = "ne" -> a # b [] o = "lt" -> a < b
                        [] o = "gt" -> a > b [] o = "le" -> a <= b [] o = "ge" -> a >= b
PowerOf(a, b) ==                     (* as far as any type holds it         *)
  LET power[n \in 0..b] ==
        IF n = 0 THEN 1 ELSE With(power[n - 1], LAMBDA v : IF Abs(v) > 5000 THEN v ELSE a * v)
  IN power[b]

(* a o b in the type ty, in halves; <<>> when it has no such value.        *)
Bitwise3 == {"xor", "eqv", "imp", "and", "or"}
Value(o, ty, a, b) ==
  LET x == a \div 2  y == b \div 2 IN
  CASE o = "plus"  -> <<a + b>>
    [] o = "minus" -> <<a - b>>
    [] o = "mul" /\ Whole(a) -> <<x * b>>
    [] o = "mul" /\ ~Whole(a) /\ Whole(b) -> <<a * y>>
    [] o \in {"div", "intDiv"} /\ (ty # "single" \/ o = "intDiv") /\ Whole(a) /\ Whole(b) /\ b # 0 -> <<2 * Quo(x, y)>>
    [] o = "div" /\ ty = "single" /\ b # 0 /\ (2 * a) % Abs(b) = 0 -> <<Quo(2 * a, b)>>
    [] o = "mod" /\ Whole(a) /\ Whole(b) /\ b # 0 -> <<2 * (x - y * Quo(x, y))>>
    [] o = "shl" /\ Whole(a) /\ Whole(b) /\ 0 <= y /\ y < Width(ty) -> <<2 * x * 2 ^ y>>
    [] o = "shr" /\ Whole(a) /\ Whole(b) /\ 0 <= y /\ y < Width(ty) -> <<2 * (x \div 2 ^ y)>>
    [] o = "power" /\ Whole(a) /\ Whole(b) /\ y >= 0 -> <<2 * PowerOf(x, y)>>
    [] o \in Bitwise3 /\ Whole(a) /\ Whole(b) -> <<2 * Logical(o, ty, x, y)>>
    [] o \in RelOps -> <<Truth(IsRelated(o, a, b))>>
    [] OTHER -> <<>>
-----------------------------------------------------------------------------
(* Where compiled code is known to differ from the meaning (odd), and      *)
(* where the compiler may stop (stops), node by node.  l, r: what is known *)
(* of the operands, ty: the common type.                                   *)
Folds(l, r) == l.const /\ r.const
Half1(ty) == 2 ^ Width(ty)                                (* 2^(w-1), in halves *)

(* A left truth value still in the branches when the code of the right     *)
(* operand follows, or a right one when that of the left operand does.     *)
OutcomeLost(o, l, r, ty) ==
  \/ l.cond /\ r.emits
  \/ r.cond /\ (ty = "bool" \/ l.ty # ty)
  \/ l.cond /\ o = "mul" /\ r.const /\ r.h = 0
DividesAsSigned(o, l, r, ty) ==
  /\ o \in {"div", "intDiv", "mod"}
  /\ \/ ty = "uinteger" /\ l.h >= Half1(ty)
     \/ ty \in {"long", "ulong"} /\ r.h < 0
ShiftsAsSigned(o, l, ty) == o = "shr" /\ ty = "ubyte" /\ ~l.const /\ l.h >= Half1(ty)
SignsMixed(l, r) == l.ty \in {"integer", "long"} /\ r.ty = "ulong" /\ l.h < 0
TruthFolded(o, l, r, ty) == BigEndian /\ Folds(l, r) /\ ty = "bool" /\ o \in {"xor", "eqv", "imp"}
TruthAsUnsigned(o, l, r) == o = "or" /\ l.ty = "bool" /\ r.ty \in {"ubyte", "uinteger"}
Odd(o, l, r, ty) ==
  \/ o \in {"and", "or"} /\ l.ty # "bool" /\ OutcomeLost(o, l, r, ty)
  \/ o \notin {"and", "or"} /\ OutcomeLost(o, l, r, ty)
  \/ DividesAsSigned(o, l, r, ty) \/ ShiftsAsSigned(o, l, ty)
  \/ SignsMixed(l, r) \/ TruthFolded(o, l, r, ty) \/ TruthAsUnsigned(o, l, r)

Arithmetic == {"plus", "minus", "mul", "div", "intDiv", "mod", "shl", "shr", "power"}
MayStop(o, l, r, ty) ==
  \/ o \in Arithmetic /\ ty = "bool"
  \/ o = "power" /\ (r.kind = "ptr" \/ (Folds(l, r) /\ r.h < 0))
  \/ o \in {"div", "intDiv", "mod"} /\ Folds(l, r) /\ r.h \in {-1, 0, 1}
  \/ o \in {"and", "or"} /\ l.ty = "bool" /\ (l.kind = "ref" \/ (r.ty = "bool" /\ r.kind = "ref"))

RECURSIVE Known(_)
Leaf(d) ==
  [ty |-> d.ty, h |-> LET v == IF d.kind = "const" THEN d.val ELSE d.init IN IF d.ty = "single" THEN v ELSE 2 * v,
   fits |-> TRUE, odd |-> FALSE, stops |-> FALSE,
   const |-> d.kind = "const", cond |-> FALSE, emits |-> d.kind = "ptr", kind |-> d.kind]
KnownOfOne(o, l) ==
  LET h == IF o = "neg" THEN -l.h ELSE
           IF l.ty \in {"ubyte", "uinteger", "ulong"} THEN 2 * Most(l.ty) - l.h ELSE -2 - l.h
  IN [l EXCEPT !.h = h,
        !.fits = l.fits /\ Has(l.ty, h) /\ (o = "not" => Whole(h)),
        !.stops = l.stops \/ (o = "neg" /\ (l.ty \in {"ubyte", "uinteger", "ulong"} \/ l.ty = "bool"))
                          \/ (o = "not" /\ l.ty = "bool" /\ l.kind = "ref"),
        !.cond = o = "not" /\ l.ty = "bool" /\ ~l.const,
        !.emits = ~l.const, !.kind = "value"]
KnownOfTwo(o, l, r) ==
  LET ty == Common(l.ty, r.ty)
      v  == Value(o, ty, l.h, r.h)
      conds == o \in {"and", "or"} /\ l.ty = "bool"          (* the right operand, or a truth value *)
      resultTy == IF o \in RelOps THEN "bool" ELSE IF conds THEN r.ty ELSE ty
      const == Folds(l, r) /\ ~conds
      fits  == v # <<>> /\ Has(ty, l.h) /\ Has(ty, r.h) /\ Has(resultTy, v[1]) IN
  [ty |-> resultTy, h |-> IF fits THEN v[1] ELSE 0,
   fits |-> l.fits /\ r.fits /\ fits, odd |-> l.odd \/ r.odd \/ Odd(o, l, r, ty),
   stops |-> l.stops \/ r.stops \/ MayStop(o, l, r, ty),
   const |-> const, cond |-> ~const /\ resultTy = "bool" /\ (o \in RelOps \/ conds),
   emits |-> ~const, kind |-> IF const THEN "const" ELSE "value"]
Known(tree) ==
  CASE Len(tree) = 1 -> Leaf(stmt.decl[tree[1]])
    [] Len(tree) = 2 -> With(Known(tree[2]), LAMBDA l : KnownOfOne(tree[1], l))
    [] Len(tree) = 3 -> With(Known(tree[2]), LAMBDA l :
                          With(Known(tree[3]), LAMBDA r : KnownOfTwo(tree[1], l, r)))
-----------------------------------------------------------------------------
r == stmt.decl["r"]
Stored1 == machine.mem[Address(r)].v
StoredH == CASE r.ty = "single" -> Signed("L", Stored1)
             [] r.ty \in {"ubyte", "uinteger", "ulong"} -> 2 * Stored1
             [] OTHER -> 2 * FromBits(IF r.ty = "bool" THEN "integer" ELSE r.ty, Stored1)

(* Instructions use temps and labels that were given out; registers and    *)
(* variables hold patterns of their size.                                  *)
TypeOK ==
  /\ phase \in {"source", "code", "refused", "done"}
  /\ \A n \in DOMAIN output.g.code :
       LET i == output.g.code[n] IN
       /\ i.w \in DOMAIN Bits
       /\ i.op \in TwoOperands \cup {"move", "move_imm", "load", "ext", "neg", "not"} =>
            i.dst \in 0..(output.g.temp - 1)
       /\ i.op = "bxx" => i.imm \in 1..(output.g.label - 1)
  /\ \A t \in DOMAIN machine.t : machine.t[t] \in 0..(2 ^ Bits["L"] - 1)
  /\ \A v \in DOMAIN machine.mem : machine.mem[v].v \in 0..(2 ^ Bits[machine.mem[v].w] - 1)

(* The value of the expression, as far as the types of its operands hold   *)
(* it, is what the target gets: truth values by their truth.               *)
ValueStored ==
  phase = "done" =>
    \E k \in {Known(stmt.tree)} :
      k.fits /\ ~k.odd /\ (k.ty = "bool" => r.ty \notin {"ubyte", "uinteger", "ulong"} \/ k.h = 0) =>
        CASE r.ty = "bool" -> (Whole(k.h) /\ (k.ty = "long" => (k.h \div 2) % 2 ^ Bits["W"] # 0)) =>
                                ((StoredH # 0) <=> (k.h # 0))
          [] r.ty # "bool" /\ Has(r.ty, k.h) -> StoredH = k.h
          [] OTHER -> TRUE

(* Whatever the code computes, it jumps only to labels that come, reads no *)
(* temp without a value, takes from the stack what it put there and writes *)
(* only the target; it faults only where the value does not exist.         *)
CodeSound ==
  phase = "done" =>
    \E k \in {Known(stmt.tree)} :
      \/ k.odd
      \/ "fault" \in machine.bad /\ ~k.fits
      \/ /\ machine.bad = {} /\ machine.skip = 0 /\ machine.stack = <<>>
         /\ \A v \in DOMAIN Memory \ {Address(r)} : machine.mem[v] = Memory[v]
         /\ \A n \in DOMAIN output.g.code :
              LET i == output.g.code[n] IN
              i.op = "bxx" => \E later \in (n + 1)..Len(output.g.code) : output.g.code[later] = Label(i.imm)

(* What is generated for an expression is right: it yields the value, by   *)
(* code that does nothing else.                                            *)
CodeCorrect == TypeOK /\ ValueStored /\ CodeSound

(* The quotient and the remainder of two LONGs, negative ones included, are  *)
(* those of a signed division.                                               *)
DivisionSigned ==
  phase = "done" =>
    LET divides == /\ Len(stmt.tree) = 3 /\ stmt.tree[1] \in {"intDiv", "mod"}
                   /\ \A d \in {"a", "b", "r"} : stmt.decl[d].ty = "long" IN
    divides => \E k \in {Known(stmt.tree)} : k.fits => StoredH = k.h

(* The compiler stops only where it is known to.                           *)
RefusalsExplained ==
  phase = "refused" =>
    \/ \E k \in {Known(stmt.tree)} : k.stops
    \/ r.kind = "ref" /\ Len(stmt.tree) = 1 /\ stmt.decl[stmt.tree[1]].kind = "heap"
=============================================================================
