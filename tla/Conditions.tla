----------------------------- MODULE Conditions -----------------------------
(***************************************************************************)
(* The other half of what codegen.c does with values: comparisons, which   *)
(* leave a condition, conditions joined by AND and OR, conversions between *)
(* the types, and assignments.                                             *)
(***************************************************************************)
EXTENDS Operations

Negated == [eq |-> "ne", ne |-> "eq", lt |-> "ge", ge |-> "lt", gt |-> "le", le |-> "gt"]

Holds(ro, a, b) == CASE ro = "eq" -> a = b   [] ro = "ne" -> a # b
                     [] ro = "lt" -> a < b   [] ro = "le" -> a <= b
                     [] ro = "gt" -> a > b   [] ro = "ge" -> a >= b

(* The branch to a new label, taken when the comparison just made does not *)
(* hold: by the condition codes of signed or of unsigned values.           *)
BranchUnless(g, ro, signed) ==
  Res([Emit(g, <<[Branch(Negated[ro], g.label) EXCEPT !.src = IF signed THEN 1 ELSE 0]>>)
         EXCEPT !.label = @ + 1],
      Cond(g.label, TRUE))

RelSingle(g, ro, left, right) ==
  LoadBoth(g, left, right, LAMBDA h, l, r :
    With(RegCall(h, "SPCmp", <<<<l, D1>>, <<r, D0>>>>, "single"), LAMBDA c :
      BranchUnless(Emit(c.g, <<Ins("tst", "W", D0, 0)>>), ro, TRUE)))

(* CG_transRelOp, behind the test of a condition against a constant.       *)
Compared(g, ro, left, right) ==
  LET ty == left.ty  w == Size(ty)  signed == ty \notin Unsigned IN
  CASE left.kind = "const" /\ right.kind = "const" ->
         Res(g, ConstBool(IF ty = "single" THEN Holds(ro, FloatOf(left), FloatOf(right))
                                           ELSE Holds(ro, IntOf(left), IntOf(right))))
    [] ty = "single" /\ {left.kind, right.kind} # {"const"} -> RelSingle(g, ro, left, right)
    [] OTHER ->
         IF ro = "ne" /\ IsZero(right)
         THEN BranchUnless(Emit(Loaded(g, left), <<Ins("tst", w, g.temp, 0)>>), "ne", signed)
         ELSE LoadBoth(g, left, right, LAMBDA h, l, r :
                BranchUnless(Emit(h, <<Ins("cmp", w, r, l)>>), ro, signed))
CG_transRelOp(g, ro, left, right) ==
  IF left.kind = "cond" /\ right.kind = "const" /\ ro \in {"eq", "ne"}
  THEN IF right.ty # "bool" THEN Fails(g)
       ELSE Res(g, [left EXCEPT !.post = IF (ro = "eq") = TrueConst(right) THEN @ ELSE ~@])
  ELSE Compared(g, ro, left, right)

(* CG_loadCond: a reference to a variable was forgotten.                   *)
LoadCondOfNames(g, item) ==                     (* Mutant: an array element forgotten, too *)
  CASE item.kind = "cond"  -> Res(g, item)
    [] item.kind = "const" -> Res([g EXCEPT !.label = @ + 1], Cond(g.label, TrueConst(item)))
    [] item.kind \in Variables \cup {"reg"} -> CG_transRelOp(g, "ne", item, Const(item.ty, 0))
    [] OTHER -> Fails(g)
CG_loadCond(g, item) ==
  CASE item.kind = "cond"  -> Res(g, item)
    [] item.kind = "const" -> Res([g EXCEPT !.label = @ + 1], Cond(g.label, TrueConst(item)))
    [] item.kind \in Variables \cup {"reg", "ptr"} -> CG_transRelOp(g, "ne", item, Const(item.ty, 0))
    [] OTHER -> Fails(g)

Label(l) == Imm("label", "W", l, 0)

(* CG_transPostCond: the code falls through when the condition equals      *)
(* positive.                                                               *)
CG_transPostCond(g, item, positive) ==
  IF item.post = positive THEN Res(g, item)
  ELSE Res([Emit(g, <<Branch("ra", g.label), Label(item.val)>>) EXCEPT !.label = @ + 1],
           Cond(g.label, positive))

(* Branches to one label sent to another.                                  *)
Redirected(code, from, to) ==
  [n \in DOMAIN code |->
     IF code[n].op = "bxx" /\ code[n].imm = from THEN [code[n] EXCEPT !.imm = to] ELSE code[n]]

(* CG_castItem of a constant.                                              *)
CastConst(g, item, to) ==
  CASE item.ty = to -> Res(g, item)
    [] item.ty # to /\ to = "bool" -> Res(g, ConstBool(IntOf(item) # 0))
    [] item.ty # to /\ to \in Ints -> Res(g, Const(to, IntOf(item)))
    [] item.ty # to /\ to = "single" -> Res(g, Const(to, 2 * IntOf(item)))

(* What turns the value of a type in the temp t into one of to: nothing,   *)
(* or instructions, then for a single the call of SPFlt.                   *)
SignExtended(t, ws) == [n \in DOMAIN ws |-> Ins("ext", ws[n], 0, t)]
Masked(w, mask, t) == <<Imm("and_imm", w, mask, t)>>
LongTypes == {"long", "ulong", "single"}
FromBool(to, t)  == IF to \in LongTypes THEN SignExtended(t, <<"W", "L">>) ELSE <<>>
FromByte(to, t)  ==
  CASE to \in {"byte", "ubyte"} -> <<>>
    [] to \in {"bool", "integer", "uinteger"} -> SignExtended(t, <<"W">>)
    [] to \in LongTypes -> SignExtended(t, <<"W", "L">>)
FromUByte(to, t) ==
  CASE to \in {"byte", "ubyte"} -> <<>>
    [] to \in {"bool", "integer", "uinteger"} -> Masked("W", 2 ^ Bits["B"] - 1, t)
    [] to \in LongTypes -> Masked("L", 2 ^ Bits["B"] - 1, t)
FromInteger(to, t)  == IF to \in LongTypes THEN SignExtended(t, <<"L">>) ELSE <<>>
FromUInteger(to, t) == IF to \in LongTypes THEN Masked("L", 2 ^ Bits["W"] - 1, t) ELSE <<>>
FromSingle(g, item, to) ==
  With(RegCall(Loaded(g, item), "SPFix", <<<<g.temp, D0>>>>, to), LAMBDA r :
    IF to # "bool" THEN r
    ELSE Res(Emit(r.g, <<Ins("tst", "L", r.item.val, 0), Ins("sne", "B", 0, r.item.val)>>), r.item))

CastLoaded(g, item, to) ==
  LET t == g.temp
      code == CASE item.ty = "bool"     -> FromBool(to, t)
                [] item.ty = "byte"     -> FromByte(to, t)
                [] item.ty = "ubyte"    -> FromUByte(to, t)
                [] item.ty = "integer"  -> FromInteger(to, t)
                [] item.ty = "uinteger" -> FromUInteger(to, t)
                [] item.ty \in {"long", "ulong"} -> <<>> IN
  With(Emit(Loaded(g, item), code), LAMBDA h :
    IF to = "single" THEN RegCall(h, "SPFlt", <<<<t, D0>>>>, to) ELSE Res(h, Reg(to, t)))
CG_castItem(g, item, to) ==
  CASE item.kind = "const" -> CastConst(g, item, to)
    [] item.kind # "const" /\ item.ty = to /\ to \in {"bool", "single"} -> Res(g, item)
    [] item.kind # "const" /\ item.ty = "single" /\ to # "single" -> FromSingle(g, item, to)
    [] OTHER -> CastLoaded(g, item, to)
-----------------------------------------------------------------------------
(* CG_transAssignment.  Stores of what is in the temp t; a store through a *)
(* reference loads the address first.                                      *)
Stored(g, left, w, t) ==
  CASE left.kind = "reg" -> Emit(g, <<Ins("move", w, t, left.val)>>)
    [] left.kind \in Variables -> Emit(g, <<Mem("store", w, left.val, t)>>)
    [] left.kind = "ptr" -> Emit(g, <<Ins("store_ind", w, t, left.val)>>)
    [] left.kind = "ref" -> [Emit(g, <<Mem("load", "L", left.val, g.temp), Ins("store_ind", w, t, g.temp)>>)
                               EXCEPT !.temp = @ + 1]
StoredImm(g, left, w, c) ==
  CASE left.kind = "reg" -> Emit(g, <<Imm("move_imm", w, c, left.val)>>)
    [] left.kind \in Variables -> Emit(g, <<[Mem("store_imm", w, left.val, 0) EXCEPT !.src = c]>>)
    [] left.kind = "ptr" -> Emit(g, <<Imm("store_imm_ind", w, c, left.val)>>)
    [] left.kind = "ref" -> [Emit(g, <<Mem("load", "L", left.val, g.temp),
                                       Imm("store_imm_ind", w, c, g.temp)>>) EXCEPT !.temp = @ + 1]

(* A variable is copied from the frame or the heap in one instruction, or  *)
(* through a temp of its own; from the heap through a reference not at all.*)
CG_transAssignment(g, left, right) ==
  LET w == Size(right.ty)  done(h) == Res(h, left) IN
  CASE right.kind = "const" -> done(StoredImm(g, left, w, right.val))
    [] right.kind = "reg"   -> done(Stored(g, left, w, right.val))
    [] right.kind \in {"cond", "ptr", "ref"} ->
         With(Loaded(g, right), LAMBDA h : done(Stored(h, left, w, g.temp)))
    [] right.kind \in Variables /\ ~(right.kind = "heap" /\ left.kind = "ref") ->
         With([Emit(g, <<Mem("load", w, right.val, g.temp)>>) EXCEPT !.temp = @ + 1], LAMBDA h :
           done(Stored(h, left, w, g.temp)))
    [] right.kind = "heap" /\ left.kind = "ref" -> Res(g, Refused("error"))

(* CG_transMergeCond: the right side of a short circuit.  A right side     *)
(* that is not a condition goes to a temp, the other outcome on another    *)
(* path.                                                                   *)
MergeValue(g, left, right) ==
  LET temp == Reg(right.ty, g.temp)
      other == IF left.post THEN Const(right.ty, 0) ELSE CastConst(g, ConstBool(TRUE), right.ty).item IN
  With(CG_transAssignment([g EXCEPT !.temp = @ + 1], temp, right).g, LAMBDA h :
    Res([CG_transAssignment([Emit(h, <<Branch("ra", h.label), Label(left.val)>>) EXCEPT !.label = @ + 1],
                            temp, other).g
           EXCEPT !.code = Append(@, Label(h.label))],
        temp))
MergeForgettingLeft(g, left, right) ==          (* Mutant: the left side's branches stay *)
  IF right.kind = "cond" THEN Res(g, right) ELSE MergeValue(g, left, right)
CG_transMergeCond(g, left, right) ==
  IF right.kind = "cond"
  THEN Res([g EXCEPT !.code = Redirected(@, left.val, right.val)], right)
  ELSE MergeValue(g, left, right)
=============================================================================
