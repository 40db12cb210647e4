------------------------------ MODULE CodeGen ------------------------------
(***************************************************************************)
(* The instructions the AQB compiler emits for loads, comparisons,         *)
(* conditions and calls (codegen.c), as pure operators.                    *)
(*                                                                         *)
(* Code is a sequence of instructions over temps.  The temps 0 .. 13 are   *)
(* the machine registers (AS_regs), every other one is allocated by        *)
(* linscan.c.  A generator state g holds the code so far and the next temp *)
(* and label; an item (CG_item) is where an expression's value is.         *)
(***************************************************************************)
EXTENDS Integers, Sequences, SequencesExt

NoTemp  == -1
NoLabel == 0
A0 == 0  A1 == 1  D0 == 6  D1 == 7                        (* AS_TEMP_xx      *)
NumRegisters == 14                                        (* AS_NUM_REGISTERS*)

(* An instruction, named for what it does: a source and a destination temp,  *)
(* a label, a number (a constant, a statement), a program variable, and a    *)
(* relation or the function called with its argument registers.              *)
Nop == [op |-> "nop", src |-> NoTemp, dst |-> NoTemp, lab |-> NoLabel, num |-> 0, var |-> 0,
        sym |-> "", regs |-> {}]

NewCode == [code |-> <<>>, temp |-> NumRegisters, label |-> 1]

(* Op of v, and Op over a sequence: v and the state that is threaded through *)
(* the sequence are computed once.                                           *)
With(v, Op(_)) == CHOOSE r \in {Op(x) : x \in {v}} : TRUE
Thread(Op(_, _), base, seq) ==
  LET f[k \in 0 .. Len(seq)] ==
        IF k = 0 THEN base ELSE With(f[k - 1], LAMBDA acc : Op(acc, seq[k]))
  IN f[Len(seq)]

Append1(g, ins)   == [g EXCEPT !.code = Append(@, ins)]
Emit(g, instrs)   == [g EXCEPT !.code = @ \o instrs]
Move(s, d)        == [Nop EXCEPT !.op = "move", !.src = s, !.dst = d]
Jump(g, l)        == Append1(g, [Nop EXCEPT !.op = "bra", !.lab = l])
EndsInLabel(g)    == Len(g.code) > 0 /\ Last(g.code).op = "label"
Label(g, l) ==
  Emit(g, (IF EndsInLabel(g) THEN <<Nop>> ELSE <<>>) \o <<[Nop EXCEPT !.op = "label", !.lab = l]>>)
NewLabel(g)       == [g EXCEPT !.label = @ + 1]

-----------------------------------------------------------------------------
(* Items.  A condition is code that falls through when it equals post and    *)
(* otherwise jumps to lab by one of the instructions fix.                    *)

ConstItem(v)           == [kind |-> "const", val |-> v]
VarItem(x)             == [kind |-> "var", val |-> x]
RegItem(t)             == [kind |-> "reg", val |-> t]
CondItem(l, post, fix) == [lab |-> l, post |-> post, fix |-> fix]

(* CG_loadVal: item to the fresh temp t, which replaces it.                  *)
LoadVal(item, t) ==
  CASE item.kind = "const" -> [Nop EXCEPT !.op = "move_imm", !.dst = t, !.num = item.val]
    [] item.kind = "var"   -> [Nop EXCEPT !.op = "move_var", !.dst = t, !.var = item.val]
    [] item.kind = "reg"   -> Move(item.val, t)

Relations == {"eq", "ne", "lt", "gt", "le", "ge"}
Holds(ro, a, b) == CASE ro = "eq" -> a = b  [] ro = "ne" -> a # b
                     [] ro = "lt" -> a < b  [] ro = "gt" -> a > b
                     [] ro = "le" -> a <= b [] ro = "ge" -> a >= b
Negated == [eq |-> "ne", ne |-> "eq", lt |-> "ge", ge |-> "lt", gt |-> "le", le |-> "gt"]

(* emitRegCall: the arguments [temp, reg] go into their registers in the     *)
(* order given, the result is copied from d0 to the temp res.                *)
RegCall(fn, args, res) ==
  [k \in DOMAIN args |-> Move(args[k].temp, args[k].reg)]
  \o <<[Nop EXCEPT !.op = "jsr", !.sym = fn, !.regs = {args[k].reg : k \in DOMAIN args}],
       Move(D0, res)>>

Comparing(g, instrs, ro, temps, right) ==
  [g |-> [code |-> g.code \o Append(instrs, [Nop EXCEPT !.op = "bxx", !.sym = Negated[ro],
                                                        !.lab = g.label]),
          temp |-> g.temp + temps, label |-> g.label + 1],
   cond |-> CondItem(g.label, TRUE, {Len(g.code) + Len(instrs) + 1}),
   right |-> right]

(* CG_transRelOp for integers and for singles: both operands are loaded, and *)
(* the right item stays the temp it was loaded to; only # 0 is a mere test.  *)
RelOp(g, ty, ro, left, right) ==
  LET l == g.temp  r == g.temp + 1
      load == <<LoadVal(left, l), LoadVal(right, r)>>
      args == <<[temp |-> l, reg |-> D1], [temp |-> r, reg |-> D0]>>
      test == [Nop EXCEPT !.op = "tst"]
  IN CASE ty = "integer" /\ ro = "ne" /\ right = ConstItem(0) ->
            Comparing(g, <<load[1], [test EXCEPT !.src = l]>>, ro, 1, right)
       [] ty = "integer" /\ (ro # "ne" \/ right # ConstItem(0)) ->
            Comparing(g, load \o <<[Nop EXCEPT !.op = "cmp", !.src = r, !.dst = l]>>, ro, 2, RegItem(r))
       [] ty = "single" ->
            Comparing(g, load \o RegCall("cmp", args, g.temp + 2) \o <<[test EXCEPT !.src = D0]>>,
                      ro, 3, RegItem(r))

(* CG_loadCond of a constant: no code, and nothing ever jumps to its label.  *)
ConstCond(g, b) == [g |-> NewLabel(g), cond |-> CondItem(g.label, b, {}), right |-> ConstItem(0)]

(* CG_transPostCond: makes a condition fall through when it equals positive. *)
PostCond(c, positive) ==
  IF c.cond.post = positive THEN c
  ELSE LET h == Jump(NewLabel(c.g), c.g.label)
       IN [c EXCEPT !.g = Label(h, c.cond.lab),
                    !.cond = CondItem(c.g.label, positive, {Len(h.code)})]

(* CG_transMergeCond: the jumps of the condition first go where those of c,  *)
(* the one emitted after it, go.                                             *)
MergeCond(first, c) ==
  [c EXCEPT !.g.code = [k \in DOMAIN @ |->
                          IF k \in first.fix THEN [@[k] EXCEPT !.lab = c.cond.lab] ELSE @[k]],
            !.cond.fix = @ \cup first.fix]

(* A call of a library function with the variables args: they are loaded     *)
(* from first to last and moved to their registers from last to first.       *)
LibCall(g, args, regs) ==
  LET n == Len(args)
      moves == Reverse([k \in 1 .. n |-> [temp |-> g.temp + k - 1, reg |-> regs[k]]])
  IN [g EXCEPT !.code = @ \o [k \in 1 .. n |-> LoadVal(VarItem(args[k]), g.temp + k - 1)]
                          \o RegCall("lib", moves, g.temp + n),
               !.temp = @ + n + 1]
=============================================================================
