------------------------------ MODULE Frontend ------------------------------
(***************************************************************************)
(* The control statements of the compiler's one-pass frontend              *)
(* (frontend.c): every statement is parsed and its code emitted at once,   *)
(* and what its end has to know is on the stack of open statements,        *)
(* g_sleStack.                                                             *)
(*                                                                         *)
(* The source is a sequence of statements.  A condition is an OR of ANDs   *)
(* of relations of a variable with a constant, or TRUE or FALSE.           *)
(***************************************************************************)
EXTENDS CodeGen

CONSTANT Sources     (* the programs: sequences of statements                *)

VARIABLES
  source,    (* the program                                                  *)
  at,        (* its next statement                                           *)
  gen,       (* code emitted, next temp, next label                          *)
  sle        (* g_sleStack, innermost last                                   *)

frontVars == <<source, at, gen, sle>>

(* A statement, and an entry of g_sleStack.                                  *)
NoStatement == [op |-> "", num |-> 0, x |-> 0, ty |-> "integer", cond |-> <<>>, until |-> FALSE,
                exprs |-> <<>>, kinds |-> <<>>]
NoEntry     == [kind |-> "", exit |-> NoLabel, cont |-> NoLabel, next |-> NoLabel, end |-> NoLabel,
                head |-> NoLabel, x |-> 0, ty |-> "integer", item |-> ConstItem(0), atEntry |-> FALSE]

Statement  == source[at]
Top        == Last(sle)
Reading(op) == /\ at \in DOMAIN source /\ Statement.op = op
               /\ at' = at + 1
               /\ UNCHANGED source

(* slePush: a statement that is no loop hands on the labels of the loop that *)
(* is around it.                                                             *)
Inherited(kind) == [NoEntry EXCEPT !.kind = kind,
                      !.exit = IF sle = <<>> THEN NoLabel ELSE Top.exit,
                      !.cont = IF sle = <<>> THEN NoLabel ELSE Top.cont]
LabelIf(g, l) == IF l = NoLabel THEN g ELSE Label(g, l)

-----------------------------------------------------------------------------
(* Conditions.                                                               *)

Relation(g, r) ==
  IF r.ro \in Relations THEN RelOp(g, "integer", r.ro, VarItem(r.x), ConstItem(r.val))
  ELSE ConstCond(g, r.ro = "true")

(* logAndExpression and logOrExpression: each operand falls through while    *)
(* the result is open, and all jump to where the last one does.              *)
Joined(c, positive, Operand(_)) ==
  With(PostCond(c, positive), LAMBDA left :
  With(Operand(left.g),       LAMBDA right :
  With(PostCond(right, positive), LAMBDA closed : MergeCond(left.cond, closed))))
And(g, rs) == Thread(LAMBDA c, r : Joined(c, TRUE, LAMBDA h : Relation(h, r)),
                     Relation(g, Head(rs)), Tail(rs))
Or(g, ands) == Thread(LAMBDA c, rs : Joined(c, FALSE, LAMBDA h : And(h, rs)),
                      And(g, Head(ands)), Tail(ands))

(* The condition of a statement, falling through when it equals positive.    *)
Condition(g, positive) == With(Or(g, Statement.cond), LAMBDA c : PostCond(c, positive))

-----------------------------------------------------------------------------
(* The other statements of a program, by number; a variable counted up; a    *)
(* call of a library function.                                               *)
Plain == /\ Reading("stmt")
         /\ gen' = Append1(gen, [Nop EXCEPT !.op = "stmt", !.num = Statement.num])
         /\ UNCHANGED sle

Let == /\ Reading("inc")
       /\ gen' = [gen EXCEPT !.code = @ \o <<LoadVal(VarItem(Statement.x), gen.temp),
                                             [Nop EXCEPT !.op = "add_imm", !.dst = gen.temp, !.num = 1],
                                             [Nop EXCEPT !.op = "store", !.src = gen.temp, !.var = Statement.x]>>,
                             !.temp = @ + 1]
       /\ UNCHANGED sle

(* A call of the variables x, x + 1 ... in registers of its own.             *)
CallSub == /\ Reading("call")
           /\ gen' = LibCall(gen, [k \in DOMAIN Statement.exprs |-> Statement.x + k - 1], Statement.exprs)
           /\ UNCHANGED sle

(* FOR x = 1 TO the variable 4: the limit is the temp the first comparison   *)
(* loaded it to.                                                             *)
Limit == VarItem(4)
ForBegin ==
  /\ Reading("for")
  /\ LET init == Append1(gen, [Nop EXCEPT !.op = "store_imm", !.var = Statement.x, !.num = 1])
         c == With(NewLabel(init), LAMBDA g : RelOp(g, Statement.ty, "le", VarItem(Statement.x), Limit))
     IN /\ gen' = With(c, LAMBDA d : Label(NewLabel(d.g), d.g.label))
        /\ sle' = Append(sle, With(c, LAMBDA d :
                    [NoEntry EXCEPT !.kind = "for", !.exit = d.cond.lab, !.cont = gen.label,
                                    !.head = d.g.label, !.x = Statement.x, !.ty = Statement.ty,
                                    !.item = d.right]))

(* One is added and the sum stored.                                          *)
Counted(g, f) ==
  LET v == g.temp
      sum == IF f.ty = "integer"
               THEN <<[Nop EXCEPT !.op = "add_imm", !.dst = v, !.num = 1]>>
               ELSE <<LoadVal(ConstItem(1), v + 1)>>
                    \o RegCall("add", <<[temp |-> v, reg |-> D1], [temp |-> v + 1, reg |-> D0]>>, v + 2)
      n == IF f.ty = "integer" THEN 0 ELSE 2
  IN [g EXCEPT !.code = @ \o <<LoadVal(VarItem(f.x), v)>> \o sum
                          \o <<[Nop EXCEPT !.op = "store", !.src = v + n, !.var = f.x]>>,
               !.temp = v + n + 1]

ForEnd ==
  /\ Reading("next") /\ Top.kind = "for"
  /\ LET c == With(Counted(Label(gen, Top.cont), Top), LAMBDA g :
                RelOp(g, Top.ty, "le", VarItem(Top.x), Top.item))
     IN gen' = With(c, LAMBDA d : Label(Label(Jump(d.g, Top.head), d.cond.lab), Top.exit))
  /\ sle' = Front(sle)

WhileBegin ==
  /\ Reading("while")
  /\ \E c \in {Condition(Label(NewLabel(gen), gen.label), TRUE)} :
       /\ gen' = c.g
       /\ sle' = Append(sle, [NoEntry EXCEPT !.kind = "while", !.exit = c.cond.lab, !.cont = gen.label])

WhileEnd ==
  /\ Reading("wend") /\ Top.kind = "while"
  /\ gen' = Label(Jump(gen, Top.cont), Top.exit)
  /\ sle' = Front(sle)

(* DO and LOOP, each with UNTIL, WHILE or nothing.                           *)
Do ==
  /\ Reading("do")
  /\ LET g == Label(NewLabel(gen), gen.label)
         e == [NoEntry EXCEPT !.kind = "do", !.cont = gen.label]
     IN IF Statement.cond = <<>>
          THEN gen' = NewLabel(g) /\ sle' = Append(sle, [e EXCEPT !.exit = g.label])
          ELSE \E c \in {Condition(g, ~Statement.until)} :
                 gen' = c.g /\ sle' = Append(sle, [e EXCEPT !.exit = c.cond.lab, !.atEntry = TRUE])

LoopSwapped ==
  /\ Reading("loop") /\ Top.kind = "do" /\ ~(Top.atEntry /\ Statement.cond # <<>>)
  /\ \E g \in {IF Statement.cond = <<>> THEN gen
               ELSE With(Condition(gen, ~Statement.until), LAMBDA c :
                      Label(Jump(c.g, Top.exit), c.cond.lab))} :
       gen' = Label(Jump(g, Top.cont), Top.exit)
  /\ sle' = Front(sle)
Loop ==
  /\ Reading("loop") /\ Top.kind = "do" /\ ~(Top.atEntry /\ Statement.cond # <<>>)
  /\ \E g \in {IF Statement.cond = <<>> THEN gen
               ELSE With(Condition(gen, Statement.until), LAMBDA c :
                      Label(Jump(c.g, Top.exit), c.cond.lab))} :
       gen' = Label(Jump(g, Top.cont), Top.exit)
  /\ sle' = Front(sle)

-----------------------------------------------------------------------------
(* IF: next is the label of the next branch (lElse), end that of END IF.     *)
IfBegin ==
  /\ Reading("if")
  /\ \E c \in {Condition(gen, TRUE)} :
       gen' = c.g /\ sle' = Append(sle, [Inherited("if") EXCEPT !.next = c.cond.lab])

(* ELSE and ELSEIF close the branch before them.                             *)
EndLabel  == IF Top.end = NoLabel THEN gen.label ELSE Top.end
Separated == LET g == IF Top.end = NoLabel THEN NewLabel(gen) ELSE gen
             IN Label(Jump(g, EndLabel), Top.next)
Update(e) == sle' = [sle EXCEPT ![Len(sle)] = e]

ElseIf ==
  /\ Reading("elseif") /\ Top.kind = "if" /\ Top.next # NoLabel
  /\ \E c \in {Condition(Separated, TRUE)} :
       gen' = c.g /\ Update([Top EXCEPT !.next = c.cond.lab, !.end = EndLabel])

Else ==
  /\ Reading("else") /\ Top.kind = "if" /\ Top.next # NoLabel
  /\ gen' = Separated
  /\ Update([Top EXCEPT !.next = NoLabel, !.end = EndLabel])

IfEnd ==
  /\ Reading("endif") /\ Top.kind = "if"
  /\ gen' = LabelIf(LabelIf(gen, Top.next), Top.end)
  /\ sle' = Front(sle)

-----------------------------------------------------------------------------
(* SELECT CASE on a variable: item is what is compared, which the first      *)
(* comparison replaces by a temp; next and end are as for IF.                *)
SelectBegin ==
  /\ Reading("select")
  /\ sle' = Append(sle, [Inherited("select") EXCEPT !.item = VarItem(Statement.x)])
  /\ UNCHANGED gen

Is(ro, v)   == [range |-> FALSE, is |-> ro, lo |-> v, hi |-> v]
To(a, b)    == [range |-> TRUE, is |-> "eq", lo |-> a, hi |-> b]
Mirror == [eq |-> "eq", ne |-> "ne", lt |-> "gt", gt |-> "lt", le |-> "ge", ge |-> "le"]

(* caseExpr: one comparison with the item, or two for a range.               *)
CaseTest(g, item, e) ==
  IF ~e.range THEN RelOp(g, "integer", Mirror[e.is], ConstItem(e.lo), item)
  ELSE With(RelOp(g, "integer", "le", ConstItem(e.lo), item), LAMBDA lo :
       With(RelOp(lo.g, "integer", "ge", ConstItem(e.hi), lo.right), LAMBDA hi :
         MergeCond(lo.cond, hi)))

(* stmtCase: the expressions of a CASE are or-ed; none is CASE ELSE.         *)
CaseExprs(g, item, exprs) ==
  Thread(LAMBDA c, e : Joined(c, FALSE, LAMBDA h : CaseTest(h, c.right, e)),
         CaseTest(g, item, Head(exprs)), Tail(exprs))
Case ==
  /\ Reading("case") /\ Top.kind = "select"
  /\ LET g == IF Top.next = NoLabel THEN gen ELSE Separated
         t == IF Top.next = NoLabel THEN Top ELSE [Top EXCEPT !.end = EndLabel, !.next = NoLabel]
     IN IF Statement.exprs = <<>> THEN gen' = g /\ Update(t)
        ELSE \E c \in {With(CaseExprs(g, Top.item, Statement.exprs), LAMBDA d : PostCond(d, TRUE))} :
               gen' = c.g /\ Update([t EXCEPT !.next = c.cond.lab, !.item = c.right])

SelectEnd ==
  /\ Reading("endselect") /\ Top.kind = "select"
  /\ gen' = LabelIf(LabelIf(gen, Top.next), Top.end)
  /\ sle' = Front(sle)

-----------------------------------------------------------------------------
(* EXIT and CONTINUE with a list of kinds, each looked for from the          *)
(* statement around the one found before; without a list, the innermost open *)
(* statement.  0: there is none.                                             *)
Around(from, kind) ==
  LET fits == {k \in 1 .. from : sle[k].kind = kind}
  IN IF fits = {} THEN 0 ELSE CHOOSE k \in fits : \A j \in fits : j <= k
FoundInnermost == Len(sle)
Found ==
  IF Statement.kinds = <<>> THEN Len(sle)
  ELSE Thread(LAMBDA k, kind : Around(k - 1, kind), Len(sle) + 1, Statement.kinds)

Exit     == /\ Reading("exit") /\ Found > 0
            /\ gen' = Jump(gen, sle[Found].exit)
            /\ UNCHANGED sle
Continue == /\ Reading("continue") /\ Found > 0
            /\ gen' = Jump(gen, sle[Found].cont)
            /\ UNCHANGED sle

Compile == \/ Plain \/ Let \/ CallSub
           \/ ForBegin \/ ForEnd \/ WhileBegin \/ WhileEnd \/ Do \/ Loop
           \/ IfBegin \/ ElseIf \/ Else \/ IfEnd
           \/ SelectBegin \/ Case \/ SelectEnd \/ Exit \/ Continue

CompileInit == source \in Sources /\ at = 1 /\ gen = NewCode /\ sle = <<>>

Compiled == at = Len(source) + 1 /\ sle = <<>>
=============================================================================
