---------------------------- MODULE Expressions -----------------------------
(***************************************************************************)
(* An assignment r = e, from its tokens to the value stored: the parser of *)
(* frontend.c, which generates code while it reads, the types it converts  *)
(* the operands to, the code of codegen.c and its execution.               *)
(*                                                                         *)
(* What the statement means is said apart from that, by the value of the   *)
(* tree it was written from; precedence and parentheses are in the way it  *)
(* is written down.                                                        *)
(***************************************************************************)
EXTENDS Machine, FiniteSets

CONSTANTS
  Statements  (* sets of assignments: the tree, the declarations of its names *)

VARIABLES
  stmt,     (* the assignment                                               *)
  phase,    (* "source", then "code" or "refused", then "done"              *)
  output,   (* what the compiler left: code, temps, and the item of the end *)
  machine   (* what executed it                                             *)
vars == <<stmt, phase, output, machine>>
-----------------------------------------------------------------------------
(* coercion: the type two operands are converted to.                       *)
coercion(t1, t2) ==
  CASE t1 = t2 -> t1
    [] t1 = "bool" /\ t2 \in {"byte", "integer", "single"}   -> t2
    [] t1 = "bool" /\ t2 = "ubyte"                           -> "integer"
    [] t1 = "bool" /\ t2 \in {"uinteger", "long", "ulong"}   -> "long"
    [] t1 = "byte" /\ t2 = "bool"                            -> t1
    [] t1 = "byte" /\ t2 = "ubyte"                           -> "integer"
    [] t1 = "byte" /\ t2 \in {"integer", "long", "single"}   -> t2
    [] t1 = "byte" /\ t2 \in {"uinteger", "ulong"}           -> "long"
    [] t1 = "ubyte" /\ t2 \in {"bool", "byte"}               -> "integer"
    [] t1 = "ubyte" /\ t2 \in {"integer", "long", "single"}  -> t2
    [] t1 = "ubyte" /\ t2 \in {"uinteger", "ulong"}          -> "long"
    [] t1 = "integer" /\ t2 \in {"bool", "byte", "ubyte"}    -> t1
    [] t1 = "integer" /\ t2 \in {"long", "ulong", "single"}  -> t2
    [] t1 = "integer" /\ t2 = "uinteger"                     -> "long"
    [] t1 = "uinteger" /\ t2 = "ubyte"                       -> t1
    [] t1 = "uinteger" /\ t2 = "single"                      -> t2
    [] t1 = "uinteger" /\ t2 \in {"bool", "byte", "integer", "long", "ulong"} -> "long"
    [] t1 = "long" /\ t2 \in {"ulong", "single"}             -> t2
    [] t1 = "long" /\ t2 \in Types \ {"long", "ulong", "single"} -> t1
    [] t1 = "ulong" /\ t2 = "single"                         -> t2
    [] t1 = "ulong" /\ t2 \in Types \ {"ulong", "single"}    -> "long"
    [] t1 = "single"                                         -> t1

(* convert_ty: an integer of the same size is only called another.         *)
convert_ty(g, item, to) ==
  CASE item.ty = to -> Res(g, item)
    [] item.ty # to /\ item.ty \in Ints /\ to \in Ints /\ Size(item.ty) = Size(to) ->
         Res(g, [item EXCEPT !.ty = to])
    [] OTHER -> CG_castItem(g, item, to)

BothConverted(g, left, right, Op(_, _, _, _)) ==
  With(coercion(left.ty, right.ty), LAMBDA ty :
    With(convert_ty(g, left, ty), LAMBDA l :
      With(convert_ty(l.g, right, ty), LAMBDA r : Op(r.g, l.item, r.item, ty))))
transBinOp(g, o, left, right) ==
  BothConverted(g, left, right, LAMBDA h, l, r, ty : CG_transBinOp(h, o, l, r, ty))
transRelOp(g, ro, left, right) ==
  BothConverted(g, left, right, LAMBDA h, l, r, ty : CG_transRelOp(h, ro, l, r))
transUnOp(g, o, item) == CG_transBinOp(g, o, item, item, item.ty)
-----------------------------------------------------------------------------
(* A BYREF parameter is a slot of the frame with the variable's address.   *)
Slots == 50

(* The parser.  p.toks: the tokens left, p.g: the generator, p.item: the   *)
(* item of what was just read.  A level of it reads operands of the level  *)
(* below, joined by its operators.                                         *)
RelOps == {"eq", "ne", "lt", "gt", "le", "ge"}
Exp == 1  Rel == 7  And2 == 8  Or2 == 9  Top == 10
Operators ==
  <<(* expExpression *)   {"power"},         (* multExpression *)   {"mul", "div"},
    (* intDivExpression *) {"intDiv"},       (* modExpression *)    {"mod"},
    (* shiftExpression *) {"shl", "shr"},    (* addExpression *)    {"plus", "minus"},
    (* relExpression *)   RelOps,            (* logAndExpression *) {"and"},
    (* logOrExpression *) {"or"},            (* expression *)       {"xor", "eqv", "imp"}>>

Rest(p) == [p EXCEPT !.toks = Tail(@)]
At(p, r) == [p EXCEPT !.g = r.g, !.item = r.item]
IsNext(p, tokens) == p.toks # <<>> /\ Head(p.toks) \in tokens /\ ~Stopped(p.item)

RECURSIVE Expression(_, _)

(* expDesignator, and the literals of atom: a name stands for either.  The *)
(* address of an array element is computed first.                          *)
Designator(g, decl) ==
  IF decl.kind = "ptr"
  THEN Res([Emit(g, <<Mem("lea", "L", decl.val, g.temp)>>) EXCEPT !.temp = @ + 1],
           Item("ptr", decl.ty, g.temp))
  ELSE Res(g, Item(decl.kind, decl.ty, decl.val))

atom(p) ==
  IF Head(p.toks) = "("
  THEN With(Expression(Top, Rest(p)), LAMBDA q : IF Stopped(q.item) THEN q ELSE Rest(q))
  ELSE At(Rest(p), Designator(p.g, stmt.decl[Head(p.toks)]))

(* The operand of NOT is loaded as a condition when it is a truth value    *)
(* that is not known yet, and a condition is only read the other way.      *)
Unary(q, o) ==
  With(IF o = "not" /\ q.item.ty = "bool" /\ q.item.kind # "const" THEN CG_loadCond(q.g, q.item)
                                                                   ELSE Res(q.g, q.item),
       LAMBDA r : At(q, CASE Stopped(r.item) -> r
                          [] o = "not" /\ r.item.kind = "cond" -> [r EXCEPT !.item.post = ~@]
                          [] OTHER -> transUnOp(r.g, o, r.item)))
negNotExpression(p) ==
  IF Head(p.toks) \in {"neg", "not"}
  THEN With(Expression(IF Head(p.toks) = "neg" THEN Exp ELSE Rel, Rest(p)), LAMBDA q :
         IF Stopped(q.item) THEN q ELSE Unary(q, Head(p.toks)))
  ELSE atom(p)

(* The left operand of AND is tested, and what follows skipped, when it is *)
(* a truth value; so is that of OR, with the opposite outcome.             *)
Tested(p) == IF p.item.ty = "bool" THEN At(p, CG_loadCond(p.g, p.item)) ELSE p
PostCond(p, positive) ==
  IF p.item.kind = "cond" THEN At(p, CG_transPostCond(p.g, p.item, positive)) ELSE p
Merged(left, q, positive) ==
  With(PostCond(Tested(q), positive), LAMBDA r :
    IF Stopped(r.item) THEN r ELSE At(r, CG_transMergeCond(r.g, left, r.item)))

(* The operator o between what p left and what q has just read.            *)
Joined(o, left, q) ==
  At(q, IF o \in RelOps THEN transRelOp(q.g, o, left, q.item) ELSE transBinOp(q.g, o, left, q.item))

(* What precedes the right operand, then the operand, then the two joined. *)
Before(level, p) ==
  With(IF level \in {And2, Or2} THEN Tested(p) ELSE p, LAMBDA l :
    IF level \in {And2, Or2} THEN PostCond(l, level = And2) ELSE l)
Behind(level, p, q) ==
  CASE Stopped(q.item) -> q
    [] ~Stopped(q.item) /\ level \in {And2, Or2} /\ p.item.kind = "cond" -> Merged(p.item, q, level = And2)
    [] OTHER -> Joined(Head(p.toks), p.item, q)

RECURSIVE Chain(_, _)
Chain(level, p) ==
  IF ~IsNext(p, Operators[level]) THEN p
  ELSE With(Before(level, p), LAMBDA l :
         IF Stopped(l.item) THEN l
         ELSE With(Expression(level - 1, Rest(l)), LAMBDA q :
                With(Behind(level, l, q), LAMBDA n : Chain(level, n))))
Expression(level, p) ==
  IF level = 0 THEN negNotExpression(p)
  ELSE With(Expression(level - 1, p), LAMBDA q : Chain(level, q))

(* statementOrAssignment: the target is read before the expression.        *)
Target(toks) ==
  With(Designator(NewCode, stmt.decl["r"]), LAMBDA left :
    With(Expression(Top, [toks |-> toks, g |-> left.g, item |-> left.item]), LAMBDA p :
      IF Stopped(p.item) THEN Res(p.g, p.item)
      ELSE With(convert_ty(p.g, p.item, left.item.ty), LAMBDA r : CG_transAssignment(r.g, left.item, r.item))))
-----------------------------------------------------------------------------
(* Trees: <<name>>, <<o, tree>>, <<o, left, right>>.  How they are written:*)
(* an operand that binds less than it has to is put in parentheses.        *)
Binding(o) ==
  CASE o \in {"xor", "eqv", "imp"} -> 1   [] o = "or" -> 2   [] o = "and" -> 3   [] o = "not" -> 4
    [] o \in RelOps -> 5                  [] o \in {"plus", "minus"} -> 6
    [] o \in {"shl", "shr"} -> 7          [] o = "mod" -> 8   [] o = "intDiv" -> 9
    [] o \in {"mul", "div"} -> 10         [] o = "neg" -> 11  [] o = "power" -> 12
    [] OTHER -> 13
RECURSIVE Written(_, _)
Written(tree, least) ==
  LET o == tree[1]  b == Binding(o)
      text == CASE Len(tree) = 1 -> <<o>>
                [] Len(tree) = 2 -> <<o>> \o Written(tree[2], b + 1)
                [] Len(tree) = 3 -> Written(tree[2], b) \o <<o>> \o Written(tree[3], b + 1) IN
  IF b < least THEN <<"(">> \o text \o <<")">> ELSE text
-----------------------------------------------------------------------------
(* Behaviour: compile the assignment, execute what was generated.          *)
Address(d) == IF d.kind = "ref" THEN d.val - Slots ELSE d.val
Memory ==
  LET names == {n \in DOMAIN stmt.decl : stmt.decl[n].kind # "const"}
      refs  == {n \in names : stmt.decl[n].kind = "ref"} IN
  [v \in {Address(stmt.decl[n]) : n \in names} |->
     LET d == stmt.decl[CHOOSE n \in names : Address(stmt.decl[n]) = v] IN
     [w |-> Size(d.ty), v |-> Pattern(Size(d.ty), d.init)]]
  @@ [v \in {stmt.decl[n].val : n \in refs} |-> [w |-> "L", v |-> v - Slots]]

Init ==
  /\ \E n \in DOMAIN Statements : stmt \in Statements[n]
  /\ phase = "source"
  /\ output = Res(NewCode, Const("bool", 0))
  /\ machine = NewMachine([v \in {} |-> 0], 0)

Compile ==
  /\ phase = "source"
  /\ output' = Target(Written(stmt.tree, 0))
  /\ phase' = IF Stopped(output'.item) THEN "refused" ELSE "code"
  /\ UNCHANGED <<stmt, machine>>
Execute ==
  /\ phase = "code"
  /\ machine' = Executed(output.g, Memory)
  /\ phase' = "done"
  /\ UNCHANGED <<stmt, output>>
Next == Compile \/ Execute
Spec == Init /\ [][Next]_vars
=============================================================================
