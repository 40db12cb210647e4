----------------------------- MODULE Procedures -----------------------------
(***************************************************************************)
(* SUBs and FUNCTIONs in the frontend: how their headers are declared and  *)
(* found, and what is generated for their bodies, for calls of them and    *)
(* for the arguments.  Generating threads a record g through the           *)
(* functions of frontend.c: the procedures and scopes declared so far, the *)
(* stack of open statements with the code of each, the counters.           *)
(*                                                                         *)
(* Operands are of three sizes.  Hints of the parser for coordinates,      *)
(* variadic procedures, methods and library calls are not modelled.        *)
(***************************************************************************)
EXTENDS Integers, TLC, SequencesExt

CONSTANTS
  TypeOfName   (* Ty_inferType: of every variable's name                     *)

Size(ty) == CASE ty = "ubyte" -> 1 [] ty = "integer" -> 2 [] ty = "long" -> 4

Item(kind, ty, ref) == [kind |-> kind, ty |-> ty, ref |-> ref]
NoItem == Item("none", "", 0)
Failed == Item("fail", "", 0)

With(v, Op(_)) == CHOOSE r \in {Op(x) : x \in {v}} : TRUE
Thread(Op(_, _), base, seq) ==
  LET f[k \in 0 .. Len(seq)] == IF k = 0 THEN base ELSE With(f[k - 1], LAMBDA acc : Op(acc, seq[k]))
  IN f[Len(seq)]

Res(g, item)  == [g |-> g, item |-> item]
Fail(g, why)  == [g EXCEPT !.error = IF @ = "" THEN why ELSE @]
Refused(g, why) == Res(Fail(g, why), Failed)

-----------------------------------------------------------------------------
(* Scopes: the module's, which holds what is public, then that of the main *)
(* program and one for each body; the module's is the parent of them all.  *)
Module == 1
Main   == 2
Scope(parent) == [parent |-> parent, subs |-> <<>>, vars |-> [n \in {} |-> NoItem]]

NewFrame(static) == [static |-> static, locals |-> 0]
slePush(g, kind, proc, env, frame, ret, exit) ==
  [g EXCEPT !.stack = Append(@, [kind |-> kind, proc |-> proc, env |-> env, frame |-> frame,
                                 code |-> <<>>, ret |-> ret, exit |-> exit])]
Start ==
  slePush([error |-> "", envs |-> <<Scope(0), Scope(Module)>>, procs |-> <<>>, stack |-> <<>>,
           frags |-> <<>>, temps |-> 0, labels |-> 0, heap |-> 0],
          "top", 0, Main, NewFrame(TRUE), NoItem, 0)

SLE(g)       == g.stack[Len(g.stack)]
Emit(g, ins) == [g EXCEPT !.stack[Len(g.stack)].code = Append(@, ins)]

E_declareVFC(g, env, name, item) == [g EXCEPT !.envs[env].vars = (name :> item) @@ @]
E_declareSub(g, env, p)          == [g EXCEPT !.envs[env].subs = Append(@, p)]
E_resolveVFC(g, name) ==
  LET own == g.envs[SLE(g).env].vars  public == g.envs[Module].vars IN
  CASE name \in DOMAIN own -> own[name]
    [] name \notin DOMAIN own /\ name \in DOMAIN public -> public[name]
    [] OTHER -> NoItem
E_resolveSub(g, name) ==
  SelectSeq(g.envs[SLE(g).env].subs \o g.envs[Module].subs, LAMBDA p : g.procs[p].name = name)

(* CG_allocVar: below the frame pointer, at even offsets.                  *)
LocalVar(g, ty) ==
  LET offset == SLE(g).frame.locals - Size(ty) - (Size(ty) % 2) IN
  Res([g EXCEPT !.stack[Len(g.stack)].frame.locals = offset], Item("frame", ty, offset))
GlobalVar(g, ty) == Res([g EXCEPT !.heap = @ + 4], Item("heap", ty, g.heap))

(* A name nobody declared becomes a variable, of a static procedure or the *)
(* main program one with an address of its own.                            *)
autovar(g, name) ==
  With(IF SLE(g).frame.static THEN GlobalVar(g, TypeOfName[name]) ELSE LocalVar(g, TypeOfName[name]),
       LAMBDA r : Res(E_declareVFC(r.g, SLE(g).env, name, r.item), r.item))

-----------------------------------------------------------------------------
(* Operands.                                                               *)
NewTemp(g)     == [g EXCEPT !.temps = @ + 1]
Reg(g, ty)     == Item("reg", ty, g.temps)
VarPtr(g, ty)  == Item("varptr", ty, g.temps)

(* What the operand is, in a new temp.                                     *)
CG_loadVal(g, i) ==
  LET h == NewTemp(g)  t == h.temps IN
  CASE i.kind = "const"  -> Res(Emit(h, <<"movei", t, i.ref>>), Reg(h, i.ty))
    [] i.kind = "reg"    -> Res(Emit(h, <<"move", t, i.ref>>), Reg(h, i.ty))
    [] i.kind \in {"frame", "heap"} -> Res(Emit(h, <<"load", t, Size(i.ty), i.kind, i.ref>>), Reg(h, i.ty))
    [] i.kind = "varptr" -> Res(Emit(h, <<"load", t, Size(i.ty), "ind", i.ref>>), Reg(h, i.ty))
    [] i.kind = "ref"    -> LET k == NewTemp(Emit(h, <<"load", t, 4, "frame", i.ref>>)) IN
                            Res(Emit(k, <<"load", k.temps, Size(i.ty), "ind", t>>), Reg(k, i.ty))

(* Where it is: a value that is nowhere is put in a new local variable.    *)
CG_loadRef(g, i) ==
  LET h == NewTemp(g)  t == h.temps IN
  CASE i.kind = "frame"  -> Res(Emit(h, <<"lea", t, i.ref>>), VarPtr(h, i.ty))
    [] i.kind = "heap"   -> Res(Emit(h, <<"movei", t, i.ref>>), VarPtr(h, i.ty))
    [] i.kind = "varptr" -> Res(Emit(h, <<"move", t, i.ref>>), VarPtr(h, i.ty))
    [] i.kind = "ref"    -> Res(Emit(h, <<"load", t, 4, "frame", i.ref>>), VarPtr(h, i.ty))
    [] i.kind \in {"reg", "const"} ->
         With(CG_loadVal(g, i), LAMBDA v :
           With(LocalVar(v.g, i.ty), LAMBDA tmp :
             LET k == NewTemp(Emit(tmp.g, <<"store", v.item.ref, Size(i.ty), "frame", tmp.item.ref>>)) IN
             Res(Emit(k, <<"lea", k.temps, tmp.item.ref>>), VarPtr(k, i.ty))))

(* A wider operand takes a value with its sign, if its type has one.       *)
CG_castItem(g, i, to) ==
  With(CG_loadVal(g, i), LAMBDA v :
    Res(IF Size(to) > Size(i.ty) THEN Emit(v.g, <<"ext", v.item.ref, i.ty>>) ELSE v.g,
        [v.item EXCEPT !.ty = to]))
convert_ty(g, i, to) ==
  CASE i.kind = "none" -> Refused(g, "no value")
    [] i.ty = to -> Res(g, i)
    [] i.ty # to /\ i.kind = "const" -> Res(g, [i EXCEPT !.ty = to])
    [] OTHER -> CG_castItem(g, i, to)

CG_transAssignment(g, left, right) ==
  With(CG_loadVal(g, right), LAMBDA v :
    CASE left.kind = "reg" -> Emit(v.g, <<"move", left.ref, v.item.ref>>)
      [] left.kind \in {"frame", "heap"} ->
           Emit(v.g, <<"store", v.item.ref, Size(left.ty), left.kind, left.ref>>)
      [] left.kind = "ref" -> LET k == NewTemp(v.g) IN
           Emit(Emit(k, <<"load", k.temps, 4, "frame", left.ref>>),
                <<"store", v.item.ref, Size(left.ty), "ind", k.temps>>))

(* The sum of two operands, which are only loaded here.                    *)
Wider(t1, t2) == IF Size(t1) >= Size(t2) THEN t1 ELSE t2
Sum(g, left, right) ==
  With(Wider(left.ty, right.ty), LAMBDA ty :
    IF left.kind = "const" /\ right.kind = "const" THEN Res(g, Item("const", ty, left.ref + right.ref))
    ELSE With(convert_ty(g, left, ty), LAMBDA l :
           With(convert_ty(l.g, right, ty), LAMBDA r :
             With(CG_loadVal(r.g, l.item), LAMBDA s :
               With(CG_loadVal(s.g, r.item), LAMBDA t :
                 Res(Emit(t.g, <<"add", s.item.ref, t.item.ref>>), s.item))))))

-----------------------------------------------------------------------------
(* Arguments.  a is what was passed for the parameter formal, or nothing.  *)
compatible_ty(from, to) == from = to

(* As if what is passed by reference were converted to the type, and a     *)
(* copy.                                                                   *)
ByTemporary(g, formal, a) ==
  With(convert_ty(g, a, formal.ty), LAMBDA r :
    With(CG_loadVal(r.g, r.item), LAMBDA v : CG_loadRef(v.g, v.item)))

ByReference(g, formal, a) ==
  With(IF a.kind = "const" THEN [a EXCEPT !.ty = formal.ty] ELSE a, LAMBDA i :
    IF compatible_ty(i.ty, formal.ty) THEN CG_loadRef(g, i) ELSE Refused(g, "type"))
ByValue(g, formal, a) ==
  With(convert_ty(g, a, formal.ty), LAMBDA r :
    IF r.item.kind = "fail" THEN r ELSE CG_loadVal(r.g, r.item))

transAssignArg(g, formal, a) ==
  With(CASE a.kind # "none" -> a
         [] a.kind = "none" /\ formal.default # {} ->
              Item("const", formal.ty, CHOOSE v \in formal.default : TRUE)
         [] OTHER -> Failed,
       LAMBDA i : CASE i.kind = "fail" -> Refused(g, "missing")
                    [] i.kind # "fail" /\ formal.mode = "ref" -> ByReference(g, formal, i)
                    [] OTHER -> ByValue(g, formal, i))

(* munchArgsStack: the last argument first, four bytes each.               *)
Pushed(g, items) ==
  Thread(LAMBDA h, i :
           With(IF i.kind = "reg" /\ Size(i.ty) = 1 THEN Emit(h, <<"and", i.ref>>) ELSE h,
                LAMBDA k : Emit(k, <<"push", i.ref>>)),
         g, Reverse(items))

CG_transCall(g, p, items) ==
  With(Emit(Emit(Pushed(g, items), <<"jsr", g.procs[p].label>>), <<"pop", Len(items)>>), LAMBDA h :
    IF g.procs[p].ret = "" THEN Res(h, NoItem)
    ELSE LET k == NewTemp(h) IN Res(Emit(k, <<"move", k.temps, 0>>), Reg(k, g.procs[p].ret)))

-----------------------------------------------------------------------------
(* Expressions: <<"const", n>>, <<"var", name>>, <<"plus", e, f>>,         *)
(* <<"paren", e>>, <<"call", name, arguments>>; an argument left out is    *)
(* <<"none">>.                                                             *)
RECURSIVE Expression(_, _), Arguments(_, _, _)

(* The first argument is looked for even if there is none to be found; if  *)
(* the procedure has no parameters it is left where it is.  What follows   *)
(* a comma has to be there, except before the next comma.                  *)
ArgumentAt(r, p, args, k) ==
  LET formals == r.g.procs[p].formals IN
  CASE ~r.ok -> r
    [] r.ok /\ k > Len(formals) ->
         IF k = 1 /\ args[k] # <<"none">> THEN [r EXCEPT !.ok = FALSE]
         ELSE [r EXCEPT !.ok = FALSE, !.g = Fail(@, "too many")]
    [] r.ok /\ k <= Len(formals) /\ args[k] = <<"none">> /\ k = Len(args) -> [r EXCEPT !.ok = FALSE]
    [] OTHER ->
         With(IF args[k] = <<"none">> THEN Res(r.g, NoItem) ELSE Expression(r.g, args[k]), LAMBDA e :
           IF e.item.kind = "fail" THEN [r EXCEPT !.g = Fail(e.g, "argument"), !.ok = FALSE]
           ELSE With(transAssignArg(e.g, formals[k], e.item), LAMBDA a :
                  [g |-> a.g, ok |-> a.item.kind # "fail", items |-> Append(r.items, a.item)]))

(* transActualArgs: those given, then the default values.                  *)
Defaults(r, p) ==
  Thread(LAMBDA q, formal :
           IF ~q.ok THEN q
           ELSE With(transAssignArg(q.g, formal, NoItem), LAMBDA a :
                  [g |-> a.g, ok |-> a.item.kind # "fail", items |-> Append(q.items, a.item)]),
         r, SubSeq(r.g.procs[p].formals, Len(r.items) + 1, Len(r.g.procs[p].formals)))
Arguments(g, p, args) ==
  With(Thread(LAMBDA r, k : ArgumentAt(r, p, args, k), [g |-> g, ok |-> TRUE, items |-> <<>>],
              [k \in 1 .. Len(args) |-> k]),
       LAMBDA r : Defaults(r, p))

transFunctionCall(g, p, args) ==
  With(Arguments(g, p, args), LAMBDA r :
    IF r.ok THEN CG_transCall(r.g, p, r.items) ELSE Refused(r.g, "syntax"))

(* expDesignator, of a name that is read.                                  *)
Designator(g, name, args) ==
  With(E_resolveVFC(g, name), LAMBDA i :
    CASE i.kind = "prc"  -> transFunctionCall(g, i.ref, args)
      [] i.kind # "prc" /\ args # <<>> -> Refused(g, "not an array")
      [] i.kind = "none" /\ args = <<>> -> autovar(g, name)
      [] OTHER -> Res(g, i))

Expression(g, e) ==
  CASE e[1] = "const" -> Res(g, Item("const", "integer", e[2]))
    [] e[1] = "var"   -> Designator(g, e[2], <<>>)
    [] e[1] = "call"  -> Designator(g, e[2], e[3])
    [] e[1] = "paren" -> Expression(g, e[2])
    [] e[1] = "plus"  ->
         With(Expression(g, e[2]), LAMBDA l :
           IF l.item.kind = "fail" THEN l
           ELSE With(Expression(l.g, e[3]), LAMBDA r :
                  IF r.item.kind = "fail" THEN r ELSE Sum(r.g, l.item, r.item)))

-----------------------------------------------------------------------------
(* Headers.  A line's label is that of procHeader: the name, the extra     *)
(* words of a SUB, and something that tells a FUNCTION.                    *)
Label(line) == <<line.name>> \o line.extra \o (IF line.ret = "" THEN <<>> ELSE <<"_">>)
procHeader(line) ==
  [name |-> line.name, extra |-> line.extra, ret |-> line.ret, formals |-> line.formals,
   public |-> line.public, body |-> line.op = "begin", label |-> Label(line)]

matchProcSignatures(p, q) ==
  /\ p.ret = q.ret /\ Len(p.formals) = Len(q.formals)
  /\ \A k \in DOMAIN p.formals : /\ p.formals[k].mode = q.formals[k].mode
                                 /\ compatible_ty(p.formals[k].ty, q.formals[k].ty)

(* The declaration of the same procedure that is found first, 0 for none.  *)
Declared(g, p) ==
  IF p.ret # "" THEN With(E_resolveVFC(g, p.name), LAMBDA i :
                      CASE i.kind = "none" -> 0 [] i.kind = "prc" -> i.ref [] OTHER -> -1)
  ELSE With(SelectSeq(E_resolveSub(g, p.name), LAMBDA q : g.procs[q].extra = p.extra), LAMBDA s :
         IF s = <<>> THEN 0 ELSE Head(s))

(* Where it is visible from: a private procedure only from its own scope.  *)
Declare(g, env, p) ==
  IF g.procs[p].ret = "" THEN E_declareSub(g, env, p)
  ELSE E_declareVFC(g, env, g.procs[p].name, Item("prc", "", p))
NewProc(g, p) ==
  With([g EXCEPT !.procs = Append(@, p)], LAMBDA h :
    With(Declare(h, SLE(h).env, Len(h.procs)), LAMBDA k :
      IF p.public THEN Declare(k, Module, Len(k.procs)) ELSE k))
checkProcMultiDecl(g, p) ==
  With(Declared(g, p), LAMBDA d :
    CASE d = 0  -> NewProc(g, p)
      [] d = -1 -> Fail(g, "not a FUNCTION")
      [] d > 0 /\ (g.procs[d].body \/ ~p.body) -> Fail(g, "multiple")
      [] d > 0 /\ ~g.procs[d].body /\ p.body /\ ~matchProcSignatures(p, g.procs[d]) -> Fail(g, "mismatch")
      [] OTHER -> [g EXCEPT !.procs[d].body = TRUE])

stmtProcDecl(g, line) == checkProcMultiDecl(g, procHeader(line))

(* CG_Frame: the parameters, from 8(fp) up; a small one is at the end of   *)
(* its four bytes, where it is when a long word is pushed.                 *)
FormalItem(formals, k) ==
  LET slot == 4 + 4 * k IN
  IF formals[k].mode = "ref" THEN Item("ref", formals[k].ty, slot)
  ELSE Item("frame", formals[k].ty, slot + 4 - Size(formals[k].ty))
(* A body has a scope and a frame of its own; the value of a FUNCTION is a *)
(* local variable, 0 at first.                                             *)
ReturnVar(g, line) ==
  IF line.ret = "" THEN g
  ELSE With(LocalVar(g, line.ret), LAMBDA r :
         CG_transAssignment([r.g EXCEPT !.stack[Len(g.stack)].ret = r.item], r.item,
                            Item("const", line.ret, 0)))
stmtProcBegin(g, line) ==
  LET p == procHeader(line)
      env == [Scope(Module) EXCEPT !.vars =
                [n \in {p.formals[k].name : k \in DOMAIN p.formals} |->
                   FormalItem(p.formals, CHOOSE k \in DOMAIN p.formals : p.formals[k].name = n)]] IN
  With([g EXCEPT !.envs = Append(@, env), !.labels = @ + 1], LAMBDA h :
    With(slePush(h, "proc", p, Len(h.envs), NewFrame(line.static), NoItem, h.labels), LAMBDA k :
      checkProcMultiDecl(ReturnVar(k, line), p)))

(* CG_procEntryExit: the exit label, and the result to d0.                 *)
stmtProcEnd_(g) ==
  LET sle == SLE(g) IN
  With(Emit(g, <<"label", sle.exit>>), LAMBDA h :
    With(IF sle.ret.kind = "none" THEN h
         ELSE CG_transAssignment(h, Item("reg", sle.ret.ty, 0), sle.ret), LAMBDA k :
      [k EXCEPT !.stack = Front(@),
                !.frags = Append(@, [label |-> sle.proc.label, code |-> SLE(k).code,
                                     size |-> -SLE(k).frame.locals])]))

stmtEnd(g, line) ==
  IF SLE(g).kind = "proc" /\ (line.ret = "" <=> SLE(g).proc.ret = "") THEN stmtProcEnd_(g)
  ELSE Fail(g, "END")

-----------------------------------------------------------------------------
(* Statements.                                                             *)
Value(g, ret, e) ==
  With(Expression(g, e), LAMBDA x : IF x.item.kind = "fail" THEN x ELSE convert_ty(x.g, x.item, ret.ty))
(* That of the main program comes back from a GOSUB, and is not modelled.  *)
Bra(g) == Emit(g, <<"bra", SLE(g).exit>>)
stmtReturn(g, e) ==
  LET ret == SLE(g).ret  sub == ret.kind = "none" IN
  CASE SLE(g).kind = "top" \/ (sub <=> e # <<"none">>) -> Fail(g, "RETURN")
    [] SLE(g).kind # "top" /\ sub /\ e = <<"none">> -> Bra(g)
    [] OTHER -> With(Value(g, ret, e), LAMBDA v :
                  IF v.item.kind = "fail" THEN v.g ELSE Bra(CG_transAssignment(v.g, ret, v.item)))

(* subCall: the extra words, the arguments, and nothing after them.  A     *)
(* word that is left is the first argument.                                *)
SubCall(g, p, words, args) ==
  LET extra == g.procs[p].extra
      left  == SubSeq(words, Len(extra) + 1, Len(words)) IN
  IF ~IsPrefix(extra, words) THEN [g |-> g, ok |-> FALSE]
  ELSE With(Arguments(g, p, IF left = <<>> THEN args ELSE <<<<"var", Head(left)>>>>), LAMBDA r :
         IF r.ok /\ (left = <<>> \/ (Len(left) = 1 /\ args = <<>>))
         THEN [g |-> CG_transCall(r.g, p, r.items).g, ok |-> TRUE] ELSE [g |-> r.g, ok |-> FALSE])

(* A name that is neither SUB nor FUNCTION is a variable, and if nothing   *)
(* follows it the statement does nothing.                                  *)
NotASub(g, line) ==
  With(E_resolveVFC(g, line.name), LAMBDA i :
    CASE line.words # <<>> -> Fail(g, "syntax")
      [] line.words = <<>> /\ i.kind = "none" /\ line.args # <<>> -> Fail(g, "syntax")
      [] OTHER -> Designator(g, line.name, line.args).g)

(* statementOrAssignment: the SUB with most of the extra words that are    *)
(* there.                                                                  *)
Matches(g, p, words) == IF IsPrefix(g.procs[p].extra, words) THEN 1 + Len(g.procs[p].extra) ELSE 0
Best(g, subs, words) ==
  Thread(LAMBDA best, p : IF Matches(g, p, words) > (IF best = 0 THEN 0 ELSE Matches(g, best, words))
                          THEN p ELSE best, 0, subs)
subCall(g, line) ==
  With(Best(g, E_resolveSub(g, line.name), line.words), LAMBDA p :
    IF p = 0 THEN NotASub(g, line)
    ELSE With(SubCall(g, p, line.words, line.args), LAMBDA r :
           IF r.ok THEN r.g ELSE Fail(r.g, "syntax")))

(* CALL: the first SUB of the name that fits; what others left stays.      *)
stmtCall(g, line) ==
  With(E_resolveSub(g, line.name), LAMBDA subs :
    With(Thread(LAMBDA r, p : IF r.ok THEN r ELSE SubCall(r.g, p, line.words, line.args),
                [g |-> g, ok |-> FALSE], subs), LAMBDA r :
      CASE r.ok -> r.g
        [] ~r.ok /\ subs # <<>> -> Fail(r.g, "syntax")
        [] OTHER -> NotASub(g, line)))

(* An assignment; in a FUNCTION to its name, of the value it returns.      *)
Target(g, name) ==
  With(E_resolveVFC(g, name), LAMBDA i :
    CASE i.kind = "prc"  -> Res(g, SLE(g).ret)
      [] i.kind = "none" -> autovar(g, name)
      [] OTHER -> Res(g, i))
assignment(g, line) ==
  With(Target(g, line.name), LAMBDA left :
    With(Expression(left.g, line.exp), LAMBDA x :
      IF x.item.kind = "fail" THEN x.g
      ELSE With(convert_ty(x.g, x.item, left.item.ty), LAMBDA v :
             IF v.item.kind = "fail" THEN v.g ELSE CG_transAssignment(v.g, left.item, v.item))))

(* stmtIfBegin, of a statement on the same line, if the line has a guard.  *)
Guarded(g, name, Op(_)) ==
  IF name = "" THEN Op(g)
  ELSE With(Designator([g EXCEPT !.labels = @ + 1], name, <<>>), LAMBDA x :
         With(CG_loadVal(x.g, x.item), LAMBDA t :
           With(Op(Emit(t.g, <<"beq", t.item.ref, Size(t.item.ty), g.labels + 1>>)), LAMBDA h :
             Emit(h, <<"label", g.labels + 1>>))))

-----------------------------------------------------------------------------
(* The end of the source: nothing may be unfinished, and what main or      *)
(* everybody was promised must be there.                                   *)
Functions(g, env) == {g.envs[env].vars[n].ref : n \in {x \in DOMAIN g.envs[env].vars : g.envs[env].vars[x].kind = "prc"}}
(* As if only FUNCTIONs had to be there.                                   *)
MissingFunction(g) == \E p \in Functions(g, SLE(g).env) : ~g.procs[p].body

Missing(g) ==
  \E p \in Functions(g, SLE(g).env) \cup {g.envs[SLE(g).env].subs[k] : k \in DOMAIN g.envs[SLE(g).env].subs} :
    ~g.procs[p].body
SourceEnd(g) ==
  CASE Missing(g) -> Fail(g, "missing implementation")
    [] ~Missing(g) /\ SLE(g).kind # "top" -> Fail(g, "unfinished")
    [] OTHER -> [g EXCEPT !.frags = Append(@, [label |-> <<"">>, code |-> SLE(g).code,
                                               size |-> -SLE(g).frame.locals])]
(* The assembler defines the label of a procedure once.                    *)
LabelsOnce(g) ==
  \A k, m \in DOMAIN g.frags : g.frags[k].label = g.frags[m].label => k = m
=============================================================================
