----------------------------- MODULE CallMeaning ----------------------------
(***************************************************************************)
(* What a program of procedures means, said of its lines alone, and the    *)
(* properties: a program is refused for a reason that can be seen in it,   *)
(* and one that is not leaves in its variables what its calls compute.     *)
(***************************************************************************)
EXTENDS Activations

Omitted == <<"none">>
Headers == {k \in DOMAIN prog : prog[k].op \in {"declare", "begin"}}
Begins  == {k \in Headers : prog[k].op = "begin"}

(* The body a line is in, 0 for the main program: a header opens its own.  *)
Before(k, ops) == {j \in 1 .. k : prog[j].op \in ops}
Greatest(s) == CHOOSE x \in s : \A y \in s : y <= x
Least(s)    == CHOOSE x \in s : \A y \in s : x <= y
BodyOf(j) ==
  LET open == {b \in Begins : b <= j /\ ~\E e \in b .. j - 1 : prog[e].op = "end"} IN
  IF open = {} THEN 0 ELSE Greatest(open)

(* A public header is seen from every later line, a private one from the   *)
(* lines of its own scope.                                                 *)
Sees(j, k) ==
  /\ k <= j
  /\ prog[k].public \/ BodyOf(j) = (IF prog[k].op = "begin" THEN k ELSE 0)
Same(k, j)  == /\ prog[k].name = prog[j].name /\ prog[k].extra = prog[j].extra
               /\ prog[k].ret = "" <=> prog[j].ret = ""
Earlier(j)  == {k \in Headers : k # j /\ Sees(j, k) /\ Same(k, j)}
Signature(k) == <<prog[k].ret, [i \in DOMAIN prog[k].formals |->
                                  <<prog[k].formals[i].mode, prog[k].formals[i].ty>>]>>

(* The headers a call may mean: those that are not the body of another.    *)
Callable(j, name, function) ==
  {k \in Headers : /\ Sees(j, k) /\ prog[k].name = name /\ Earlier(k) = {}
                   /\ function <=> prog[k].ret # ""}
IsFunction(j, name) == Callable(j, name, TRUE) # {}
Function(j, name)   == Least(Callable(j, name, TRUE))

(* Of the SUBs whose extra words are there, the one with most of them.     *)
Fitting(j, line) == {k \in Callable(j, line.name, FALSE) : IsPrefix(prog[k].extra, line.words)}
Sub(j, line) == CHOOSE k \in Fitting(j, line) : \A m \in Fitting(j, line) : Len(prog[m].extra) <= Len(prog[k].extra)
Remaining(k, line) == SubSeq(line.words, Len(prog[k].extra) + 1, Len(line.words))
Passed(k, line) ==
  IF Remaining(k, line) = <<>> THEN line.args ELSE [i \in DOMAIN Remaining(k, line) |-> <<"var", Remaining(k, line)[i]>>]

-----------------------------------------------------------------------------
(* Why a program is refused.                                               *)
RECURSIVE TypeOf(_, _), IsConstant(_), Sound(_, _)
TypeOf(j, e) ==
  CASE e[1] = "const" -> "integer"
    [] e[1] = "var" /\ BodyOf(j) > 0 /\ \E f \in DOMAIN prog[BodyOf(j)].formals : prog[BodyOf(j)].formals[f].name = e[2] ->
         LET formals == prog[BodyOf(j)].formals IN
         formals[CHOOSE f \in DOMAIN formals : formals[f].name = e[2]].ty
    [] e[1] \in {"var", "call"} /\ IsFunction(j, e[2]) -> prog[Function(j, e[2])].ret
    [] e[1] = "paren" -> TypeOf(j, e[2])
    [] e[1] = "plus" -> LET l == TypeOf(j, e[2])  r == TypeOf(j, e[3]) IN IF Size(l) >= Size(r) THEN l ELSE r
    [] OTHER -> TypeOfName[e[2]]
IsConstant(e) ==
  CASE e[1] = "const" -> TRUE
    [] e[1] = "paren" -> IsConstant(e[2])
    [] e[1] = "plus"  -> IsConstant(e[2]) /\ IsConstant(e[3])
    [] OTHER -> FALSE

(* Every parameter gets an argument: by reference a constant, or something *)
(* of exactly its type.  One that is left out is followed by another.      *)
Given(args, i) == i \in DOMAIN args /\ args[i] # Omitted
ArgumentsFit(j, k, args) ==
  /\ Len(args) <= Len(prog[k].formals)
  /\ args # <<>> => Last(args) # Omitted
  /\ \A i \in DOMAIN prog[k].formals :
       LET f == prog[k].formals[i] IN
       IF Given(args, i) THEN /\ Sound(j, args[i])
                              /\ f.mode = "ref" => IsConstant(args[i]) \/ TypeOf(j, args[i]) = f.ty
                         ELSE f.default # {}
Sound(j, e) ==
  CASE e[1] = "const" -> TRUE
    [] e[1] = "paren" -> Sound(j, e[2])
    [] e[1] = "plus"  -> Sound(j, e[2]) /\ Sound(j, e[3])
    [] OTHER -> LET args == IF e[1] = "call" THEN e[3] ELSE <<>> IN
                IF IsFunction(j, e[2]) THEN ArgumentsFit(j, Function(j, e[2]), args) ELSE args = <<>>

Clash(j) ==                                   (* of a header with earlier ones *)
  /\ Earlier(j) # {}
  /\ \/ prog[j].op = "declare" \/ Earlier(j) \cap Begins # {}
     \/ Signature(Least(Earlier(j))) # Signature(j)
Bodiless(k) == prog[k].op = "declare" /\ ~\E j \in Begins : k \in Earlier(j)
Twice(j)    == \E k \in Begins : k # j /\ Same(k, j)
Unfinished  == \E b \in Begins : ~\E e \in b .. Len(prog) : prog[e].op = "end"
Misplaced(j) == BodyOf(j) = 0 \/ (prog[j].ret = "" <=> prog[BodyOf(j)].ret # "")
Miscalled(j) ==
  LET line == prog[j] IN
  CASE Fitting(j, line) # {} ->
         LET k == Sub(j, line) IN
         \/ ~ArgumentsFit(j, k, Passed(k, line)) \/ Len(Remaining(k, line)) > 1
         \/ Remaining(k, line) # <<>> /\ line.args # <<>>
    [] Fitting(j, line) = {} /\ (line.op = "call" /\ Callable(j, line.name, FALSE) # {}) -> TRUE
    [] OTHER -> line.words # <<>> \/ ~Sound(j, <<"call", line.name, line.args>>)
Returns(j) ==
  LET b == BodyOf(j) IN
  b > 0 /\ IF prog[b].ret = "" THEN prog[j].exp = Omitted ELSE prog[j].exp # Omitted /\ Sound(j, prog[j].exp)

Wrong(j) ==
  CASE prog[j].op = "declare" -> Clash(j) \/ Bodiless(j)
    [] prog[j].op = "begin"   -> Clash(j) \/ Twice(j)
    [] prog[j].op = "end"     -> Misplaced(j)
    [] prog[j].op \in {"sub", "call"} -> Miscalled(j)
    [] prog[j].op = "let"     -> ~Sound(j, prog[j].exp)
    [] prog[j].op = "return"  -> ~Returns(j)

-----------------------------------------------------------------------------
(* What a program computes.  st.cells: the values of all variables there   *)
(* ever were; an environment gives the cell and the type of a name.        *)
Wrap(v, ty) ==
  LET m == Radix^Size(ty)  low == v % m IN IF ty # "ubyte" /\ 2 * low >= m THEN low - m ELSE low
NewCell(st, v) == [st EXCEPT !.cells = Append(@, v)]
Answer(st, v, ty, cell) == [st |-> st, v |-> v, ty |-> ty, cell |-> cell]

RECURSIVE NamesIn(_)
NamesIn(e) ==
  CASE e[1] = "var"   -> {e[2]}
    [] e[1] = "paren" -> NamesIn(e[2])
    [] e[1] = "plus"  -> NamesIn(e[2]) \cup NamesIn(e[3])
    [] e[1] = "call"  -> UNION {NamesIn(e[3][i]) : i \in DOMAIN e[3]}
    [] OTHER -> {}
NamesOf(j) ==
  LET line == prog[j] IN
  CASE line.op = "let" -> {line.name} \cup NamesIn(line.exp)
    [] line.op = "return" -> NamesIn(line.exp)
    [] line.op \in {"sub", "call"} ->
         UNION {NamesIn(line.args[i]) : i \in DOMAIN line.args}
         \cup (IF Fitting(j, line) = {} THEN {} ELSE Range(Remaining(Sub(j, line), line)))
    [] OTHER -> {}
Guards(j) == IF prog[j].op \in {"declare", "begin", "end"} \/ prog[j].guard = "" THEN {} ELSE {prog[j].guard}
LinesOf(b) == {j \in DOMAIN prog : j # b /\ prog[j].op \notin {"begin", "declare", "end"} /\ BodyOf(j) = b}
Variables(b) ==
  {n \in UNION {NamesOf(j) \cup Guards(j) : j \in LinesOf(b)} :
     ~\E j \in LinesOf(b) : IsFunction(j, n)}

(* Variables nobody declared: of a STATIC procedure the same at each call. *)
WithVariable(s, b, n) ==
  LET key == <<b, n>>  kept == b = 0 \/ prog[b].static IN
  IF kept /\ key \in DOMAIN s.st.statics
  THEN [s EXCEPT !.env = (n :> [cell |-> s.st.statics[key], ty |-> TypeOfName[n]]) @@ @]
  ELSE LET st == NewCell(s.st, 0) IN
       [st  |-> IF kept THEN [st EXCEPT !.statics = (key :> Len(st.cells)) @@ @] ELSE st,
        env |-> (n :> [cell |-> Len(st.cells), ty |-> TypeOfName[n]]) @@ s.env]

RECURSIVE Evaluated(_, _, _, _), Called(_, _, _, _, _)

(* A variable of a sum is read after the operand on its right was          *)
(* evaluated, calls included.                                              *)
Evaluated(j, env, st, e) ==
  CASE e[1] = "const" -> Answer(st, e[2], "integer", 0)
    [] e[1] = "paren" -> Evaluated(j, env, st, e[2])
    [] e[1] = "plus"  ->
         With(Evaluated(j, env, st, e[2]), LAMBDA l :
           With(Evaluated(j, env, l.st, e[3]), LAMBDA r :
             LET ty == TypeOf(j, e)  left == IF l.cell = 0 THEN l.v ELSE r.st.cells[l.cell] IN
             Answer(r.st, Wrap(left + r.v, ty), ty, 0)))
    [] e[1] = "var" /\ e[2] \in DOMAIN env ->
         Answer(st, st.cells[env[e[2]].cell], env[e[2]].ty, env[e[2]].cell)
    [] OTHER -> Called(j, Function(j, e[2]), env, st, IF e[1] = "call" THEN e[3] ELSE <<>>)

(* An argument by reference that is a variable is that variable; any other *)
(* argument is a variable of its own, with the value converted.            *)
Argument(j, env, s, f, e) ==
  With(IF e = Omitted THEN Answer(s.st, CHOOSE v \in f.default : TRUE, f.ty, 0) ELSE Evaluated(j, env, s.st, e),
       LAMBDA a : IF f.mode = "ref" /\ a.cell # 0 THEN [st |-> a.st, cells |-> Append(s.cells, a.cell)]
                  ELSE LET st == NewCell(a.st, Wrap(a.v, f.ty)) IN
                       [st |-> st, cells |-> Append(s.cells, Len(st.cells))])

Statement1(j, env, result, st) ==
  LET line == prog[j] IN
  CASE line.op = "let" ->
         With(Evaluated(j, env, st, line.exp), LAMBDA a :
           LET to == IF line.name \in DOMAIN env THEN env[line.name] ELSE result IN
           [st |-> [a.st EXCEPT !.cells[to.cell] = Wrap(a.v, to.ty)], over |-> FALSE])
    [] line.op = "return" ->
         IF line.exp = Omitted THEN [st |-> st, over |-> TRUE]
         ELSE With(Evaluated(j, env, st, line.exp), LAMBDA a :
                [st |-> [a.st EXCEPT !.cells[result.cell] = Wrap(a.v, result.ty)], over |-> TRUE])
    [] line.op \in {"sub", "call"} /\ Fitting(j, line) # {} ->
         LET k == Sub(j, line) IN [st |-> Called(j, k, env, st, Passed(k, line)).st, over |-> FALSE]
    [] line.op \in {"sub", "call"} /\ Fitting(j, line) = {} ->  (* of a name that is nothing: nothing *)
         [st |-> IF IsFunction(j, line.name) THEN Called(j, Function(j, line.name), env, st, line.args).st ELSE st,
          over |-> FALSE]
Done(b, env, result, st) ==
  Thread(LAMBDA s, j :
           IF s.over \/ (\E n \in Guards(j) : s.st.cells[env[n].cell] = 0) THEN s ELSE Statement1(j, env, result, s.st),
         [st |-> st, over |-> FALSE], SetToSortSeq(LinesOf(b), <))

Called(j, k, env, st, args) ==
  LET b == CHOOSE x \in Begins : Same(x, k)
      formals == prog[k].formals IN
  With(Thread(LAMBDA s, i : Argument(j, env, s, formals[i], IF Given(args, i) THEN args[i] ELSE Omitted),
              [st |-> st, cells |-> <<>>], [i \in DOMAIN formals |-> i]), LAMBDA a :
    With(Thread(LAMBDA s, n : WithVariable(s, b, n),
                [st |-> NewCell(a.st, 0),
                 env |-> [n \in {f.name : f \in Range(prog[b].formals)} |->
                            LET i == CHOOSE x \in DOMAIN formals : prog[b].formals[x].name = n IN
                            [cell |-> a.cells[i], ty |-> formals[i].ty]]],
                SetToSeq(Variables(b) \ {f.name : f \in Range(prog[b].formals)})), LAMBDA s :
      LET result == [cell |-> Len(a.st.cells) + 1, ty |-> prog[b].ret] IN
      With(Done(b, s.env, result, s.st), LAMBDA d :
        Answer(d.st, d.st.cells[result.cell], prog[b].ret, 0))))

Results ==
  With(Thread(LAMBDA s, n : WithVariable(s, 0, n),
              [st |-> [cells |-> <<>>, statics |-> [k \in {} |-> 0]], env |-> [n \in {} |-> 0]], SetToSeq(Variables(0))),
       LAMBDA s : With(Done(0, s.env, [cell |-> 0, ty |-> ""], s.st), LAMBDA d :
                    [n \in DOMAIN s.env |-> d.st.cells[s.env[n].cell]]))

-----------------------------------------------------------------------------
MainVariables == {n \in DOMAIN gen.envs[Main].vars : gen.envs[Main].vars[n].kind = "heap"}
Final(n) ==
  LET i == gen.envs[Main].vars[n] IN Wrap(ReadAt(cpu.mem, i.ref, Size(i.ty)), i.ty)

TypeOK ==
  /\ phase \in {"source", "refused", "running", "crashed", "done"}
  /\ at \in 1 .. Len(prog) + 1 /\ Len(gen.stack) \in 1 .. 2
  /\ \A k \in DOMAIN gen.stack : gen.stack[k].env \in DOMAIN gen.envs
  /\ phase = "running" => /\ cpu.frag \in DOMAIN gen.frags /\ cpu.pc \in 0 .. Len(Code) + 1
                          /\ cpu.sp \in gen.heap .. StackTop /\ cpu.sp % 2 = 0

(* Arguments by value are copies, those by reference the caller's variable *)
(* or one of the call's own; every activation has its own parameters and   *)
(* variables, whatever calls are in arguments, in bodies or in themselves; *)
(* results and default values arrive: when the program is over, its        *)
(* variables have the values its lines mean, and the stack is empty.       *)
RunsAsCalled ==
  /\ phase # "crashed"
  /\ phase = "done" =>
       /\ cpu.sp = StackTop /\ cpu.fp = StackTop /\ cpu.saved = <<>>
       /\ With(Results, LAMBDA r : \A n \in DOMAIN r \cap MainVariables : Final(n) = r[n])

(* A program is refused if, and only if, something is wrong with a line of *)
(* it: two headers do not go together, a body is missing or not finished,  *)
(* a call has arguments its procedure does not take.                       *)
RefusalsExplained ==
  /\ phase = "refused" => Unfinished \/ \E j \in DOMAIN prog : Wrong(j)
  /\ phase \in {"running", "done"} => ~Unfinished /\ \A j \in DOMAIN prog : ~Wrong(j)

(* The frame pointers saved on the stack lead, one for every activation,   *)
(* from the running one to the start-up code's: no variable, argument or   *)
(* temporary was put on top of them.                                       *)
Chain(fp, n) ==
  LET f[k \in 0 .. n] == IF k = 0 THEN fp
                         ELSE IF f[k - 1] \in 0 .. StackTop - 4 THEN ReadAt(cpu.mem, f[k - 1], 4) ELSE 0
  IN f[n]
FramesChained ==
  (phase = "running" /\ cpu.pc > 0) =>
    /\ Chain(cpu.fp, Len(cpu.saved) + 1) = StackTop
    /\ \A k \in 0 .. Len(cpu.saved) : Chain(cpu.fp, k) < Chain(cpu.fp, k + 1)

(* Calls do what they mean, and keep the stack in order while they do.     *)
CallsCorrect == TypeOK /\ RunsAsCalled /\ FramesChained
=============================================================================
