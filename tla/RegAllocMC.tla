----------------------------- MODULE RegAllocMC -----------------------------
(***************************************************************************)
(* Programs for RegAlloc: SELECT CASE, IF with compound conditions, every  *)
(* kind of loop, left and continued from branches inside it and from loops *)
(* inside it, loops deep enough that temps are spilled, calls.             *)
(***************************************************************************)
EXTENDS RegAlloc

CONSTANTS
  MaxCases,    (* CASEs of a SELECT                                          *)
  MaxExprs,    (* expressions of a CASE                                      *)
  Deep,        (* how deep FOR loops nest                                    *)
  Wanted       (* the programs of a run: "all", or those with a known fault  *)

Op(o)       == [NoStatement EXCEPT !.op = o]
On(o, x)    == [Op(o) EXCEPT !.x = x]
Stmt(n)     == <<[Op("stmt") EXCEPT !.num = n]>>
When(o, c)  == [Op(o) EXCEPT !.cond = c]
Until(o, c) == [When(o, c) EXCEPT !.until = TRUE]
Out(o, ks)  == <<[Op(o) EXCEPT !.kinds = ks]>>

Rel(x, ro, v) == <<<<[ro |-> ro, x |-> x, val |-> v]>>>>
AndRel(c, d)  == <<c[1] \o d[1]>>

IfThen(c, b)      == <<When("if", c)>> \o b \o <<Op("endif")>>
IfElse(c, b, e)   == <<When("if", c)>> \o b \o <<Op("else")>> \o e \o <<Op("endif")>>
IfChain(c, d)     == <<When("if", c)>> \o Stmt(1) \o <<When("elseif", d)>> \o Stmt(2)
                     \o <<Op("else")>> \o Stmt(3) \o <<Op("endif")>>
Selecting(x, cases, Body(_)) ==
  <<On("select", x)>>
  \o FlattenSeq([k \in DOMAIN cases |-> <<[Op("case") EXCEPT !.exprs = cases[k]]>> \o Body(k)])
  \o <<Op("endselect")>>

-----------------------------------------------------------------------------
(* Every value a program starts with meets the lower bound of the range.     *)
Single == {Is("lt", 1), Is("ge", 2), To(0, 1)}
Ranges == {To(1, 2)}

ExprLists(s) == UNION {[1 .. n -> s] : n \in 1 .. MaxExprs}
Cases(s)     == UNION {[1 .. n -> ExprLists(s)] : n \in 1 .. MaxCases}

(* A range only where no comparison with the selected value follows it.      *)
RangeLast ==
  {[c EXCEPT ![Len(c)] = Append(@, r)] : c \in Cases(Single), r \in Ranges}
  \cup {<<<<r>>>> : r \in Ranges}
WithElse(s) == s \cup {Append(c, <<>>) : c \in s}

Selections(s) == {Selecting(1, c, LAMBDA k : Stmt(k)) \o Stmt(9) : c \in s}

-----------------------------------------------------------------------------
Simple   == {Rel(1, "eq", 1), Rel(1, "ne", 0), Rel(2, "lt", 2)}
Constant == {<<<<[ro |-> b, x |-> 1, val |-> 0]>>>> : b \in {"true", "false"}}
Both     == {AndRel(c, d) : c \in Simple, d \in Simple \cup Constant}
Compound == Simple \cup Both \cup {c \o d : c \in Simple \cup Constant, d \in Simple \cup Both}
            \cup {c \o d : c \in Both, d \in Simple}

Conditionals == {IfElse(c, Stmt(1), Stmt(2)) \o Stmt(9) : c \in Compound}
           \cup {IfChain(c, d) \o Stmt(9) : c \in Simple, d \in Simple \cup Constant}
           \cup {IfThen(c, IfThen(d, Stmt(1))) : c \in Simple, d \in Simple}

-----------------------------------------------------------------------------
(* Loops on the variable x, and their kinds.                                 *)
Pre  == {"for", "while", "dowhile", "dountil", "do"}
Post == {"loopwhile", "loopuntil"}
Kind(l) == IF l \in {"for", "while"} THEN l ELSE "do"
Looping(l, x, b) ==
  LET more == Rel(x, "lt", 2)  enough == Rel(x, "ge", 2)
      body == <<On("inc", x)>> \o b
  IN CASE l = "for"       -> <<On("for", x)>> \o b \o <<Op("next")>>
       [] l = "while"     -> <<When("while", more)>> \o body \o <<Op("wend")>>
       [] l = "dowhile"   -> <<When("do", more)>> \o body \o <<Op("loop")>>
       [] l = "dountil"   -> <<Until("do", enough)>> \o body \o <<Op("loop")>>
       [] l = "do"        -> <<Op("do"), On("inc", x)>> \o IfThen(enough, Out("exit", <<"do">>))
                             \o b \o <<Op("loop")>>
       [] l = "loopwhile" -> <<Op("do")>> \o body \o <<When("loop", more)>>
       [] l = "loopuntil" -> <<Op("do")>> \o body \o <<Until("loop", enough)>>

Leaving(o, x, ks) == Stmt(1) \o IfThen(Rel(x, "eq", 1), Out(o, ks)) \o Stmt(2)

Loops ==
  {Looping(l, 1, Leaving("exit", 1, <<Kind(l)>>)) \o Stmt(9) : l \in Pre \cup Post}
  \cup {Looping(l, 1, Leaving("continue", 1, <<>>)) \o Stmt(9) : l \in Pre}

(* The inner loop leaves or goes on with the outer one.                      *)
Nestings ==
  {Looping(l, 1, Looping(m, 2, Leaving(o, 2, IF Kind(l) = Kind(m) THEN <<Kind(m), Kind(l)>>
                                             ELSE <<Kind(l)>>)) \o Stmt(3)) \o Stmt(9) :
     l \in Pre, m \in Pre \cup Post, o \in {"exit", "continue"}}

(* A SELECT in a loop, which is left from one of its cases.                  *)
Cases2 == <<<<Is("eq", 1)>>, <<Is("lt", 1), To(1, 2)>>>>
InCases == {Looping(l, 1, Selecting(1, Cases2, LAMBDA k :
               IF k = 1 THEN Stmt(1) \o Out(o, <<Kind(l)>>) ELSE Stmt(2)) \o Stmt(3)) \o Stmt(9) :
              l \in Pre, o \in {"exit", "continue"}}

Typed(p, ty) == [k \in DOMAIN p |-> [p[k] EXCEPT !.ty = ty]]
Nest(d, b)   == FoldLeft(LAMBDA p, x : Looping("for", x, p), b, [x \in 1 .. d |-> x])
Deeper       == {Typed(Nest(d, Stmt(1)) \o Stmt(9), ty) : d \in 1 .. Deep, ty \in {"integer", "single"}}

(* The variable 1 differs from 2 and 3, in loops or because it is counted up. *)
Calling(r) == <<On("inc", 1), [On("call", 1) EXCEPT !.exprs = r]>> \o Stmt(1)
Calls == {Nest(d, Calling(r)) : d \in {0, 2}, r \in {<<A0, D0>>, <<D1, D0>>}}

-----------------------------------------------------------------------------
(* EXIT SELECT in a loop.                                                    *)
SelectLeft == {Looping("for", 1, Selecting(1, <<<<Is("ge", 1)>>>>,
                 LAMBDA k : Stmt(1) \o Out("exit", <<"select">>)) \o Stmt(2))}

(* More arguments than registers for data.                                   *)
ManyArguments == {Calling(r) : r \in {<<A0, D0, D1>>, <<D0, D1, A0>>}}

MCSources ==
  CASE Wanted = "all"    -> Selections(WithElse(RangeLast)) \cup Conditionals \cup Loops \cup Nestings
                            \cup InCases \cup Deeper \cup Calls
    [] Wanted = "ranges" -> Selections(Cases(Single \cup Ranges))
    [] Wanted = "exit"   -> SelectLeft
    [] Wanted = "args"   -> ManyArguments
=============================================================================
