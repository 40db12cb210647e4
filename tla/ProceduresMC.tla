----------------------------- MODULE ProceduresMC ---------------------------
(***************************************************************************)
(* Programs of procedures for TLC, in four families: arguments against     *)
(* parameters, calls in calls, headers against headers, extra words.       *)
(***************************************************************************)
EXTENDS CallMeaning

MCTypeOfName == [n \in {"x", "y", "a", "b", "n", "s", "t", "p", "f", "g", "draw", "box", "fill"} |-> "integer"]
                @@ [n \in {"l"} |-> "long"] @@ [n \in {"u"} |-> "ubyte"]

Let(n, e)      == [op |-> "let", guard |-> "", name |-> n, exp |-> e]
If(x, line)    == [line EXCEPT !.guard = x]
Return(e)      == [op |-> "return", guard |-> "", exp |-> e]
SubLine(op, n, words, args) == [op |-> op, guard |-> "", name |-> n, words |-> words, args |-> args]
Header(op, n, extra, ret, formals, public, static) ==
  [op |-> op, name |-> n, extra |-> extra, ret |-> ret, formals |-> formals,
   public |-> public, static |-> static]
End(ret) == [op |-> "end", ret |-> ret]
Procedure(h, body) == <<h>> \o body \o <<End(h.ret)>>

V(n)    == <<"var", n>>
C(v)    == <<"const", v>>
Plus(e, f) == <<"plus", e, f>>
Apply(n, args) == <<"call", n, args>>
Formal(mode, n, ty, default) == [mode |-> mode, name |-> n, ty |-> ty, default |-> default]

-----------------------------------------------------------------------------
(* Arguments against parameters: none to three, with and without a default *)
(* value, for none to two parameters.                                      *)
Kinds == {<<"ref", "integer", {}>>, <<"ref", "long", {6}>>, <<"val", "ubyte", {}>>,
          <<"val", "integer", {5}>>, <<"val", "long", {}>>, <<"ref", "ubyte", {}>>}
AFormal(n, k) == Formal(k[1], n, k[2], k[3])
Twos == {<<<<AFormal("a", k), AFormal("b", m)>>, <<Let("t", V("b")), Let("a", Plus(V("a"), V("t"))), Let("b", Plus(V("b"), V("a")))>>>> :
           k \in Kinds, m \in Kinds}
Ones == {<<<<AFormal("a", k)>>, <<Let("a", Plus(V("a"), C(1)))>>>> : k \in Kinds}
Nones == {<<<<>>, <<Let("t", C(1))>>>>}
Passing == {<<"none">>, C(-2), V("x"), V("l"), <<"paren", V("x")>>, Plus(V("l"), V("x"))}
Passings == {<<>>} \cup {<<e>> : e \in Passing} \cup {<<e, f>> : e, f \in Passing} \cup {<<V("x"), V("l"), C(1)>>}
ArgumentPrograms ==
  {Procedure(Header("begin", "p", <<>>, "", s[1], TRUE, FALSE), s[2])
     \o <<Let("x", C(3)), Let("l", C(20)), SubLine("sub", "p", <<>>, args)>> :
     s \in Nones \cup Ones \cup Twos, args \in Passings}

-----------------------------------------------------------------------------
(* Calls in calls.                                                         *)
Modes == {"ref", "val"}
Types == {"ubyte", "integer", "long"}
FunctionOf(n, ret, formals) == Header("begin", n, <<>>, ret, formals, TRUE, FALSE)
Recursive(mode, v) ==
  Procedure(FunctionOf("f", "integer", <<Formal(mode, "n", "integer", {})>>),
            <<If("n", Let("f", Plus(V("n"), Apply("f", <<Plus(V("n"), C(-1))>>))))>>)
  \o <<Let("x", C(v)), Let("y", Plus(Apply("f", <<V("x")>>), V("x")))>>
Mutual(mode, v) ==
  LET formals == <<Formal(mode, "n", "integer", {})>> IN
  <<[FunctionOf("g", "integer", formals) EXCEPT !.op = "declare"]>>
  \o Procedure(FunctionOf("f", "integer", formals),
               <<If("n", Return(Plus(Apply("g", <<Plus(V("n"), C(-1))>>), C(1))))>>)
  \o Procedure(FunctionOf("g", "integer", <<Formal(mode, "b", "integer", {})>>),
               <<Let("t", C(7)), If("b", Let("t", Apply("f", <<Plus(V("b"), C(-1))>>))), Let("g", V("t"))>>)
  \o <<Let("y", Apply("f", <<C(v)>>))>>
Counting(static, calls) ==
  Procedure(Header("begin", "p", <<>>, "", <<Formal("ref", "a", "integer", {})>>, TRUE, static),
            (IF static THEN <<>> ELSE <<Let("s", C(0))>>) \o <<Let("s", Plus(V("s"), C(1))), Let("a", Plus(V("a"), V("s")))>>)
  \o <<Let("x", C(0))>> \o [k \in 1 .. calls |-> SubLine("sub", "p", <<>>, <<V("x")>>)]
Side(mode, e) ==
  Procedure(FunctionOf("f", "integer", <<Formal(mode, "a", "integer", {}), Formal("val", "b", "integer", {4})>>),
            <<Let("a", Plus(V("a"), V("b"))), Return(V("a"))>>)
  \o <<Let("x", C(3)), Let("y", e)>>
Sides ==
  LET F(args) == Apply("f", args) IN
  {Plus(V("x"), F(<<V("x")>>)), Plus(F(<<V("x")>>), V("x")), F(<<F(<<V("x")>>)>>), F(<<V("x"), F(<<V("x")>>)>>),
   F(<<F(<<V("x"), C(2)>>), F(<<V("x")>>)>>), Plus(F(<<C(1)>>), F(<<C(2), V("x")>>)), Plus(<<"paren", V("x")>>, F(<<<<"paren", V("x")>>>>))}
Converting(ret, mode, ty, to, early) ==
  Procedure(FunctionOf("f", ret, <<Formal(mode, "a", ty, {})>>),
            IF early THEN <<Let("f", C(9)), If("a", Return(Plus(V("a"), C(6))))>> ELSE <<Let("f", Plus(V("a"), C(6)))>>)
  \o <<Let("u", C(13)), Let("l", C(30)), Let("x", C(0)), Let(to, Apply("f", <<V(to)>>))>>
Leaving(v) ==
  Procedure(Header("begin", "p", <<>>, "", <<Formal("ref", "a", "integer", {})>>, TRUE, FALSE),
            <<If("a", Return(<<"none">>)), Let("a", C(5))>>)
  \o <<Let("x", C(v)), If("x", SubLine("sub", "p", <<>>, <<V("x")>>)), SubLine("sub", "p", <<>>, <<V("x")>>),
       SubLine("call", "p", <<>>, <<V("y")>>)>>
CallPrograms ==
  {Recursive(mode, v) : mode \in Modes, v \in 0 .. 3} \cup {Mutual(mode, v) : mode \in Modes, v \in 0 .. 4}
  \cup {Counting(static, calls) : static \in BOOLEAN, calls \in 1 .. 3} \cup {Side(mode, e) : mode \in Modes, e \in Sides}
  \cup {Converting(ret, mode, ty, to, early) : ret \in Types, mode \in Modes, ty \in Types, to \in {"u", "x", "l"}, early \in BOOLEAN}
  \cup {Leaving(v) : v \in {0, 1}}

-----------------------------------------------------------------------------
(* Headers against headers: a declaration, a definition, and another of    *)
(* either; then a call, or an END too many, too few or of another kind.    *)
HeaderFormals == {<<>>, <<Formal("val", "a", "integer", {})>>, <<Formal("ref", "b", "integer", {2})>>,
                  <<Formal("val", "a", "long", {2})>>}
Bodies(h) ==
  IF h.op = "declare" THEN <<h>> ELSE Procedure(h, <<Let("t", C(1))>>)
HeaderOf(op, ret, formals, public) == Header(op, "p", <<>>, ret, formals, public, FALSE)
Parts(ops, ret) == {<<>>} \cup {Bodies(HeaderOf(op, ret, formals, public)) :
                                  op \in ops, formals \in HeaderFormals, public \in BOOLEAN}
Calls(ret) ==
  {<<>>, <<SubLine("sub", "p", <<>>, <<>>)>>, <<SubLine("sub", "p", <<>>, <<C(1)>>)>>}
  \cup (IF ret = "" THEN {} ELSE {<<Let("y", Apply("p", <<C(1)>>))>>})
Third(ret) == {<<>>, Bodies(HeaderOf("begin", ret, <<>>, TRUE)), Bodies(HeaderOf("declare", ret, <<>>, TRUE))}
HeaderPrograms ==
  UNION {{d \o b \o c \o e : d \in Parts({"declare"}, ret), b \in Parts({"begin"}, ret), c \in Third(ret), e \in Calls(ret)} :
           ret \in {"", "integer"}}
  \cup {<<HeaderOf("begin", ret, <<>>, TRUE), Let("t", C(1))>> \o ends \o <<Let("y", C(2))>> :
          ret \in {"", "integer"}, ends \in {<<>>} \cup {<<End(r)>> : r \in {"", "integer"}} \cup {<<End(r), End("")>> : r \in {"", "integer"}}}

-----------------------------------------------------------------------------
(* Extra words: SUBs draw, draw box and draw box fill in every order.      *)
DrawOf(extra, v) ==
  Procedure(Header("begin", "draw", extra, "",
                   <<Formal("val", "n", "integer", {}), Formal("ref", "a", "integer", {3})>>, TRUE, FALSE),
            <<Let("a", Plus(V("n"), C(v)))>>)
Draws == {<<DrawOf(<<>>, 10)>>, <<DrawOf(<<>>, 10), DrawOf(<<"box">>, 20)>>, <<DrawOf(<<"box">>, 20), DrawOf(<<>>, 10)>>,
          <<DrawOf(<<"box">>, 20), DrawOf(<<"box", "fill">>, 30), DrawOf(<<>>, 10)>>,
          <<DrawOf(<<"box", "fill">>, 30), DrawOf(<<"box">>, 20)>>}
Words == {<<>>, <<"x">>, <<"box">>, <<"box", "x">>, <<"box", "fill">>, <<"box", "fill", "x">>, <<"box", "x", "x">>}
DrawPrograms ==
  {FlattenSeq(draws) \o <<Let("x", C(1)), Let("y", C(2)), SubLine("sub", "draw", words, args)>> :
     draws \in Draws, words \in Words, args \in {<<>>, <<V("x")>>, <<V("x"), V("y")>>}}
  \cup {DrawOf(<<"box">>, 20) \o <<Let("x", C(1)), Let("y", C(2)), SubLine("call", "draw", words, args)>> :
          words \in Words, args \in {<<>>, <<V("x")>>, <<V("x"), V("y")>>}}

MCPrograms == ArgumentPrograms \cup CallPrograms \cup HeaderPrograms \cup DrawPrograms
=============================================================================
