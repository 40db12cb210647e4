---------------------------- MODULE ExpressionsMC ----------------------------
(***************************************************************************)
(* The assignments TLC compiles and executes: one conversion, one operator *)
(* or two, on operands of every type and place, with values at the ends of *)
(* the types.  The sizes are 4, 6 and 12 bits.                             *)
(***************************************************************************)
EXTENDS Meaning

FewBits == [B |-> 4, W |-> 6, L |-> 12]

(* Values, those of a single in halves.                                    *)
Samples == [bool |-> <<-1, 0, -1>>, byte |-> <<-3, 7, 2>>, ubyte |-> <<2, 13, 1>>,
            integer |-> <<-5, 3, 31>>, uinteger |-> <<3, 50, 1>>,
            long |-> <<-70, 3, 600>>, ulong |-> <<3, 1900, 1>>, single |-> <<-5, 4, 6>>]

Place == [a |-> 1, b |-> 2, c |-> 3, r |-> 4]
Decl(name, kind, ty, v) ==
  [kind |-> kind, ty |-> ty, init |-> IF kind = "const" THEN 0 ELSE v,
   val |-> CASE kind = "const" -> v [] kind = "ref" -> Slots + Place[name] [] OTHER -> Place[name]]
TargetOf(kind, ty) == Decl("r", kind, ty, 0)

Kinds  == <<"const", "frame", "ptr", "ref", "heap">>
KindsR == <<"frame", "heap", "ref", "ptr", "frame">>
Every  == 1..3
Binaries == {"plus", "minus", "mul", "div", "intDiv", "mod", "shl", "shr", "power",
             "xor", "eqv", "imp", "and", "or"} \cup RelOps

(* An assignment of one operand or two: its operators, and of each operand *)
(* the kind, the type and the sample; the kind and the type of the target. *)
Name == <<"a", "b", "c">>
Assignment(tree, operands, kind, ty) ==
  [tree |-> tree,
   decl |-> [n \in {Name[i] : i \in DOMAIN operands} |->
               LET p == operands[Place[n]] IN Decl(n, Kinds[p[1]], p[2], Samples[p[2]][p[3]])]
            @@ [r |-> TargetOf(kind, ty)]]

A == <<"a">>
B == <<"b">>
C == <<"c">>
Operands1 == (1..5) \X Types \X Every
Conversions ==
  {Assignment(A, <<p>>, KindsR[j], to) : p \in (1..5) \X Types \X (1..2), j \in 1..4, to \in Types}
Unaries == {Assignment(<<o, A>>, <<p>>, "frame", p[2]) : o \in {"neg", "not"}, p \in Operands1}

(* r = a o b                                                               *)
KindPairs == {<<1, 1>>, <<1, 2>>, <<2, 1>>, <<2, 5>>, <<4, 3>>, <<3, 4>>}
OneOperator(operators, samples) ==
  {Assignment(<<o, A, B>>, <<<<k[1], t[1], n>>, <<k[2], t[2], m>>>>, "frame",
              IF o \in RelOps THEN "bool" ELSE Common(t[1], t[2])) :
     o \in operators, t \in Types \X Types, k \in KindPairs, n \in 1..2, m \in samples}
SmallExponents ==                  (* exponents that TLC can count down     *)
  {s \in OneOperator({"power"}, 1..3) : LET b == s.decl.b IN b.init < 100 /\ (b.kind = "const" => b.val < 100)}

(* r = (a o b) p c,  r = a p (b o c),  and with a negation in it           *)
Few == {"plus", "minus", "mul", "intDiv", "lt", "ne", "xor", "imp", "and", "or"}
TwoOperators ==
  {Assignment(<<p, <<o, A, B>>, C>>, <<<<k[1], t[1], 1>>, <<k[2], t[2], 2>>, <<k[3], t[3], 1>>>>, "frame", "long") :
     o \in Few, p \in Few, k \in {<<2, 2, 2>>, <<3, 2, 1>>}, t \in [1..3 -> {"bool", "integer", "ubyte"}]}
TwoOperatorsR ==
  {[s EXCEPT !.tree = <<@[1], A, <<@[2][1], B, C>>>>] : s \in TwoOperators}
Negations(Tree(_, _)) ==
  {Assignment(Tree(o, p), <<<<k[1], t[1], n>>, <<k[2], t[2], 3 - n>>>>, "frame", "long") :
     o \in {"neg", "not"}, p \in Few, k \in {<<2, 2>>, <<3, 1>>, <<1, 2>>},
     t \in [1..2 -> {"bool", "integer", "long", "ubyte"}], n \in 1..2}

(* LONGs of either sign, divided by each other.                              *)
LongDivisions ==
  <<{s \in OneOperator({"intDiv", "mod"}, 1..2) : \A d \in {"a", "b"} : s.decl[d].ty = "long"}>>

Assignments ==
  <<Conversions, Unaries, OneOperator(Binaries \ {"power"}, 1..2), SmallExponents, TwoOperators, TwoOperatorsR,
    Negations(LAMBDA o, p : <<p, <<o, A>>, B>>), Negations(LAMBDA o, p : <<p, A, <<o, B>>>>),
    Negations(LAMBDA o, p : <<o, <<p, A, B>>>>)>>
=============================================================================
