------------------------------- MODULE BuildMC -------------------------------
(***************************************************************************)
(* What is built: every instruction with a few of its operands; procedures *)
(* whose labels are used before and after they are defined, or wrongly; a  *)
(* program that is linked with modules; and DATA with READ and RESTORE.    *)
(***************************************************************************)
EXTENDS Build, LinkerMC

Num(n) == [ty |-> "long", i |-> n, ffp |-> <<>>]
Plan(fs) == [frags |-> fs, lines |-> <<>>, statements |-> <<>>, modules |-> <<>>, startup |-> <<>>]
Proc(label, body, expt) == [kind |-> "proc", label |-> label, body |-> body, expt |-> expt,
                            frame |-> <<[sym |-> "x", offset |-> -4], [sym |-> "none", offset |-> -8]>>]

-----------------------------------------------------------------------------
Data == {"d0", "d3", "d7"}
Addr6 == {"a0", "a4", "a6"}
Both == Data \cup Addr6
Sizes(r, s) == IF {r, s} \cap Addr6 = {} THEN {"B", "W", "L"} ELSE {"W", "L"}

I(mn, w, src, dst) == [A!Instr(mn) EXCEPT !.w = w, !.src = src, !.dst = dst]
WithImm(i, c) == [i EXCEPT !.imm = c]
Truth == [ty |-> "bool", i |-> 1, ffp |-> <<>>]
Single == [ty |-> "single", i |-> -3, ffp |-> <<49152, 194>>]
Consts == {Num(n) : n \in {0, 5, 8, 9, 1 - 71000, 40000}} \cup {Truth}
Immediates(i) == {WithImm(i, c) : c \in Consts \cup (IF i.w = "L" THEN {Single} ELSE {})}
Offsets(i) == {[i EXCEPT !.offset = o] : o \in {8, -6}}
Named(i) == {[i EXCEPT !.label = "lib"]}

TwoData == {"AND_Dn_Dn", "CMP_Dn_Dn", "EOR_Dn_Dn", "OR_Dn_Dn", "SUB_Dn_Dn",
            "ASL_Dn_Dn", "ASR_Dn_Dn", "LSL_Dn_Dn", "LSR_Dn_Dn"}
Words == {"DIVS_Dn_Dn", "DIVU_Dn_Dn", "MULS_Dn_Dn", "MULU_Dn_Dn"}

Singles ==
  UNION {
    {I(mn, w, s, d) : mn \in TwoData, w \in {"B", "W", "L"}, s \in Data, d \in Data},
    {I(mn, "W", s, d) : mn \in Words, s \in Data, d \in Data},
    UNION {{I(mn, w, s, d) : w \in Sizes(s, d)} : mn \in {"ADD_AnDn_AnDn", "MOVE_AnDn_AnDn"}, s \in Both, d \in Both},
    UNION {UNION {Immediates(I(mn, w, "none", d)) : w \in Sizes(d, d)}
             : mn \in {"ADD_Imm_AnDn", "SUB_Imm_AnDn", "MOVE_Imm_AnDn"}, d \in Both},
    UNION {Immediates(I(mn, w, "none", "none")) : mn \in {"MOVE_Imm_PDsp"}, w \in {"W", "L"}},
    Immediates(I("ADD_Imm_sp", "L", "none", "none")), Immediates(I("LINK_fp", "W", "none", "none")),
    UNION {Immediates(I("AND_Imm_Dn", w, "none", d)) : w \in {"B", "W", "L"}, d \in Data},
    UNION {Immediates(I(mn, "W", "none", d)) : mn \in {"MULS_Imm_Dn", "MULU_Imm_Dn"}, d \in Data},
    {WithImm(I(mn, w, "none", d), Num(n)) : mn \in {"ASL_Imm_Dn", "LSL_Imm_Dn"}, w \in {"B", "W", "L"}, d \in Data, n \in {1, 8}},
    {I(mn, w, "none", d) : mn \in {"NEG_Dn", "NOT_Dn"}, w \in {"B", "W", "L"}, d \in Data},
    {I("TST_Dn", w, d, "none") : w \in {"B", "W", "L"}, d \in Data},
    {I("EXT_Dn", w, "none", d) : w \in {"W", "L"}, d \in Data},
    {I(mn, "B", "none", d) : mn \in {"SNE_Dn", "SWAP_Dn"}, d \in Data},
    UNION {Offsets(I("LEA_Ofp_An", "L", "none", d)) : d \in Addr6},
    {[I(mn, "L", "none", "none") EXCEPT !.regs = r]
       : mn \in {"MOVEM_Rs_PDsp", "MOVEM_spPI_Rs"}, r \in (SUBSET {"d2", "d7", "a2", "a6"}) \ {{}}},
    UNION {Immediates(I("MOVE_Imm_RAn", w, "none", d)) : w \in {"B", "W", "L"}, d \in Addr6},
    UNION {{I("MOVE_AnDn_RAn", w, s, d) : w \in Sizes(s, s)} : s \in Both, d \in Addr6},
    UNION {{I("MOVE_RAn_AnDn", w, s, d) : w \in Sizes(d, d)} : s \in Addr6, d \in Both},
    UNION {{I("MOVE_AnDn_PDsp", w, s, "none") : w \in Sizes(s, s)} : s \in Both},
    UNION {Named(I(mn, "L", "none", d)) : mn \in {"MOVE_ILabel_AnDn", "MOVE_Label_AnDn"}, d \in Both},
    UNION {Named(I("MOVE_AnDn_Label", w, s, "none")) : s \in Data, w \in {"B", "W", "L"}},
    UNION {UNION {Offsets(j) : j \in Named(I(mn, "W", "none", "none"))} : mn \in {"MOVE_Label_Ofp", "MOVE_Ofp_Label"}},
    UNION {Offsets(I("MOVE_Ofp_AnDn", "L", "none", d)) : d \in Both},
    UNION {Offsets(I("MOVE_AnDn_Ofp", "W", s, "none")) : s \in Both},
    UNION {Offsets(I("MOVE_Ofp_RAn", w, "none", d)) : d \in Addr6, w \in {"B", "W", "L"}},
    UNION {UNION {Offsets(j) : j \in Immediates(I("MOVE_Imm_Ofp", w, "none", "none"))} : w \in {"W", "L"}},
    UNION {UNION {Named(j) : j \in Immediates(I("MOVE_Imm_Label", w, "none", "none"))} : w \in {"W", "L"}},
    Named(I("JSR_Label", "L", "none", "none")), {I("JSR_An", "L", s, "none") : s \in Addr6},
    UNION {Offsets(I("JSR_RAn", "L", s, "none")) : s \in Addr6},
    {I("RTS", "L", "none", "none"), I("UNLK_fp", "L", "none", "none")}}

SinglePlans == {Plan(<<Proc("p", <<i>>, FALSE)>>) : i \in Singles}

-----------------------------------------------------------------------------
OnLine(i, line) == [i EXCEPT !.line = line]
L(l) == [A!Instr("LABEL") EXCEPT !.label = l, !.line = 1]
B(mn, l) == [A!Instr(mn) EXCEPT !.label = l, !.line = 1]
JSR(l) == [A!Instr("JSR_Label") EXCEPT !.label = l, !.line = 1]
RTS == OnLine(I("RTS", "L", "none", "none"), 1)
Push(n, line) == OnLine(WithImm(I("MOVE_Imm_PDsp", "L", "none", "none"), Num(n)), line)
LoadFrom(l, line) == [A!Instr("MOVE_Label_AnDn") EXCEPT !.label = l, !.dst = "d0", !.line = line]

(* A branch back or forward over some instructions of six bytes.             *)
Over(n) == [k \in 1 .. n |-> Push(k, 1)]
Loop(mn, n) == Plan(<<Proc("p", <<L("p"), L("loop")>> \o Over(n) \o <<B(mn, "loop"), RTS>>, FALSE)>>)
Skip(mn, n) == Plan(<<Proc("p", <<L("p"), B(mn, "end"), B("BRA", "end")>> \o Over(n) \o <<L("end"), RTS>>, FALSE)>>)
BranchPlans == {Loop(mn, n) : mn \in DOMAIN A!Conditions, n \in {0, 3}} \cup {Skip(mn, n) : mn \in DOMAIN A!Conditions, n \in {0, 3}}
                 \cup {Loop("BNE", 12), Skip("BNE", 12)}

String(l, n) == [kind |-> "string", label |-> l, bytes |-> [k \in 1 .. n |-> 64 + k]]
Var(l, size, expt) == [kind |-> "data", label |-> l, size |-> size, init |-> <<>>, expt |-> expt, ty |-> TRUE]
Ptr(l) == [kind |-> "ptr", label |-> l, expt |-> FALSE, c |-> 0]
Const(ty, n) == [kind |-> "const", label |-> "none", expt |-> FALSE, c |-> [ty |-> ty, i |-> n, ffp |-> <<1, 2>>, chars |-> <<70, 71>>]]
Node(l, expt) == [kind |-> "label", label |-> l, expt |-> expt, c |-> 0]
Table(l, nodes) == [kind |-> "data", label |-> l, size |-> 1, init |-> nodes, expt |-> TRUE, ty |-> FALSE]

(* Labels used before they are defined and after, in code and in data.       *)
Use(mn, l) == [A!Instr(mn) EXCEPT !.label = l, !.dst = "d0", !.src = "d1", !.line = 3]
MixedPlans ==
  {Plan(<<Table("t", <<Ptr("p"), Ptr("none"), Const("integer", 1 - 3), Ptr("v"), Const("single", 0), Node("inner", TRUE), Ptr("ext")>>),
          String("s", 3), Proc("p", <<L("p"), Use("MOVE_ILabel_AnDn", "s"), B("BEQ", "out"), Use("MOVE_AnDn_Label", "v"), L("out"), JSR("q"), JSR("ext"), RTS>>, TRUE),
          Var("v", n, FALSE), Var("w", 4, TRUE), Var("z", 0, FALSE),
          Proc("q", <<L("q"), OnLine(Use("MOVE_Label_AnDn", "inner"), l), OnLine(JSR("p"), 4), OnLine(RTS, 5)>>, FALSE)>>) : n \in {1, 6, 7}, l \in {2, 5}}
WrongPlans ==
  {Plan(<<Proc("p", <<L("p"), L("x"), RTS, L("x")>>, FALSE)>>),
   Plan(<<String("s", 2), String("s", 2)>>), Plan(<<Var("v", 2, FALSE), Table("t", <<Node("v", FALSE)>>)>>),
   Plan(<<Proc("p", <<L("p"), B("BRA", "nowhere"), B("BEQ", "nowhere"), JSR("nowhere")>>, FALSE)>>),
   Plan(<<Proc("p", <<L("p"), B("BRA", "v")>>, FALSE), Var("v", 2, FALSE)>>),
   Plan(<<Proc("p", <<WithImm(I("ASL_Imm_Dn", "W", "none", "d0"), Num(9))>>, FALSE)>>),
   Plan(<<Proc("p", <<I("ASR_Imm_Dn", "W", "none", "d0")>>, FALSE)>>)}

-----------------------------------------------------------------------------
(* A main program that is linked: it calls the library and itself.           *)
MainPlan(ms) ==
  [frags |-> <<String("greeting", 5),
               Proc("main", <<L("main"), LoadFrom("greeting", 1), B("BEQ", "out"), OnLine(JSR("lib"), 2), OnLine(JSR("sub"), 3),
                              L("out"), OnLine(RTS, 4)>>, TRUE),
               Proc("sub", <<L("sub"), LoadFrom("desc", 6), OnLine(JSR("lib"), 7), OnLine(RTS, 8)>>, FALSE),
               Var("stack_size", 4, TRUE), Table("desc", <<Const("integer", 2), Ptr("main"), Ptr("lib"), Ptr("greeting")>>)>>,
   lines |-> <<>>, statements |-> <<>>, modules |-> ms, startup |-> Startup]
MainModules == {<<>>, <<BasicLibrary>>, <<DebugLibrary>>} \cup {<<m>> : m \in CLibraries}

-----------------------------------------------------------------------------
Item(kind, n, neg, chars) == [kind |-> kind, n |-> n, neg |-> neg, hint |-> "none", ffp |-> <<>>, chars |-> chars]
Number(n) == Item("inum", n, FALSE, <<>>)
Minus(n) == Item("inum", n, TRUE, <<>>)
Float == [Item("fnum", 3, FALSE, <<>>) EXCEPT !.ffp = <<49152, 66>>]
Hinted(n) == [Number(n) EXCEPT !.hint = "long"]
Odd == Item("string", 0, FALSE, <<72>>)
Even == Item("ident", 0, FALSE, <<72, 73>>)
Line(l, items) == [label |-> l, items |-> items]

LineLists ==
  {<<Line("none", <<Number(7), a>>), Line("__data_l", <<b, Minus(2)>>)>>
     : a \in {Number(65000), Odd, Even, Hinted(9)}, b \in {Number(66000), Float, Odd, Number(3), Minus(40000)}}
READ(ty) == [stmt |-> "READ", ty |-> ty, label |-> "none"]
RESTORE(l) == [stmt |-> "RESTORE", ty |-> "none", label |-> l]
Types == {"integer", "ubyte", "long", "single", "string"}
Suitable(it) == IF it.kind = "fnum" THEN "single" ELSE IF it.kind # "inum" THEN "string"
                  ELSE IF D!LiteralType(it) = "long" THEN "long" ELSE "integer"
Straight(ls) == LET all == ls[1].items \o ls[2].items IN [k \in DOMAIN all |-> READ(Suitable(all[k]))]
Programs4(ls) ==
  {Straight(ls) \o <<READ("integer")>>, Straight(ls) \o <<RESTORE("__data_l"), READ(Suitable(ls[2].items[1])), READ("integer"), RESTORE("none"), READ("ubyte")>>}
    \cup {<<READ(s), READ(t), READ("integer")>> : s, t \in Types}
ReadPlans ==
  UNION {{[frags |-> <<Var("v", 3, FALSE)>>, lines |-> ls, statements |-> p, modules |-> <<>>, startup |-> <<>>] : p \in Programs4(ls)} : ls \in LineLists}

MCPlans == SinglePlans \cup BranchPlans \cup MixedPlans \cup WrongPlans \cup {MainPlan(ms) : ms \in MainModules} \cup ReadPlans

BuildPrograms ==
  MCPrograms \cup {[startup |-> Startup, main |-> <<>>, modules |-> ms] : ms \in MainModules}
    \cup {[startup |-> <<>>, main |-> <<>>, modules |-> <<>>]}
=============================================================================
