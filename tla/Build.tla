-------------------------------- MODULE Build --------------------------------
(***************************************************************************)
(* From fragments to a running program: the assembler, whose object        *)
(* compiler.c hands to the linker between startup.o and the modules, and   *)
(* the loader.  A program that is not linked shows what its READ           *)
(* statements find in the data segment.                                    *)
(***************************************************************************)
EXTENDS Linker

CONSTANTS
  Plans,         (* what may be built: fragments, DATA lines and the rest    *)
  BranchReach    (* see Assembler                                            *)

ASSUME BuildAssumption == Debug \in BOOLEAN /\ BranchReach \in Nat \ {0}

VARIABLES source, asm, frags, rest, obj, labels, cur_line, first_label, code_start,
          unresolved, EM_anyErrors, listing, uses,
          lines, statements, g_data_ptr, running, next, got

A == INSTANCE Assembler
D == INSTANCE DataStatements

asmVars == <<source, asm, frags, rest, obj, labels, cur_line, first_label, code_start, unresolved,
             EM_anyErrors, listing, uses>>
readVars == <<lines, statements, g_data_ptr, running, next, got>>
buildVars == <<vars, asmVars, readVars>>

(* A program is given with its main unit, or with a plan for it.             *)
Given == prog.main # <<>>
Fragments(p) == p.frags \o (IF p.lines = <<>> THEN <<>> ELSE <<D!g_dataFrag(p.lines)>>)
Nothing == [frags |-> <<>>, lines |-> <<>>, statements |-> <<>>]
BuildInit ==
  /\ Init
  /\ \E p \in IF Given THEN {Nothing} ELSE {q \in Plans : q.startup = prog.startup /\ q.modules = prog.modules} :
       A!Start(Fragments(p)) /\ lines = p.lines /\ statements = p.statements
  /\ g_data_ptr = 0 /\ running = "no" /\ next = 1 /\ got = <<>>

Assemble == A!Next /\ UNCHANGED <<vars, readVars>>

(* The segments of the object as sections: the longwords that name a label.  *)
Section(s, number) ==
  LET here == {u \in uses : u.seg = s /\ ~ u.displacement}
      mem == obj[s].mem
  IN [kind |-> s, size |-> Len(mem),
      mem |-> [o \in {u.offset : u \in here} |-> mem[o + 3] * 256 + mem[o + 4]],
      relocs |-> [k \in DOMAIN obj[s].relocs |->
                    [hunk |-> number[obj[s].relocs[k].to], offset |-> obj[s].relocs[k].offset]],
      refs |-> obj[s].refs, commons |-> <<>>,
      defs |-> [k \in DOMAIN obj[s].defs |->
                  [sym |-> obj[s].defs[k].sym, offset |-> obj[s].defs[k].offset, abs |-> FALSE, local |-> FALSE]],
      lines |-> obj[s].srcMap]

ObjectUnit == LET number == [code |-> 0, data |-> 1] IN <<Section("code", number), Section("data", number)>>

Links == prog.startup # <<>>
HandOver ==
  /\ asm = "done" /\ Links
  /\ asm' = "linking"
  /\ prog' = IF Given THEN prog ELSE [prog EXCEPT !.main = ObjectUnit]
  /\ UNCHANGED <<pc, reader, seg, sl, commonSyms, symTable, commonSeg, place, todo, symbols>>
  /\ UNCHANGED <<source, frags, rest, obj, labels, cur_line, first_label, code_start, unresolved,
                 EM_anyErrors, listing, uses, readVars>>

LinkAndLoad == asm = "linking" /\ Next /\ UNCHANGED <<asmVars, readVars>>

(* The main program starts with a RESTORE of its own.                        *)
StartProgram ==
  /\ asm = "done" /\ lines # <<>> /\ running = "no"
  /\ running' = "running" /\ g_data_ptr' = labels["__restore"].offset
  /\ UNCHANGED <<vars, asmVars, lines, statements, next, got>>

RunProgram == D!Run /\ UNCHANGED <<vars, asmVars>>

BuildNext == Assemble \/ HandOver \/ LinkAndLoad \/ StartProgram \/ RunProgram
BuildSpec == BuildInit /\ [][BuildNext]_buildVars

-----------------------------------------------------------------------------
(* From the label in the source to the address in memory: every reference  *)
(* to a symbol is bound to its one definition, common symbols have room of *)
(* their own (LI_link).                                                    *)
ReferencesResolved == TypeOK /\ ReferencesBound /\ CommonsApart

(* Symbols and source lines lead to the addresses they have in the running *)
(* program: those the assembler notes (AS_assembleCode), those the linker  *)
(* moves (load_hunk_debug, LI_relocate).                                   *)
DebugInfoFound == A!LinesFound /\ DebugInfoLocated

(* The code of an object file is the instructions the code generator       *)
(* wrote, and every place that names a label is bound once                 *)
(* (AS_assembleCode, defineLabel).                                         *)
CodeAssembled == A!InstructionsEncoded /\ A!LabelsBound

(* READ yields the literals of the DATA statements (_brt/data.c).          *)
ReadsGiveLiterals == D!ReadsGiveLiterals

(* READ keeps the values of whole numbers, whatever their types are.         *)
ReadsKeepValues == D!ReadsKeepValues

(* A program is refused by the assembler, the linker or the loader exactly *)
(* for a reason that can be seen in it.                                    *)
Explained == A!RefusalsExplained /\ OutcomeExplained
=============================================================================
