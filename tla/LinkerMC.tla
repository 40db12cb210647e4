------------------------------ MODULE LinkerMC ------------------------------
(***************************************************************************)
(* Small programs for the linker: a startup.o that calls the main program  *)
(* and refers to its own bss, a main program with code and data that calls *)
(* a library, and up to two module files, of C or of BASIC, good or not.   *)
(***************************************************************************)
EXTENDS Linker, TLC

Bare(kind, size) ==
  [kind |-> kind, size |-> size, mem |-> <<>>, relocs |-> <<>>, refs |-> <<>>,
   commons |-> <<>>, defs |-> <<>>, lines |-> <<>>]

Def(sym, offset) == [sym |-> sym, offset |-> offset, abs |-> FALSE, local |-> FALSE]
Ref(sym, offset) == [sym |-> sym, offset |-> offset]
Reloc(hunk, offset) == [hunk |-> hunk, offset |-> offset]
Common(sym, size, offsets) == [sym |-> sym, size |-> size, offsets |-> offsets]

(* The code calls main and points behind its own bss, which comes later and  *)
(* is larger than a segment of unknown kind; offset 8 is no reference.       *)
Startup ==
  <<<< [Bare("code", 72) EXCEPT !.mem = (0 :> 0) @@ (4 :> 68) @@ (8 :> 5),
                                !.refs = <<Ref("main", 0)>>, !.relocs = <<Reloc(1, 4)>>,
                                !.defs = <<Def("start", 0)>>],
       Bare("bss", 72) >>>>

Main == << [Bare("code", 30) EXCEPT !.mem = (2 :> 0) @@ (10 :> 3) @@ (14 :> 0),
                                    !.refs = <<Ref("lib", 2), Ref("lib", 14)>>,
                                    !.relocs = <<Reloc(1, 10)>>,
                                    !.defs = <<Def("main", 4)>>,
                                    !.lines = <<[line |-> 1, offset |-> 4], [line |-> 2, offset |-> 12]>>],
           [Bare("data", 6) EXCEPT !.defs = <<Def("stack_size", 2)>>] >>

(* A C library of two objects that share a common variable, with a reference *)
(* to a field of a table in the other object and a local symbol each.        *)
CLibrary(flag, small, large) ==
  << << [Bare("code", 16) EXCEPT
           !.mem = (0 :> 4) @@ (4 :> 8) @@ (8 :> 0),
           !.refs = <<Ref("table", 4)>>,
           !.commons = <<Common("flag", flag, <<8>>), Common("buffer", small, <<0>>)>>,
           !.defs = <<Def("lib", 12), [Def("loop", 2) EXCEPT !.local = TRUE]>>] >>,
     << [Bare("data", 72) EXCEPT
           !.mem = (0 :> 0) @@ (4 :> 1),
           !.refs = <<Ref("base", 4)>>,
           !.commons = <<Common("buffer", large, <<0>>), Common("count", 4, <<>>)>>,
           !.defs = <<Def("table", 60), [Def("base", 7) EXCEPT !.abs = TRUE],
                      [Def("loop", 4) EXCEPT !.local = TRUE]>>] >> >>
CLibraries == {CLibrary(f, s, l) : f \in {1, 3}, s \in {6, 10}, l \in {7, 12}}

(* The same library in BASIC, without line numbers and with them.            *)
BasicLibrary ==
  << << [Bare("code", 20) EXCEPT !.mem = (2 :> 0), !.refs = <<Ref("stack_size", 2)>>,
                                 !.defs = <<Def("lib", 8)>>],
        [Bare("data", 2) EXCEPT !.defs = <<Def("lib_desc", 0)>>] >> >>
DebugLibrary == <<<< [BasicLibrary[1][1] EXCEPT !.lines = <<[line |-> 7, offset |-> 8]>>],
                     BasicLibrary[1][2] >>>>

(* Files the linker or the loader has to refuse, or cannot take.             *)
NoSize == <<<< [Bare("code", 8) EXCEPT !.mem = (0 :> 0), !.commons = <<Common("queue", 0, <<0>>)>>] >>>>
NoData == <<<< [Bare("code", 8) EXCEPT !.defs = <<Def("util", 0)>>], Bare("data", 0) >>>>
EndPointer == <<<< [Bare("code", 8) EXCEPT !.mem = (4 :> 4), !.refs = <<Ref("last", 4)>>,
                                           !.defs = <<Def("last", 4)>>] >>>>
Wide == <<[h \in 1 .. 9 |-> Bare("bss", 4)]>>
Tables == <<[h \in 1 .. 3 |-> Bare("bss", 4)]>>

Others == {BasicLibrary, DebugLibrary, NoSize, NoData, EndPointer, Wide, Tables}
ModuleLists == {<<>>} \cup {<<m>> : m \in CLibraries \cup Others}
                 \cup {<<m, n>> : m \in CLibraries \cup Others, n \in Others}
                 \cup {<<m, m>> : m \in CLibraries}

MCPrograms == {[startup |-> Startup, main |-> Main, modules |-> ms] : ms \in ModuleLists}
=============================================================================
