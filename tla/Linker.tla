------------------------------- MODULE Linker -------------------------------
(***************************************************************************)
(* The linker and the loader of the compiler (link.c): the object files of *)
(* a program are read, LI_link binds every reference to the symbol's       *)
(* definition, the load file is written, and the debugger's _loadSeg reads *)
(* it back and relocates it (debug.c).                                     *)
(*                                                                         *)
(* A program is what compiler.c hands to the linker: startup.o, the object *)
(* just assembled, and the files of the modules it loads.  A file is a     *)
(* sequence of units, a unit a sequence of sections; Hunks(u) is the form  *)
(* a unit has in a file.  mem of a section holds only the longwords that   *)
(* are references and a few that are not; a longword is a number of two    *)
(* digits of base Radix, where a byte's worth of carry matters.            *)
(***************************************************************************)
EXTENDS Integers, Sequences, FiniteSets, SequencesExt, FiniteSetsExt

CONSTANTS
  Programs,         (* the programs to link                                  *)
  Debug,            (* OPTION_DEBUG                                          *)
  BigEndianHost,    (* the compiler runs on the Amiga, not on Linux          *)
  Radix,            (* the digits of a longword                              *)
  MAX_NUM_HUNKS,    (* the length of g_hunk_table                            *)
  SegmentSpace      (* the distance between the segments in memory           *)

(* A section of an object file: relocs name hunks of the unit from 0, refs,  *)
(* commons and defs are its HUNK_EXT, lines its line table.  Every longword  *)
(* that is a reference is in mem.                                            *)
IsSection(s, u) ==
  /\ s.kind \in {"code", "data", "bss"} /\ s.size \in Nat
  /\ \A o \in DOMAIN s.mem : o \in Nat /\ s.mem[o] \in 0 .. Radix * Radix - 1
  /\ \A r \in DOMAIN s.relocs : s.relocs[r].hunk + 1 \in DOMAIN u /\ s.relocs[r].offset \in DOMAIN s.mem
  /\ \A r \in DOMAIN s.refs : s.refs[r].offset \in DOMAIN s.mem
  /\ \A c \in DOMAIN s.commons :
       /\ s.commons[c].size \in Nat
       /\ \A o \in DOMAIN s.commons[c].offsets : s.commons[c].offsets[o] \in DOMAIN s.mem

IsUnit(u) == \A h \in DOMAIN u : IsSection(u[h], u)
IsProgram(p) == /\ \A k \in DOMAIN p.startup : IsUnit(p.startup[k])
                /\ IsUnit(p.main)
                /\ \A m \in DOMAIN p.modules : \A k \in DOMAIN p.modules[m] : IsUnit(p.modules[m][k])

ASSUME LinkerAssumption ==
  /\ Debug \in BOOLEAN /\ BigEndianHost \in BOOLEAN
  /\ Radix \in Nat \ {0} /\ MAX_NUM_HUNKS \in Nat \ {0} /\ SegmentSpace \in Nat \ {0}
  /\ \A p \in Programs : IsProgram(p)

(* A segment of memory starts at Addr(s): what the allocator returned.       *)
Addr(s) == s * SegmentSpace

Word == 0 .. Radix * Radix - 1
Plus(a, b) == (a + b) % (Radix * Radix)

(* ENDIAN_SWAP_32: the number a Linux host sees in the Amiga's longword.     *)
HostOrder(w) == IF BigEndianHost THEN w ELSE (w % Radix) * Radix + w \div Radix

RoundUp4(n) == ((n + 3) \div 4) * 4

(* AS_ensureSegmentSize on a new segment, and on one that has memory.        *)
FreshSize(min) == IF min = 0 THEN 64 ELSE min
Grown(size, min) ==
  IF size >= min THEN size
  ELSE IF size = 0 THEN min
  ELSE size * 2 ^ (CHOOSE k \in 1 .. 30 : size * 2^k >= min /\ size * 2^(k-1) < min)

-----------------------------------------------------------------------------
(* The hunks of a section, in the order both the assembler gcc uses and      *)
(* LI_segmentWriteObjectFile write them.                                     *)
WriteReloc32(relocs) == IF relocs = <<>> THEN <<>> ELSE <<[ht |-> "reloc32", relocs |-> relocs]>>

WriteDebug(lines) ==
  IF Debug /\ lines # <<>> THEN <<[ht |-> "debug", lines |-> lines]>> ELSE <<>>

WriteExt(s) ==
  IF s.refs = <<>> /\ s.commons = <<>> /\ s.defs = <<>> THEN <<>>
  ELSE <<[ht |-> "ext", refs |-> s.refs, commons |-> s.commons, defs |-> s.defs]>>

Contents(kind, size, mem) == [ht |-> kind, size |-> RoundUp4(size), mem |-> mem]
EndHunk == <<[ht |-> "end"]>>

SectionHunks(s) ==
  <<Contents(s.kind, s.size, s.mem)>> \o WriteReloc32(s.relocs) \o WriteExt(s)
    \o WriteDebug(s.lines) \o EndHunk

Hunks(u) == <<[ht |-> "unit"]>> \o FlattenSeq([h \in DOMAIN u |-> SectionHunks(u[h])])
FileHunks(f) == FlattenSeq([k \in DOMAIN f |-> Hunks(f[k])])

-----------------------------------------------------------------------------
VARIABLES
  prog,         (* the program                                               *)
  pc,           (* the phase, or how the phases ended                        *)
  files,        (* what the driver has not read yet                          *)
  input,        (* the hunks of the open file not read yet                   *)
  hunk_table,   (* g_hunk_table: hunk number -> segment, 0 for NULL          *)
  hunk_id_cnt,  (* g_hunk_id_cnt                                             *)
  hunk_cur,     (* g_hunk_cur                                                *)
  hunk_sizes,   (* g_hunk_sizes                                              *)
  seg,          (* every AS_segment made so far                              *)
  sl,           (* the segment list                                          *)
  commonSyms,   (* sl->commonSyms: symbol -> size                            *)
  symTable,     (* symTable of LI_link: symbol -> segment, offset, absolute  *)
  commonSeg,    (* commonSeg of LI_link, 0 for NULL                          *)
  node, item,   (* the place in sl, and in a list of the segment there       *)
  todo,         (* the common symbols not allocated yet                      *)
  symbols       (* the debugger's table: symbol -> address                   *)

reader == <<files, input, hunk_table, hunk_id_cnt, hunk_cur, hunk_sizes>>
place == <<node, item>>
vars == <<prog, pc, reader, seg, sl, commonSyms, symTable, commonSeg, place, todo, symbols>>

NoTable == [h \in 0 .. MAX_NUM_HUNKS - 1 |-> 0]
NoSizes == [h \in 0 .. MAX_NUM_HUNKS - 1 |-> 0]

(* AS_Segment: g_hunk_id counts the segments.                                *)
NewSegment(kind, n, min) ==
  [kind |-> kind, hunk_id |-> n - 1, mem |-> <<>>, mem_size |-> FreshSize(min),
   mem_pos |-> 0, relocs |-> <<>>, refs |-> <<>>, defs |-> <<>>, srcMap |-> <<>>]

Init ==
  /\ prog \in Programs
  /\ pc = "read"
  /\ files = <<prog.startup, <<>>>> \o prog.modules
  /\ input = <<>> /\ hunk_table = NoTable /\ hunk_id_cnt = 0 /\ hunk_cur = 0
  /\ hunk_sizes = NoSizes
  /\ seg = <<>> /\ sl = <<>> /\ commonSyms = <<>> /\ symTable = <<>> /\ commonSeg = 0
  /\ node = 1 /\ item = 1 /\ todo = {} /\ symbols = <<>>

(* A failed assertion, or a return of FALSE, ends the run.                   *)
Stop(how) == /\ pc' = how
             /\ UNCHANGED <<prog, reader, seg, sl, commonSyms, symTable, commonSeg, place, todo, symbols>>

-----------------------------------------------------------------------------
(* The driver.  The assembled object, the empty file, is not read: its code  *)
(* and data segments are appended as they are.                               *)
NextFile == input = <<>> /\ pc = "read" /\ files # <<>>

AsSegment(s, n, first) ==
  [kind |-> s.kind, hunk_id |-> n - 1, mem |-> s.mem, mem_size |-> Grown(IF s.kind = "code" THEN 16 * 1024 ELSE 64, s.size),
   mem_pos |-> s.size,
   relocs |-> [r \in DOMAIN s.relocs |-> [to |-> first + s.relocs[r].hunk, offset |-> s.relocs[r].offset]],
   refs |-> s.refs, defs |-> s.defs, srcMap |-> s.lines]

AppendObject ==
  /\ NextFile /\ Head(files) = <<>>
  /\ LET n == Len(seg)
     IN /\ seg' = seg \o [h \in DOMAIN prog.main |-> AsSegment(prog.main[h], n + h, n + 1)]
        /\ sl' = sl \o [h \in DOMAIN prog.main |-> n + h]
  /\ files' = Tail(files)
  /\ UNCHANGED <<prog, pc, input, hunk_table, hunk_id_cnt, hunk_cur, hunk_sizes, commonSyms,
                 symTable, commonSeg, place, todo, symbols>>

OpenFile ==
  /\ NextFile /\ Head(files) # <<>>
  /\ input' = FileHunks(Head(files))
  /\ files' = Tail(files)
  /\ hunk_sizes' = NoSizes
  /\ UNCHANGED <<prog, pc, hunk_table, hunk_id_cnt, hunk_cur, seg, sl, commonSyms, symTable,
                 commonSeg, place, todo, symbols>>

StartLink ==
  /\ pc = "read" /\ input = <<>> /\ files = <<>>
  /\ pc' = "pass1" /\ node' = 1
  /\ UNCHANGED <<prog, reader, seg, sl, commonSyms, symTable, commonSeg, item, todo, symbols>>

-----------------------------------------------------------------------------
(* LI_segmentListReadObjectFile and LI_segmentListReadLoadFile, one hunk at  *)
(* a time.                                                                   *)
Reading == pc \in {"read", "load"} /\ input # <<>>
At(ht) == Reading /\ Head(input).ht = ht

LoadUnit ==
  /\ At("unit")
  /\ input' = Tail(input)
  /\ hunk_table' = NoTable /\ hunk_id_cnt' = 0 /\ hunk_cur' = 0
  /\ UNCHANGED <<prog, pc, files, hunk_sizes, seg, sl, commonSyms, symTable, commonSeg, place, todo, symbols>>

(* getOrCreateSegment for a hunk that holds code, data or nothing.  A bss    *)
(* hunk takes its memory from the header's size and its length from its own. *)
(* A slot in use holds a segment of unknown kind: numbers are given once.    *)
AllocSize(h) == IF h.ht = "bss" THEN hunk_sizes[hunk_id_cnt] ELSE h.size

Filled(s, h) ==
  [s EXCEPT !.kind = h.ht, !.mem = IF h.ht = "bss" THEN @ ELSE h.mem, !.mem_pos = h.size,
            !.mem_size = IF h.ht = "bss" THEN h.size ELSE Grown(@, AllocSize(h))]

LoadContents ==
  /\ Reading /\ Head(input).ht \in {"code", "data", "bss"}
  /\ ~ (Head(input).ht = "data" /\ Head(input).size = 0)
  /\ hunk_id_cnt < MAX_NUM_HUNKS
  /\ LET h == Head(input)
         s == hunk_table[hunk_id_cnt]
         n == Len(seg) + 1
     IN \/ /\ s = 0
           /\ seg' = Append(seg, Filled(NewSegment(h.ht, n, AllocSize(h)), h))
           /\ hunk_table' = [hunk_table EXCEPT ![hunk_id_cnt] = n]
           /\ hunk_cur' = n
        \/ /\ s # 0
           /\ seg' = [seg EXCEPT ![s] = Filled(@, h)]
           /\ hunk_cur' = s
           /\ UNCHANGED hunk_table
  /\ hunk_id_cnt' = hunk_id_cnt + 1
  /\ input' = Tail(input)
  /\ UNCHANGED <<prog, pc, files, hunk_sizes, sl, commonSyms, symTable, commonSeg, place, todo, symbols>>

(* fread of no bytes returns 0, which load_hunk_data takes for an error.     *)
LoadEmptyData == At("data") /\ Head(input).size = 0 /\ Stop("failed")

(* The table of hunks is full: the NULL getOrCreateSegment returns is used.  *)
LoadTooMany ==
  /\ Reading /\ Head(input).ht \in {"code", "data", "bss"}
  /\ hunk_id_cnt >= MAX_NUM_HUNKS
  /\ Stop("assert")

(* A relocation may name a hunk that is yet to come: its segment is made     *)
(* here, of unknown kind, and filled when the hunk is read.                  *)
NewHunks(h) == {h.relocs[r].hunk : r \in DOMAIN h.relocs} \cap {k \in DOMAIN hunk_table : hunk_table[k] = 0}

HunkTableWith(h) ==
  [k \in DOMAIN hunk_table |->
     IF k \in NewHunks(h) THEN Len(seg) + Cardinality({l \in NewHunks(h) : l <= k})
     ELSE hunk_table[k]]

LoadReloc32 ==
  /\ At("reloc32")
  /\ hunk_cur # 0
  /\ LET h == Head(input)
         n == Len(seg)
         made == [k \in 1 .. Cardinality(NewHunks(h)) |-> NewSegment("unknown", n + k, 0)]
         relocs == [r \in DOMAIN h.relocs |->
                      [to |-> HunkTableWith(h)[h.relocs[r].hunk], offset |-> h.relocs[r].offset]]
     IN /\ hunk_table' = HunkTableWith(h)
        /\ seg' = [seg EXCEPT ![hunk_cur].relocs = relocs \o @] \o made
  /\ input' = Tail(input)
  /\ UNCHANGED <<prog, pc, files, hunk_id_cnt, hunk_cur, hunk_sizes, sl, commonSyms, symTable,
                 commonSeg, place, todo, symbols>>

(* A common symbol is as large as the largest of its declarations.           *)
CommonsWith(commons) ==
  [s \in DOMAIN commonSyms \cup {commons[c].sym : c \in DOMAIN commons} |->
     Max({commons[c].size : c \in {d \in DOMAIN commons : commons[d].sym = s}}
           \cup IF s \in DOMAIN commonSyms THEN {commonSyms[s]} ELSE {})]

CommonRefs(commons) ==
  FlattenSeq([c \in DOMAIN commons |->
    [o \in DOMAIN commons[c].offsets |-> [sym |-> commons[c].sym, offset |-> commons[c].offsets[o]]]])

(* Definitions flagged EXT_FLAG_LOCAL are dropped; AllDefs is as if not.     *)
AllDefs(defs) ==
  [d \in DOMAIN defs |-> [sym |-> defs[d].sym, offset |-> defs[d].offset, abs |-> defs[d].abs]]

GlobalDefs(defs) ==
  LET kept == SelectSeq(defs, LAMBDA d : ~ d.local)
  IN [d \in DOMAIN kept |-> [sym |-> kept[d].sym, offset |-> kept[d].offset, abs |-> kept[d].abs]]

LoadExt ==
  /\ At("ext")
  /\ hunk_cur # 0
  /\ LET h == Head(input)
     IN /\ seg' = [seg EXCEPT ![hunk_cur].refs = CommonRefs(h.commons) \o h.refs \o @,
                              ![hunk_cur].defs = GlobalDefs(h.defs) \o @]
        /\ commonSyms' = CommonsWith(h.commons)
  /\ input' = Tail(input)
  /\ UNCHANGED <<prog, pc, files, hunk_table, hunk_id_cnt, hunk_cur, hunk_sizes, sl, symTable,
                 commonSeg, place, todo, symbols>>

(* Only the reader of load files knows symbol and debug hunks.               *)
LoadSymbol ==
  /\ At("symbol") /\ pc = "load"
  /\ hunk_cur # 0
  /\ LET defs == Head(input).defs
         plain == [d \in DOMAIN defs |-> [sym |-> defs[d].sym, offset |-> defs[d].offset, abs |-> FALSE]]
     IN seg' = [seg EXCEPT ![hunk_cur].defs = plain \o @]
  /\ input' = Tail(input)
  /\ UNCHANGED <<prog, pc, files, hunk_table, hunk_id_cnt, hunk_cur, hunk_sizes, sl, commonSyms,
                 symTable, commonSeg, place, todo, symbols>>

LoadDebug ==
  /\ At("debug") /\ pc = "load"
  /\ seg' = [seg EXCEPT ![hunk_cur].srcMap = @ \o Head(input).lines]
  /\ input' = Tail(input)
  /\ UNCHANGED <<prog, pc, files, hunk_table, hunk_id_cnt, hunk_cur, hunk_sizes, sl, commonSyms,
                 symTable, commonSeg, place, todo, symbols>>

LoadUnknown == At("debug") /\ pc = "read" /\ Stop("assert")

LoadEnd ==
  /\ At("end")
  /\ hunk_cur # 0
  /\ sl' = Append(sl, hunk_cur)
  /\ hunk_cur' = 0
  /\ input' = Tail(input)
  /\ UNCHANGED <<prog, pc, files, hunk_table, hunk_id_cnt, hunk_sizes, seg, commonSyms, symTable,
                 commonSeg, place, todo, symbols>>

-----------------------------------------------------------------------------
(* LI_link, pass 1: the definitions of one segment are collected.            *)
Current == sl[node]

Duplicate(defs) ==
  \E d \in DOMAIN defs :
     \/ defs[d].sym \in DOMAIN symTable
     \/ \E e \in DOMAIN defs : e < d /\ defs[e].sym = defs[d].sym

Pass1 ==
  /\ pc = "pass1" /\ node <= Len(sl)
  /\ LET defs == seg[Current].defs
         entry(s) == LET d == CHOOSE d \in DOMAIN defs : defs[d].sym = s
                     IN [seg |-> Current, offset |-> defs[d].offset, abs |-> defs[d].abs]
     IN /\ ~ Duplicate(defs)
        /\ symTable' = [s \in DOMAIN symTable \cup {defs[d].sym : d \in DOMAIN defs} |->
                          IF s \in DOMAIN symTable THEN symTable[s] ELSE entry(s)]
  /\ seg' = [seg EXCEPT ![Current].hunk_id = node - 1]
  /\ node' = node + 1
  /\ UNCHANGED <<prog, pc, reader, sl, commonSyms, commonSeg, item, todo, symbols>>

Pass1Duplicate == pc = "pass1" /\ node <= Len(sl) /\ Duplicate(seg[Current].defs) /\ Stop("exit")

StartPass2 ==
  /\ pc = "pass1" /\ node > Len(sl)
  /\ pc' = "pass2" /\ todo' = DOMAIN commonSyms
  /\ UNCHANGED <<prog, reader, seg, sl, commonSyms, symTable, commonSeg, place, symbols>>

(* Pass 2: one common symbol gets its place, in the order of a hash table.   *)
(* The offset is taken before the segment is aligned.                        *)
Pass2(sym) ==
  /\ pc = "pass2" /\ sym \in todo /\ commonSyms[sym] > 0
  /\ LET made == commonSeg = 0
         c == IF made THEN Len(seg) + 1 ELSE commonSeg
         base == IF made THEN Append(seg, [NewSegment("bss", c, 0) EXCEPT !.hunk_id = Len(sl)])
                 ELSE seg
         pos == base[c].mem_pos
     IN /\ commonSeg' = c
        /\ sl' = IF made THEN Append(sl, c) ELSE sl
        /\ seg' = [base EXCEPT
                     ![c].mem_pos = pos + (pos % 2) + commonSyms[sym],
                     ![c].defs = <<[sym |-> sym, offset |-> pos, abs |-> FALSE]>> \o @]
        /\ symTable' = [s \in DOMAIN symTable \cup {sym} |->
                          IF s = sym THEN [seg |-> c, offset |-> pos, abs |-> FALSE] ELSE symTable[s]]
  /\ todo' = todo \ {sym}
  /\ UNCHANGED <<prog, pc, reader, commonSyms, place, symbols>>

Pass2Unsized == pc = "pass2" /\ (\E sym \in todo : commonSyms[sym] = 0) /\ Stop("failed")

StartPass3 ==
  /\ pc = "pass2" /\ todo = {}
  /\ pc' = "pass3" /\ node' = 1 /\ item' = 1
  /\ UNCHANGED <<prog, reader, seg, sl, commonSyms, symTable, commonSeg, todo, symbols>>

(* Pass 3: one reference of one segment.  The sum is that of the host.       *)
AtItem(list) == node <= Len(sl) /\ item <= Len(list)
NextNode(list) == /\ node <= Len(sl) /\ item > Len(list)
                  /\ node' = node + 1 /\ item' = 1

(* An absolute symbol is a number: the loader need not move it.  The first   *)
(* of the two is as if every symbol was a place.                             *)
RelocAlways(relocs, si, offset) == <<[to |-> si.seg, offset |-> offset]>> \o relocs
RelocAdded(relocs, si, offset) ==
  IF si.abs THEN relocs ELSE <<[to |-> si.seg, offset |-> offset]>> \o relocs

Bound(w, offset) == HostOrder(Plus(HostOrder(w), HostOrder(offset)))

Pass3 ==
  /\ pc = "pass3" /\ node <= Len(sl) /\ AtItem(seg[Current].refs)
  /\ LET ref == seg[Current].refs[item]
         si == symTable[ref.sym]
     IN /\ ref.sym \in DOMAIN symTable
        /\ seg' = [seg EXCEPT
                     ![Current].mem[ref.offset] = Bound(@, si.offset),
                     ![Current].relocs = RelocAdded(@, si, ref.offset)]
  /\ item' = item + 1
  /\ UNCHANGED <<prog, pc, reader, sl, commonSyms, symTable, commonSeg, node, todo, symbols>>

Pass3Unresolved ==
  /\ pc = "pass3" /\ node <= Len(sl) /\ AtItem(seg[Current].refs)
  /\ seg[Current].refs[item].sym \notin DOMAIN symTable
  /\ Stop("failed")

Pass3NextSegment ==
  /\ pc = "pass3" /\ node <= Len(sl) /\ NextNode(seg[Current].refs)
  /\ UNCHANGED <<prog, pc, reader, seg, sl, commonSyms, symTable, commonSeg, todo, symbols>>

-----------------------------------------------------------------------------
(* LI_segmentListWriteLoadFile; _loadSeg then opens the file for a new list. *)
SymbolHunk(defs) ==
  IF defs = <<>> THEN <<>>
  ELSE <<[ht |-> "symbol",
          defs |-> [d \in DOMAIN defs |-> [sym |-> defs[d].sym, offset |-> defs[d].offset]]]>>

LoadFileHunks(s) ==
  <<Contents(s.kind, s.mem_pos, s.mem)>>
    \o WriteReloc32([r \in DOMAIN s.relocs |-> [hunk |-> seg[s.relocs[r].to].hunk_id, offset |-> s.relocs[r].offset]])
    \o SymbolHunk(s.defs)
    \o (IF s.kind = "bss" THEN <<>> ELSE WriteDebug(s.srcMap)) \o EndHunk

Writable == \A n \in DOMAIN sl : seg[sl[n]].hunk_id = n - 1 /\ seg[sl[n]].kind \in {"code", "data", "bss"}

WriteLoadFile ==
  /\ pc = "pass3" /\ node > Len(sl)
  /\ Writable /\ Len(sl) <= MAX_NUM_HUNKS
  /\ input' = FlattenSeq([n \in DOMAIN sl |-> LoadFileHunks(seg[sl[n]])])
  /\ hunk_sizes' = [h \in DOMAIN hunk_sizes |-> IF h < Len(sl) THEN RoundUp4(seg[sl[h + 1]].mem_pos) ELSE 0]
  /\ hunk_table' = NoTable /\ hunk_id_cnt' = 0 /\ hunk_cur' = 0
  /\ sl' = <<>> /\ commonSyms' = <<>>
  /\ pc' = "load"
  /\ UNCHANGED <<prog, files, seg, symTable, commonSeg, place, todo, symbols>>

(* load_hunk_header asserts that the hunks fit the table.                    *)
WriteAsserts == pc = "pass3" /\ node > Len(sl) /\ ~ (Writable /\ Len(sl) <= MAX_NUM_HUNKS) /\ Stop("assert")

-----------------------------------------------------------------------------
(* LI_relocate: the relocations of a segment one by one, then its symbols    *)
(* and its line table.                                                       *)
StartRelocate ==
  /\ pc = "load" /\ input = <<>>
  /\ pc' = "relocate" /\ node' = 1 /\ item' = 1
  /\ UNCHANGED <<prog, reader, seg, sl, commonSyms, symTable, commonSeg, todo, symbols>>

InMemory(s, r) == r.offset < s.mem_size /\ s.mem[r.offset] < seg[r.to].mem_size

Relocate ==
  /\ pc = "relocate" /\ node <= Len(sl) /\ AtItem(seg[Current].relocs)
  /\ LET r == seg[Current].relocs[item]
     IN /\ InMemory(seg[Current], r)
        /\ seg' = [seg EXCEPT ![Current].mem[r.offset] = Plus(@, Addr(r.to))]
  /\ item' = item + 1
  /\ UNCHANGED <<prog, pc, reader, sl, commonSyms, symTable, commonSeg, node, todo, symbols>>

RelocateAsserts ==
  /\ pc = "relocate" /\ node <= Len(sl) /\ AtItem(seg[Current].relocs)
  /\ ~ InMemory(seg[Current], seg[Current].relocs[item])
  /\ Stop("assert")

RelocateTables ==
  /\ pc = "relocate" /\ node <= Len(sl) /\ NextNode(seg[Current].relocs)
  /\ LET defs == seg[Current].defs
         defined == {defs[d].sym : d \in DOMAIN defs}
         at(s) == Addr(Current) + defs[CHOOSE d \in DOMAIN defs : defs[d].sym = s].offset
     IN symbols' = [s \in DOMAIN symbols \cup defined |-> IF s \in defined THEN at(s) ELSE symbols[s]]
  /\ seg' = [seg EXCEPT ![Current].srcMap =
               [l \in DOMAIN @ |-> [line |-> @[l].line, offset |-> @[l].offset + Addr(Current)]]]
  /\ UNCHANGED <<prog, pc, reader, sl, commonSyms, symTable, commonSeg, todo>>

Loaded ==
  /\ pc = "relocate" /\ node > Len(sl)
  /\ pc' = "run"
  /\ UNCHANGED <<prog, reader, seg, sl, commonSyms, symTable, commonSeg, place, todo, symbols>>

Ended == pc \in {"run", "failed", "exit", "assert"} /\ UNCHANGED vars

Read == \/ AppendObject \/ OpenFile
        \/ LoadUnit \/ LoadContents \/ LoadEmptyData \/ LoadTooMany
        \/ LoadReloc32 \/ LoadExt \/ LoadSymbol \/ LoadDebug \/ LoadUnknown \/ LoadEnd
Link == \/ StartLink \/ Pass1 \/ Pass1Duplicate \/ StartPass2
        \/ (\E sym \in todo : Pass2(sym)) \/ Pass2Unsized \/ StartPass3
        \/ Pass3 \/ Pass3Unresolved \/ Pass3NextSegment
Load == \/ WriteLoadFile \/ WriteAsserts \/ StartRelocate
        \/ Relocate \/ RelocateAsserts \/ RelocateTables \/ Loaded

Next == Read \/ Link \/ Load \/ Ended
Spec == Init /\ [][Next]_vars

-----------------------------------------------------------------------------
(* What the program says, whatever the linker does: its sections in the      *)
(* order they are linked, Pos(u, h) for section h of unit u.                 *)
Units == prog.startup \o <<prog.main>> \o FlattenSeq(prog.modules)
Sections == FlattenSeq(Units)
Pos(u, h) == Len(FlattenSeq(SubSeq(Units, 1, u - 1))) + h

Elements(list) == {list[k] : k \in DOMAIN list}
Symbols(list) == {list[k].sym : k \in DOMAIN list}
RefsOf(s) == Elements(s.refs) \cup
  UNION {{[sym |-> c.sym, offset |-> o] : o \in Elements(c.offsets)} : c \in Elements(s.commons)}

(* A definition is the section it is in and its place among those there.     *)
Definitions(sym) ==
  UNION {{<<n, d>> : d \in {e \in DOMAIN Sections[n].defs :
                              Sections[n].defs[e].sym = sym /\ ~ Sections[n].defs[e].local}}
           : n \in DOMAIN Sections}
Definition(d) == Sections[d[1]].defs[d[2]]

Referenced == UNION {{r.sym : r \in RefsOf(s)} : s \in Elements(Sections)}
Commons == UNION {Symbols(s.commons) : s \in Elements(Sections)}
Defined == {sym \in UNION {Symbols(s.defs) : s \in Elements(Sections)} : Definitions(sym) # {}}

(* The sizes the program's declarations of a common symbol ask for.          *)
Demands(sym) ==
  UNION {{c.size : c \in {d \in Elements(s.commons) : d.sym = sym}} : s \in Elements(Sections)}

(* Where a symbol is when the program runs: at its definition, or else at    *)
(* the place it was given among the common symbols.                          *)
Target(sym) ==
  IF sym \in Defined
  THEN LET d == CHOOSE e \in Definitions(sym) : TRUE
       IN IF Definition(d).abs THEN Definition(d).offset ELSE Addr(sl[d[1]]) + Definition(d).offset
  ELSE Addr(sl[Len(sl)]) + symTable[sym].offset

TypeOK ==
  /\ IsProgram(prog)
  /\ pc \in {"read", "pass1", "pass2", "pass3", "load", "relocate", "run", "failed", "exit", "assert"}
  /\ DOMAIN hunk_table = 0 .. MAX_NUM_HUNKS - 1
  /\ hunk_id_cnt \in 0 .. MAX_NUM_HUNKS
  /\ hunk_cur \in 0 .. Len(seg)
  /\ \A n \in DOMAIN sl : sl[n] \in DOMAIN seg
  /\ \A s \in DOMAIN seg :
       /\ seg[s].kind \in {"unknown", "code", "data", "bss"}
       /\ \A o \in DOMAIN seg[s].mem : seg[s].mem[o] \in Word
       /\ \A r \in DOMAIN seg[s].relocs : seg[s].relocs[r].to \in DOMAIN seg

(* When the program is about to run, every longword that refers to a symbol  *)
(* holds the address of that symbol plus what the object file had there,     *)
(* every longword that refers to a hunk of its unit that hunk's address plus *)
(* the same, and no other longword has changed: through reading, the three   *)
(* passes of LI_link, the load file and LI_relocate.                         *)
Bindings(u, h) ==
  LET s == Units[u][h]
  IN {[offset |-> r.offset, to |-> Target(r.sym)] : r \in RefsOf(s)} \cup
     {[offset |-> r.offset, to |-> Addr(sl[Pos(u, r.hunk + 1)])] : r \in Elements(s.relocs)}

ReferencesBound ==
  pc = "run" =>
    \A u \in DOMAIN Units : \A h \in DOMAIN Units[u] :
      \E mem \in {seg[sl[Pos(u, h)]].mem}, bindings \in {Bindings(u, h)} :
        /\ DOMAIN mem = DOMAIN Units[u][h].mem
        /\ \A o \in DOMAIN mem :
             LET here == {b \in bindings : b.offset = o}
             IN mem[o] = Plus(Units[u][h].mem[o], SumSet({b.to : b \in here}))

(* The common symbols LI_link has placed are apart from each other, each has *)
(* as much room as its largest declaration asks for, and the loaded segment  *)
(* holds them all.                                                           *)
Placed == {sym \in DOMAIN symTable : symTable[sym].seg = commonSeg}
Beyond(sym) == symTable[sym].offset + Max(Demands(sym))
CommonsApart ==
  commonSeg # 0 =>
    /\ \A a, b \in Placed : a # b => \/ Beyond(a) <= symTable[b].offset
                                    \/ Beyond(b) <= symTable[a].offset
    /\ \A a \in Placed : Beyond(a) <= seg[commonSeg].mem_pos
    /\ pc = "run" => \A a \in Placed : Beyond(a) <= seg[sl[Len(sl)]].mem_size

(* The debugger finds a symbol's address, and every source line's, in the    *)
(* memory the program runs from (symbols of ABS definitions are not meant).  *)
Located(sym) == \A d \in Definitions(sym) : ~ Definition(d).abs
DebugInfoLocated ==
  pc = "run" =>
    /\ \A sym \in Defined \cup Commons : Located(sym) => symbols[sym] = Target(sym)
    /\ \A n \in DOMAIN Sections :
         seg[sl[n]].srcMap =
           IF Debug THEN [l \in DOMAIN Sections[n].lines |->
                            [line |-> Sections[n].lines[l].line,
                             offset |-> Addr(sl[n]) + Sections[n].lines[l].offset]]
           ELSE <<>>

(* A program is refused only for a reason, and none with such a reason runs: *)
(* a symbol without a definition or a size; one with two definitions; a file *)
(* the reader gives up on, too many hunks, or a pointer behind its segment.  *)
Unresolved == \E sym \in Referenced : sym \notin Defined \cup Commons
Unsized == \E sym \in Commons : Max(Demands(sym)) = 0
EmptyData == \E s \in Elements(Sections) : s.kind = "data" /\ s.size = 0
Ambiguous == \E sym \in Defined : Cardinality(Definitions(sym)) > 1
TooManyHunks == \/ Len(Sections) + (IF Commons = {} THEN 0 ELSE 1) > MAX_NUM_HUNKS
                \/ \E u \in DOMAIN Units : Len(Units[u]) > MAX_NUM_HUNKS
DebugInModule == Debug /\ \E m \in DOMAIN prog.modules : \E u \in DOMAIN prog.modules[m] :
                   \E h \in DOMAIN prog.modules[m][u] : prog.modules[m][u][h].lines # <<>>
BehindSegment ==
  \E s \in Elements(Sections) : \E r \in RefsOf(s) : \E d \in Definitions(r.sym) :
     /\ ~ Definition(d).abs
     /\ s.mem[r.offset] + Definition(d).offset >= RoundUp4(Sections[d[1]].size)

OutcomeExplained ==
  /\ pc = "failed" => Unresolved \/ Unsized \/ EmptyData
  /\ pc = "exit" => Ambiguous
  /\ pc = "assert" => TooManyHunks \/ DebugInModule \/ BehindSegment
  /\ pc = "run" => ~ (\/ Unresolved \/ Unsized \/ EmptyData \/ Ambiguous
                      \/ TooManyHunks \/ DebugInModule \/ BehindSegment)

(* Every kind of hunk that the writer of object files writes, the reader of  *)
(* object files knows: the assertion of link.c:913 fails for no file of the  *)
(* compiler's own.                                                           *)
HunksKnown == pc = "assert" => TooManyHunks \/ BehindSegment
=============================================================================
