# AQB in TLA+

AQB is a BASIC compiler for the Amiga with an IDE, a source level debugger and a
runtime library. This directory holds TLA+ modules for the parts of it whose
correctness depends on more than one step: the protocol between the IDE, the
program it debugs and the help viewer; the path from a statement, an expression,
a procedure or a class of the language to registers of the 68000; the path from
instructions to a program in memory; the IDE's editor; and the runtime's timers,
windows, sounds and files. TLC checks them on small instances; for the
debugger, linear scan, sound, events, the editor and classes, TLAPS proves the main
invariants for every instance.

Paths below are relative to the repository; `compiler/` and `lib/` stand for
`src/compiler/` and `src/lib/`.

## The system

| part | state | operations | what is hard |
|---|---|---|---|
| scanner, frontend (`compiler/scanner.c`, `frontend.c`) | the stack of open statements `g_sleStack`, the current environment | one per statement and expression form; each emits code as it parses | code is emitted in one pass: an item that one alternative changed is used by the next |
| code generator (`codegen.c`) | items (where a value is), instruction list, temps, labels | loads, comparisons, conditions with fix-ups, calls | conditions are patched after they were emitted |
| register allocator (`linscan.c`) | live intervals, taken flags, coloring | intervals, linear scan, spilling, rewriting | two sorted views of one table, flags that mirror it |
| assembler, linker (`assem.c`, `link.c`) | segments, relocations, symbol tables | encode, fix up, define, resolve, relocate, load | order of object files, common symbols |
| environments, module files (`env.c`, `types.c`, `symbol.c`, `table.c`, ...) | scopes, symbol files | declare, look up, save, load | forward references between modules |
| pools, options, errors (`util.c`, ...) | chunks per pool | allocate, reset | memory used after its pool was reset |
| IDE editor (`ide.c`, `ide_con.c`, `tui.c`) | the list of lines, cursor, view, breakpoints | keys, folding, saving, F5, F9, console | counters beside the list, the view that has the keys |
| IDE on the Amiga (`ui_amiga.c`) | window, ports, `nextEvent`'s static state | wait for a key, for the child, run, quit | waits nested in event handlers |
| debugger (`debug.c`) | `g_dbgEnv`, `g_helpEnv`, `g_bpCodes`, the frozen child's registers | start, messages, trap, prompt, break | two tasks, one port, memory patched under a program |
| runtime (`lib/_brt`) | message ports, exit and break handlers, memory list | start-up, output, errors, exit | runs as child of the IDE, in any state when it is told to end |
| `lib/_aqb` | windows, menus, sound queue, timers | BASIC's graphics, sound and timer statements | requests in flight, callbacks from the event loop |
| collections, GC, support libraries | lists, arrays, marked blocks | add, remove, enumerate, collect | enumerators under modification |

What makes each correct: a program computes what its source says whatever the
number of registers; a program under the debugger prints what it would print
alone, in order; stops where it is told to and nowhere else; is never run with
instructions that are not its own; ends when it is told to; and the IDE, which
shares its memory and its messages, always knows which of them are its own.

Interaction: frontend and code generator share items and the instruction list
of the open procedure; linscan rewrites that list; the loader puts the result
into memory of the IDE's task; `_launch_process` turns it into a child process.
From then on the two tasks talk by messages only (`DebugMsg`): START, the
child's permission to run, replied when it ends; PUTS and PUTC, replied when
shown; TRAP, replied when the user lets the program go on. The help viewer's
WBStartup is replied to the same port.

## Modules

| module | models |
|---|---|
| `Debugger` | `debug.c`, with the waits of `ui_amiga.c`, the keys of `ide.c` that matter to it, and the runtime's side of the protocol (`startup.S`, `cstartup.c`, `autil.c`) |
| `DebugSession` | abstract: what the user sees of the programs run |
| `DebuggerRefinement` | the mapping of the first to the second |
| `DebuggerProofs`, `BreakpointProofs` | theorems about the three |
| `LinearScan` | `linearScan` and `spillAtInterval` of `linscan.c` |
| `LinearScanMC` | every table of a few intervals |
| `LinearScanProofs` | theorems about `LinearScan` |
| `CodeGen` | operators: the code `codegen.c` emits for loads, comparisons, conditions, labels, jumps and calls, as the control statements need it |
| `Frontend` | the control statements of `frontend.c`: one action per statement, with the stack of open statements |
| `Language` | abstract: an interpreter of the same statements, from what `help/RefCore.md` promises of them |
| `RegAlloc` | `Frontend`, then all of `linscan.c` (intervals, `LinearScan`, the rewritten code), then a 68000 that executes the result beside the code as emitted |
| `RegAllocMC` | the programs |
| `Operations`, `Conditions` | operators: the code `codegen.c` emits for values of every type, its constant folding, conditions and conversions |
| `Machine` | what executes that code, with the routines of `amath.c` |
| `Expressions` | the expression parser of `frontend.c`, coercion, and an assignment from its tokens to the stored value |
| `Meaning` | abstract: the value of an expression; where compiled code is known to differ |
| `ExpressionsMC` | the assignments |
| `Procedures` | SUB and FUNCTION in the frontend: headers, look-up, arguments, bodies |
| `Activations` | a program of procedures, read line by line and executed with its stack in memory |
| `CallMeaning`, `ProceduresMC` | abstract: what the calls mean, which lines are wrong; the programs |
| `Types`, `ModuleFile`, `Classes` | class layout and virtual tables, the module file, programs with objects |
| `ClassesMC` | three types |
| `ClassesProofs` | theorems about `Classes` and the module file |
| `Instructions` | what `assem.c` makes of an instruction |
| `M68k` | abstract: what the words say to a 68000 |
| `Assembler` | `assem.c`: fragments, labels, fix-ups, segments, debug information |
| `DataStatements` | DATA, READ and RESTORE, with `_brt/data.c` |
| `Linker`, `LinkerMC` | `link.c`: reading object files, `LI_link`, the load file, reading it back and `LI_relocate`; `_loadSeg`; object files good and bad |
| `Build`, `BuildMC` | `Assembler`, `Linker` and `DataStatements` in the order of `compiler.c`; the programs |
| `Editor`, `EditorMC` | `ide.c`: lines, buffer, cursor, view, folds, file; two small sources |
| `EditorProofs` | theorems about `Editor` |
| `FoldTheorems` | what a fold over a sequence returns, for proofs about loops |
| `Events` | `atimer.c`, and the windows, messages and keys of `awindow.c`, with the callbacks |
| `EventsProofs` | theorems about `Events` |
| `Sound`, `SoundProofs` | `asound.c`; theorems about it |
| `FileIO`, `FileIOMC` | `aio.c` with the number conversions of `astr.c`; what is written and typed |

Compositions: `RegAlloc` is `Frontend`, `LinearScan` and `Language` in turn;
`DebuggerRefinement` relates `Debugger` and `DebugSession`; `Build` runs
`Assembler`, whose segments `Linker` takes and whose data segment
`DataStatements` reads; `Classes` compiles with `Types` and imports with
`ModuleFile`; `Expressions` and `Activations` each put the compiler in front of
a machine. A module with an abstract part (`Language`, `Meaning`, `CallMeaning`,
`M68k`, the functions behind `ReadsGiveLiterals`) reads the program the compiler
was given, never what the compiler made of it.

### Debugger

One state machine for three processes. `idePc` is where the IDE's task is: its
event loop, between creating a child and starting it, at the debugger's prompt
(a nested event loop in `IDE_readline`), or waiting for the child's end before
it quits. `dbgState`, `helpState` and `bpCodes` are `g_dbgEnv.state`,
`g_helpEnv.state` and `g_bpCodes`; `startMsg`, `trapMsg` and `outMsg` say where
each of the child's three messages is (a message is a structure in memory: it
can be in one list only). The child is `cpc`, the address it executes, its
trace bit, and whether it waits in `_DEBUG_PUTS`. Memory is an opcode per
address: the number of the program that was compiled, ILLEGAL, or FREE. `CreateChild`
loads a program at any base, those of ended programs and of the help viewer's
Process included, and `bpCodes` keeps what earlier programs left there;
`applied` is history: the lines for which `_launch_process` found a slot.

| action | code |
|---|---|
| `ToggleBreakPoint`, `CreateChild`, `InsertAndStart`, `Help` | F9, F5 (`_compileAndRun`, `DEBUG_start`, `_launch_process`), F1 (`DEBUG_help`) |
| `QuitStopped`, `QuitRunning`, `QuitTrapped` | close gadget, `IDE_deinit`, `DEBUG_break(TRUE)` |
| `HandleHelp`, `HandleStart`, `HandlePuts`, `RestoreBreakpoints`, `HandleTrap` | the branches of `DEBUG_handleMessages`, and the first of `_debug` |
| `CmdExit`, `CmdContinue`, `CmdStep` | e, c and s at the prompt |
| `TakeStartup` .. `Unfreeze` | the child: `_cstartup`, an instruction, a trap handler with `_freeze_myself`, `_DEBUG_PUTS`, `__handle_break`, `ERROR` and its like |
| `ExecForeign` | an instruction that a continue (`_debug`) took from an earlier program's entry is executed |
| `EnterExit`, `FinishExit` | `_autil_exit`, `_c_atexit` |
| `CtrlC`, `HelpExit` | the input handler, the end of the help viewer |

`CreateChild` and `InsertAndStart` are two actions because the child process
runs in between; it cannot get further than its wait for the start message.
`_launch_process` inserts the breakpoints without waiting for anything, so its
loop is one step. A handler of `DEBUG_handleMessages` is one step: it does not
wait, except in `_debug`, where the wait is the place `prompt`.

Abstracted: a line is two instructions, one that carries the breakpoint and one
for the rest, because the difference between the first instruction and any
other is what the breakpoint code is about. Output is numbered. What the
program computes is not there: every jump is possible. The display commands of
the prompt are left out. CTRL-C, BREAK, a failed assertion and a runtime error
are one trap: the IDE only shows different texts. A program is one number at all of its addresses: the
same program loaded again has the same opcodes, which can only make it look
better off than it is at addresses that differ between two loads.

`fault` records undefined behaviour: a message replied or sent while it is
linked in another list, a signal to a freed task, a message to a port that is
gone, an opcode of another program executed among those of this one. No step is taken after it: what would follow is anything.

### LinearScan

`i` is the loop's index, `active`, `reg` and `busy` the flags and registers of
the intervals and `dRegs[]`/`aRegs[]`. One action per way through an iteration:
`SkipPrecolored`, `Confused` (the assertion for a temp that needs both classes),
`Assign`, `Steal`, `Spill`. `quickSort` is not stable and the table it sorts is
enumerated from a hash table, so intervals that start together come in any
order: `Tables` holds every order, and the spill candidate is any of those that
end last. `dReg` and `aReg` are one variable because a temp has one class.

### CodeGen and Frontend

`CodeGen` gives the emitted instructions, with temps and labels numbered in the
order the code allocates them; a state of the generator is the code so far and
the next numbers. `CG_loadVal` replaces an item by the temp it is loaded to:
that `RelOp` returns the right item it changed is the point of the model. A
condition is code that falls through on one value and jumps on the other, with
the set of jumps that `CG_transMergeCond` redirects.

`Frontend` reads a source, a sequence of statements, one action for each of
`stmtForBegin`, `stmtForEnd_`, `stmtWhileBegin`, `stmtWhileEnd`, `stmtDo`,
`stmtLoop`, `stmtIfBegin`, `stmtIfElse` (`ElseIf` and `Else`), `stmtIfEnd_`,
`stmtSelect`, `stmtCase`, `stmtSelectEnd_`, `stmtExit` and `stmtContinue`. `sle`
is `g_sleStack`: an entry has the labels to leave and to go on, and what the
statement's end needs. A source that the compiler refuses has no next action and
is not among the programs: parsing and its errors are left out. Expressions are
what control statements need of them: a variable against a constant, AND and OR
of such, TRUE and FALSE; `Let` and `CallSub` are there so that a program has
something to change and something that changes registers.

### Language

The promise `Frontend` is held to: which statement follows which, and what the
variables are. It finds the end of a block by counting in the source and has no
labels, temps or conditions that jump.

### RegAlloc

`phase` goes from compiling to running. `Occur` and `Extend` are
`computeLiveIntervals` with its fixpoint over the jumps, one action per round;
`Sort` is the table `quickSort` leaves; `Allocate` is a step of `LinearScan`.
Then `Language` says what the program should do, for variables that all start
with one of `Inputs`, and the machine executes: `regs`, `slots` and `memory` are
what the 68000 sees, with spilled sources fetched to d0 and spilled destinations
kept by way of d1 as `LS_regalloc` rewrites them; `temps` is what the emitted
code means if every temp had a register of its own. Registers that a called
function may change get any value of `Junk`; a temp nothing wrote is `Undef`.
The order of intervals that start together is fixed here (by number);
`linscan_safety` and the proofs cover every order.

### Linker

A program is given by its sections: what a section holds, which of its longwords
refer to a symbol or to a hunk of the same unit, what it defines. `Hunks` is the
form a unit has in a file (`LI_segmentWriteObjectFile`; gcc's assembler writes
the same), and everything after that works on hunks and segments as the code
does. `seg` is every `AS_segment` ever made, a segment's number stands for the
pointer to it; `sl`, `hunk_table`, `hunk_id_cnt`, `hunk_cur`, `hunk_sizes`,
`commonSyms` and `symTable` are the variables of those names, `pc`, `node` and
`item` the place in the loops of `LI_link` and `LI_relocate`.

| action | code |
|---|---|
| `OpenFile`, `AppendObject`, `StartLink` | the link phase of the driver |
| `LoadUnit` .. `LoadEnd` | one hunk read, for object files and load files |
| `Pass1`, `Pass2`, `Pass3` | one segment, one common symbol, one reference of `LI_link` |
| `WriteLoadFile` | `LI_segmentListWriteLoadFile`, and `_loadSeg` opening the file |
| `Relocate`, `RelocateTables` | one relocation; symbols and line table of a segment |

Common symbols come in the order of a hash table: any order. What refuses a
program, and each assertion, is an action that ends the run with `pc` naming
how. `Units`, `Definitions` and `Target` read the program and nothing the linker
computed (except where a common symbol was put), so `ReferencesBound` compares
the memory of the loaded program with what its sources say.

Abstracted: `mem` has only longwords that are references and a few that are not;
a longword has two digits instead of four, enough for a carry between them;
names, short reads and, of the debug hunk, frames and global variables are left
out. A segment's address is fixed by its number: memory may move while hunks are
read, but nobody looks at it before `LI_relocate`.

### Expressions

An item of `Operations` is where a value is (a constant, a frame slot, a
variable by label, by reference, by a pointer in a temp, a temp, a condition);
the generator's state is the code so far and the next temp and label. Every
`CG_...` function is an operator from a state and items to the next. `Expressions`
is the precedence climbing of `expression` with `transBinOp`, `coercion`
and `convert_ty`; its steps are `Compile` and the machine's run. `Machine` keeps registers and variables as bit
patterns, so that what a byte operation leaves of a long register shows. Sizes
are parameters: `.B`, `.W` and `.L` have 4, 6 and 12 bits in the run, every
boundary of a type being where it is with 8, 16 and 32. Values are counted in
halves, which makes singles exact where that matters (rounding, comparison);
the format of mathffp is external.

`Meaning` gives each tree its value from the language's rules. Compiled code
is known to differ for some of them: `Odd` and `MayStop` say for which, node by
node, and each of their parts is a defect listed below. For all others the
stored value is the tree's, and nothing else is written.

### Procedures and Activations

`Procedures` threads a record through the functions of `frontend.c`: procedures
and scopes declared, `g_sleStack` with the code of each entry, counters.
`transActualArgs` and `transAssignArgExp` decide what is passed; `transSubCall`
is tried for every SUB of a name in order, as the code does; headers are
compared as in `matchProcSignatures` and `checkProcMultiDecl`. `Activations`
takes a line of the source at a time (`ReadLine`), then executes an instruction
at a time on a stack of bytes: LINK, UNLK, arguments, saved temps are where the
code puts them. A cell nothing wrote holds `Rubbish`.

`CallMeaning` evaluates the lines with environments and references. A program
is refused if and only if one of its lines is `Wrong` or a body is unfinished.

### Types, ModuleFile and Classes

The program of `Classes` is made up as it runs: a step declares a type or a
member (`Types`: field offsets with the alignment of the 68000, index in the
virtual table, properties), assembles the tables at the end of a class, creates
an object (the stores of `__init`), converts a pointer or calls a method.
`IMPORT` writes the module file and reads it again, with type references by
number. `Reached` finds the method that should be called by going up the source's base classes.

### Instructions, Assembler, DataStatements and Build

`Instructions` encodes each mnemonic field by field; `M68k` decodes words, after
the processor's manual. `Assembler` has an action per fragment and per
instruction, label, data node, and the two ends of a file (`AS_assembleCode`,
`AS_resolveLabels`); `listing` and `uses` are history. A
segment is its bytes. In `Build` the finished object becomes the main unit of
`Linker`, or its data segment the memory of `DataStatements`, where `READ`s run
against a pointer that knows no types.

### Editor

`ed.lines` is the linked list as a sequence; `cur`, `col`, `al`, `buf`, `top`,
`changed`, `editing` are the fields of `IDE_instance` of those names, `screen`
what each row shows. An action is a key: what it does, then `_scroll` and
`_repaint`. `Char` is what a line may be made of, `Alphabet` the part of it that
is typed; a file has at least one row and no NUL, which is where reading a row
ends. NUL stands for every character that is not printable: a paste may have
them, and `_insertChar` refuses them. `Save` may fail, `Compile` stops at the first error's line, `New`,
`Open` and `Exit` ask first. A character is a blank or a word of one column;
the keywords are those that indent and fold. `wild` marks the one place where
the code indexes outside its buffer (below); nothing is said after it.

### Events

The task's program is a stack of activations: the main program, and for each
SLEEP or VWAIT an activation of `_handleSignals` with the signals it took, then
the SUB it calls back, which may sleep again. `timerport`, `win` hold the signal
bit of a port, `sent` how often a timer's request is linked in timer.device,
`received` is the task's signals. `CallTimer`/`Rearm` are the two halves of
the loop of `_atimer_process_signals` around a callback, `TakeMessage`/`Reply`
those of the message loop. Bits are given out lowest first, so a freed one is
handed out again: that is how a stale signal reaches another port.

### Sound

`ioActive` and `ion` are the arrays of those names; `queue` is what audio.device
holds, `audioMP` what has come back. A statement is broken up into the calls it
makes (`todo`), each of which may block in WaitPort.

### FileIO

A step is a statement. `g_fis` has what the code keeps of a file number: the
input buffer (`ahead`), the look-ahead character and `getch_done`, `eof`. Characters
are ASCII codes; numbers have 4 and 6 bits, which leaves the digit loops as
they are. `disk` and `lost` are AmigaDOS: contents, and locks of handles that
were forgotten.

## Runs

Twelve runs, all of which pass. The root module is in brackets.

| run | instance | shows |
|---|---|---|
| `debugger_safety` (`DebuggerRefinement`) | 2 lines, one of which faults, 2 programs loaded at one base one after the other, 2 processes, a table of 2 slots, 1 message, every command, quitting, failing exit handlers | the invariants of the protocol (`Consistent`: types, one owner of each message, the prompt; `ProgramGuarded`: what the editor, quitting and exit may assume of the child); breakpoints that were put into a program hold, whatever the table has of earlier ones (`BreakpointsHold`); the editor's are all there unless the table is full, and then the first lines' are (`EditorBreakpointsInserted`); `Debugger` implements `DebugSession` |
| `debugger_live` (`DebuggerRefinement`) | 1 line, 2 processes, 1 slot, 2 messages, all commands, quitting | output is in order and answered, ends are noticed while the window is open, e ends the program; the last two unless the program's Process is where the help viewer's was |
| `linscan_safety` (`LinearScanMC`) | 4 intervals over 4 instructions, 2 data registers and 1 address register, one precolored | invariants of the scan and its choice of victims |
| `regalloc_safety` (`RegAllocMC`) | every SELECT of up to 2 cases of up to 2 expressions; IF with conditions of up to two ANDs and ORs; every kind of loop with EXIT and CONTINUE, every kind in every other; SELECT in a loop; FOR three deep, integer and single; calls; 2 registers, values 0 to 2 | the code runs the statements the language names (`RunsAsWritten`), keeps its meaning in registers and slots (`CodeFits`) and ends |
| `build` (`BuildMC`) | one program per instruction form and operand; branches ahead and back; labels in code and data, defined, missing and doubled; a startup with bss, a main program, no, one or two modules out of a C library, BASIC libraries without and with debug hunks, and files with an unsized common symbol, an empty data hunk, a pointer behind its segment, too many hunks; DATA of every type read straight, again and wrongly | a processor reads what the code generator wrote, what is accepted is bound as its sources say, lines and symbols are found, READ gives the literals, and what is refused is refused for a reason |
| `events_safety` (`Events`) | 2 timers, 1 window, 3 signal bits, ring of 2 keys, 3 statements, callbacks that turn timers off, sleep, wait and end the program, 3 activations | a tick is in exactly one place and is answered; messages are announced, keys come in order |
| `sound_safety` (`Sound`) | 2 channels of 3 requests, 5 statements of every kind, waves of one and two parts, devices that do not open | requests are reused only after they came back, nothing is queued when the device closes, every statement ends unless it waits for a channel that is stopped |
| `expressions` (`ExpressionsMC`) | r = a for every pair of types and place; every operator on every pair of types, operands as constants, variables, references and through pointers, values at the ends of the types; two operators in each other, negations around and inside | the value of the expression is stored and nothing else changes; the compiler stops only where it is known to |
| `editor_safety` (`EditorMC`) | two sources (two SUBs to fold, a loop), 4 keys of every kind, a clipboard of two lines, a failing save | lines are numbered and indented as they stand, what is not marked as changed is on the disk, a key changes the text at the cursor only |
| `classes` (`ClassesMC`) | three types, up to three members, two bases or interfaces, two conversions | fields lie apart, a call reaches the method that overrides, an importer sees what was declared |
| `fileio` (`FileIOMC`) | one file, two writing and four reading statements, console answers | items and lines are read back as written, EOF tells the end |
| `procedures` (`ProceduresMC`) | four families: none to three arguments for none to two parameters of each type and mode, with defaults; calls in calls, recursion, mutual recursion, STATIC; declarations and definitions against each other; extra words in every order | calls mean what their lines say, the chain of frames holds, refused programs are wrong and accepted ones are not |

Eleven more properties or programs are in the modules that the code breaks. TLC
finds each of them violated within seconds when it is put into a run: the
property in place of the run's own, with the constants named.

| in the run | property | with | violated because |
|---|---|---|---|
| `debugger_safety` | `OwnInstructions` | | a continue takes the instruction from the first slot with the address, an earlier program's (`debug.c:1368`; the comment at `:1366` says "re-insert original instruction") |
| `debugger_safety` | `AllApplied` | | no slot of `g_bpCodes` is ever freed, and none left drops the breakpoint (`debug.c:717`; `:694`, "apply editor breakpoints") |
| `debugger_safety` | `RepliesToldApart` | | the help viewer's Process is remembered after its end (`debug.c:1490`; `:1488`, "is this our dbg process or the help window ?") |
| `debugger_live` | `ExitTerminates` | `ExitHandlerFails = TRUE` | `_c_atexit` starts over with the handler that failed (`cstartup.c:293`; `debug.c:1458`, "e - exit (terminate program)") |
| `regalloc_safety` | `RunsAsWritten` | `Wanted = "ranges"` | a comparison behind a range in CASE reads a temp that was not loaded if the first half of the range failed (`frontend.c:4835`) |
| `regalloc_safety` | `RunsAsWritten` | `Wanted = "exit"` | SELECT hands on the exit label of the loop around it (`frontend.c:4762`; RefCore.md:446) |
| `regalloc_safety` | `ArgumentsInPlace` | `Wanted = "args"` | a spilled argument is fetched by way of d0, which has an argument already (`linscan.c:677`): two data registers and three arguments here, five and six in the compiler |
| `expressions` | `DivisionSigned` | `Statements <- LongDivisions` | the two counters of signs are not what the comments say: 3 MOD -70 is -3 (`amath.c:147`; `:122` and `:129`) |
| `build` | `ReadsKeepValues` | | READ goes by the width of the variable, DATA by that of the literal (`data.c:39`; RefCore.md:239) |
| `build` | `HunksKnown` | | the reader of object files has no case for the debug hunk the writer adds (`link.c:911`, `assert(FALSE)` at `:913`) |
| `events_safety` | `SentOnce` | `CallbackOps = {"TIMER OFF", "TIMER ON"}` | a callback that turns its timer off and on has the request sent twice (`atimer.c:59`) |

## Where the code and its documents disagree

Met while modelling. The runs leave these cases out by a precondition of
the property or the choice of programs, so that they show that nothing else
breaks the property; for those that name a property in italics, the table above
says how TLC shows them.

Debugger (`Debugger`):

- `debug.c:1366` looks for the first slot with the address, which may be an
  earlier program's: a program loaded where another was gets back the other's
  instruction (*OwnInstructions*).
- with a table that earlier runs filled, breakpoints are dropped (*AllApplied*).
- `cstartup.c:435` clears CTRL-C after a break may have been sent; the IDE then waits for ever
  (CHANGELOG.md:132).
- A single step at a breakpoint traps on the same ILLEGAL again (`CmdStep`); an
  instruction that faults while a continue steps over it loses its breakpoint
  (`Faulting`); a program whose Process was the help viewer's is never noticed
  to end (*RepliesToldApart*); with an exit handler that fails every e brings the
  prompt back (*ExitTerminates*); closing the window between the end of a program
  and its reply signals a Process that exec has freed (`fault`).

Register allocator and control statements (`LinearScan`, `Frontend`, `RegAlloc`):

- `if (ri>0)` (`linscan.c:419`) leaves out d2 and a2 when it looks for a held
  register; a call with arguments in d0 to d6 stops at the assertion of `linscan.c:427`.
- EXIT SELECT leaves the loop around the SELECT (*RunsAsWritten*; RefCore.md:446).
- more arguments in registers than registers to compute them in (*ArgumentsInPlace*);
  no library of the repository declares such a function.
- a comparison behind a range in CASE reads a register nothing was loaded to if
  the first half of the range failed (*RunsAsWritten*; RefCore.md:1017).

Expressions (`Meaning`; the parts of `Odd` and `MayStop`):

- division with a negative divisor and MOD with one: the low words of the two
  counters are not what the comment says (*DivisionSigned*; `amath.c:129`, `147`).
- a condition that is an operand of XOR, EQV, IMP, a comparison or arithmetic is
  still in the branches when the other operand's code follows (`codegen.c:1010`,
  `frontend.c:1306`); `(NOT flag) * FALSE` branches to a label that never comes.
- SHR of an unsigned byte shifts in its sign (`codegen.c:2819`); DIV and MOD of
  UINTEGER from 2^15 and of ULONG are signed; INTEGER with ULONG coerces to
  ULONG on one side and LONG on the other; TRUE OR an unsigned byte is 255.
- XOR, EQV and IMP of truth constants read FALSE on a big-endian compiler
  (`util.h:13`, tests/opbool1.bas:37).
- a constant divided by zero ends the compiler; a power with a negative
  exponent never ends; negation of unsigned variables, arithmetic of booleans,
  BYREF booleans in conditions, and a variable to the power of an array element stop at assertions.
- constants are rounded to an integer type, variables truncated.

Procedures (`CallMeaning`):

- a PRIVATE SUB is declared in its own scope only: calling it by `foo` or `CALL
  foo` without arguments does nothing, silently; a PRIVATE DECLARE is reported
  as having no implementation (RefCore.md:818).
- `(a)` passed to a BYREF parameter changes `a`, although `frontend.c:5497`
  says that a temporary is made: `forceExp` is not used.
- callers behind a DECLARE use its default values, not the definition's; STATIC
  and variadic headers are not compared; a variable operand of + is read after
  the calls on its right.

Classes (`Classes`): a derived object never gets the base's interface
table pointer (`frontend.c:1882`, comment at `:911`); an interface pointer is
accepted for a class without being moved; conversion to a second base interface
calls the wrong method; an interface member implemented by a base class that
does not declare the interface is refused. `Unsupported` leaves these out.
RefCore.md:88 promises BASE for hidden members, which fails.

Editor (`Editor`): `num_lines` counts a new line in `indentSuccLines` and once more behind it
(`ide.c:1352`), so the info line shows one line too many after Enter; page down, a key and page up leave the top row blank
(`ide.h:53`, `ide.c:231`); the cursor may be behind the end after a save trims
blanks, and what is typed there is lost; Backspace in an empty line's buffer
takes its length below zero (`wild`); Exit, New and Open go on when a save failed.

Files (`FileIO`): the console's `_awindow_gets` calls `_aio_init`
(`awindow.c:1459`), which forgets every open file; the first INPUT's last
character is put before the second's answer (`aio.c:456`; RefCore.md:567);
INPUT # behind the end returns a stale character; INPUT # and LINE INPUT # mixed lose
the character read ahead; EOF is one character early on a last line of one
character without Return; the smallest LONG is written without its digits
(`astr.c:38`); the separator in `1 ,2` reads as an empty item; strings with quotes do not come back.

Events and sound (`Events`, `Sound`): TIMER ON inside a callback for a timer that was on
sends its request twice (*SentOnce*); ON WINDOW CLOSE CALL drops the user data; WINDOW CLOSE in a callback is
followed by a use of the window (`awindow.c:779`, `941`); a nested SLEEP in the callback
of the only timer waits for ever; bits of closed ports stay in the masks. A
retry after a failed `_init_audio_device` leaks its ports (`asound.c:92`);
WAVE FREE frees data that may be queued; a statement that waits on a stopped channel hangs.

Assembler, DATA and linker (`Build`): the displacement of a branch ahead is not
checked against its word (`assem.c:1190`); READ into a variable
of another width than the literal's goes astray (*ReadsKeepValues*); DATA from -32769 to -65535 is laid
out as two bytes (`frontend.c:4117`); numbers behind a string of even length
are at odd addresses; `_check_out_of_data` looks only at the start of what is
read; a common symbol and a definition of one name bind to the common one (`link.c:982`); the
reader of object files does not know debug hunks, which the writer adds
(*HunksKnown*; `link.c:911`); on a little-endian host the carry of a reference's sum goes to
the wrong byte (`link.c:1013`; README.md:121, `BigEndianHost = FALSE`).

### Bounds

- `MaxOut = 2` in `debugger_live`: two messages are enough for one to be overtaken
  by another. In `debugger_safety` one has to do, for the sake of
  its two lines, two programs and failing exit handlers: an output and a trap
  are in the port together there.
- `MaxVersion` counts program texts; two tell an instruction of this program
  from one of an earlier program.
- One base: every program is loaded where those before it were and meets what
  the table has of them, the case in which the code is wrong. Two slots for two
  lines: the table is full behind one program or behind two, with two entries
  for one address or for two, and the next program's breakpoints are dropped,
  both or the second. One line faults, one does not. The theorems are about tables
  of any size and any addresses.
- `debugger_live` has one line and one slot: what is about code and breakpoints
  is in the other run.
- Two processes: the child's and the help viewer's.
- Four intervals and two registers: with one register fewer than intervals that
  overlap there are a steal, a spill and an expiry in one scan.
- Two data registers for the allocator's programs: three FOR loops in each other
  keep three limits, so one is in a slot, sources and destinations both.
- Values 0 to 2 for the variables: below, at and above the constants 0, 1 and 2
  that conditions compare with, loops that run not at all, once and twice.
- Two ANDs or ORs, two cases of two expressions, two loops in each other: every
  merge and inversion of a condition and every lookup in `g_sleStack` is one
  between two of its kind.
- Two modules: a symbol defined twice, a common symbol declared in two objects of
  one file and in another file, a hunk number used again after `HUNK_UNIT`. 8
  hunks are few enough for two modules to be too many. `SegmentSpace`
  keeps the segments of the memory apart; sections of 72 bytes do not fit the 64
  that a segment of unknown kind starts with. `BranchReach` stands for 2^15.
- `Execute` stops one statement behind what the language says: a program that
  goes wrong has been caught by then, and one that loops too often is finite.
- 4, 6 and 12 bits: three sizes, each with its own sign bit and room for the
  products of the one below; `Samples` has negative and positive values, and
  values near the end of a type. Two operators in each other reach every pair of pending item and following code.
- Three types: a class, its base and an interface, or a base class of each kind
  twice; two conversions reach an interface by way of a base.
- Three activations: the main program, a callback, and a callback in it. Two
  timers and a window share three bits, so a freed bit is handed out again. Two
  keys in the ring: it fills and goes around.
- Three requests per channel and five statements: the round robin comes round.
- An input buffer of three characters is refilled inside an item; lines and
  items have up to eight and six.
- Four keys on a text of three or four lines: type, leave the line, join or split, undo by
  the reverse. `MaxLines`, `MaxColumns` only keep the text from growing.
- The stack of `Activations` has room for the deepest recursion of the programs; `Radix` is the size of a byte in memory, so that integers and
  longs take two and four of them; `Rubbish` is a value no program computes.

### Fairness

`WF(InsertAndStart)`, `WF(Handle)` and `WF(Child)` in `Debugger`: exec schedules
both tasks, and neither can be kept from running by the other (the IDE's loop
waits, the child's priority is the default one). `UserSpec` adds `WF(Prompt)`
for the properties that need the user to answer the prompt at some time. Nothing
is assumed of F5, the close gadget, CTRL-C or the help viewer. `Child` is one
fairness condition, not one per instruction: a program may loop for ever.
`ExitTerminates` and `FairSessionImplemented` leave out the runs in which the
program's Process is where the help viewer's was: its end is not noticed there.
In `RegAlloc` the compiler and the machine go on (`WF(AllNext)`): both are
sequential programs that nothing stops. In `Events`, the task runs when it is
not waiting (`WF(Loop)`), a SUB called back ends (`WF(EndSub)`), timer.device
answers (`WF(Elapse(t))`); nothing is assumed of the user or of the main
program. In `Sound`, the library goes on when it is not blocked and audio.device
plays on (`WF(Played(c))`).

`CHECK_DEADLOCK FALSE` is in the runs that really stop: the IDE closed, a program
compiled, executed or ended, the editor left, a task waiting for an event
nobody sends.

## Proofs

TLAPS checks eight modules. Each theorem holds for every value of the constants
that satisfies the module's assumption (`DebuggerAssumption` and so on, which
only give the constants' types), unless a hypothesis is named.

### The debugger

`DebuggerProofs` proves for every number of lines, bases, processes, slots and
bounds, whether or not the window can be closed and exit handlers fail:

- `Inductive`: the invariant `TypeOK /\ Protocol`, of which `OneOwner`,
  `OutputInOrder`, `PromptOwnsTrap` and `StoppedMeansGone` are parts. None of
  them is inductive alone: that the console is complete depends on where the
  output message is, which depends on the order of output and trap in the port,
  which depends on whether the child is frozen. One step per action; the lemmas
  about the port say what taking its head and appending to it do to `Orderly`,
  `Has` and `Carries`.
- `ConsistentHolds`, `OutputInOrderHolds`, `StoppedMeansGoneHolds`,
  `ProgramGuardedHolds`: the invariants that are about messages and the program's
  life. `ProgramGuarded`
  needs where the child may be while the IDE is outside its event loop
  (`Guarded`), because a program that was forced out lists its breaks only
  behind its exit.
- `SessionHolds`: every step of `Debugger` is a step of `DebugSession` or a
  stutter under the mapping of `DebuggerRefinement`, by the same invariant.

`BreakpointProofs` proves `BreakpointsHold` and `EditorBreakpointsInserted`
without a hypothesis: for programs loaded anywhere one after the other, a table
of any size that is never cleared, and any lines that fault. The invariant:

- `Program`: a program is loaded whole, memory is ILLEGAL only where the table
  has an entry, and every line of `applied` has one.
- `Calm`: while nothing is being continued, no instruction is out of place and no
  breakpoint out.
- `Stepping`: behind a continue, the child is about to execute the one
  instruction that was given back, its own or one that the table has of an
  earlier program, or the trap that follows is on its way. If that is not the
  trace trap, the ILLEGALs are there again or the line is one that faults.
- `AtIllegal`: who is stopped at a breakpoint stands at an ILLEGAL.
- `Table`: the editor's breakpoints are in the table up to the slot where it was
  full (`SlotOf` grows with the line), so what is missing is behind what is there.

What the theorems cannot say, because the code does not do it, is that the
instruction given back is the program's own and that none is missing
(`OwnInstructions` and `AllApplied`, which TLC finds violated).

### Linear scan

`LinearScanProofs` proves `Consistent`, `NoSharedRegister`,
`SpillCandidateExists` and `SpillsFurthest` for any number of registers and any
table sorted by first instruction, none of whose intervals ends before it begins
(`LinearScanAssumption`). The invariant adds that active intervals have
registers below the class's number and are not yet over at the interval the
scan came to last, and that one that gave up or never got its register is not
active; the order of the table is what makes an expired interval unable to
overlap any later one.

### Sound

`SoundProofs` proves `Consistent` and `ClosedWhenQuiet` for any number of
channels and of requests per channel. That no request is handed out while it is
out follows from an order the code never states: the requests of a channel that
are out are the ones before `ion`, oldest first (`GoRound`), and audio.device
returns them in that order. `ioActive` alone does not say which are out: while
calls of `_chan_wait` are still to come it names requests that a WaitPort for
another one has taken already, so `Counted` compares numbers, and `Covered` says
that whoever waits for a channel, or closes it, waits for all of its requests.
`Ending` is the order of shutdown: no device is closed before every request of
it has been waited for.

### Events

`EventsProofs` proves `Consistent` and `TickInOnePlace` for any number of timers,
windows and bits, any size of the key ring and any depth of SUBs in SUBs. The
invariant: no two ports own a bit (`BitsApart`), a port with a message has its
bit among the signals received or in an activation that has not come to it
(`MessagesAnnounced`), and what was read, what is buffered and what is at a
port are in the order it was typed (`InOrder`). The ring's arithmetic is that of
the code, modulo `MAXKEYBUF`.

`TickInOnePlace` has the hypothesis `OnlyMainStarts`: no SUB that is called back
turns a timer on. A SUB that turns its own timer off and on again sends its
request a second time when `_atimer_process_signals` goes on behind it: the
request is linked twice, which is listed among the disagreements above.

### The editor

`EditorProofs` proves `Consistent`, `UnchangedMeansSaved` and
`TextChangesAtCursor` for any alphabet, files, texts pasted and window heights,
and texts of any length. The inductive
invariant says that the list is `Whole` (numbered and indented as it stands, the
cursor on a line) and, unless a change is noted, that the file has the words of
the lines (`OnDisk`). There is a lemma for every function of `ide.c` that
changes the editor, in the order in which they call each other; between two
calls of one handler only the first lines are in order (`Listed`), and
`indentSuccLines` puts the rest in order. That `commitBuf` may stop early, when
the line asks for the indentation it had, is the case that needs the whole
chain: what follows then reads the same numbers as before. `UnchangedMeansSaved`
needs the words: that `_buf2line`, folding, joining, `_scroll` and `_repaint`
take away no more than blanks, and that a file read is split into the words it
had.

`TextChangesAtCursor` follows from the same lemmas, which say of each key what
becomes of the words before and behind the cursor, with the buffer in the place
of the cursor's line (`Spoken`): a key that only moves, folds, commits or shows
leaves them (`Quiet`, `Alike`); Enter parts the row where the cursor stands
(`Parted`), what is typed stands in front of the cursor (`Written`), Backspace
and Delete take one away or join two rows (`Erased`), killing a line leaves what
is above and below it. A paste is an induction over the characters pasted
(`StepsWrite`); what is not printable in it `_insertChar` refuses
(`printableKeeps`). The property asks for a row without NULs before the key: one
appears in a row when `_insertChar` extends a row that is too short for the
cursor, and what is behind it is lost.

The loops are folds. The library's induction theorems take an operator and
cannot be used here, so `FoldTheorems` proves the same rule with a set in its
place: what is true of the start and kept by one round is true at the end
(`Induction`, from the well-foundedness of the natural numbers), a fold is the
last of a sequence of states each made from the one before (`FoldSteps`), and
therefore what one round keeps the loop keeps (`FoldStays`). With it come what
`FlattenSeq`, `RemoveAt` and `InsertAt` do.

### Classes

`ClassesProofs` proves `Consistent` and `ImportedAsDeclared` for any number of
types and any declarations of fields, methods and properties in them.
`ClassesAssumption` says that the names of types differ from each other and from
`CObject`, and what a declaration is. The inductive invariant (`Inv`) has these
parts:

- `Ordered` and `Table`: the k-th type refers only to `CObject` and the types
  before it (`Known`), and was made by `types.c` (`Made`): the fields of a class
  lie behind each other, from the size of its base class on (`Laid`), with the
  pointers to its tables inside the object. The size of a class grows only while
  it is the last type, so no class derived from it can be overtaken.
- `Opened`: the type being read is the last one and has no tables yet.
- `Stored`, `Sources`, `Pointers`: what `__init` stores are tables, at places
  inside the object; objects and pointers are of types that are declared.

Functions that are recursive over base classes and interfaces (`Chain`,
`Visited` and the like) have their values only if they exist. `RankedExists` of
`FoldTheorems` is the rule: one that looks only at what has a lower rank exists,
and the number of a type is its rank.

The theorem `LoadReadsSaved` is the step behind `ImportedAsDeclared`:
`E_loadModule` on the words `E_saveModule` wrote gives back every type, member
and implementation, with the interfaces of a class in the reverse order, because
the loader puts each in front. The words are the sections of the types one
behind the other, each read from where the one before it ended (`At`); a list
is preceded by its length, and no type has the number 0 that ends the types.

### Only model-checked

- Liveness (`OutputAnswered`, `ExitTerminates`, `TicksAnswered`, `StatementsEnd`,
  `ComesToEnd`) and the fair refinement: out of the prover's reach.
- `Expressions` and `Procedures` with what builds on them: recursive over trees
  and lines with RECURSIVE operators.
- `CodeFits` and `RunsAsWritten`: the correctness of a compiler, whose invariant
  would relate every place in the code to a place in the program.
- `Build`, `FileIO` and `CallsReachOverrider` of `Classes`: not proved. The
  first needs the form of a file read half, the
  second that reading numbers is the inverse of printing them, the last the
  contents of every virtual table as a function of the source's declarations.

## Not modelled

`PROJECT.json` lists every component. Left out for good: the disassembler,
formatting, drawing, wrappers of one system call, hash tables and pools.

- Allocator: the registers saved around a GOSUB.
- Code generator and frontend: arrays, records (TYPE), strings as values,
  pointers, GOTO, GOSUB, ON, END, constructors, method bodies, procedure
  pointers, LIB declarations, coordinates, the scanner. Break checks are left
  out of `Procedures`.
- Editor: marks, cut and copy, find, syntax colours, horizontal scrolling.
- Assembler: `AS_sprint`, BSS. Linker: names, short reads, frames and global
  variables of the debug hunk.
- Events: screens, menus, mouse, drawing; WINDOW CLOSE in
  callbacks (see above). Sound: WAVE FREE. Files: SINGLE values, read errors.
- Uninitialised locals of procedures that are not STATIC are never read by the
  programs of the run.

## Plan

1. Proofs: `CallsReachOverrider` of `Classes`, the
   common symbols and the bindings of `LI_link`, the locks and buffers of
   `FileIO`.
2. Abstract specifications: the sound queue as one sequence per channel, the
   editor as a text with a cursor, a file as a sequence of items, and the
   refinements.
3. Arrays with their bounds and records in `Expressions`; GOSUB and ON in
   `Frontend` with the registers they save; constructors in `Classes`.
4. The collections' enumerators, the collector of `tools/gctest`, pools.
5. The IDE's event loop (`nextEvent`) with its static state.
