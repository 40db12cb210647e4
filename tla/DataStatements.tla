--------------------------- MODULE DataStatements ---------------------------
(***************************************************************************)
(* DATA, READ and RESTORE: the frontend turns the literals of the DATA     *)
(* statements into one data fragment, with a label for every line that has *)
(* one (frontend.c), and the run-time library reads it with a pointer that *)
(* knows no types (_brt/data.c).                                           *)
(***************************************************************************)
EXTENDS Integers, Sequences, SequencesExt, FiniteSetsExt

VARIABLES
  obj, labels,     (* what the assembler made of the fragment                *)
  lines,           (* the program: per line a label and the literals of DATA *)
  statements,      (* the READ and RESTORE statements to come                *)
  g_data_ptr,      (* an offset in the data segment                          *)
  running,         (* running, end, out of data, address error               *)
  next,            (* history: the literal whose turn it is                  *)
  got              (* history: what was read, for which literal and variable *)

readVars == <<lines, statements, g_data_ptr, running, next, got>>

None == "none"

(* _dataItemNumeric: a literal without a type hint is as wide as its number  *)
(* needs before the sign is looked at; the characters of a word or a string. *)
LiteralType(item) ==
  CASE item.hint # None -> item.hint
    [] item.hint = None /\ item.kind = "fnum" -> "single"
    [] item.hint = None /\ item.kind = "inum" ->
         IF item.n <= 32767 THEN "integer" ELSE IF item.n <= 65535 THEN "uinteger" ELSE "long"

Constant(item) ==
  IF item.kind \in {"string", "ident"} THEN [ty |-> "string", i |-> 0, ffp |-> <<>>, chars |-> item.chars]
  ELSE [ty |-> LiteralType(item), i |-> IF item.neg THEN - item.n ELSE item.n,
        ffp |-> IF item.kind = "fnum" THEN item.ffp ELSE <<>>, chars |-> <<>>]

LabelNode(l, expt) == [kind |-> "label", label |-> l, expt |-> expt, c |-> 0]
ConstNode(c) == [kind |-> "const", label |-> None, expt |-> FALSE, c |-> c]

(* transDataAddLabel, stmtData.                                              *)
LineNodes(line) ==
  (IF line.label = None THEN <<>> ELSE <<LabelNode(line.label, FALSE)>>)
    \o [k \in DOMAIN line.items |-> ConstNode(Constant(line.items[k]))]

(* The main program's fragment ends in a label and a marker (0xcafebabe).    *)
EndMarker == [ty |-> "ulong", i |-> -889275714, ffp |-> <<>>, chars |-> <<>>]
g_dataFrag(ls) ==
  LET nodes == FlattenSeq([k \in DOMAIN ls |-> LineNodes(ls[k])])
                 \o <<LabelNode("__data__end", TRUE), ConstNode(EndMarker)>>
  IN [kind |-> "data", label |-> "__restore", expt |-> FALSE, ty |-> FALSE, size |-> Len(nodes), init |-> nodes]

-----------------------------------------------------------------------------
(* The run-time library.                                                     *)
Byte(p) == obj.data.mem[p + 1]
Half(p) == Byte(p) * 256 + Byte(p + 1)

(* As if the pointer could be at the end.                                    *)
OutOfDataBehind(p) == p > labels["__data__end"].offset
_check_out_of_data(p) == p >= labels["__data__end"].offset

(* transRead: the function for a variable of a type, and what it reads.      *)
Function(ty) ==
  CASE ty \in {"byte", "ubyte"} -> "_AQB_READ1"
    [] ty \in {"bool", "integer", "uinteger"} -> "_AQB_READ2"
    [] ty \in {"long", "ulong", "single"} -> "_AQB_READ4"
    [] ty = "string" -> "_AQB_READSTR"

Reading(fsym) ==
  /\ running = "running" /\ statements # <<>>
  /\ Head(statements).stmt = "READ" /\ Function(Head(statements).ty) = fsym

(* A word at an odd address is an exception of the processor.                *)
Aligned == g_data_ptr % 2 = 0

Read(value, length) ==
  /\ g_data_ptr' = g_data_ptr + length
  /\ got' = Append(got, [item |-> next, ty |-> Head(statements).ty, value |-> value])
  /\ next' = next + 1
  /\ statements' = Tail(statements)
  /\ UNCHANGED <<obj, labels, lines, running>>

_AQB_READ1 == Reading("_AQB_READ1") /\ ~ _check_out_of_data(g_data_ptr) /\ Read(<<Byte(g_data_ptr + 1)>>, 2)

_AQB_READ2 ==
  Reading("_AQB_READ2") /\ ~ _check_out_of_data(g_data_ptr) /\ Aligned /\ Read(<<Half(g_data_ptr)>>, 2)

_AQB_READ4 ==
  /\ Reading("_AQB_READ4") /\ ~ _check_out_of_data(g_data_ptr) /\ Aligned
  /\ Read(<<Half(g_data_ptr), Half(g_data_ptr + 2)>>, 4)

(* Up to a zero or the end of the data.                                      *)
_AQB_READSTR ==
  /\ Reading("_AQB_READSTR") /\ ~ _check_out_of_data(g_data_ptr)
  /\ LET zeros == {p \in g_data_ptr .. labels["__data__end"].offset - 1 : Byte(p) = 0}
         last == IF zeros = {} THEN labels["__data__end"].offset - 1 ELSE Min(zeros)
         length == IF zeros = {} THEN last - g_data_ptr + 1 ELSE last - g_data_ptr
     IN Read([k \in 1 .. length |-> Byte(g_data_ptr + k - 1)], last - g_data_ptr + 1)

(* ERROR(ERR_OUT_OF_DATA), and no handler.                                   *)
OutOfData ==
  /\ running = "running" /\ statements # <<>> /\ Head(statements).stmt = "READ"
  /\ _check_out_of_data(g_data_ptr)
  /\ running' = "out of data"
  /\ UNCHANGED <<obj, labels, lines, statements, g_data_ptr, next, got>>

AddressError ==
  /\ \E fsym \in {"_AQB_READ2", "_AQB_READ4"} : Reading(fsym)
  /\ ~ _check_out_of_data(g_data_ptr) /\ ~ Aligned
  /\ running' = "address error"
  /\ UNCHANGED <<obj, labels, lines, statements, g_data_ptr, next, got>>

(* stmtRestore: to a line's label, or to the first literal.                  *)
Literals == FlattenSeq([k \in DOMAIN lines |-> lines[k].items])
LiteralsBefore(l) ==
  Len(FlattenSeq([k \in 1 .. (CHOOSE j \in DOMAIN lines : lines[j].label = l) - 1 |-> lines[k].items]))

_AQB_RESTORE ==
  /\ running = "running" /\ statements # <<>> /\ Head(statements).stmt = "RESTORE"
  /\ LET l == Head(statements).label
     IN /\ g_data_ptr' = labels[IF l = None THEN "__restore" ELSE l].offset
        /\ next' = IF l = None THEN 1 ELSE LiteralsBefore(l) + 1
  /\ statements' = Tail(statements)
  /\ UNCHANGED <<obj, labels, lines, running, got>>

ProgramEnds ==
  /\ running = "running" /\ statements = <<>>
  /\ running' = "end"
  /\ UNCHANGED <<obj, labels, lines, statements, g_data_ptr, next, got>>

Run == \/ _AQB_READ1 \/ _AQB_READ2 \/ _AQB_READ4 \/ _AQB_READSTR \/ _AQB_RESTORE
       \/ OutOfData \/ AddressError \/ ProgramEnds

-----------------------------------------------------------------------------
(* The value a variable of a type should get from a literal it has room for. *)
Fits(item, ty) ==
  CASE ty = "string" -> item.kind \in {"string", "ident"}
    [] ty = "single" -> item.kind = "fnum"
    [] ty \in {"byte", "ubyte"} -> item.kind = "inum" /\ LiteralType(item) \in {"integer", "uinteger"} /\ item.n <= 127
    [] ty \in {"bool", "integer", "uinteger"} -> item.kind = "inum" /\ LiteralType(item) \in {"integer", "uinteger"}
    [] ty \in {"long", "ulong"} -> item.kind = "inum" /\ LiteralType(item) \in {"long", "ulong"}

Value(item, ty) ==
  LET n == IF item.neg THEN - item.n ELSE item.n
  IN CASE ty = "string" -> item.chars
       [] ty = "single" -> item.ffp
       [] ty \in {"byte", "ubyte"} -> <<n % 256>>
       [] ty \in {"bool", "integer", "uinteger"} -> <<n % 65536>>
       [] ty \in {"long", "ulong"} -> <<(n \div 65536) % 65536, n % 65536>>

AllFit(k) == \A j \in 1 .. k : got[j].item \in DOMAIN Literals /\ Fits(Literals[got[j].item], got[j].ty)

(* While every variable has the type of the literal whose turn it is, a READ *)
(* gives it that literal, after any RESTORE; it is out of data when there is *)
(* no literal left and not before; and an exception happens only because a   *)
(* string before it has moved the numbers to odd addresses.                  *)
OddString == \E k \in DOMAIN Literals : Literals[k].kind \in {"string", "ident"} /\ Len(Literals[k].chars) % 2 = 0
ReadsGiveLiterals ==
  /\ \A k \in DOMAIN got : AllFit(k - 1) => got[k].item \in DOMAIN Literals
  /\ \A k \in DOMAIN got : AllFit(k) => got[k].value = Value(Literals[got[k].item], got[k].ty)
  /\ AllFit(Len(got)) =>
       /\ running = "out of data" => next > Len(Literals)
       /\ running = "address error" => OddString

(* Whole numbers come to whole-numbered variables that have room for them,   *)
(* however wide the literals and the variables are.                          *)
Holds(ty, item) ==
  /\ item.kind = "inum" /\ ty \in {"ubyte", "integer", "long"}
  /\ CASE ty = "ubyte"   -> ~item.neg /\ item.n <= 255
       [] ty = "integer" -> item.n <= 32767
       [] ty = "long"    -> TRUE
ReadsKeepValues ==
  (\A k \in DOMAIN got : got[k].item \in DOMAIN Literals /\ Holds(got[k].ty, Literals[got[k].item]))
    => \A k \in DOMAIN got : got[k].value = Value(Literals[got[k].item], got[k].ty)
=============================================================================
