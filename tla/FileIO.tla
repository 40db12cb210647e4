------------------------------- MODULE FileIO -------------------------------
(***************************************************************************)
(* Files and the console as a BASIC program uses them: the statements      *)
(* OPEN, CLOSE, PRINT #, WRITE #, INPUT #, LINE INPUT #, INPUT and the     *)
(* function EOF, which the compiler turns into calls of aio.c, with the    *)
(* conversions of numbers to text and back (astr.c).                       *)
(*                                                                         *)
(* Characters are their ASCII codes.  The program is not known in advance: *)
(* every step executes another statement.  A run-time error is handled by  *)
(* RESUME NEXT: the statement ends, or goes on where the code goes on.     *)
(* AmigaDOS (files, locks, Read and Write) is external.                    *)
(***************************************************************************)
EXTENDS Integers, Sequences, SequencesExt, FiniteSets, TLC

CONSTANTS
  Names,          (* names of files                                         *)
  AIO_MAX_FILES,  (* file numbers are below it                              *)
  MAX_INPUT_BUF,  (* characters read at a time                              *)
  MAX_TOKEN_LEN,  (* characters of a token that are kept                    *)
  MAX_LINE_LEN,   (* the same of a line                                     *)
  Bits,           (* the width of each numeric type                         *)
  Statements,     (* WRITE # and PRINT # in programs: [how, items, end]     *)
  Typed,          (* what the user types: [line, ty, v]                     *)
  Outputs,        (* where the output of programs goes: console, window     *)
  MaxWrites,      (* bound: PRINT # and WRITE # statements                  *)
  MaxReads        (* bound: statements that read and calls of EOF           *)

ASSUME FileIOAssumption ==
  /\ AIO_MAX_FILES \in Nat \ {0} /\ MAX_INPUT_BUF \in Nat \ {0}
  /\ MAX_TOKEN_LEN \in Nat \ {0} /\ MAX_LINE_LEN \in Nat \ {0}
  /\ Outputs \subseteq {"console", "window"}

VARIABLES
  disk,    (* the files: their characters, or Missing                       *)
  lost,    (* locks of handles that are forgotten                           *)
  g_fis,   (* what is known of each file number; 0 is the keyboard          *)
  g_cur_ot, (* where the output goes                                        *)
  last,    (* what the last statement has read, and its error               *)
  text,    (* the statements that wrote a file, or Spoiled                  *)
  used,    (* how each file number has been read: [how, count]              *)
  writes, reads   (* statements so far                                      *)
vars == <<disk, lost, g_fis, g_cur_ot, last, text, used, writes, reads>>

With(v, Op(_)) == CHOOSE r \in {Op(x) : x \in {v}} : TRUE

(* A C loop: Step is taken while Test holds, `n' bounds its turns.         *)
While(Test(_), Step(_), s, n) ==
  FoldLeft(LAMBDA acc, i : With(acc, LAMBDA x : IF Test(x) THEN Step(x) ELSE x),
           s, [i \in 1..n |-> i])

Tab == 9  NewLine == 10  Return == 13  Space == 32  Quote == 34  Comma == 44
Minus == 45  Plus == 43  Zero == 48  Ampersand == 38
_is_whitespace(c) == c \in {Space, Tab}

Missing == <<-1>>
Spoiled == << [how |-> "spoiled", items |-> <<>>, end |-> FALSE] >>
Keyboard == "*"
Closed == [file |-> "", lock |-> "", at |-> 0, ahead |-> <<>>, eof |-> FALSE,
           getch_done |-> FALSE, ch |-> 0, new |-> FALSE]
Opened(name, lock) == [Closed EXCEPT !.file = name, !.lock = lock]
Unused == [how |-> "none", count |-> 0]
Mixed  == [how |-> "mixed", count |-> 0]
Nothing == [op |-> "", fno |-> 0, ty |-> "", v |-> <<>>, count |-> 0, err |-> ""]
-----------------------------------------------------------------------------
(* Conversions.                                                            *)
Wrap(v, ty) ==
  LET m == 2^Bits[ty]
      u == v % m
  IN IF ty \in {"ubyte", "uinteger", "ulong"} \/ u < m \div 2 THEN u ELSE u - m

(* C's division: the remainder has the sign of the number divided.         *)
Quotient(n, base) == IF n < 0 THEN -((-n) \div base) ELSE n \div base
Remainder(n, base) == n - base * Quotient(n, base)

(* The digits of a number; those of a negative one are no digits.          *)
Digits(num) ==
  LET of[n \in -(2^Bits["long"])..2^Bits["ulong"]] ==
        IF n = 0 THEN <<>> ELSE Append(of[Quotient(n, 10)], Zero + Remainder(n, 10))
  IN of[num]

_astr_itoa_ext(num, leading_space) ==
  LET blank == IF leading_space THEN <<Space>> ELSE <<>>
  IN IF num = 0 THEN blank \o <<Zero>>
     ELSE (IF num < 0 THEN <<Minus>> ELSE blank)
          \o Digits(IF num < 0 THEN Wrap(-num, "long") ELSE num)

_astr_utoa_ext(num, leading_space) ==
  (IF leading_space THEN <<Space>> ELSE <<>>) \o (IF num = 0 THEN <<Zero>> ELSE Digits(num))

DigitOf(c, base) ==
  LET d == IF c >= 97 THEN c - 87 ELSE IF c >= 65 THEN c - 55 ELSE c - Zero
  IN IF (c >= Zero /\ c <= 57) \/ (base = 16 /\ c \in (65..70) \cup (97..102))
     THEN IF d < base THEN d ELSE -1
     ELSE -1

_str2i4_(s, base) ==
  LET signed == s # <<>> /\ Head(s) \in {Minus, Plus}
      digits == IF signed THEN Tail(s) ELSE s
      n == While(LAMBDA x : x.k <= Len(digits) /\ DigitOf(digits[x.k], base) >= 0,
                 LAMBDA x : [v |-> Wrap(x.v * base + DigitOf(digits[x.k], base), "long"),
                             k |-> x.k + 1],
                 [v |-> 0, k |-> 1], Len(digits))
  IN IF signed /\ Head(s) = Minus THEN Wrap(-n.v, "long") ELSE n.v

(* What follows blanks and the prefix of a number, with the number's base. *)
_val_handle_prefix(s) ==
  LET p == SelectInSeq(s, LAMBDA c : ~_is_whitespace(c))
      t == IF p = 0 THEN <<>> ELSE SubSeq(s, p, Len(s))
      base == IF Len(t) < 2 \/ Head(t) # Ampersand THEN 10
              ELSE IF t[2] \in {72, 104} THEN 16 ELSE IF t[2] \in {66, 98} THEN 2 ELSE 8
      skip == IF base = 10 THEN 0 ELSE IF t[2] \in {66, 72, 79, 98, 104, 111} THEN 2 ELSE 1
  IN [base |-> base, digits |-> SubSeq(t, skip + 1, Len(t))]

(* VALINT_, VALUINT_, VALLNG_, VALULNG_                                    *)
VAL(s, ty) == LET p == _val_handle_prefix(s) IN Wrap(_str2i4_(p.digits, p.base), ty)

(* The text a value has in PRINT, and in WRITE.                            *)
Number(item, leading) ==
  IF item.ty \in {"ubyte", "uinteger", "ulong"} THEN _astr_utoa_ext(item.v, leading)
  ELSE _astr_itoa_ext(item.v, leading)
Truth(b) == IF b THEN <<84, 82, 85, 69>> ELSE <<70, 65, 76, 83, 69>>

PUT(item) ==
  CASE item.ty = "string" -> item.v
    [] item.ty = "bool"   -> Truth(item.v)
    [] OTHER              -> Number(item, TRUE)
WRITE(item) ==
  CASE item.ty = "string" -> <<Quote>> \o item.v \o <<Quote>>
    [] item.ty = "bool"   -> Truth(item.v)
    [] OTHER              -> Number(item, FALSE)
-----------------------------------------------------------------------------
(* Reading: `fi' is the state of a file number, `d' the disk.              *)

_buffer(d, fi) ==
  IF fi.ahead # <<>> \/ fi.eof THEN fi
  ELSE LET end == Min({Len(d[fi.file]), fi.at + MAX_INPUT_BUF})
           got == SubSeq(d[fi.file], fi.at + 1, end)
       IN [fi EXCEPT !.ahead = got, !.at = @ + Len(got), !.eof = got = <<>>]

(* The next character becomes fi.ch; at the end fi.ch stays what it was.   *)
_input_getch(d, fi) ==
  With(IF fi.file = Keyboard THEN fi ELSE _buffer(d, fi), LAMBDA b :
    IF b.ahead = <<>> THEN [b EXCEPT !.new = FALSE]
    ELSE [b EXCEPT !.ch = Head(b.ahead), !.ahead = Tail(@), !.new = TRUE])

(* A reader r: the file number's state, whether the end was met, the token *)
(* so far, whether it is quoted, whether the loop is over and whether the  *)
(* delimiter is still to be skipped.                                       *)
Advance(d, r) ==
  With(_input_getch(d, r.fi), LAMBDA fi : [r EXCEPT !.fi = fi, !.eof = @ \/ ~fi.new])

Turns(d, fi) == Len(fi.ahead) + (IF fi.file = Keyboard THEN 0 ELSE Len(d[fi.file])) + 2

_input_skip_whitespace(d, r) ==
  While(LAMBDA x : _is_whitespace(x.fi.ch) /\ ~x.eof, LAMBDA x : Advance(d, x),
        [r EXCEPT !.eof = FALSE], Turns(d, r.fi))

(* Everything up to the next delimiter, and the delimiter.                 *)
DelimiterStep(d, r) ==
  With(Advance(d, r), LAMBDA on :
    IF r.fi.ch \in {Comma, NewLine} THEN [on EXCEPT !.done = TRUE]
    ELSE IF r.fi.ch = Return /\ ~on.eof /\ on.fi.ch = NewLine
    THEN [Advance(d, on) EXCEPT !.done = TRUE]
    ELSE on)
_input_skip_delimiter(d, r) ==
  With(_input_skip_whitespace(d, r), LAMBDA s :
    IF s.eof THEN s
    ELSE While(LAMBDA x : ~x.done /\ ~x.eof, LAMBDA x : DelimiterStep(d, x),
               [s EXCEPT !.done = FALSE], Turns(d, s.fi)))

(* One character of a token.                                               *)
TokenStep(d, r) ==
  LET c == r.fi.ch
      Over(x) == [x EXCEPT !.done = TRUE, !.delimited = TRUE]
      Kept(x) == Advance(d, [x EXCEPT !.token = Append(@, x.fi.ch)])
  IN With(Advance(d, r), LAMBDA on :
       CASE c = NewLine -> Over(on)
         [] c = Return /\ ~on.eof /\ on.fi.ch = NewLine -> Over(Advance(d, on))
         [] c = Return -> Kept(on)
         [] c = Quote /\ r.quoted -> [on EXCEPT !.done = TRUE]
         [] c = Quote /\ r.token = <<>> -> [on EXCEPT !.quoted = TRUE]
         [] c = Comma /\ ~r.quoted -> Over(on)
         [] _is_whitespace(c) /\ ~r.quoted -> IF r.fi.file = Keyboard THEN on ELSE Over(on)
         [] OTHER -> Kept(r))

(* Mutant: every token starts with another character.                      *)
FirstAgain(d, r) == Advance(d, r)

(* The first character is read once for a file number, not once a token.   *)
First(d, r) ==
  IF r.fi.getch_done THEN r
  ELSE With(Advance(d, r), LAMBDA x : [x EXCEPT !.fi.getch_done = TRUE])

(* The token, the state after it and the error.                            *)
_input_next_token(d, fi) ==
  With(First(d, [fi |-> fi, eof |-> FALSE, token |-> <<>>, quoted |-> FALSE,
                 done |-> FALSE, delimited |-> FALSE]), LAMBDA f :
  With(_input_skip_whitespace(d, f), LAMBDA s :
  With(While(LAMBDA x : ~x.done /\ ~x.eof /\ Len(x.token) < MAX_TOKEN_LEN,
             LAMBDA x : TokenStep(d, x), [s EXCEPT !.eof = f.eof], Turns(d, s.fi)), LAMBDA t :
    [token |-> t.token,
     fi    |-> IF t.delimited THEN t.fi ELSE _input_skip_delimiter(d, t).fi,
     err   |-> IF s.eof THEN "out of data" ELSE ""])))

(* The characters of a line.                                               *)
LineStep(d, r) ==
  With(Advance(d, r), LAMBDA on :
    IF on.eof \/ on.fi.ch \in {Return, NewLine} THEN [on EXCEPT !.done = TRUE]
    ELSE [on EXCEPT !.token = Append(@, on.fi.ch)])
ReadLine(d, fi) ==
  While(LAMBDA x : ~x.done /\ Len(x.token) < MAX_LINE_LEN, LAMBDA x : LineStep(d, x),
        [fi |-> fi, eof |-> FALSE, token |-> <<>>, done |-> FALSE], MAX_LINE_LEN)
-----------------------------------------------------------------------------
Init ==
  /\ disk = [n \in Names |-> Missing] /\ lost = [n \in Names |-> {}]
  /\ g_fis = [f \in 0..AIO_MAX_FILES-1 |-> Closed]
  /\ g_cur_ot \in Outputs
  /\ last = Nothing
  /\ text = [n \in Names |-> <<>>]
  /\ used = [f \in 0..AIO_MAX_FILES-1 |-> Unused]
  /\ writes = 0 /\ reads = 0

Numbers == 1..AIO_MAX_FILES
Valid(f) == f < AIO_MAX_FILES /\ g_fis[f] # Closed
Failed(why) == [Nothing EXCEPT !.err = why]
Users(name) == {f \in 1..AIO_MAX_FILES-1 : g_fis[f].file = name}

(* Open fails if the lock it needs is taken or, unless it makes the file,  *)
(* if there is none.  A handle that is forgotten keeps its lock.           *)
Locks(name) == {g_fis[f].lock : f \in Users(name)} \cup lost[name]
DOSOpens(name, mode) ==
  IF mode = "OUTPUT" THEN Locks(name) = {}
  ELSE disk[name] # Missing /\ "exclusive" \notin Locks(name)

(* OPEN name FOR mode AS #f                                                *)
_AIO_OPEN(name, mode, f) ==
  /\ IF f >= AIO_MAX_FILES \/ Valid(f)
     THEN last' = Failed("bad file number") /\ UNCHANGED <<disk, text, g_fis, used>>
     ELSE IF ~DOSOpens(name, mode)
     THEN last' = Failed("bad file name") /\ UNCHANGED <<disk, text, g_fis, used>>
     ELSE LET making == mode = "OUTPUT"
              fi == Opened(name, IF making THEN "exclusive" ELSE "shared")
          IN /\ last' = Nothing
             /\ disk' = IF making THEN [disk EXCEPT ![name] = <<>>] ELSE disk
             /\ text' = IF making THEN [text EXCEPT ![name] = <<>>] ELSE text
             /\ g_fis' = [g_fis EXCEPT ![f] =
                            [fi EXCEPT !.at = IF mode = "APPEND" THEN Len(disk[name]) ELSE 0]]
             /\ used' = [used EXCEPT ![f] = IF mode = "APPEND" THEN Mixed ELSE Unused]
  /\ UNCHANGED <<lost, g_cur_ot, writes, reads>>

(* CLOSE #f, or CLOSE                                                      *)
_AIO_CLOSE(f) ==
  LET closing == IF f = 0 THEN 1..AIO_MAX_FILES-1 ELSE {f}
  IN /\ IF f # 0 /\ ~Valid(f)
        THEN last' = Failed("bad file number") /\ UNCHANGED <<g_fis, used>>
        ELSE /\ last' = Nothing
             /\ g_fis' = [n \in DOMAIN g_fis |-> IF n \in closing THEN Closed ELSE g_fis[n]]
             /\ used' = [n \in DOMAIN used |-> IF n \in closing THEN Unused ELSE used[n]]
     /\ UNCHANGED <<disk, lost, text, g_cur_ot, writes, reads>>

(* Write: the characters go where the file is positioned.  What is read    *)
(* from the file by others who have it open can no longer be foretold.     *)
Put(f, chars, statement) ==
  LET name == g_fis[f].file
      at   == g_fis[f].at
      old  == disk[name]
  IN /\ disk' = [disk EXCEPT ![name] =
                   SubSeq(old, 1, at) \o chars \o SubSeq(old, at + Len(chars) + 1, Len(old))]
     /\ g_fis' = [g_fis EXCEPT ![f].at = at + Len(chars)]
     /\ text' = [text EXCEPT ![name] =
                   IF at = Len(old) /\ @ # Spoiled THEN Append(@, statement) ELSE Spoiled]
     /\ used' = [n \in DOMAIN used |->
                   IF n \in Users(name) THEN Mixed ELSE used[n]]
     /\ last' = Nothing

Joined(parts, separator) ==
  FlattenSeq([k \in DOMAIN parts |-> IF k = 1 THEN parts[k] ELSE separator \o parts[k]])

(* WRITE #f, items                                                         *)
stmtWrite(f, items) ==
  /\ writes < MaxWrites /\ writes' = writes + (IF Valid(f) THEN 1 ELSE 0)
  /\ IF ~Valid(f)
     THEN last' = Failed("bad file number") /\ UNCHANGED <<disk, g_fis, text, used>>
     ELSE Put(f, Joined([k \in DOMAIN items |-> WRITE(items[k])], <<Comma>>) \o <<NewLine>>,
              [how |-> "write", items |-> items, end |-> TRUE])
  /\ UNCHANGED <<lost, g_cur_ot, reads>>

(* PRINT #f, items: with commas between, and at the end or not.            *)
stmtPrint(f, items, how, end) ==
  /\ writes < MaxWrites /\ writes' = writes + (IF Valid(f) THEN 1 ELSE 0)
  /\ IF ~Valid(f)
     THEN last' = Failed("bad file number") /\ UNCHANGED <<disk, g_fis, text, used>>
     ELSE LET gap == IF how = "print," THEN <<Tab>> ELSE <<>>
          IN Put(f, Joined([k \in DOMAIN items |-> PUT(items[k])], gap)
                    \o (IF end THEN <<NewLine>> ELSE gap),
                 [how |-> how, items |-> items, end |-> end])
  /\ UNCHANGED <<lost, g_cur_ot, reads>>

(* Reading in one way only is what the properties tell apart.              *)
Counted(f, how) ==
  used' = [used EXCEPT ![f] = IF @.how \in {"none", how} THEN [how |-> how, count |-> @.count + 1]
                              ELSE Mixed]

Value(token, ty) == IF ty = "string" THEN token ELSE VAL(token, ty)

(* INPUT #f, a variable of type ty                                         *)
stmtInput(f, ty) ==
  /\ reads < MaxReads /\ reads' = reads + (IF Valid(f) THEN 1 ELSE 0)
  /\ IF ~Valid(f)
     THEN last' = Failed("bad file number") /\ UNCHANGED <<g_fis, used>>
     ELSE \E r \in {_input_next_token(disk, g_fis[f])} :
            /\ g_fis' = [g_fis EXCEPT ![f] = r.fi]
            /\ Counted(f, "items")
            /\ last' = [op |-> "INPUT", fno |-> f, ty |-> ty, v |-> Value(r.token, ty),
                        count |-> used[f].count, err |-> r.err]
  /\ UNCHANGED <<disk, lost, text, g_cur_ot, writes>>

(* LINE INPUT #f, a variable                                               *)
_AIO_LINE_INPUT(f) ==
  /\ reads < MaxReads /\ reads' = reads + (IF Valid(f) THEN 1 ELSE 0)
  /\ IF ~Valid(f)
     THEN last' = Failed("bad file number") /\ UNCHANGED <<g_fis, used>>
     ELSE \E r \in {ReadLine(disk, g_fis[f])} :
            /\ g_fis' = [g_fis EXCEPT ![f] = r.fi]
            /\ Counted(f, "lines")
            /\ last' = [op |-> "LINE INPUT", fno |-> f, ty |-> "string", v |-> r.token,
                        count |-> used[f].count, err |-> ""]
  /\ UNCHANGED <<disk, lost, text, g_cur_ot, writes>>

(* Mutant: EOF only tells whether a read has met the end.                  *)
EOF_Unread(f) ==
  /\ reads < MaxReads /\ reads' = reads + 1 /\ Valid(f)
  /\ last' = [op |-> "EOF", fno |-> f, ty |-> "bool", v |-> g_fis[f].eof,
              count |-> used[f].count, err |-> ""]
  /\ UNCHANGED <<disk, g_fis, lost, text, used, g_cur_ot, writes>>

(* EOF(f) fills the buffer if it is empty.                                 *)
EOF_(f) ==
  /\ reads < MaxReads /\ reads' = reads + (IF Valid(f) THEN 1 ELSE 0)
  /\ IF ~Valid(f)
     THEN last' = Failed("bad file number") /\ UNCHANGED g_fis
     ELSE \E b \in {_buffer(disk, g_fis[f])} :
            /\ g_fis' = [g_fis EXCEPT ![f] = b]
            /\ last' = [op |-> "EOF", fno |-> f, ty |-> "bool", v |-> b.ahead = <<>>,
                        count |-> used[f].count, err |-> ""]
  /\ UNCHANGED <<disk, lost, text, used, g_cur_ot, writes>>

(* A line is typed.  Without a window, _awindow_gets calls _aio_init,      *)
(* which forgets all file numbers, the keyboard's too.                     *)
Forgotten == [f \in DOMAIN g_fis |-> Closed]
_awindow_gets(fi, line) ==
  IF g_cur_ot = "console" THEN Forgotten
  ELSE [g_fis EXCEPT ![0] = [fi EXCEPT !.ahead = line, !.eof = FALSE]]

(* INPUT a variable                                                        *)
_AIO_CONSOLE_INPUT(typed) ==
  /\ reads < MaxReads /\ reads' = reads + 1
  /\ \E fis \in {_awindow_gets(IF g_fis[0] = Closed THEN Opened(Keyboard, "") ELSE g_fis[0],
                               typed.line)} :
       IF fis[0] = Closed
       THEN /\ last' = [Failed("bad file number") EXCEPT !.op = "CONSOLE", !.ty = typed.ty]
            /\ g_fis' = fis
       ELSE \E r \in {_input_next_token(disk, fis[0])} :
              /\ g_fis' = [fis EXCEPT ![0] = r.fi]
              /\ last' = [Nothing EXCEPT !.op = "CONSOLE", !.ty = typed.ty,
                            !.v = [typed |-> typed.v, read |-> Value(r.token, typed.ty)]]
  /\ IF g_cur_ot = "console"
     THEN used' = [f \in DOMAIN used |-> Unused] /\ lost' = [n \in Names |-> Locks(n)]
     ELSE UNCHANGED <<used, lost>>
  /\ UNCHANGED <<disk, text, g_cur_ot, writes>>

(* The program ends and is started again: _aio_shutdown, _aio_init.        *)
_aio_shutdown ==
  /\ g_fis' = Forgotten
  /\ used' = [f \in DOMAIN used |-> Unused]
  /\ last' = Nothing
  /\ UNCHANGED <<disk, lost, text, g_cur_ot, writes, reads>>

Writes == {s \in Statements : s.how = "write"}
Readable == {i.ty : i \in UNION {ToSet(s.items) : s \in Statements}} \ {"bool"}

Next ==
  \/ \E n \in Names, m \in {"INPUT", "OUTPUT", "APPEND"}, f \in Numbers : _AIO_OPEN(n, m, f)
  \/ \E f \in Numbers \cup {0} : _AIO_CLOSE(f)
  \/ \E f \in Numbers, s \in Writes : stmtWrite(f, s.items)
  \/ \E f \in Numbers, s \in Statements \ Writes : stmtPrint(f, s.items, s.how, s.end)
  \/ \E f \in Numbers, ty \in Readable : stmtInput(f, ty)
  \/ \E f \in Numbers : _AIO_LINE_INPUT(f)
  \/ \E f \in Numbers : EOF_(f)
  \/ \E t \in Typed : _AIO_CONSOLE_INPUT(t)
  \/ _aio_shutdown

Spec == Init /\ [][Next]_vars
-----------------------------------------------------------------------------
(* What a program may rely on.                                             *)

(* A value that INPUT # reads as it was written: no number whose negation  *)
(* overflows; in quotes no quotes or ends of lines, and without quotes a   *)
(* word.                                                                   *)
Lossless(item, how) ==
  LET none(chars) == \A k \in DOMAIN item.v : item.v[k] \notin chars
  IN CASE item.ty = "string" /\ how = "write" ->
            Len(item.v) <= MAX_TOKEN_LEN /\ none({Quote, NewLine, Return})
       [] item.ty = "string" ->
            /\ Len(item.v) \in 1..MAX_TOKEN_LEN-1
            /\ none({Quote, NewLine, Return, Space, Tab, Comma})
       [] item.ty = "bool" -> MAX_TOKEN_LEN > 5
       [] OTHER -> item.v # -(2^(Bits["long"] - 1)) /\ MAX_TOKEN_LEN > 3
Kept(statement) ==
  /\ statement.how \in {"write", "print,"} /\ statement.end
  /\ \A k \in DOMAIN statement.items : Lossless(statement.items[k], statement.how)

(* The values in a file up to the first statement that loses some.         *)
Values(name) ==
  LET bad == SelectInSeq(text[name], LAMBDA s : ~Kept(s))
      good == IF bad = 0 THEN text[name] ELSE SubSeq(text[name], 1, bad - 1)
  IN FlattenSeq([k \in DOMAIN good |-> good[k].items])

Lines(chars) ==
  LET ends == {k \in DOMAIN chars : chars[k] \in {NewLine, Return}}
      sorted == SetToSortSeq(ends \cup (IF chars # <<>> /\ Len(chars) \notin ends
                                        THEN {Len(chars) + 1} ELSE {}), <)
  IN [k \in DOMAIN sorted |->
        SubSeq(chars, (IF k = 1 THEN 0 ELSE sorted[k - 1]) + 1, sorted[k] - 1)]
Short(lines) == \A k \in DOMAIN lines : Len(lines[k]) < MAX_LINE_LEN

(* A file number stands for a file; what it has read ahead is the part of  *)
(* the file before its position, and fits the buffer.                      *)
TypeOK ==
  /\ \A f \in 1..AIO_MAX_FILES-1 :
        LET fi == g_fis[f]
        IN fi # Closed =>
             /\ fi.file \in Names /\ disk[fi.file] # Missing /\ fi.at <= Len(disk[fi.file])
             /\ Len(fi.ahead) <= MAX_INPUT_BUF
             /\ used[f].how # "mixed" =>
                  fi.ahead = SubSeq(disk[fi.file], fi.at - Len(fi.ahead) + 1, fi.at)
  /\ writes \in 0..MaxWrites /\ reads \in 0..MaxReads

(* The k-th INPUT # from a file yields the k-th value that PRINT # or      *)
(* WRITE # put there, in however many statements and runs of the program   *)
(* that was, and wherever the reads fill the buffer (aio.c:                *)
(* _input_next_token), provided that the file number is used for INPUT #   *)
(* and EOF only and the file is not written meanwhile.                     *)
ItemsReadBack ==
  last.op = "INPUT" /\ used[last.fno].how = "items" =>
    LET values == Values(g_fis[last.fno].file)
        k == last.count + 1
    IN k <= Len(values) /\ values[k].ty = last.ty => last.v = values[k].v /\ last.err = ""

(* The k-th LINE INPUT # yields the k-th line of the file (aio.c:          *)
(* _AIO_LINE_INPUT), if no line is longer than the buffer for it.          *)
LinesReadBack ==
  last.op = "LINE INPUT" /\ used[last.fno].how = "lines" =>
    LET lines == Lines(disk[g_fis[last.fno].file])
        k == last.count + 1
    IN Short(lines) /\ k <= Len(lines) => last.v = lines[k]

(* What was written is what is read, item by item or line by line.         *)
ReadBack == TypeOK /\ ItemsReadBack /\ LinesReadBack

(* EOF is TRUE exactly when everything has been read, although INPUT # is  *)
(* one character ahead and LINE INPUT # is not (aio.c: EOF_).              *)
EOFTellsEnd ==
  last.op = "EOF" =>
    LET use   == used[last.fno]
        name  == g_fis[last.fno].file
        lines == Lines(disk[name])
    IN /\ use.how = "none" => last.v = (g_fis[last.fno].at >= Len(disk[name])
                                        /\ g_fis[last.fno].ahead = <<>>)
       /\ use.how = "items" /\ (\A k \in DOMAIN text[name] : Kept(text[name][k])) =>
            last.v = (use.count >= Len(Values(name)))
       /\ use.how = "lines" /\ Short(lines) => last.v = (use.count >= Len(lines))
=============================================================================
