------------------------------- MODULE Editor -------------------------------
(***************************************************************************)
(* The editor of the IDE, ide.c: the list of lines with their indentation, *)
(* folds and numbers, the buffer the cursor's line is edited in, the file, *)
(* and the rows of the screen.  A key is a call of _editor_event_cb: what  *)
(* the key does, then _scroll and _repaint.                                *)
(*                                                                         *)
(* A character is a blank or stands for a word of one column; words that   *)
(* touch are one identifier.  Left out: horizontal scrolling, marked       *)
(* blocks, and comments and strings, which have no words.                  *)
(***************************************************************************)
EXTENDS Integers, Sequences, SequencesExt

CONSTANTS
  Char,                      (* what a line is made of                      *)
  Alphabet,                  (* what is typed                               *)
  Files,                     (* the files on disk: sequences of rows        *)
  Clipboards,                (* what is pasted: characters and "NL"         *)
  IndentSpaces, Margin, Height,   (* INDENT_SPACES, SCROLL_MARGIN, the rows of the window *)
  MaxLines, MaxColumns, MaxKeys   (* bounds of the exploration              *)

ASSUME EditorAssumption ==
  /\ {IndentSpaces, Margin, Height, MaxLines, MaxColumns, MaxKeys} \subseteq Nat \ {0}
  /\ Margin < Height
  /\ Alphabet \cup {" ", "NUL"} \subseteq Char
  /\ Clipboards \subseteq Seq(Char \cup {"NL"})
  /\ Files \subseteq Seq(Seq(Char \ {"NUL"})) \ {<<>>}

VARIABLES
  ed,      (* IDE_instance                                                  *)
  disk,    (* the rows of the source file                                   *)
  screen,  (* what each row of the window shows                             *)
  open,    (* the editor has not been left                                  *)
  keys     (* keys pressed so far                                           *)
vars == <<ed, disk, screen, open, keys>>

Blank == " "
Nul == "NUL"
With(v, Op(_)) == CHOOSE r \in {Op(x) : x \in {v}} : TRUE
Larger(a, b) == IF a > b THEN a ELSE b
Smaller(a, b) == IF a < b THEN a ELSE b
-----------------------------------------------------------------------------
(* _buf2line: the words of a line move a little machine, and a colon or    *)
(* the end of the line ends a statement.                                   *)
Words(text) ==
  LET word(i) == i \in DOMAIN text /\ text[i] \notin {Blank, ":"}
      item(i) == CASE text[i] = ":" -> <<":">>
                   [] word(i) /\ ~word(i - 1) -> <<IF word(i + 1) THEN "id" ELSE text[i]>>
                   [] OTHER -> <<>>
  IN FlattenSeq([i \in DOMAIN text |-> item(i)])

Procs == {"SUB", "FUNCTION", "CONSTRUCTOR"}
Loops == {"FOR", "DO", "WHILE"}
StartStatement(m, w) ==
  CASE w \in {"IF", "ELSEIF", "ELSE", "SELECT", "CASE"} -> [m EXCEPT !.state = w]
    [] w \in {"END", "ENDIF"}           -> [m EXCEPT !.state = "END"]
    [] w \in Procs                      -> [m EXCEPT !.state = "SUB", !.fs = TRUE]
    [] w \in Loops \cup {"TYPE", "CLASS"} -> [m EXCEPT !.state = "other", !.post = @ + 1]
    [] w \in {"NEXT", "LOOP", "WEND"}   ->
         IF m.post > 0 THEN [m EXCEPT !.state = "other", !.post = @ - 1]
                       ELSE [m EXCEPT !.state = "other", !.pre = @ - 1]
    [] OTHER -> [m EXCEPT !.state = "other"]
EndStatement(m) ==
  CASE m.state = "THEN" /\ m.last = "THEN"       -> [m EXCEPT !.post = @ + 1]
    [] m.state = "ELSEIFTHEN" /\ m.last = "THEN" -> [m EXCEPT !.pre = @ - 1, !.post = @ + 1]
    [] m.state = "ELSE" /\ m.last = "ELSE"       -> [m EXCEPT !.pre = @ - 1, !.post = @ + 1]
    [] m.state \in {"SUB", "SELECT"}             -> [m EXCEPT !.post = @ + 1]
    [] m.state = "END"                           -> [m EXCEPT !.pre = @ - 1]
    [] m.state = "CASE"                          -> [m EXCEPT !.pre = @ - 1, !.post = @ + 1]
    [] OTHER -> m
Word(m, w) ==
  CASE w = ":" -> [EndStatement(m) EXCEPT !.state = "START", !.last = ""]
    [] w # ":" /\ m.state = "START" -> [StartStatement(m, w) EXCEPT !.last = w]
    [] w = "THEN" /\ m.state \in {"IF", "ELSEIF"} ->
         [m EXCEPT !.state = IF @ = "IF" THEN "THEN" ELSE "ELSEIFTHEN", !.last = w]
    [] w \in Procs /\ m.state = "END" -> [m EXCEPT !.fe = TRUE, !.last = w]
    [] OTHER -> [m EXCEPT !.last = w]
Scanned(text) ==
  EndStatement(FoldLeft(LAMBDA m, w : With(m, LAMBDA n : Word(n, w)),
                        [state |-> "START", last |-> "", pre |-> 0, post |-> 0, fs |-> FALSE, fe |-> FALSE],
                        Words(text)))

(* The text in a buffer: to the first NUL, without the leading blanks.     *)
TextIn(buf) ==
  LET ends  == {i \in DOMAIN buf : buf[i] = Nul}
      upto  == IF ends = {} THEN Len(buf) ELSE (CHOOSE i \in ends : \A j \in ends : i <= j) - 1
      solid == {i \in 1..upto : buf[i] # Blank}
      from  == IF solid = {} THEN upto + 1 ELSE CHOOSE i \in solid : \A j \in solid : i <= j
  IN SubSeq(buf, from, upto)

Line(text, m) ==
  [text |-> text, indent |-> 0, pre |-> m.pre, post |-> m.post, folded |-> FALSE, fs |-> m.fs, fe |-> m.fe,
   a |-> 0, v |-> 0, bp |-> FALSE, up2date |-> FALSE]
buf2line(buf) == With(TextIn(buf), LAMBDA text : Line(text, Scanned(text)))
-----------------------------------------------------------------------------
(* e: the state of the editor.  e.cur: the place of cursor_line, e.top:    *)
(* that of scrolloff_line or 0, e.buf: the buffer up to buf_len.           *)
Cur(e) == e.lines[e.cur]
Width(l) == Len(l.text) + l.indent * IndentSpaces
RowLength(e) == IF e.editing THEN Len(e.buf) ELSE Width(Cur(e))
Cursor(e, n) == [e EXCEPT !.cur = n, !.al = e.lines[n].a, !.vl = e.lines[n].v]

InvalidateAll(e) ==
  [e EXCEPT !.lines = [n \in DOMAIN @ |-> [@[n] EXCEPT !.up2date = FALSE]], !.repaint_all = TRUE]

IndentOf(lines, n) ==
  IF n = 1 THEN 0 ELSE Larger(0, lines[n - 1].indent + lines[n - 1].post + lines[n].pre)
indentLine(lines, n) == [lines EXCEPT ![n].indent = IndentOf(lines, n)]

indentSuccLines(e, p) ==
  With(FoldLeft(LAMBDA ls, n : With(ls, LAMBDA lines :
                  LET counts == lines[n].fs \/ ~lines[n].folded IN
                  [indentLine(lines, n) EXCEPT ![n].a = lines[n - 1].a + 1,
                                               ![n].v = lines[n - 1].v + (IF counts THEN 1 ELSE 0)]),
                e.lines, [i \in 1..(Len(e.lines) - p) |-> p + i]),
       LAMBDA lines :
         InvalidateAll([e EXCEPT !.lines = lines, !.num_lines = lines[Len(lines)].a + 1,
                                 !.num_vlines = lines[Len(lines)].v + 1]))

(* Mutant: asks only whether the line itself moved.                        *)
CommitBufAlone(e) ==
  With(buf2line(e.buf), LAMBDA l :
    With(indentLine([e.lines EXCEPT ![e.cur] = [l EXCEPT !.a = Cur(e).a, !.v = Cur(e).v]], e.cur), LAMBDA lines :
      LET f == [e EXCEPT !.lines = lines, !.editing = FALSE, !.top = 0] IN
      IF lines[e.cur].indent = Cur(e).indent THEN f ELSE indentSuccLines(f, e.cur)))
commitBuf(e) ==
  With(buf2line(e.buf), LAMBDA l :
    With(indentLine([e.lines EXCEPT ![e.cur] = [l EXCEPT !.a = Cur(e).a, !.v = Cur(e).v]], e.cur), LAMBDA lines :
      LET f == [e EXCEPT !.lines = lines, !.editing = FALSE, !.top = 0] IN
      IF lines[e.cur].indent = Cur(e).indent /\ l.post = Cur(e).post THEN f ELSE indentSuccLines(f, e.cur)))
Committed(e) == IF e.editing THEN commitBuf(e) ELSE e

(* _fold flips the flag of every line from a fold's start to its end.      *)
FoldEnd(lines, n) ==
  LET ends == {i \in (n + 1)..Len(lines) : lines[i].fe} IN
  IF ends = {} THEN Len(lines) ELSE CHOOSE i \in ends : \A j \in ends : i <= j
fold(e, n) ==
  IF ~e.lines[n].fs THEN e
  ELSE With(Committed(e), LAMBDA f :
         indentSuccLines([f EXCEPT !.lines = [i \in DOMAIN @ |->
                            IF n <= i /\ i <= FoldEnd(@, n) THEN [@[i] EXCEPT !.folded = ~f.lines[i].folded] ELSE @[i]]], n))
FoldStart(lines, n) ==                  (* 0: there is none                 *)
  LET starts == {i \in 1..n : lines[i].fs} IN
  IF starts = {} THEN 0 ELSE CHOOSE i \in starts : \A j \in starts : j <= i
unfoldLine(e, n) ==
  IF e.lines[n].folded /\ FoldStart(e.lines, n) # 0 THEN fold(e, FoldStart(e.lines, n)) ELSE e

Blanks(n) == [i \in 1..n |-> Blank]
line2buf(e, n) ==
  With(IF e.lines[n].folded THEN fold(e, n) ELSE e, LAMBDA f :
    [f EXCEPT !.buf = Blanks(f.lines[n].indent * IndentSpaces) \o f.lines[n].text,
              !.editing = TRUE, !.changed = TRUE])
Editing(e) == IF e.editing THEN e ELSE line2buf(e, e.cur)

(* Mutant: the change is not noted.                                       *)
DeleteLineUnnoted(e, n) ==
  LET rest == RemoveAt(e.lines, n) IN
  [e EXCEPT !.lines = IF n = 1 THEN [rest EXCEPT ![1].a = 0, ![1].v = 0] ELSE rest, !.top = 0]
deleteLine(e, n) ==
  LET rest == RemoveAt(e.lines, n) IN
  [e EXCEPT !.lines = IF n = 1 THEN [rest EXCEPT ![1].a = 0, ![1].v = 0] ELSE rest, !.top = 0, !.changed = TRUE]
-----------------------------------------------------------------------------
(* What the keys do.                                                       *)
LastFolded(lines, n) ==                 (* to the end of what is folded     *)
  LET ends == {i \in n..Len(lines) : (i = Len(lines) \/ ~lines[i + 1].folded) /\ \A j \in n..i : lines[j].folded} IN
  IF ends = {} THEN n ELSE CHOOSE i \in ends : TRUE
Opened(e, text) ==                      (* a line of its own behind the cursor's *)
  With(indentSuccLines([e EXCEPT !.lines = InsertAt(@, e.cur + 1, buf2line(text)), !.buf = text], e.cur), LAMBDA f :
    [Cursor(f, e.cur + 1) EXCEPT !.col = 0, !.num_lines = @ + 1])
(* Mutant: the rest of the row starts one character late.                  *)
EnterKeyLosing(e) ==
  IF e.col < RowLength(e) + (IF Cur(e).folded THEN 1 ELSE 0)
  THEN With(Editing(e), LAMBDA f :
         With(commitBuf([f EXCEPT !.buf = SubSeq(@, 1, e.col)]), LAMBDA g :
           Opened(g, SubSeq(f.buf, e.col + 2, Len(f.buf)))))
  ELSE With(Committed(e), LAMBDA f : Opened([f EXCEPT !.cur = LastFolded(f.lines, f.cur)], <<>>))
enterKey(e) ==
  IF e.col < RowLength(e) + (IF Cur(e).folded THEN 1 ELSE 0)
  THEN With(Editing(e), LAMBDA f :
         With(commitBuf([f EXCEPT !.buf = SubSeq(@, 1, e.col)]), LAMBDA g :
           Opened(g, SubSeq(f.buf, e.col + 1, Len(f.buf)))))
  ELSE With(Committed(e), LAMBDA f : Opened([f EXCEPT !.cur = LastFolded(f.lines, f.cur)], <<>>))

(* The end of a buffer of length 0 is 65535 away: e.wild.                  *)
Shortened(e, at) ==
  IF e.buf = <<>> THEN [e EXCEPT !.wild = TRUE]
  ELSE [e EXCEPT !.buf = IF at \in DOMAIN @ THEN RemoveAt(@, at) ELSE SubSeq(@, 1, Len(@) - 1),
                 !.lines[e.cur].up2date = FALSE]
JoinWithPrevious(e) ==
  With(unfoldLine(e, e.cur - 1), LAMBDA f :
    With(line2buf(unfoldLine(f, e.cur), e.cur - 1), LAMBDA g :
      With([Cursor(g, e.cur - 1) EXCEPT !.col = Len(g.buf), !.buf = @ \o <<Blank>> \o g.lines[e.cur].text], LAMBDA h :
        With(commitBuf(deleteLine(h, e.cur)), LAMBDA k :
          With(indentSuccLines(k, k.cur), LAMBDA m : [m EXCEPT !.num_lines = @ - 1])))))
backspaceKey(e) ==
  CASE e.col = 0 /\ e.cur = 1 -> e
    [] e.col = 0 /\ e.cur > 1 -> JoinWithPrevious(Committed(e))
    [] e.col > 0 -> With(Shortened(Editing(e), e.col), LAMBDA f : [f EXCEPT !.col = @ - 1])

JoinWithNext(e) ==
  With(unfoldLine(unfoldLine(e, e.cur), e.cur + 1), LAMBDA f :
    With(Editing(f), LAMBDA g :
      With(commitBuf(deleteLine([g EXCEPT !.buf = @ \o g.lines[e.cur + 1].text], e.cur + 1)), LAMBDA h :
        indentSuccLines(h, h.cur))))
deleteKey(e) ==
  CASE e.col = RowLength(e) /\ e.cur = Len(e.lines) -> e
    [] e.col = RowLength(e) /\ e.cur < Len(e.lines) -> JoinWithNext(e)
    [] e.col # RowLength(e) -> Shortened(Editing(e), e.col + 1)

(* The line behind takes the cursor, or the one before the last.           *)
killLine(e) ==
  IF Len(e.lines) = 1 THEN e
  ELSE LET n  == e.cur
           nl == IF n < Len(e.lines) THEN n + 1 ELSE n - 1
           k  == IF n < Len(e.lines) THEN n ELSE n - 1 IN
       With(unfoldLine(Committed(e), n), LAMBDA f :
         With(deleteLine([f EXCEPT !.col = Smaller(@, Len(f.lines[nl].text))], n), LAMBDA g :
           With(indentSuccLines(g, Larger(1, k - 1)), LAMBDA h : unfoldLine(Cursor(h, k), k))))

(* NUL stands for all characters that are not printable, which are refused.*)
insertChar(e, c) ==
  IF c = Nul THEN e
  ELSE With(Editing(e), LAMBDA f :
         LET n == Len(f.buf)
             after == [f EXCEPT !.buf = IF f.col <= n THEN InsertAt(@, f.col + 1, c) ELSE Append(@, Nul),
                                !.lines[f.cur].up2date = FALSE] IN
         [after EXCEPT !.col = IF @ < n + 1 THEN @ + 1 ELSE @])

ToLine(e, n) == [Cursor(e, n) EXCEPT !.col = Smaller(@, Width(e.lines[n]))]
LineAbove(lines, n) == IF lines[n - 1].folded THEN Larger(1, FoldStart(lines, n - 1)) ELSE n - 1
LineBelow(lines, n) == IF lines[n].folded THEN FoldEnd(lines, n) + 1 ELSE n + 1
cursorUp(e) ==
  IF e.cur = 1 THEN e ELSE With(Committed(e), LAMBDA f : ToLine(f, LineAbove(f.lines, f.cur)))
cursorDown(e) ==
  With(Committed(e), LAMBDA f :
    IF LineBelow(f.lines, f.cur) > Len(f.lines) THEN f ELSE ToLine(f, LineBelow(f.lines, f.cur)))
cursorLeft(e)  == [e EXCEPT !.col = Larger(0, @ - 1)]
cursorRight(e) == IF e.col < RowLength(e) + (IF Cur(e).folded THEN 1 ELSE 0) THEN [e EXCEPT !.col = @ + 1] ELSE e
Repeated(e, Move(_)) == FoldLeft(LAMBDA f, n : With(f, LAMBDA g : Move(g)), e, [n \in 1..Height |-> n])
pageUp(e)   == Repeated(e, cursorUp)
pageDown(e) == Repeated(e, cursorDown)
gotoBOF(e)  == With(Committed(e), LAMBDA f : [f EXCEPT !.cur = 1, !.al = 0, !.vl = 0, !.col = 0])
gotoEOF(e)  == With(Committed(e), LAMBDA f : [Cursor(f, Len(f.lines)) EXCEPT !.col = 0])
gotoBOL(e)  == [e EXCEPT !.col = 0]
gotoEOL(e)  == [e EXCEPT !.col = RowLength(e)]
gotoLine(e, line, col) ==
  With(unfoldLine(Committed(e), line), LAMBDA f : [Cursor(f, line) EXCEPT !.col = col])
toggleBreakPoint(e) == [e EXCEPT !.lines[e.cur].bp = ~@, !.lines[e.cur].up2date = FALSE]

paste(e, clip) ==
  Committed(FoldLeft(LAMBDA f, c : With(f, LAMBDA g : IF c = "NL" THEN enterKey(g) ELSE insertChar(g, c)), e, clip))
-----------------------------------------------------------------------------
(* Files.  _loadSource starts with all procedures folded, _doNew with an   *)
(* empty line.                                                             *)
FoldedFrom(lines) ==
  FoldLeft(LAMBDA acc, l : With(acc, LAMBDA a :
             [folded |-> IF l.fs THEN TRUE ELSE a.folded /\ ~l.fe,
              lines |-> Append(a.lines, [l EXCEPT !.folded = l.fs \/ l.fe \/ a.folded])]),
           [folded |-> FALSE, lines |-> <<>>], lines).lines
Fresh(e, lines) ==
  indentSuccLines([e EXCEPT !.lines = lines, !.cur = 1, !.al = 0, !.vl = 0, !.col = 0, !.top = 0, !.buf = <<>>], 1)
loadSource(e, rows) == Fresh(e, FoldedFrom([n \in DOMAIN rows |-> buf2line(rows[n])]))
doNew(e) == Fresh(e, <<buf2line(<<>>)>>)

Rows(e) == [n \in DOMAIN e.lines |-> Blanks(e.lines[n].indent * IndentSpaces) \o e.lines[n].text]
Saved(e) == [e EXCEPT !.changed = FALSE]
-----------------------------------------------------------------------------
(* _scroll and _repaint.  A row of the screen shows a line or nothing.     *)
NoRow == [shown |-> FALSE]
RowOf(e, n) ==
  IF e.editing /\ e.lines[n].v = e.vl
  THEN [shown |-> TRUE, text |-> e.buf, folded |-> FALSE, bp |-> e.lines[n].bp]
  ELSE [shown |-> TRUE, text |-> Blanks(e.lines[n].indent * IndentSpaces) \o e.lines[n].text,
        folded |-> e.lines[n].folded, bp |-> e.lines[n].bp]

ScrolledUp(rows)   == Append(Tail(rows), NoRow)
ScrolledDown(rows) == <<NoRow>> \o Front(rows)
Stale(e, n) == [e EXCEPT !.lines[n].up2date = FALSE]
scrollForward(s) ==                     (* s: the editor and the screen     *)
  LET e == s.e
      new == Smaller(e.vl - Height + Margin, e.num_vlines - Height + 1)
      moved == [e EXCEPT !.scroll = new]
      below == e.top + Height + 1 IN
  CASE e.vl - e.scroll <= Height - Margin \/ new = e.scroll -> s
    [] e.vl - e.scroll > Height - Margin /\ new = e.scroll + 1 ->
         [e |-> IF e.top # 0 /\ below <= Len(e.lines) THEN Stale(moved, below) ELSE InvalidateAll(moved),
          rows |-> ScrolledUp(s.rows)]
    [] OTHER -> [s EXCEPT !.e = InvalidateAll(moved)]
scrollBack(s, row) ==
  LET e == s.e
      new == IF e.vl > Margin THEN e.vl - Margin ELSE 0
      moved == [e EXCEPT !.scroll = new] IN
  CASE row >= Margin \/ new = e.scroll -> s
    [] row < Margin /\ new = e.scroll - 1 ->
         [e |-> IF e.top > 1 THEN Stale(moved, e.top - 1) ELSE moved, rows |-> ScrolledDown(s.rows)]
    [] OTHER -> [s EXCEPT !.e = InvalidateAll(moved)]
scroll(s) == With(scrollForward(s), LAMBDA t : scrollBack(t, s.e.vl - s.e.scroll))

(* The lines on the screen, from the first: what is folded is skipped.  A  *)
(* first row before the first line shows none.                             *)
FirstFrom(lines, v) ==
  LET at == {i \in DOMAIN lines : lines[i].v >= v} IN IF at = {} THEN 0 ELSE CHOOSE i \in at : \A j \in at : i <= j
Visible(e, top) ==
  LET below[k \in 1..Height] == IF k = 1 THEN top
        ELSE With(below[k - 1], LAMBDA n : IF n \in DOMAIN e.lines THEN LineBelow(e.lines, n) ELSE n)
  IN IF e.scroll < 0 \/ top = 0 THEN <<>> ELSE SelectSeq([k \in 1..Height |-> below[k]], LAMBDA n : n \in DOMAIN e.lines)
repaint(s) ==
  LET e == s.e
      top == IF e.top = 0 \/ e.topRow # e.scroll THEN FirstFrom(e.lines, e.scroll) ELSE e.top IN
  With(Visible(e, top), LAMBDA at :
    [rows |-> [k \in 1..Height |->
                 IF k \in DOMAIN at THEN IF e.lines[at[k]].up2date THEN s.rows[k] ELSE RowOf(e, at[k])
                 ELSE IF e.repaint_all THEN NoRow ELSE s.rows[k]],
     e |-> [e EXCEPT !.top = top, !.topRow = e.scroll, !.repaint_all = FALSE,
                     !.lines = [n \in DOMAIN @ |-> [@[n] EXCEPT !.up2date = e.lines[n].up2date \/ n \in {at[k] : k \in DOMAIN at}]]]])
-----------------------------------------------------------------------------
(* Behaviour.                                                              *)
NewEditor(rows) ==
  loadSource([lines |-> <<>>, cur |-> 1, al |-> 0, vl |-> 0, col |-> 0, num_lines |-> 0, num_vlines |-> 0,
              editing |-> FALSE, buf |-> <<>>, changed |-> FALSE, wild |-> FALSE,
              scroll |-> 0, top |-> 0, topRow |-> 0, repaint_all |-> TRUE], rows)
NoRows == [k \in 1..Height |-> NoRow]
Init ==
  /\ disk \in Files
  /\ \E s \in {repaint(scroll([e |-> NewEditor(disk), rows |-> NoRows]))} : ed = s.e /\ screen = s.rows
  /\ open = TRUE
  /\ keys = 0

(* The callback, with what the key did.                                    *)
Pressable == open /\ ~ed.wild /\ keys < MaxKeys
Shows(e, rows) == \E s \in {IF e.wild THEN [e |-> e, rows |-> rows] ELSE repaint(scroll([e |-> e, rows |-> rows]))} :
                    ed' = s.e /\ screen' = s.rows
Key(e) == Pressable /\ Shows(e, screen) /\ keys' = keys + 1 /\ UNCHANGED <<disk, open>>

Type(c)   == Len(Cur(ed).text) < MaxColumns /\ Len(ed.buf) < MaxColumns + 1 /\ Key(insertChar(ed, c))
Enter     == Len(ed.lines) < MaxLines /\ Key(enterKey(ed))
Backspace == Key(backspaceKey(ed))
Delete    == Key(deleteKey(ed))
Kill      == Key(killLine(ed))
Fold      == Key(fold(ed, ed.cur))
Up        == Key(cursorUp(ed))
Down      == Key(cursorDown(ed))
Left      == Key(cursorLeft(ed))
Right     == Key(cursorRight(ed))
PageUp    == Key(pageUp(ed))
PageDown  == Key(pageDown(ed))
Top       == Key(gotoBOF(ed))
Bottom    == Key(gotoEOF(ed))
Home      == Key(gotoBOL(ed))
End       == Key(gotoEOL(ed))
Breakpoint == Key(toggleBreakPoint(ed))
Paste(clip) == Len(ed.lines) < MaxLines /\ RowLength(ed) < MaxColumns /\ Key(paste(ed, clip))
Resize    == Pressable /\ Shows(InvalidateAll(ed), NoRows) /\ keys' = keys + 1 /\ UNCHANGED <<disk, open>>

(* _ide_save, which may fail to write; _compile, which ends at the first   *)
(* error; and the three that ask whether to save the text they give up.    *)
File(e, rows) == disk' = rows /\ Shows(e, screen) /\ UNCHANGED open
Ask(saves) == saves => Committed(ed).changed
Given(saves) == IF saves THEN Saved(Committed(ed)) ELSE Committed(ed)
FileOf(saves) == IF saves THEN Rows(Committed(ed)) ELSE disk

Save ==
  /\ Pressable /\ keys' = keys + 1
  /\ \E written \in BOOLEAN : File(IF written THEN Saved(Committed(ed)) ELSE Committed(ed), FileOf(written))
Compile ==
  /\ Pressable /\ keys' = keys + 1
  /\ \/ File(Committed(ed), disk)
     \/ \E e \in {Saved(Committed(ed))}, line \in 0..Len(ed.lines) :
          File(IF line = 0 THEN e ELSE gotoLine(e, line, 0), FileOf(TRUE))
New ==                                  (* a text without a file            *)
  /\ Pressable /\ keys' = keys + 1
  /\ \E saves \in BOOLEAN : Ask(saves) /\ File(doNew(Given(saves)), <<>>)
Open ==                                 (* the file again, another, or none *)
  /\ Pressable /\ keys' = keys + 1
  /\ \E saves \in BOOLEAN :
       /\ Ask(saves)
       /\ \/ File(Given(saves), FileOf(saves))
          \/ \E rows \in Files \cup {FileOf(saves)} : rows # <<>> /\ File(loadSource(Given(saves), rows), rows)
Exit ==
  /\ Pressable /\ keys' = keys + 1
  /\ \E saves \in BOOLEAN :
       /\ saves => ed.changed
       /\ ed' = (IF saves THEN Given(saves) ELSE ed) /\ disk' = FileOf(saves)
  /\ open' = FALSE /\ UNCHANGED screen

Next ==
  \/ \E c \in Alphabet : Type(c)
  \/ \E clip \in Clipboards : Paste(clip)
  \/ Enter \/ Backspace \/ Delete \/ Kill \/ Fold \/ Breakpoint \/ Resize
  \/ Up \/ Down \/ Left \/ Right \/ PageUp \/ PageDown \/ Top \/ Bottom \/ Home \/ End
  \/ Save \/ Compile \/ New \/ Open \/ Exit
Spec == Init /\ [][Next]_vars
-----------------------------------------------------------------------------
(* Properties.                                                             *)
Solid(row) == FlattenSeq([i \in DOMAIN row |-> IF row[i] \in {Blank, Nul} THEN <<>> ELSE <<row[i]>>])
SolidRows(rows) == FlattenSeq([n \in DOMAIN rows |-> Solid(rows[n])])
RowText(e, n) == IF e.editing /\ n = e.cur THEN e.buf ELSE Blanks(e.lines[n].indent * IndentSpaces) \o e.lines[n].text
Above(e) == FlattenSeq([n \in 1..(e.cur - 1) |-> Solid(RowText(e, n))])
Below(e) == FlattenSeq([n \in 1..(Len(e.lines) - e.cur) |-> Solid(RowText(e, e.cur + n))])
Before(e) == Above(e) \o Solid(SubSeq(RowText(e, e.cur), 1, Smaller(e.col, Len(RowText(e, e.cur)))))
Behind(e) == Solid(SubSeq(RowText(e, e.cur), e.col + 1, Len(RowText(e, e.cur)))) \o Below(e)

(* A line that ends has no words, like a blank.                            *)
Spaced(clip) == [i \in DOMAIN clip |-> IF clip[i] = "NL" THEN Blank ELSE clip[i]]

(* The cursor is on a line, also after lines were joined or killed.        *)
TypeOK ==
  /\ ed.cur \in DOMAIN ed.lines
  /\ ed.col \in Nat
  /\ ed.top \in 0..Len(ed.lines)

(* The lines are numbered as they stand in the list and the cursor has the *)
(* number of its line, whatever was folded, joined or re-indented on the   *)
(* way (indentSuccLines, commitBuf, killLine).                             *)
LinesNumbered ==
  ~ed.wild => /\ \A n \in DOMAIN ed.lines : ed.lines[n].a = n - 1
              /\ ed.al = ed.cur - 1

(* Behind the first line, every line is indented as the lines before it    *)
(* say, though commitBuf looks further only when the line's own indentation*)
(* changed.                                                                *)
IndentFollows ==
  \A n \in 2..Len(ed.lines) :
    LET p == ed.lines[n - 1]
        due == p.indent + p.post + ed.lines[n].pre IN
    ed.lines[n].indent = IF due > 0 THEN due ELSE 0

(* The list of lines, whatever was done to it.                             *)
Consistent == TypeOK /\ LinesNumbered /\ IndentFollows

(* An editor that does not ask before it gives the text up has every word  *)
(* of it on the disk.                                                      *)
UnchangedMeansSaved ==
  ~ed.changed => SolidRows(disk) = Before(ed) \o Behind(ed)

(* A key changes the text at the cursor and nowhere else, as long as       *)
(* nothing is typed behind the end of a row: _commitBuf takes leading      *)
(* blanks away and leaves the cursor where it was, and what is typed or    *)
(* joined there follows a NUL and is lost.                                 *)
TextChangesAtCursor ==
  [][ed.col <= RowLength(ed) /\ Nul \notin Range(RowText(ed, ed.cur)) =>
     LET left == Before(ed)
         right == Behind(ed)
         text == Before(ed') \o Behind(ed') IN
     \/ text \in {left \o right, Above(ed) \o Below(ed), SolidRows(disk')}
     \/ \E c \in Alphabet : text = left \o Solid(<<c>>) \o right
     \/ \E clip \in Clipboards : text = left \o Solid(Spaced(clip)) \o right
     \/ left # <<>> /\ text = Front(left) \o right
     \/ right # <<>> /\ text = left \o Tail(right)]_vars
=============================================================================
