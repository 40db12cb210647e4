---------------------------- MODULE EditorProofs ----------------------------
(***************************************************************************)
(* The editor keeps its lines in order, knows whether they are saved, and  *)
(* changes the text only at the cursor, for every alphabet, every set of   *)
(* files and of texts to paste, and every height of the window.            *)
(*                                                                         *)
(* The inductive invariant IInv says that the list of lines is Whole (the  *)
(* lines are numbered and indented as the ones before them say, the cursor *)
(* is on one of them) and OnDisk: unless a change is noted, the file has   *)
(* the words of the lines.  Between its first and its last call a handler  *)
(* leaves only the first lines in order (Listed); indentSuccLines puts the *)
(* rest of them in order.  There is a lemma for every function of ide.c    *)
(* that changes the editor (commitBufOrders, foldKeeps, enterKeyKeeps and  *)
(* so on), each from those of the functions it calls; the loops over the   *)
(* lines, the keys of a page and the characters pasted are folds, taken by *)
(* FoldTheorems.                                                           *)
(*                                                                         *)
(* Each lemma relates the editor before and after: Noted, unless the       *)
(* change is noted the words are the same; Quiet, the words the user sees  *)
(* (Spoken) are the same too; Alike, with the same buffer at the same      *)
(* place.  What a key writes or erases is said of the words before and     *)
(* behind the cursor (Parted, Written, Edited, Erased).                    *)
(*                                                                         *)
(* The lemmas about words (SolidConcat, SolidOfBlanks, SolidTextIn,        *)
(* SolidOfRow, SolidCut) say what _buf2line and the writer of the file may *)
(* take away: blanks and NULs.                                             *)
(***************************************************************************)
EXTENDS Editor, FoldTheorems

-----------------------------------------------------------------------------
(* The types of a line and of the editor.  The text of a line has no NUL:  *)
(* _buf2line stops at it.  A buffer may have one.                          *)
Text  == Seq(Char)
Plain == Seq(Char \ {Nul})
LineT == [text : Plain, indent : Nat, pre : Int, post : Int, folded : BOOLEAN, fs : BOOLEAN, fe : BOOLEAN,
          a : Int, v : Int, bp : BOOLEAN, up2date : BOOLEAN]

(* indentSuccLines goes through the lines behind p one by one.             *)
Indented(lines, n) ==
  [indentLine(lines, n) EXCEPT ![n].a = lines[n - 1].a + 1,
                               ![n].v = lines[n - 1].v + (IF lines[n].fs \/ ~lines[n].folded THEN 1 ELSE 0)]
IndentLoop(ls, p) ==
  FoldLeft(LAMBDA l, n : With(l, LAMBDA lines :
                  LET counts == lines[n].fs \/ ~lines[n].folded IN
                  [indentLine(lines, n) EXCEPT ![n].a = lines[n - 1].a + 1,
                                               ![n].v = lines[n - 1].v + (IF counts THEN 1 ELSE 0)]),
                ls, [i \in 1..(Len(ls) - p) |-> p + i])

LEMMA indentSuccLinesIs ==
  ASSUME NEW e, NEW p
  PROVE  indentSuccLines(e, p) =
           LET lines == IndentLoop(e.lines, p)
           IN InvalidateAll([e EXCEPT !.lines = lines, !.num_lines = lines[Len(lines)].a + 1,
                                      !.num_vlines = lines[Len(lines)].v + 1])
BY DEF indentSuccLines, IndentLoop, With

IndentStep(l, n) ==
  With(l, LAMBDA lines : LET counts == lines[n].fs \/ ~lines[n].folded IN
                  [indentLine(lines, n) EXCEPT ![n].a = lines[n - 1].a + 1,
                                               ![n].v = lines[n - 1].v + (IF counts THEN 1 ELSE 0)])
LEMMA IndentStepIs == ASSUME NEW l, NEW n PROVE IndentStep(l, n) = Indented(l, n)
BY DEF IndentStep, Indented, With

LineBehind(ls, n) ==
  [ls[n] EXCEPT !.indent = IndentOf(ls, n), !.a = ls[n - 1].a + 1,
                !.v = ls[n - 1].v + (IF ls[n].fs \/ ~ls[n].folded THEN 1 ELSE 0)]

LEMMA LineFields ==
  ASSUME NEW l \in LineT
  PROVE  /\ l.text \in Plain /\ l.indent \in Nat /\ l.pre \in Int /\ l.post \in Int /\ l.folded \in BOOLEAN
         /\ l.fs \in BOOLEAN /\ l.fe \in BOOLEAN /\ l.a \in Int /\ l.v \in Int
BY DEF LineT

LEMMA LineMoved ==
  ASSUME NEW l \in LineT, NEW i \in Nat, NEW x \in Int, NEW y \in Int
  PROVE  /\ [l EXCEPT !.indent = i, !.a = x, !.v = y] \in LineT
         /\ [l EXCEPT !.indent = i, !.a = x, !.v = y].indent = i
         /\ [l EXCEPT !.indent = i, !.a = x, !.v = y].a = x
         /\ [l EXCEPT !.indent = i, !.a = x, !.v = y].v = y
BY DEF LineT

LEMMA IndentOfType ==
  ASSUME NEW ls \in Seq(LineT), NEW n \in 1 .. Len(ls)
  PROVE  IndentOf(ls, n) \in Nat
<1>1. ls[n] \in LineT /\ (n # 1 => ls[n - 1] \in LineT)
  OBVIOUS
<1>2. ls[n].pre \in Int /\ (n # 1 => ls[n - 1].indent \in Int /\ ls[n - 1].post \in Int)
  BY <1>1, LineFields
<1> QED BY <1>2 DEF IndentOf, Larger

LEMMA IndentedIs ==
  ASSUME NEW ls \in Seq(LineT), NEW n \in 2 .. Len(ls)
  PROVE  /\ Indented(ls, n) = [ls EXCEPT ![n] = LineBehind(ls, n)]
         /\ LineBehind(ls, n) \in LineT
         /\ Indented(ls, n) \in Seq(LineT) /\ Len(Indented(ls, n)) = Len(ls)
         /\ \A k \in 1 .. Len(ls) : k # n => Indented(ls, n)[k] = ls[k]
         /\ Indented(ls, n)[n] = LineBehind(ls, n)
<1>1. ls[n] \in LineT /\ ls[n - 1] \in LineT
  OBVIOUS
<1>2. IndentOf(ls, n) \in Nat
  BY IndentOfType
<1>3. LineBehind(ls, n) \in LineT
  <2>1. ls[n - 1].a + 1 \in Int
    BY <1>1, LineFields
  <2>2. ls[n - 1].v + (IF ls[n].fs \/ ~ls[n].folded THEN 1 ELSE 0) \in Int
    BY <1>1, LineFields
  <2> QED BY <1>1, <1>2, <2>1, <2>2, LineMoved DEF LineBehind
<1>4. Indented(ls, n) = [ls EXCEPT ![n] = LineBehind(ls, n)]
  BY <1>1 DEF Indented, indentLine, LineBehind, LineT
<1> HIDE DEF LineBehind
<1> QED BY <1>3, <1>4, ExceptSeq

(* The fold is the loop: h[i] are the lines when i of them are done.       *)
LEMMA IndentLoopSteps ==
  ASSUME NEW ls \in Seq(LineT), NEW p \in 1 .. Len(ls)
  PROVE  \E h : /\ h[0] = ls /\ IndentLoop(ls, p) = h[Len(ls) - p]
                /\ \A i \in 0 .. Len(ls) - p : h[i] \in Seq(LineT) /\ Len(h[i]) = Len(ls)
                /\ \A i \in 1 .. Len(ls) - p : h[i] = Indented(h[i - 1], p + i)
<1> DEFINE n == Len(ls) - p
           V == {l \in Seq(LineT) : Len(l) = Len(ls)}
           G == [i \in 1 .. n |-> [l \in V |-> Indented(l, p + i)]]
           seq == [i \in 1 .. n |-> p + i]
           Body(it, s) == IndentStep(it[s \ {Max(s)}], seq[Max(s)])
           Eq(it) == it = [s \in SUBSET (DOMAIN seq) |-> IF s = {} THEN ls ELSE Body(it, s)]
<1>1. n \in Nat /\ ls \in V
  OBVIOUS
<1>2. \A i \in 1 .. n : \A l \in V : Indented(l, p + i) \in V
  <2> TAKE i \in 1 .. n
  <2> TAKE l \in V
  <2>1. p + i \in 2 .. Len(l) /\ l \in Seq(LineT)
    OBVIOUS
  <2>2. Indented(l, p + i) \in Seq(LineT) /\ Len(Indented(l, p + i)) = Len(l)
    BY ONLY <2>1, IndentedIs
  <2> QED BY <2>2
<1>3. G \in [1 .. n -> [V -> V]]
  BY <1>2
<1>4. DOMAIN seq = 1 .. n /\ \A i \in 1 .. n : seq[i] = p + i
  OBVIOUS
<1>5. \A s \in SUBSET (1 .. n) : s # {} => Max(s) \in s /\ Max(s) \in 1 .. n /\ s \ {Max(s)} \in SUBSET (1 .. n)
  <2> SUFFICES ASSUME NEW s \in SUBSET (1 .. n), s # {}
               PROVE  Max(s) \in s
    OBVIOUS
  <2>1. \A x \in s : x \in 0 .. n
    OBVIOUS
  <2> QED BY ONLY <2>1, <1>1, s # {}, Greatest
<1>6. \E it : Eq(it)
  <2>1. PICK it \in [SUBSET (1 .. n) -> V] : FoldFcn(it, n, ls, G)
    <3> HIDE DEF n, V, G
    <3> QED BY <1>1, <1>3, FoldExists
  <2>2. \A s \in SUBSET (1 .. n) : s # {} => G[Max(s)][it[s \ {Max(s)}]] = Body(it, s)
    BY <1>5, <2>1, <1>4, IndentStepIs
  <2>3. \A s \in SUBSET (1 .. n) : it[s] = IF s = {} THEN ls ELSE Body(it, s)
    BY <2>1, <2>2 DEF FoldFcn
  <2>4. it = [s \in SUBSET (DOMAIN seq) |-> it[s]]
    BY <2>1, <1>4
  <2>5. Eq(it)
    <3> HIDE DEF Body
    <3> QED BY <2>3, <2>4, <1>4
  <2> HIDE DEF Eq
  <2> QED BY <2>5
<1> DEFINE it == CHOOSE it : Eq(it)
<1>7. Eq(it)
  BY <1>6
<1>8. IndentLoop(ls, p) = it[DOMAIN seq]
  BY DEF IndentLoop, FoldLeft, MapThenFoldSet, IndentStep
<1>9. it[{}] = ls
  BY <1>7
<1>10. \A s \in SUBSET (1 .. n) :
         s # {} /\ it[s \ {Max(s)}] \in V => it[s] = G[Max(s)][it[s \ {Max(s)}]]
  <2> TAKE s \in SUBSET (1 .. n)
  <2> HAVE s # {} /\ it[s \ {Max(s)}] \in V
  <2>1. it[s] = Body(it, s)
    <3> HIDE DEF it, Body
    <3> QED BY <1>7, <1>4
  <2> HIDE DEF it
  <2> QED BY <2>1, <1>4, <1>5, IndentStepIs
<1>11. PICK h : Walks(h, n, V, ls, G, it[1 .. n])
  <2> HIDE DEF n, V, G, it
  <2>1. GoesOn(it, n, V, ls, G)
    BY <1>9, <1>10 DEF GoesOn
  <2> QED BY <1>1, <1>3, <2>1, FoldSteps
<1> HIDE DEF it
<1>12. \A k \in 1 .. n : h[k] = Indented(h[k - 1], p + k)
  <2> TAKE k \in 1 .. n
  <2>1. k - 1 \in 0 .. n /\ h[k - 1] \in V
    <3> HIDE DEF n, V
    <3> QED BY <1>1, <1>11 DEF Walks
  <2> QED BY <2>1, <1>11 DEF Walks
<1> QED BY ZenonT(30), <1>11, <1>12, <1>8, <1>4 DEF Walks

(* Two lines that say the same, wherever they stand.                       *)
Same(l, m) == l.text = m.text /\ l.pre = m.pre /\ l.post = m.post

(* Line k is numbered and indented as the lines before it say.             *)
Follows(lines, k) == lines[k].a = lines[k - 1].a + 1 /\ lines[k].indent = IndentOf(lines, k)

LEMMA IndentLoopIs ==
  ASSUME NEW ls \in Seq(LineT), NEW p \in 1 .. Len(ls)
  PROVE  /\ IndentLoop(ls, p) \in Seq(LineT) /\ Len(IndentLoop(ls, p)) = Len(ls)
         /\ \A k \in 1 .. p : IndentLoop(ls, p)[k] = ls[k]
         /\ \A k \in p + 1 .. Len(ls) : Same(IndentLoop(ls, p)[k], ls[k]) /\ Follows(IndentLoop(ls, p), k)
<1> DEFINE n == Len(ls) - p
<1>1. PICK h : /\ h[0] = ls /\ IndentLoop(ls, p) = h[n]
               /\ \A i \in 0 .. n : h[i] \in Seq(LineT) /\ Len(h[i]) = Len(ls)
               /\ \A i \in 1 .. n : h[i] = Indented(h[i - 1], p + i)
  BY IndentLoopSteps
<1> DEFINE Done(i) == /\ \A k \in 1 .. p : h[i][k] = ls[k]
                      /\ \A k \in p + 1 .. p + i : Same(h[i][k], ls[k]) /\ Follows(h[i], k)
                      /\ \A k \in p + i + 1 .. Len(ls) : h[i][k] = ls[k]
           T == {i \in 0 .. n : Done(i)}
<1>2. 0 \in T
  BY <1>1
<1>3. \A i \in 0 .. n - 1 : i \in T => i + 1 \in T
  <2> TAKE i \in 0 .. n - 1
  <2> HAVE i \in T
  <2> DEFINE l == h[i]
             q == p + i + 1
  <2>1. l \in Seq(LineT) /\ Len(l) = Len(ls) /\ q \in 2 .. Len(l) /\ Done(i)
    BY <1>1
  <2>2. h[i + 1] = Indented(l, q)
    <3>1. i + 1 \in 1 .. n /\ (i + 1) - 1 = i /\ p + (i + 1) = q
      OBVIOUS
    <3> QED BY <3>1, <1>1
  <2>3. /\ \A k \in 1 .. Len(ls) : k # q => h[i + 1][k] = l[k]
        /\ h[i + 1][q] = LineBehind(l, q)
    <3> HIDE DEF l, q
    <3> QED BY <2>1, <2>2, IndentedIs
  <2>4. h[i + 1][q].a = l[q - 1].a + 1 /\ h[i + 1][q].indent = IndentOf(l, q) /\ Same(h[i + 1][q], l[q])
    <3> HIDE DEF l, q
    <3>1. l[q] \in LineT
      BY <2>1
    <3> QED BY <2>3, <3>1 DEF LineBehind, LineT, Same
  <2>5. \A k \in 2 .. q - 1 : Follows(l, k) => Follows(h[i + 1], k)
    <3> HIDE DEF q, l
    <3> QED BY <2>1, <2>3 DEF Follows, IndentOf
  <2>6. Follows(h[i + 1], q)
    <3> HIDE DEF q, l
    <3>1. h[i + 1][q - 1] = l[q - 1] /\ h[i + 1][q].pre = l[q].pre
      <4>1. q - 1 \in 1 .. Len(ls) /\ q - 1 # q
        BY <2>1
      <4> QED BY <4>1, <2>3, <2>4 DEF Same
    <3> QED BY <3>1, <2>4 DEF Follows, IndentOf
  <2>7. \A k \in 1 .. p : h[i + 1][k] = ls[k]
    <3> TAKE k \in 1 .. p
    <3>1. k \in 1 .. Len(ls) /\ k # q
      OBVIOUS
    <3>2. l[k] = ls[k]
      BY <2>1
    <3> QED BY <3>1, <3>2, <2>3
  <2>8. ASSUME NEW k \in p + 1 .. p + (i + 1) PROVE Same(h[i + 1][k], ls[k]) /\ Follows(h[i + 1], k)
    <3>1. CASE k = q
      <4>1. l[q] = ls[q]
        BY <2>1
      <4> QED BY <3>1, <4>1, <2>4, <2>6
    <3>2. CASE k # q
      <4>1. k \in p + 1 .. p + i /\ k \in 1 .. Len(ls) /\ k \in 2 .. q - 1
        BY <3>2
      <4>2. Same(l[k], ls[k]) /\ Follows(l, k)
        BY <4>1, <2>1
      <4>3. h[i + 1][k] = l[k]
        BY <4>1, <3>2, <2>3
      <4> QED BY <4>1, <4>2, <4>3, <2>5
    <3> QED BY <3>1, <3>2
  <2>9. \A k \in p + (i + 1) + 1 .. Len(ls) : h[i + 1][k] = ls[k]
    BY <2>1, <2>3
  <2> QED BY <2>7, <2>8, <2>9
<1>4. n \in T
  <2>1. n \in Nat
    OBVIOUS
  <2>2. 0 .. n \subseteq T
    <3> HIDE DEF T, n
    <3> QED BY <1>2, <1>3, <2>1, Induction
  <2> QED BY <2>1, <2>2
<1> QED BY <1>1, <1>4

-----------------------------------------------------------------------------
EdT == [lines : Seq(LineT), cur : Nat, al : Int, vl : Int, col : Nat, num_lines : Int, num_vlines : Int,
        editing : BOOLEAN, buf : Text, changed : BOOLEAN, wild : BOOLEAN,
        scroll : Int, top : Nat, topRow : Int, repaint_all : BOOLEAN]

SameAt(l, m) == Same(l, m) /\ l.a = m.a /\ l.indent = m.indent
SameRest(e, f) == /\ f.cur = e.cur /\ f.al = e.al /\ f.col = e.col /\ f.editing = e.editing
                  /\ f.buf = e.buf /\ f.changed = e.changed /\ f.wild = e.wild /\ f.top = e.top

LEMMA EdFields ==
  ASSUME NEW e \in EdT
  PROVE  /\ e.lines \in Seq(LineT) /\ e.cur \in Nat /\ e.al \in Int /\ e.vl \in Int /\ e.col \in Nat
         /\ e.editing \in BOOLEAN /\ e.buf \in Text /\ e.changed \in BOOLEAN /\ e.wild \in BOOLEAN
         /\ e.scroll \in Int /\ e.top \in Nat /\ e.num_lines \in Int
BY DEF EdT

WithLines(e, ls, x, y) == [e EXCEPT !.lines = ls, !.num_lines = x, !.num_vlines = y]
LEMMA WithLinesIs ==
  ASSUME NEW e \in EdT, NEW ls \in Seq(LineT), NEW x \in Int, NEW y \in Int
  PROVE  /\ WithLines(e, ls, x, y) \in EdT /\ WithLines(e, ls, x, y).lines = ls
         /\ SameRest(e, WithLines(e, ls, x, y))
BY DEF EdT, SameRest, WithLines

Outdated(ls) == [n \in DOMAIN ls |-> [ls[n] EXCEPT !.up2date = FALSE]]
LEMMA OutdatedIs ==
  ASSUME NEW ls \in Seq(LineT)
  PROVE  /\ Outdated(ls) \in Seq(LineT) /\ Len(Outdated(ls)) = Len(ls)
         /\ \A k \in 1 .. Len(ls) : SameAt(Outdated(ls)[k], ls[k]) /\ Outdated(ls)[k].folded = ls[k].folded
<1>1. ASSUME NEW l \in LineT
      PROVE  /\ [l EXCEPT !.up2date = FALSE] \in LineT /\ SameAt([l EXCEPT !.up2date = FALSE], l)
             /\ [l EXCEPT !.up2date = FALSE].folded = l.folded
  BY DEF LineT, SameAt, Same
<1> DEFINE F(k) == [ls[k] EXCEPT !.up2date = FALSE]
<1>2. \A k \in 1 .. Len(ls) : F(k) \in LineT /\ SameAt(F(k), ls[k]) /\ F(k).folded = ls[k].folded
  <2> TAKE k \in 1 .. Len(ls)
  <2>1. ls[k] \in LineT
    OBVIOUS
  <2> QED BY <1>1, <2>1
<1>3. DOMAIN ls = 1 .. Len(ls) /\ Len(ls) \in Nat
  OBVIOUS
<1>4. Outdated(ls) = [k \in 1 .. Len(ls) |-> F(k)]
  BY <1>3 DEF Outdated
<1> HIDE DEF F
<1> QED BY <1>2, <1>3, <1>4

LEMMA InvalidateAllIs ==
  ASSUME NEW e \in EdT
  PROVE  /\ InvalidateAll(e) \in EdT
         /\ InvalidateAll(e).lines = Outdated(e.lines)
         /\ SameRest(e, InvalidateAll(e))
<1>1. Outdated(e.lines) \in Seq(LineT)
  BY EdFields, OutdatedIs
<1>2. InvalidateAll(e) = [e EXCEPT !.lines = Outdated(e.lines), !.repaint_all = TRUE]
  BY DEF InvalidateAll, Outdated
<1> QED BY <1>1, <1>2 DEF EdT, SameRest

LEMMA SameAtFollows ==
  ASSUME NEW ls, NEW ms, NEW k \in Nat, SameAt(ms[k], ls[k]), SameAt(ms[k - 1], ls[k - 1])
  PROVE  Follows(ms, k) <=> Follows(ls, k)
BY DEF SameAt, Same, Follows, IndentOf

(* What indentSuccLines leaves alone and what it establishes.              *)
LEMMA indentSuccLinesDoes ==
  ASSUME NEW e \in EdT, NEW p \in 1 .. Len(e.lines), NEW f, f = indentSuccLines(e, p)
  PROVE  /\ f \in EdT /\ Len(f.lines) = Len(e.lines) /\ SameRest(e, f)
         /\ \A k \in 1 .. p : SameAt(f.lines[k], e.lines[k]) /\ f.lines[k].folded = e.lines[k].folded
         /\ \A k \in p + 1 .. Len(e.lines) : Same(f.lines[k], e.lines[k]) /\ Follows(f.lines, k)
<1> DEFINE ls == IndentLoop(e.lines, p)
           x == ls[Len(ls)].a + 1
           y == ls[Len(ls)].v + 1
           g == WithLines(e, ls, x, y)
<1>1. e.lines \in Seq(LineT)
  BY EdFields
<1>2. /\ ls \in Seq(LineT) /\ Len(ls) = Len(e.lines)
      /\ \A k \in 1 .. p : ls[k] = e.lines[k]
      /\ \A k \in p + 1 .. Len(e.lines) : Same(ls[k], e.lines[k]) /\ Follows(ls, k)
  BY <1>1, IndentLoopIs
<1>3. x \in Int /\ y \in Int
  <2>1. ls[Len(ls)] \in LineT
    <3> HIDE DEF ls
    <3> QED BY <1>1, <1>2
  <2> QED BY <2>1, LineFields
<1>4. f = InvalidateAll(g)
  BY indentSuccLinesIs DEF WithLines
<1>5. g \in EdT /\ g.lines = ls /\ SameRest(e, g)
  <2>1. ls \in Seq(LineT)
    BY <1>2
  <2> HIDE DEF ls, x, y
  <2> QED BY ONLY e \in EdT, <1>3, <2>1, WithLinesIs
<1> HIDE DEF ls, g
<1>6. f \in EdT /\ f.lines = Outdated(ls) /\ SameRest(g, f)
  BY <1>4, <1>5, InvalidateAllIs
<1>7. Len(f.lines) = Len(ls) /\ \A k \in 1 .. Len(ls) : SameAt(f.lines[k], ls[k]) /\ f.lines[k].folded = ls[k].folded
  BY <1>2, <1>6, OutdatedIs
<1>8. SameRest(e, f)
  BY <1>5, <1>6 DEF SameRest
<1>9. Len(e.lines) \in Nat
  BY <1>1
<1>10. \A k \in 1 .. p : SameAt(f.lines[k], e.lines[k]) /\ f.lines[k].folded = e.lines[k].folded
  BY <1>2, <1>7, <1>9
<1>11. ASSUME NEW k \in p + 1 .. Len(e.lines) PROVE Same(f.lines[k], e.lines[k]) /\ Follows(f.lines, k)
  <2>1. k \in Nat /\ k \in 1 .. Len(ls) /\ k - 1 \in 1 .. Len(ls)
    BY <1>2, <1>9
  <2>2. Follows(f.lines, k)
    BY <2>1, <1>2, <1>7, SameAtFollows
  <2>3. Same(f.lines[k], e.lines[k])
    BY <2>1, <1>2, <1>7 DEF SameAt, Same
  <2> QED BY <2>2, <2>3
<1> QED BY <1>2, <1>6, <1>7, <1>8, <1>10, <1>11

-----------------------------------------------------------------------------
(* _buf2line: the indentation a line asks for is a number, whatever is in  *)
(* the buffer.                                                             *)
WordT == Char \cup {":", "id"}
StateT == WordT \cup {"", "START", "IF", "ELSEIF", "ELSE", "SELECT", "CASE", "END", "SUB", "other", "THEN", "ELSEIFTHEN"}
MachineT == [state : StateT, last : StateT, pre : Int, post : Int, fs : BOOLEAN, fe : BOOLEAN]

LEMMA WordsType ==
  ASSUME NEW text \in Text
  PROVE  Words(text) \in Seq(WordT)
<1> DEFINE word(i) == i \in DOMAIN text /\ text[i] \notin {Blank, ":"}
           item(i) == CASE text[i] = ":" -> <<":">>
                        [] word(i) /\ ~word(i - 1) -> <<IF word(i + 1) THEN "id" ELSE text[i]>>
                        [] OTHER -> <<>>
           n == Len(text)
<1>1. DOMAIN text = 1 .. n /\ n \in Nat
  BY DEF Text
<1>2. ASSUME NEW i \in 1 .. n PROVE item(i) \in Seq(WordT)
  <2>1. text[i] \in WordT /\ ":" \in WordT /\ "id" \in WordT
    BY DEF Text, WordT
  <2>2. <<IF word(i + 1) THEN "id" ELSE text[i]>> \in Seq(WordT)
    <3> HIDE DEF word
    <3> QED BY <2>1
  <2> HIDE DEF word
  <2> QED BY <2>1, <2>2
<1>3. [i \in DOMAIN text |-> item(i)] \in Seq(Seq(WordT))
  <2> HIDE DEF item
  <2> QED BY <1>1, <1>2
<1>4. Words(text) = FlattenSeq([i \in DOMAIN text |-> item(i)])
  BY DEF Words
<1> HIDE DEF item
<1> QED BY <1>3, <1>4, FlattenSeqType

LEMMA MachineSet ==
  ASSUME NEW m \in MachineT, NEW x \in StateT, NEW i \in Int, NEW j \in Int, NEW y \in StateT
  PROVE  /\ [m EXCEPT !.state = x] \in MachineT
         /\ [m EXCEPT !.state = x, !.fs = TRUE] \in MachineT
         /\ [m EXCEPT !.state = x, !.pre = i] \in MachineT
         /\ [m EXCEPT !.state = x, !.post = i] \in MachineT
         /\ [m EXCEPT !.pre = i] \in MachineT
         /\ [m EXCEPT !.post = i] \in MachineT
         /\ [m EXCEPT !.pre = i, !.post = j] \in MachineT
         /\ [m EXCEPT !.last = y] \in MachineT
         /\ [m EXCEPT !.state = x, !.last = y] \in MachineT
         /\ [m EXCEPT !.fe = TRUE, !.last = y] \in MachineT
<1> USE DEF MachineT
<1>1. [m EXCEPT !.state = x] \in MachineT
  OBVIOUS
<1>2. [m EXCEPT !.state = x, !.fs = TRUE] \in MachineT
  OBVIOUS
<1>3. [m EXCEPT !.state = x, !.pre = i] \in MachineT
  OBVIOUS
<1>4. [m EXCEPT !.state = x, !.post = i] \in MachineT
  OBVIOUS
<1>5. [m EXCEPT !.pre = i] \in MachineT
  OBVIOUS
<1>6. [m EXCEPT !.post = i] \in MachineT
  OBVIOUS
<1>7. [m EXCEPT !.pre = i, !.post = j] \in MachineT
  OBVIOUS
<1>8. [m EXCEPT !.last = y] \in MachineT
  OBVIOUS
<1>9. [m EXCEPT !.state = x, !.last = y] \in MachineT
  OBVIOUS
<1>10. [m EXCEPT !.fe = TRUE, !.last = y] \in MachineT
  OBVIOUS
<1> HIDE DEF MachineT
<1> QED BY <1>1, <1>2, <1>3, <1>4, <1>5, <1>6, <1>7, <1>8, <1>9, <1>10

LEMMA StartStatementType ==
  ASSUME NEW m \in MachineT, NEW w \in WordT
  PROVE  StartStatement(m, w) \in MachineT
<1>1. m.pre \in Int /\ m.post \in Int /\ m.pre - 1 \in Int /\ m.post + 1 \in Int /\ m.post - 1 \in Int
  BY DEF MachineT
<1>2. w \in StateT /\ "END" \in StateT /\ "SUB" \in StateT /\ "other" \in StateT
  BY DEF StateT
<1>3. /\ [m EXCEPT !.state = w] \in MachineT
      /\ [m EXCEPT !.state = "END"] \in MachineT
      /\ [m EXCEPT !.state = "other"] \in MachineT
      /\ [m EXCEPT !.state = "SUB", !.fs = TRUE] \in MachineT
      /\ [m EXCEPT !.state = "other", !.post = m.post + 1] \in MachineT
      /\ [m EXCEPT !.state = "other", !.post = m.post - 1] \in MachineT
      /\ [m EXCEPT !.state = "other", !.pre = m.pre - 1] \in MachineT
  BY <1>1, <1>2, MachineSet
<1> QED BY <1>3 DEF StartStatement

LEMMA EndStatementType ==
  ASSUME NEW m \in MachineT
  PROVE  EndStatement(m) \in MachineT
<1>1. m.pre - 1 \in Int /\ m.post + 1 \in Int
  BY DEF MachineT
<1>2. "START" \in StateT
  BY DEF StateT
<1>3. /\ [m EXCEPT !.post = m.post + 1] \in MachineT
      /\ [m EXCEPT !.pre = m.pre - 1] \in MachineT
      /\ [m EXCEPT !.pre = m.pre - 1, !.post = m.post + 1] \in MachineT
  BY <1>1, <1>2, MachineSet
<1> QED BY <1>3 DEF EndStatement

LEMMA WordType ==
  ASSUME NEW m \in MachineT, NEW w \in WordT
  PROVE  Word(m, w) \in MachineT
<1>1. EndStatement(m) \in MachineT /\ StartStatement(m, w) \in MachineT
  BY StartStatementType, EndStatementType
<1>2. \A k \in MachineT : /\ [k EXCEPT !.state = "START", !.last = ""] \in MachineT
                          /\ [k EXCEPT !.last = w] \in MachineT
                          /\ [k EXCEPT !.fe = TRUE, !.last = w] \in MachineT
                          /\ \A x \in StateT : [k EXCEPT !.state = x, !.last = w] \in MachineT
  <2> TAKE k \in MachineT
  <2>1. w \in StateT
    BY DEF StateT
  <2>2. "START" \in StateT /\ "" \in StateT /\ 0 \in Int
    BY DEF StateT
  <2> QED BY <2>1, <2>2, MachineSet
<1>3. "THEN" \in StateT /\ "ELSEIFTHEN" \in StateT
  BY DEF StateT
<1> QED BY <1>1, <1>2, <1>3 DEF Word

ScanStep(m, w) == With(m, LAMBDA n : Word(n, w))
Start == [state |-> "START", last |-> "", pre |-> 0, post |-> 0, fs |-> FALSE, fe |-> FALSE]
ScanLoop(words) == FoldLeft(LAMBDA m, w : With(m, LAMBDA n : Word(n, w)), Start, words)

LEMMA ScanStepIs == ASSUME NEW m, NEW w PROVE ScanStep(m, w) = Word(m, w)
BY DEF ScanStep, With

LEMMA ScanLoopType ==
  ASSUME NEW words \in Seq(WordT)
  PROVE  ScanLoop(words) \in MachineT
<1> DEFINE n == Len(words)
           V == MachineT
           G == [i \in 1 .. n |-> [m \in V |-> Word(m, words[i])]]
           Body(it, s) == ScanStep(it[s \ {Max(s)}], words[Max(s)])
           Eq(it) == it = [s \in SUBSET (DOMAIN words) |-> IF s = {} THEN Start ELSE Body(it, s)]
<1>1. n \in Nat /\ Start \in V /\ DOMAIN words = 1 .. n
  <2>1. Start \in V
    BY DEF Start, MachineT, StateT
  <2> QED BY <2>1
<1>2. G \in [1 .. n -> [V -> V]]
  <2>1. \A i \in 1 .. n : words[i] \in WordT
    OBVIOUS
  <2> QED BY <2>1, WordType
<1>3. \A s \in SUBSET (1 .. n) : s # {} => Max(s) \in s /\ Max(s) \in 1 .. n /\ s \ {Max(s)} \in SUBSET (1 .. n)
  <2> SUFFICES ASSUME NEW s \in SUBSET (1 .. n), s # {}
               PROVE  Max(s) \in s
    OBVIOUS
  <2>1. \A x \in s : x \in 0 .. n
    OBVIOUS
  <2> QED BY ONLY <2>1, <1>1, s # {}, Greatest
<1>4. \E it : Eq(it)
  <2>1. PICK it \in [SUBSET (1 .. n) -> V] : FoldFcn(it, n, Start, G)
    <3> HIDE DEF n, V, G
    <3> QED BY <1>1, <1>2, FoldExists
  <2>2. \A s \in SUBSET (1 .. n) : s # {} => G[Max(s)][it[s \ {Max(s)}]] = Body(it, s)
    BY <1>3, <2>1, ScanStepIs
  <2>3. \A s \in SUBSET (1 .. n) : it[s] = IF s = {} THEN Start ELSE Body(it, s)
    BY <2>1, <2>2 DEF FoldFcn
  <2>4. it = [s \in SUBSET (DOMAIN words) |-> it[s]]
    BY <2>1, <1>1
  <2>5. Eq(it)
    <3> HIDE DEF Body
    <3> QED BY <2>3, <2>4, <1>1
  <2> HIDE DEF Eq
  <2> QED BY <2>5
<1> DEFINE it == CHOOSE it : Eq(it)
<1>5. Eq(it)
  BY <1>4
<1>6. ScanLoop(words) = it[DOMAIN words]
  BY DEF ScanLoop, FoldLeft, MapThenFoldSet, ScanStep
<1>7. it[{}] = Start
  BY <1>5
<1>8. \A s \in SUBSET (1 .. n) :
        s # {} /\ it[s \ {Max(s)}] \in V => it[s] = G[Max(s)][it[s \ {Max(s)}]]
  <2> TAKE s \in SUBSET (1 .. n)
  <2> HAVE s # {} /\ it[s \ {Max(s)}] \in V
  <2>1. it[s] = Body(it, s)
    <3> HIDE DEF it, Body
    <3> QED BY <1>5, <1>1
  <2> HIDE DEF it
  <2> QED BY <2>1, <1>3, ScanStepIs
<1>9. PICK h : Walks(h, n, V, Start, G, it[1 .. n])
  <2> HIDE DEF n, V, G, it
  <2>1. GoesOn(it, n, V, Start, G)
    BY <1>7, <1>8 DEF GoesOn
  <2> QED BY <1>1, <1>2, <2>1, FoldSteps
<1> HIDE DEF it, n
<1> QED BY <1>1, <1>9, <1>6 DEF Walks

(* The first number of a set, as the code's loops find it.                 *)
LEMMA FirstOf ==
  ASSUME NEW S, S \subseteq Nat, S # {}
  PROVE  (CHOOSE i \in S : \A j \in S : i <= j) \in S
<1>1. \E i \in S : \A j \in S : i <= j
  BY Least
<1> QED BY <1>1

LEMMA TextInType ==
  ASSUME NEW buf \in Text
  PROVE  TextIn(buf) \in Plain
<1> DEFINE ends  == {i \in DOMAIN buf : buf[i] = Nul}
           upto  == IF ends = {} THEN Len(buf) ELSE (CHOOSE i \in ends : \A j \in ends : i <= j) - 1
           solid == {i \in 1..upto : buf[i] # Blank}
           from  == IF solid = {} THEN upto + 1 ELSE CHOOSE i \in solid : \A j \in solid : i <= j
<1>1. Len(buf) \in Nat /\ DOMAIN buf = 1 .. Len(buf)
  BY DEF Text
<1>2. upto \in Int /\ upto <= Len(buf) /\ \A i \in 1 .. upto : buf[i] # Nul
  <2>1. CASE ends = {}
    BY <2>1, <1>1
  <2>2. CASE ends # {}
    <3>1. ends \subseteq Nat
      BY <1>1
    <3>2. \E i \in ends : \A j \in ends : i <= j
      <4> HIDE DEF ends
      <4> QED BY <2>2, <3>1, Least
    <3>3. PICK x : x \in ends /\ (\A j \in ends : x <= j) /\ upto = x - 1
      <4> HIDE DEF ends
      <4> QED BY <3>2, <2>2
    <3> HIDE DEF upto
    <3> QED BY <3>3, <1>1
  <2> QED BY <2>1, <2>2
<1>3. from \in Int /\ (from >= 1 \/ from > upto)
  <2> HIDE DEF upto
  <2>1. CASE solid = {}
    BY <2>1, <1>2
  <2>2. CASE solid # {}
    <3>1. solid \subseteq Nat
      BY <1>2
    <3>3. from \in solid
      <4> HIDE DEF solid
      <4> QED BY <2>2, <3>1, FirstOf
    <3>4. solid \subseteq 1 .. upto
      OBVIOUS
    <3> HIDE DEF from, solid
    <3> QED BY <3>3, <3>4, <1>2
  <2> QED BY <2>1, <2>2
<1>4. TextIn(buf) = SubSeq(buf, from, upto)
  BY DEF TextIn
<1> HIDE DEF from, upto
<1>5. \A i \in from .. upto : buf[i] \in Char \ {Nul}
  BY <1>1, <1>2, <1>3 DEF Text
<1> QED BY <1>2, <1>3, <1>4, <1>5, SubSeqProperties DEF Plain

LEMMA PlainText == Plain \subseteq Text
BY DEF Plain, Text

LEMMA buf2lineIs ==
  ASSUME NEW buf \in Text
  PROVE  /\ buf2line(buf) \in LineT /\ buf2line(buf).text = TextIn(buf)
         /\ buf2line(buf).a = 0 /\ buf2line(buf).indent = 0 /\ ~buf2line(buf).folded
<1>1. TextIn(buf) \in Plain
  BY TextInType
<1>2. Scanned(TextIn(buf)) \in MachineT
  <2>1. ScanLoop(Words(TextIn(buf))) \in MachineT
    BY <1>1, WordsType, ScanLoopType, PlainText
  <2> QED BY <2>1, EndStatementType DEF Scanned, ScanLoop, Start
<1>3. buf2line(buf) = Line(TextIn(buf), Scanned(TextIn(buf)))
  BY DEF buf2line, With
<1> QED BY <1>1, <1>2, <1>3 DEF Line, LineT, MachineT

-----------------------------------------------------------------------------
(* The words of a row: what is neither a blank nor a NUL.                  *)
LEMMA Pieces ==
  ASSUME NEW buf \in Text, NEW n \in 0 .. Len(buf)
  PROVE  SubSeq(buf, 1, n) \in Text /\ SubSeq(buf, n + 1, Len(buf)) \in Text
<1>1. Len(buf) \in Nat /\ \A i \in 1 .. Len(buf) : buf[i] \in Char
  BY DEF Text
<1>2. \A i \in 1 .. n : buf[i] \in Char
  BY <1>1
<1>3. \A i \in n + 1 .. Len(buf) : buf[i] \in Char
  BY <1>1
<1>4. SubSeq(buf, 1, n) \in Seq(Char)
  BY <1>1, <1>2, SubSeqProperties
<1>5. SubSeq(buf, n + 1, Len(buf)) \in Seq(Char)
  BY <1>1, <1>3, SubSeqProperties
<1> QED BY <1>4, <1>5 DEF Text

Items(row) == [i \in DOMAIN row |-> IF row[i] \in {Blank, Nul} THEN <<>> ELSE <<row[i]>>]
LEMMA ItemsType ==
  ASSUME NEW row \in Text
  PROVE  /\ Items(row) \in Seq(Seq(Char)) /\ Len(Items(row)) = Len(row)
         /\ \A i \in 1 .. Len(row) : Items(row)[i] = IF row[i] \in {Blank, Nul} THEN <<>> ELSE <<row[i]>>
<1>1. DOMAIN row = 1 .. Len(row) /\ Len(row) \in Nat
  BY DEF Text
<1>2. ASSUME NEW i \in 1 .. Len(row)
      PROVE  (IF row[i] \in {Blank, Nul} THEN <<>> ELSE <<row[i]>>) \in Seq(Char)
  <2>1. row[i] \in Char
    BY DEF Text
  <2> QED BY <2>1
<1> QED BY <1>1, <1>2 DEF Items

LEMMA SolidIs ==
  ASSUME NEW row
  PROVE  Solid(row) = FlattenSeq(Items(row))
BY DEF Solid, Items

LEMMA SolidType ==
  ASSUME NEW row \in Text
  PROVE  Solid(row) \in Seq(Char)
BY ItemsType, SolidIs, FlattenSeqType

(* The words of a row, taken apart.                                        *)
LEMMA SolidConcat ==
  ASSUME NEW a \in Text, NEW b \in Text
  PROVE  Solid(a \o b) = Solid(a) \o Solid(b)
<1> DEFINE It(c) == IF c \in {Blank, Nul} THEN <<>> ELSE <<c>>
           u == Items(a)
           v == Items(b)
           w == Items(a \o b)
<1>1. /\ a \o b \in Text /\ Len(a \o b) = Len(a) + Len(b) /\ Len(a) \in Nat /\ Len(b) \in Nat
      /\ \A i \in 1 .. Len(a) + Len(b) : (a \o b)[i] = IF i <= Len(a) THEN a[i] ELSE b[i - Len(a)]
  BY ConcatProperties DEF Text
<1>2. u \in Seq(Seq(Char)) /\ Len(u) = Len(a) /\ \A i \in 1 .. Len(a) : u[i] = It(a[i])
  BY ItemsType
<1>3. v \in Seq(Seq(Char)) /\ Len(v) = Len(b) /\ \A i \in 1 .. Len(b) : v[i] = It(b[i])
  BY ItemsType
<1>4. /\ w \in Seq(Seq(Char)) /\ Len(w) = Len(a) + Len(b)
      /\ \A i \in 1 .. Len(a) + Len(b) : w[i] = It((a \o b)[i])
  BY <1>1, ItemsType
<1>5. Solid(a) = FlattenSeq(u) /\ Solid(b) = FlattenSeq(v) /\ Solid(a \o b) = FlattenSeq(w)
  BY SolidIs
<1> HIDE DEF u, v, w, It
<1>6. /\ u \o v \in Seq(Seq(Char)) /\ Len(u \o v) = Len(u) + Len(v)
      /\ \A i \in 1 .. Len(u) + Len(v) : (u \o v)[i] = IF i <= Len(u) THEN u[i] ELSE v[i - Len(u)]
  <2>1. u \in Seq(Seq(Char)) /\ v \in Seq(Seq(Char))
    BY <1>2, <1>3
  <2> QED BY ONLY <2>1, ConcatProperties
<1>7. w = u \o v
  <2>1. ASSUME NEW i \in 1 .. Len(a) + Len(b) PROVE w[i] = (u \o v)[i]
    <3>1. CASE i <= Len(a)
      <4>1. i \in 1 .. Len(a)
        BY <1>1, <3>1
      <4>2. w[i] = It(a[i]) /\ (u \o v)[i] = u[i]
        BY <3>1, <1>1, <1>2, <1>3, <1>4, <1>6
      <4> QED BY <4>1, <4>2, <1>2
    <3>2. CASE ~(i <= Len(a))
      <4>1. i - Len(a) \in 1 .. Len(b)
        BY <1>1, <3>2
      <4>2. w[i] = It(b[i - Len(a)]) /\ (u \o v)[i] = v[i - Len(a)]
        BY <3>2, <1>1, <1>2, <1>3, <1>4, <1>6
      <4> QED BY <4>1, <4>2, <1>3
    <3> QED BY <3>1, <3>2
  <2>2. Len(w) = Len(u \o v)
    BY <1>2, <1>3, <1>4, <1>6
  <2> QED BY ONLY <2>1, <2>2, <1>2, <1>3, <1>4, <1>6, SeqEqual
<1> QED BY <1>2, <1>3, <1>5, <1>7, FlattenSeqConcat

LEMMA SolidOfBlanks ==
  ASSUME NEW row \in Text, \A i \in 1 .. Len(row) : row[i] = Blank
  PROVE  Solid(row) = <<>>
<1> DEFINE n == Len(row)
           w == Items(row)
<1>1. n \in Nat /\ w \in Seq(Seq(Char)) /\ Len(w) = n /\ \A i \in 1 .. n : w[i] = <<>>
  <2>1. n \in Nat
    BY DEF Text
  <2>2. /\ w \in Seq(Seq(Char)) /\ Len(w) = n
        /\ \A i \in 1 .. n : w[i] = IF row[i] \in {Blank, Nul} THEN <<>> ELSE <<row[i]>>
    BY ItemsType
  <2>3. ASSUME NEW i \in 1 .. n PROVE w[i] = <<>>
    <3>1. row[i] \in {Blank, Nul}
      OBVIOUS
    <3> HIDE DEF w
    <3> QED BY <2>2, <3>1
  <2> HIDE DEF w, n
  <2> QED BY <2>1, <2>2, <2>3
<1>2. Solid(row) = FlattenSeq(w)
  BY SolidIs
<1> HIDE DEF w, n
<1>3. PICK h : /\ h \in [0 .. Len(w) -> Seq(Char)] /\ h[0] = <<>> /\ h[Len(w)] = FlattenSeq(w)
               /\ \A k \in 1 .. Len(w) : h[k] = h[k - 1] \o w[k]
  BY <1>1, FlattenSeqSteps
<1> DEFINE T == {k \in 0 .. n : h[k] = <<>>}
<1>4. 0 \in T
  BY <1>1, <1>3
<1>5. \A k \in 0 .. n - 1 : k \in T => k + 1 \in T
  <2> TAKE k \in 0 .. n - 1
  <2> HAVE k \in T
  <2>1. k + 1 \in 1 .. n /\ (k + 1) - 1 = k /\ k + 1 \in 0 .. n
    BY <1>1
  <2>2. h[k + 1] = h[k] \o w[k + 1] /\ w[k + 1] = <<>> /\ h[k] = <<>>
    BY <2>1, <1>1, <1>3
  <2>3. <<>> \o <<>> = <<>>
    OBVIOUS
  <2>4. h[k + 1] = <<>>
    BY ONLY <2>2, <2>3
  <2> QED BY <2>1, <2>4
<1>6. n \in T
  <2>1. 0 .. n \subseteq T
    <3> HIDE DEF T
    <3> QED BY <1>1, <1>4, <1>5, Induction
  <2>2. n \in 0 .. n
    BY <1>1
  <2> QED BY ONLY <2>1, <2>2
<1> QED BY <1>1, <1>2, <1>3, <1>6

(* _buf2line drops the leading blanks and keeps the words.                 *)
LEMMA SolidTextIn ==
  ASSUME NEW row \in Plain
  PROVE  Solid(TextIn(row)) = Solid(row)
<1> DEFINE n == Len(row)
           solid == {i \in 1..n : row[i] # Blank}
           from  == IF solid = {} THEN n + 1 ELSE CHOOSE i \in solid : \A j \in solid : i <= j
           a == SubSeq(row, 1, from - 1)
           b == SubSeq(row, from, n)
<1>1. n \in Nat /\ DOMAIN row = 1 .. n /\ \A i \in 1 .. n : row[i] \in Char \ {Nul}
  BY DEF Plain
<1>2. TextIn(row) = SubSeq(row, from, n)
  <2> DEFINE ends == {i \in DOMAIN row : row[i] = Nul}
             upto == IF ends = {} THEN Len(row) ELSE (CHOOSE i \in ends : \A j \in ends : i <= j) - 1
             some == {i \in 1..upto : row[i] # Blank}
             first == IF some = {} THEN upto + 1 ELSE CHOOSE i \in some : \A j \in some : i <= j
  <2>1. ends = {}
    BY <1>1
  <2>2. upto = n
    BY <2>1
  <2>3. TextIn(row) = SubSeq(row, first, upto)
    BY DEF TextIn
  <2> HIDE DEF upto
  <2>4. some = solid
    BY <2>2
  <2> HIDE DEF some, solid
  <2>5. first = from
    BY <2>2, <2>4
  <2> HIDE DEF first, from
  <2> QED BY <2>2, <2>3, <2>5
<1>3. from \in 1 .. n + 1 /\ \A i \in 1 .. from - 1 : row[i] = Blank
  <2> HIDE DEF n
  <2>1. CASE solid = {}
    BY <2>1, <1>1
  <2>2. CASE solid # {}
    <3>1. solid \subseteq Nat
      BY <1>1
    <3>2. \E i \in solid : \A j \in solid : i <= j
      <4> HIDE DEF solid
      <4> QED BY <2>2, <3>1, Least
    <3>3. PICK x : x \in solid /\ (\A j \in solid : x <= j) /\ from = x
      <4> HIDE DEF solid
      <4> QED BY <3>2, <2>2
    <3>4. ASSUME NEW i \in 1 .. x - 1 PROVE row[i] = Blank
      <4>1. x \in 1 .. n /\ i \in 1 .. n /\ ~(x <= i)
        BY <1>1, <3>3
      <4>2. i \notin solid
        <5> HIDE DEF solid
        <5> QED BY <4>1, <3>3
      <4> QED BY <4>1, <4>2
    <3>5. x \in 1 .. n
      BY <3>3
    <3> HIDE DEF from
    <3> QED BY <3>3, <3>4, <3>5, <1>1
  <2> QED BY <2>1, <2>2
<1> HIDE DEF from
<1>4. row = a \o b
  <2>1. from - 1 \in 0 .. n /\ n \in from - 1 .. n /\ 1 \in 1 .. n + 1 /\ (from - 1) + 1 = from /\ 1 - 1 = 0
        /\ row \in Seq(Char)
    BY <1>1, <1>3, PlainText DEF Text
  <2>2. SubSeq(row, 1, from - 1) \o SubSeq(row, (from - 1) + 1, n) = SubSeq(row, 1, n)
    BY <2>1, ConcatAdjacentSubSeq
  <2>3. SubSeq(row, 1, n) = row
    BY <2>1, SubSeqFull
  <2> QED BY <2>1, <2>2, <2>3
<1>5. a \in Text /\ b \in Text /\ \A i \in 1 .. Len(a) : a[i] = Blank
  <2>1. from - 1 \in 0 .. n /\ (from - 1) + 1 = from /\ row \in Text
    BY <1>1, <1>3, PlainText
  <2>2. a \in Text /\ b \in Text
    <3>1. SubSeq(row, 1, from - 1) \in Text /\ SubSeq(row, (from - 1) + 1, n) \in Text
      BY <2>1, Pieces
    <3> QED BY <2>1, <3>1
  <2>3. /\ Len(a) = (IF 1 <= from - 1 THEN (from - 1) - 1 + 1 ELSE 0)
        /\ \A i \in 1 .. (from - 1) - 1 + 1 : a[i] = row[1 + i - 1]
    <3>1. from - 1 \in Int /\ 1 \in Int /\ \A i \in 1 .. from - 1 : row[i] \in Char
      BY <1>1, <1>3
    <3> QED BY ONLY <3>1, SubSeqProperties
  <2> HIDE DEF a, b
  <2>4. Len(a) = from - 1
    BY <2>1, <2>3, <1>1
  <2>5. ASSUME NEW i \in 1 .. Len(a) PROVE a[i] = Blank
    <3>1. i \in 1 .. from - 1 /\ i \in 1 .. (from - 1) - 1 + 1 /\ 1 + i - 1 = i
      BY <2>4, <2>1, <1>1
    <3>2. a[i] = row[i]
      BY ONLY <2>3, <3>1
    <3> QED BY <3>1, <3>2, <1>3
  <2> QED BY <2>2, <2>5
<1> HIDE DEF a
<1>6. Solid(row) = Solid(a) \o Solid(b) /\ Solid(a) = <<>>
  <2> HIDE DEF b
  <2> QED BY <1>4, <1>5, SolidConcat, SolidOfBlanks
<1>7. <<>> \o Solid(b) = Solid(b)
  BY <1>5, SolidType, ConcatEmptySeq
<1>8. TextIn(row) = b
  BY <1>2
<1> HIDE DEF b
<1> QED BY <1>6, <1>7, <1>8

LEMMA BlanksType == ASSUME NEW n \in Nat PROVE Blanks(n) \in Plain /\ Len(Blanks(n)) = n
<1>1. Blank \in Char /\ Blank # Nul
  BY EditorAssumption DEF Blank, Nul
<1> QED BY <1>1 DEF Blanks, Plain

LEMMA RowType ==
  ASSUME NEW l \in LineT
  PROVE  Blanks(l.indent * IndentSpaces) \o l.text \in Plain
<1>1. IndentSpaces \in Nat
  BY EditorAssumption
<1>2. l.indent \in Nat /\ l.text \in Plain
  BY LineFields
<1>3. \A x, y \in Nat : x * y \in Nat
  OBVIOUS
<1>4. l.indent * IndentSpaces \in Nat
  BY <1>1, <1>2, <1>3
<1> HIDE DEF Blanks
<1> QED BY <1>2, <1>4, BlanksType, ConcatProperties DEF Plain

(* The indentation has no words.                                           *)
LEMMA SolidOfRow ==
  ASSUME NEW l \in LineT
  PROVE  Solid(Blanks(l.indent * IndentSpaces) \o l.text) = Solid(l.text)
<1> DEFINE b == Blanks(l.indent * IndentSpaces)
           t == l.text
<1>1. l.indent \in Nat /\ t \in Plain /\ IndentSpaces \in Nat
  <2>1. IndentSpaces \in Nat
    BY EditorAssumption, Zenon
  <2> QED BY <2>1, LineFields
<1>2. \A x, y \in Nat : x * y \in Nat
  OBVIOUS
<1>3. l.indent * IndentSpaces \in Nat
  BY <1>1, <1>2
<1>4. b \in Plain /\ \A i \in 1 .. Len(b) : b[i] = Blank
  <2>1. b \in Plain /\ Len(b) = l.indent * IndentSpaces
    BY <1>3, BlanksType
  <2>2. \A i \in 1 .. l.indent * IndentSpaces : b[i] = Blank
    BY DEF Blanks
  <2> HIDE DEF b
  <2> QED BY <2>1, <2>2
<1> HIDE DEF b
<1>5. Solid(b \o t) = Solid(b) \o Solid(t) /\ Solid(b) = <<>>
  BY <1>1, <1>4, PlainText, SolidConcat, SolidOfBlanks
<1>6. <<>> \o Solid(t) = Solid(t)
  BY <1>1, PlainText, SolidType, ConcatEmptySeq
<1> QED BY <1>5, <1>6 DEF b

-----------------------------------------------------------------------------
(* The lines up to n are numbered and indented as the lines before them    *)
(* say; the words of all lines; what a handler leaves behind: the first n  *)
(* lines in order, the cursor on a line, and unless the change is noted    *)
(* the words that were there.                                              *)
Upto(ls, n)  == ls[1].a = 0 /\ \A k \in 2 .. n : Follows(ls, k)
Texts(ls)    == FlattenSeq([n \in DOMAIN ls |-> Solid(ls[n].text)])
Listed(e, n) == /\ e \in EdT /\ n \in 1 .. Len(e.lines) /\ Upto(e.lines, n)
                /\ e.top \in 0 .. Len(e.lines) /\ (e.editing => e.changed)
At(e)        == e.cur \in 1 .. Len(e.lines) /\ e.al = e.cur - 1
Whole(e)     == Listed(e, Len(e.lines)) /\ At(e)
Noted(e, f)  == ~f.changed => ~e.changed /\ Texts(f.lines) = Texts(e.lines)

(* The words of the rows as the user sees them, with the buffer in the     *)
(* place of the cursor's line; as long as no NUL was typed behind the end  *)
(* of the row they are the words of the text.                              *)
Spoken(e)    == [k \in DOMAIN e.lines |-> IF e.editing /\ k = e.cur THEN Solid(e.buf) ELSE Solid(e.lines[k].text)]
Clear(e)     == e.editing => e.buf \in Plain
Speaks(e, f) == Clear(e) => Clear(f) /\ Spoken(f) = Spoken(e)
Quiet(e, f)  == Noted(e, f) /\ Speaks(e, f)

LEMMA ListedFields ==
  ASSUME NEW e, NEW n, Listed(e, n)
  PROVE  /\ e \in EdT /\ e.lines \in Seq(LineT) /\ Len(e.lines) \in Nat /\ n \in 1 .. Len(e.lines)
         /\ \A k \in 1 .. Len(e.lines) : e.lines[k] \in LineT
         /\ e.top \in 0 .. Len(e.lines) /\ (e.editing => e.changed) /\ Upto(e.lines, n)
<1>1. e \in EdT /\ e.lines \in Seq(LineT)
  BY EdFields DEF Listed
<1> QED BY <1>1 DEF Listed

LEMMA TextsSame ==
  ASSUME NEW ls \in Seq(LineT), NEW ms \in Seq(LineT), Len(ms) = Len(ls),
         \A k \in 1 .. Len(ls) : ms[k].text = ls[k].text
  PROVE  Texts(ms) = Texts(ls)
<1>1. DOMAIN ls = 1 .. Len(ls) /\ DOMAIN ms = 1 .. Len(ls)
  OBVIOUS
<1>2. [n \in DOMAIN ls |-> Solid(ls[n].text)] = [n \in DOMAIN ms |-> Solid(ms[n].text)]
  BY <1>1
<1> QED BY <1>2 DEF Texts

Wordings(ls) == [n \in DOMAIN ls |-> Solid(ls[n].text)]
LEMMA TextsIs == ASSUME NEW ls PROVE Texts(ls) = FlattenSeq(Wordings(ls))
BY DEF Texts, Wordings

LEMMA WordingsType ==
  ASSUME NEW ls \in Seq(LineT)
  PROVE  /\ Wordings(ls) \in Seq(Seq(Char)) /\ Len(Wordings(ls)) = Len(ls)
         /\ \A i \in 1 .. Len(ls) : Wordings(ls)[i] = Solid(ls[i].text)
<1>1. DOMAIN ls = 1 .. Len(ls) /\ Len(ls) \in Nat
  OBVIOUS
<1>2. ASSUME NEW i \in 1 .. Len(ls) PROVE Solid(ls[i].text) \in Seq(Char)
  <2>1. ls[i] \in LineT
    OBVIOUS
  <2> QED BY <2>1, LineFields, SolidType, PlainText
<1> QED BY <1>1, <1>2 DEF Wordings

LEMMA NotedTrans ==
  ASSUME NEW e, NEW f, NEW g, Noted(e, f), Noted(f, g)
  PROVE  Noted(e, g)
BY DEF Noted

LEMMA QuietTrans ==
  ASSUME NEW e, NEW f, NEW g, Quiet(e, f), Quiet(f, g)
  PROVE  Quiet(e, g)
BY NotedTrans DEF Quiet, Speaks

LEMMA SpokenIs ==
  ASSUME NEW e, e.lines \in Seq(LineT), e.buf \in Text
  PROVE  /\ Spoken(e) \in Seq(Seq(Char)) /\ Len(Spoken(e)) = Len(e.lines)
         /\ \A k \in 1 .. Len(e.lines) :
              Spoken(e)[k] = IF e.editing /\ k = e.cur THEN Solid(e.buf) ELSE Solid(e.lines[k].text)
<1>1. DOMAIN e.lines = 1 .. Len(e.lines) /\ Len(e.lines) \in Nat
  OBVIOUS
<1> DEFINE F(k) == IF e.editing /\ k = e.cur THEN Solid(e.buf) ELSE Solid(e.lines[k].text)
<1>2. ASSUME NEW k \in 1 .. Len(e.lines) PROVE F(k) \in Seq(Char)
  <2>1. e.lines[k] \in LineT
    OBVIOUS
  <2>2. Solid(e.lines[k].text) \in Seq(Char)
    BY <2>1, LineFields, SolidType, PlainText
  <2>3. CASE e.editing /\ k = e.cur
    BY <2>3, SolidType
  <2> QED BY <2>2, <2>3
<1>3. Spoken(e) = [k \in 1 .. Len(e.lines) |-> F(k)]
  BY <1>1 DEF Spoken
<1> HIDE DEF F
<1>4. Spoken(e) \in Seq(Seq(Char)) /\ Len(Spoken(e)) = Len(e.lines) /\ \A k \in 1 .. Len(e.lines) : Spoken(e)[k] = F(k)
  BY <1>1, <1>2, <1>3
<1> QED BY <1>4 DEF F

LEMMA SpokenSettled ==
  ASSUME NEW e, ~e.editing
  PROVE  Clear(e) /\ Spoken(e) = Wordings(e.lines) /\ FlattenSeq(Spoken(e)) = Texts(e.lines)
BY TextsIs DEF Clear, Spoken, Wordings

(* The same lines with the same buffer.                                    *)
SameBuffer(e, f) == f.editing = e.editing /\ f.cur = e.cur /\ f.buf = e.buf
Alike(e, f)      == Noted(e, f) /\ SameBuffer(e, f) /\ Spoken(f) = Spoken(e)
LEMMA AlikeIs ==
  ASSUME NEW e, NEW f, Alike(e, f)
  PROVE  Quiet(e, f) /\ Noted(e, f)
BY DEF Alike, Quiet, Speaks, Clear, SameBuffer

LEMMA AlikeTrans ==
  ASSUME NEW e, NEW f, NEW g, Alike(e, f), Alike(f, g)
  PROVE  Alike(e, g)
BY NotedTrans DEF Alike, SameBuffer

LEMMA SpeaksSame ==
  ASSUME NEW e, NEW f, e.lines \in Seq(LineT), f.lines \in Seq(LineT), Len(f.lines) = Len(e.lines),
         \A k \in 1 .. Len(e.lines) : f.lines[k].text = e.lines[k].text, SameBuffer(e, f)
  PROVE  Speaks(e, f) /\ Spoken(f) = Spoken(e)
<1>1. DOMAIN e.lines = 1 .. Len(e.lines) /\ DOMAIN f.lines = 1 .. Len(e.lines)
  OBVIOUS
<1>2. Spoken(f) = Spoken(e)
  BY <1>1 DEF Spoken, SameBuffer
<1> QED BY <1>2 DEF Speaks, Clear, SameBuffer

(* The lines alone, when there is no buffer.                               *)
LEMMA SpeaksLines ==
  ASSUME NEW e, NEW f, ~e.editing, ~f.editing, f.lines = e.lines
  PROVE  Speaks(e, f)
BY DEF Speaks, Clear, Spoken

(* Lines that are in order are numbered from 0.                            *)
LEMMA Numbers ==
  ASSUME NEW ls \in Seq(LineT), NEW n \in 1 .. Len(ls), Upto(ls, n)
  PROVE  \A k \in 1 .. n : ls[k].a = k - 1
<1> DEFINE T == {k \in 0 .. n : k = 0 \/ ls[k].a = k - 1}
<1>1. 0 \in T /\ n \in Nat
  OBVIOUS
<1>2. \A k \in 0 .. n - 1 : k \in T => k + 1 \in T
  <2> TAKE k \in 0 .. n - 1
  <2> HAVE k \in T
  <2>1. CASE k = 0
    BY <2>1 DEF Upto
  <2>2. CASE k # 0
    <3>1. k + 1 \in 2 .. n /\ (k + 1) - 1 = k
      BY <2>2
    <3>2. ls[k + 1].a = ls[k].a + 1
      BY <3>1 DEF Upto, Follows
    <3> QED BY <3>1, <3>2, <2>2
  <2> QED BY <2>1, <2>2
<1>3. 0 .. n \subseteq T
  <2> HIDE DEF T
  <2> QED BY <1>1, <1>2, Induction
<1> QED BY <1>3

(* What is in order stays so when only what is shown changes.              *)
LEMMA UptoSame ==
  ASSUME NEW ls \in Seq(LineT), NEW ms \in Seq(LineT), NEW n \in 1 .. Len(ls), Upto(ls, n),
         \A k \in 1 .. n : SameAt(ms[k], ls[k])
  PROVE  Upto(ms, n)
<1>1. ms[1].a = 0
  BY DEF Upto, SameAt
<1>2. ASSUME NEW k \in 2 .. n PROVE Follows(ms, k)
  <2>1. k \in Nat /\ k \in 1 .. n /\ k - 1 \in 1 .. n
    OBVIOUS
  <2>2. Follows(ls, k)
    BY DEF Upto
  <2> QED BY <2>1, <2>2, SameAtFollows
<1> QED BY <1>1, <1>2 DEF Upto

LEMMA UptoLess ==
  ASSUME NEW ls, NEW n \in Nat, NEW m \in 1 .. n, Upto(ls, n)
  PROVE  Upto(ls, m)
BY DEF Upto

(* indentSuccLines puts the lines behind p in order.                       *)
LEMMA indentSuccLinesOrders ==
  ASSUME NEW e, NEW p, Listed(e, p), NEW f, f = indentSuccLines(e, p)
  PROVE  /\ Listed(f, Len(f.lines)) /\ Len(f.lines) = Len(e.lines) /\ SameRest(e, f) /\ Quiet(e, f)
         /\ \A k \in 1 .. Len(e.lines) : f.lines[k].text = e.lines[k].text
         /\ \A k \in 1 .. p : f.lines[k].folded = e.lines[k].folded
<1>1. /\ e \in EdT /\ e.lines \in Seq(LineT) /\ Len(e.lines) \in Nat /\ p \in 1 .. Len(e.lines)
      /\ e.top \in 0 .. Len(e.lines) /\ (e.editing => e.changed) /\ Upto(e.lines, p)
  BY ListedFields
<1>2. /\ f \in EdT /\ Len(f.lines) = Len(e.lines) /\ SameRest(e, f)
      /\ \A k \in 1 .. p : SameAt(f.lines[k], e.lines[k]) /\ f.lines[k].folded = e.lines[k].folded
      /\ \A k \in p + 1 .. Len(e.lines) : Same(f.lines[k], e.lines[k]) /\ Follows(f.lines, k)
  BY <1>1, indentSuccLinesDoes
<1>3. f.lines \in Seq(LineT)
  BY <1>2, EdFields
<1>4. Upto(f.lines, p)
  BY <1>1, <1>2, <1>3, UptoSame
<1>5. Upto(f.lines, Len(e.lines))
  <2>1. \A k \in 2 .. Len(e.lines) : k \in 2 .. p \/ k \in p + 1 .. Len(e.lines)
    BY <1>1
  <2> QED BY <2>1, <1>2, <1>4 DEF Upto
<1>6. \A k \in 1 .. Len(e.lines) : f.lines[k].text = e.lines[k].text
  <2>1. \A k \in 1 .. Len(e.lines) : k \in 1 .. p \/ k \in p + 1 .. Len(e.lines)
    BY <1>1
  <2> QED BY <2>1, <1>2 DEF SameAt, Same
<1>8. Texts(f.lines) = Texts(e.lines) /\ Speaks(e, f)
  <2>1. SameBuffer(e, f)
    BY <1>2 DEF SameRest, SameBuffer
  <2> QED BY <2>1, <1>1, <1>2, <1>3, <1>6, TextsSame, SpeaksSame
<1>7. Listed(f, Len(f.lines))
  <2>1. Len(e.lines) \in 1 .. Len(e.lines)
    BY <1>1
  <2> QED BY <2>1, <1>1, <1>2, <1>5 DEF Listed, SameRest
<1> QED BY <1>2, <1>6, <1>7, <1>8 DEF Quiet, Noted, SameRest

-----------------------------------------------------------------------------
(* _commitBuf: the buffer becomes the cursor's line, and the lines behind  *)
(* are indented again when this one asks for another indentation.          *)
Stays(e, f) == Len(f.lines) = Len(e.lines) /\ f.cur = e.cur /\ f.col = e.col
Placed(e, ls) == [e EXCEPT !.lines = ls, !.editing = FALSE, !.top = 0]
LEMMA PlacedIs ==
  ASSUME NEW e \in EdT, NEW ls \in Seq(LineT)
  PROVE  /\ Placed(e, ls) \in EdT /\ Placed(e, ls).lines = ls /\ Placed(e, ls).editing = FALSE
         /\ Placed(e, ls).top = 0 /\ Placed(e, ls).cur = e.cur /\ Placed(e, ls).al = e.al
         /\ Placed(e, ls).col = e.col /\ Placed(e, ls).changed = e.changed
BY DEF EdT, Placed

Entered(e, l) == [l EXCEPT !.a = Cur(e).a, !.v = Cur(e).v]
Entering(e, l) == indentLine([e.lines EXCEPT ![e.cur] = Entered(e, l)], e.cur)
LEMMA commitBufIs ==
  ASSUME NEW e
  PROVE  commitBuf(e) = LET l == buf2line(e.buf) ls == Entering(e, l) IN
                        IF ls[e.cur].indent = Cur(e).indent /\ l.post = Cur(e).post THEN Placed(e, ls)
                        ELSE indentSuccLines(Placed(e, ls), e.cur)
BY DEF commitBuf, With, Entering, Entered, Placed

Numbered(l, x, y) == [l EXCEPT !.a = x, !.v = y]
Shifted(l, i) == [l EXCEPT !.indent = i]
LEMMA EnteredIs ==
  ASSUME NEW l \in LineT, NEW x \in Int, NEW y \in Int
  PROVE  /\ Numbered(l, x, y) \in LineT /\ Numbered(l, x, y).a = x
         /\ Numbered(l, x, y).post = l.post /\ Numbered(l, x, y).text = l.text /\ Numbered(l, x, y).folded = l.folded
BY DEF LineT, Numbered
LEMMA ShiftedIs ==
  ASSUME NEW l \in LineT, NEW i \in Nat
  PROVE  /\ Shifted(l, i) \in LineT /\ Shifted(l, i).indent = i
         /\ Shifted(l, i).a = l.a /\ Shifted(l, i).post = l.post /\ Shifted(l, i).pre = l.pre
         /\ Shifted(l, i).text = l.text /\ Shifted(l, i).folded = l.folded
BY DEF LineT, Shifted

LEMMA EnteringIs ==
  ASSUME NEW e \in EdT, e.cur \in 1 .. Len(e.lines), NEW l \in LineT, NEW ls, ls = Entering(e, l)
  PROVE  /\ ls \in Seq(LineT) /\ Len(ls) = Len(e.lines)
         /\ \A k \in 1 .. Len(ls) : k # e.cur => ls[k] = e.lines[k]
         /\ ls[e.cur].a = e.lines[e.cur].a /\ ls[e.cur].post = l.post
         /\ ls[e.cur].indent = IndentOf(ls, e.cur)
         /\ ls[e.cur].text = l.text /\ ls[e.cur].folded = l.folded
<1> DEFINE c == e.cur
           old == e.lines
           row == Entered(e, l)
           ms == [old EXCEPT ![c] = row]
<1>1. old \in Seq(LineT) /\ c \in 1 .. Len(old) /\ old[c] \in LineT
  BY EdFields
<1>2. row \in LineT /\ row.a = old[c].a /\ row.post = l.post /\ row.text = l.text /\ row.folded = l.folded
  <2>1. old[c].a \in Int /\ old[c].v \in Int
    BY <1>1, LineFields
  <2>2. row = Numbered(l, old[c].a, old[c].v)
    BY DEF Entered, Cur, Numbered
  <2> HIDE DEF row, old, c
  <2> QED BY <2>1, <2>2, EnteredIs
<1>3. /\ ms \in Seq(LineT) /\ Len(ms) = Len(old) /\ ms[c] = row
      /\ \A k \in 1 .. Len(old) : k # c => ms[k] = old[k]
  <2> HIDE DEF row, old, c
  <2> QED BY <1>1, <1>2, ExceptSeq
<1> DEFINE i == IndentOf(ms, c)
           new == Shifted(row, i)
<1>4. i \in Nat
  <2> HIDE DEF ms, c, old
  <2> QED BY <1>1, <1>3, IndentOfType
<1>5. /\ new \in LineT /\ new.indent = i /\ new.a = row.a /\ new.post = row.post /\ new.pre = row.pre
      /\ new.text = row.text /\ new.folded = row.folded
  <2> HIDE DEF i, row
  <2> QED BY <1>2, <1>4, ShiftedIs
<1>6. ls = [ms EXCEPT ![c] = new]
  <2>1. ls = [ms EXCEPT ![c].indent = i]
    BY DEF Entering, indentLine
  <2> HIDE DEF ms, i, c, row, old
  <2> QED BY <2>1, <1>1, <1>3 DEF Shifted
<1>7. /\ ls \in Seq(LineT) /\ Len(ls) = Len(old) /\ ls[c] = new
      /\ \A k \in 1 .. Len(old) : k # c => ls[k] = ms[k]
  <2> HIDE DEF ms, c, new, old
  <2> QED BY <1>1, <1>3, <1>5, <1>6, ExceptSeq
<1>8. IndentOf(ls, c) = i
  <2> HIDE DEF ms, new, row, old
  <2>1. c = 1 \/ (c - 1 \in 1 .. Len(old) /\ c - 1 # c)
    BY <1>1
  <2>2. c = 1 \/ ls[c - 1] = ms[c - 1]
    BY <2>1, <1>7
  <2> QED BY <2>2, <1>3, <1>5, <1>7 DEF IndentOf
<1> HIDE DEF ms, new, row, old, i
<1>9. ls[c].a = old[c].a /\ ls[c].post = l.post /\ ls[c].text = l.text /\ ls[c].folded = l.folded
  BY ONLY <1>2, <1>5, <1>7
<1>10. ls \in Seq(LineT) /\ Len(ls) = Len(old) /\ \A k \in 1 .. Len(ls) : k # c => ls[k] = old[k]
  BY ONLY <1>3, <1>7
<1>11. ls[c].indent = IndentOf(ls, c)
  BY ONLY <1>5, <1>7, <1>8
<1> QED BY <1>9, <1>10, <1>11 DEF old

LEMMA commitBufOrders ==
  ASSUME NEW e, NEW n, Listed(e, n), At(e), e.cur <= n, NEW f, f = commitBuf(e)
  PROVE  /\ Listed(f, n) /\ At(f) /\ Stays(e, f) /\ f.changed = e.changed /\ ~f.editing
         /\ \A k \in 1 .. Len(e.lines) : k # e.cur => f.lines[k].text = e.lines[k].text
         /\ f.lines[e.cur].text = TextIn(e.buf) /\ ~f.lines[e.cur].folded
<1> DEFINE l == buf2line(e.buf)
           ls == Entering(e, l)
           g == Placed(e, ls)
           c == e.cur
<1>1. /\ e \in EdT /\ e.lines \in Seq(LineT) /\ Len(e.lines) \in Nat /\ n \in 1 .. Len(e.lines)
      /\ Upto(e.lines, n) /\ c \in 1 .. n /\ e.al = c - 1 /\ c \in 1 .. Len(e.lines)
      /\ e.buf \in Text
  BY ListedFields, EdFields DEF At
<1>2. l \in LineT /\ l.text = TextIn(e.buf) /\ ~l.folded
  BY <1>1, buf2lineIs
<1>3. /\ ls \in Seq(LineT) /\ Len(ls) = Len(e.lines)
      /\ \A k \in 1 .. Len(ls) : k # c => ls[k] = e.lines[k]
      /\ ls[c].a = e.lines[c].a /\ ls[c].post = l.post
      /\ ls[c].indent = IndentOf(ls, c) /\ ls[c].text = TextIn(e.buf) /\ ~ls[c].folded
  <2>1. e \in EdT /\ ls = Entering(e, l)
    BY <1>1
  <2>2. e.cur \in 1 .. Len(e.lines) /\ l \in LineT /\ ls = Entering(e, l)
    BY <1>1, <1>2
  <2> HIDE DEF l, ls, c
  <2>3. /\ ls \in Seq(LineT) /\ Len(ls) = Len(e.lines)
        /\ \A k \in 1 .. Len(ls) : k # e.cur => ls[k] = e.lines[k]
        /\ ls[e.cur].a = e.lines[e.cur].a /\ ls[e.cur].post = l.post
        /\ ls[e.cur].indent = IndentOf(ls, e.cur)
        /\ ls[e.cur].text = l.text /\ ls[e.cur].folded = l.folded
    BY ONLY <2>1, <2>2, EnteringIs
  <2> QED BY <2>3, <1>2 DEF c
<1>4. /\ g \in EdT /\ g.lines = ls /\ g.editing = FALSE /\ g.top = 0 /\ g.cur = c /\ g.al = e.al
      /\ g.col = e.col /\ g.changed = e.changed
  <2> HIDE DEF ls
  <2> QED BY <1>1, <1>3, PlacedIs
<1>5. Upto(ls, c)
  <2> HIDE DEF ls, l
  <2>1. ls[1].a = 0
    BY <1>1, <1>3 DEF Upto
  <2>2. ASSUME NEW k \in 2 .. c PROVE Follows(ls, k)
    <3>1. Follows(e.lines, k) /\ k \in 1 .. Len(ls) /\ k - 1 \in 1 .. Len(ls) /\ k - 1 # c
      BY <1>1, <1>3 DEF Upto
    <3>2. ls[k - 1] = e.lines[k - 1]
      BY <3>1, <1>3
    <3>3. CASE k = c
      BY <3>1, <3>2, <3>3, <1>3 DEF Follows
    <3>4. CASE k # c
      <4>1. ls[k] = e.lines[k]
        BY <3>1, <3>4, <1>3
      <4> QED BY <3>1, <3>2, <4>1 DEF Follows, IndentOf
    <3> QED BY <3>3, <3>4
  <2> QED BY <2>1, <2>2 DEF Upto
<1>6. CASE ls[c].indent = Cur(e).indent /\ l.post = Cur(e).post
  <2>1. f = g
    BY <1>6, commitBufIs
  <2>2. Upto(ls, n)
    <3> HIDE DEF ls, l
    <3>1. ASSUME NEW k \in 2 .. n, k > c PROVE Follows(ls, k)
      <4>1. Follows(e.lines, k) /\ k \in 1 .. Len(ls) /\ k # c /\ k - 1 \in 1 .. Len(ls)
        BY <3>1, <1>1, <1>3 DEF Upto
      <4>2. ls[k] = e.lines[k]
        BY <4>1, <1>3
      <4>3. /\ ls[k - 1].a = e.lines[k - 1].a /\ ls[k - 1].indent = e.lines[k - 1].indent
            /\ ls[k - 1].post = e.lines[k - 1].post
        <5>1. CASE k - 1 = c
          BY <5>1, <1>3, <1>6 DEF Cur
        <5>2. CASE k - 1 # c
          BY <5>2, <4>1, <1>3
        <5> QED BY <5>1, <5>2
      <4> QED BY <4>1, <4>2, <4>3 DEF Follows, IndentOf
    <3>2. \A k \in 2 .. n : k \in 2 .. c \/ k > c
      BY <1>1
    <3> QED BY <3>1, <3>2, <1>5 DEF Upto
  <2> HIDE DEF ls, l, g
  <2> QED BY <2>1, <2>2, <1>1, <1>3, <1>4 DEF Listed, At, Stays
<1>7. CASE ~(ls[c].indent = Cur(e).indent /\ l.post = Cur(e).post)
  <2>1. f = indentSuccLines(g, c)
    BY <1>7, commitBufIs
  <2> HIDE DEF ls, l, g
  <2>2. Listed(g, c)
    BY <1>1, <1>3, <1>4, <1>5 DEF Listed
  <2>3. /\ Listed(f, Len(f.lines)) /\ Len(f.lines) = Len(e.lines) /\ SameRest(g, f)
        /\ \A k \in 1 .. Len(ls) : f.lines[k].text = ls[k].text
        /\ \A k \in 1 .. c : f.lines[k].folded = ls[k].folded
    BY <2>1, <2>2, <1>3, <1>4, indentSuccLinesOrders
  <2>4. Listed(f, n)
    BY <2>3, <1>1, UptoLess DEF Listed
  <2>5. \A k \in 1 .. Len(e.lines) : k # c => f.lines[k].text = e.lines[k].text
    BY <2>3, <1>3
  <2>6. f.lines[c].text = TextIn(e.buf) /\ ~f.lines[c].folded
    BY <2>3, <1>1, <1>3
  <2> QED BY <2>3, <2>4, <2>5, <2>6, <1>1, <1>3, <1>4 DEF At, Stays, SameRest
<1> QED BY <1>6, <1>7

LEMMA CommittedSpeaks ==
  ASSUME NEW e, NEW n, Listed(e, n), e.editing, NEW f, Listed(f, n), ~f.editing, Len(f.lines) = Len(e.lines),
         \A k \in 1 .. Len(e.lines) : k # e.cur => f.lines[k].text = e.lines[k].text,
         f.lines[e.cur].text = TextIn(e.buf)
  PROVE  Speaks(e, f)
<1>1. DOMAIN e.lines = 1 .. Len(e.lines) /\ DOMAIN f.lines = 1 .. Len(e.lines)
  <2>1. e.lines \in Seq(LineT) /\ f.lines \in Seq(LineT)
    BY ListedFields
  <2> QED BY <2>1
<1>2. ASSUME e.buf \in Plain PROVE Spoken(f) = Spoken(e)
  <2>1. Solid(f.lines[e.cur].text) = Solid(e.buf)
    BY <1>2, SolidTextIn
  <2>2. ASSUME NEW k \in 1 .. Len(e.lines)
        PROVE  Solid(f.lines[k].text) = IF k = e.cur THEN Solid(e.buf) ELSE Solid(e.lines[k].text)
    BY <2>1
  <2> QED BY <1>1, <2>2 DEF Spoken
<1> QED BY <1>2 DEF Speaks, Clear

LEMMA CommittedKeeps ==
  ASSUME NEW e, Whole(e), NEW f, f = Committed(e)
  PROVE  /\ Whole(f) /\ Stays(e, f) /\ Quiet(e, f) /\ ~f.editing /\ f.changed = e.changed
         /\ (e.editing => ~f.lines[e.cur].folded) /\ (~e.editing => f = e)
<1>1. Listed(e, Len(e.lines)) /\ At(e) /\ e.cur <= Len(e.lines)
  BY DEF Whole, At
<1>2. CASE e.editing
  <2>1. f = commitBuf(e)
    BY <1>2 DEF Committed
  <2>2. e.changed
    BY <1>1, <1>2 DEF Listed
  <2>3. /\ Listed(f, Len(e.lines)) /\ At(f) /\ Stays(e, f) /\ f.changed = e.changed /\ ~f.editing
        /\ \A k \in 1 .. Len(e.lines) : k # e.cur => f.lines[k].text = e.lines[k].text
        /\ f.lines[e.cur].text = TextIn(e.buf) /\ ~f.lines[e.cur].folded
    BY <1>1, <2>1, commitBufOrders
  <2>4. Speaks(e, f)
    BY <1>1, <1>2, <2>3, CommittedSpeaks DEF Stays
  <2> QED BY <1>2, <2>2, <2>3, <2>4 DEF Whole, Stays, Quiet, Noted
<1>3. CASE ~e.editing
  BY <1>1, <1>3 DEF Committed, Stays, Quiet, Noted, Speaks, Whole
<1> QED BY <1>2, <1>3

-----------------------------------------------------------------------------
(* Changes of the editor's other fields, and of lines that stay in order.  *)
WithRows(e, ls) == [e EXCEPT !.lines = ls]
LEMMA WithRowsIs ==
  ASSUME NEW e \in EdT, NEW ls \in Seq(LineT)
  PROVE  /\ WithRows(e, ls) \in EdT /\ WithRows(e, ls).lines = ls /\ SameRest(e, WithRows(e, ls))
BY DEF EdT, SameRest, WithRows

LEMMA WithRowsKeeps ==
  ASSUME NEW e, Whole(e), NEW ls \in Seq(LineT), Len(ls) = Len(e.lines),
         \A k \in 1 .. Len(ls) : SameAt(ls[k], e.lines[k]), NEW f, f = WithRows(e, ls)
  PROVE  Whole(f) /\ Stays(e, f) /\ Quiet(e, f) /\ Alike(e, f) /\ f.changed = e.changed /\ f.editing = e.editing
<1>1. Listed(e, Len(e.lines)) /\ At(e)
  BY DEF Whole
<1>2. /\ e \in EdT /\ e.lines \in Seq(LineT) /\ Len(e.lines) \in Nat /\ Len(e.lines) \in 1 .. Len(e.lines)
      /\ e.top \in 0 .. Len(e.lines) /\ (e.editing => e.changed) /\ Upto(e.lines, Len(e.lines))
  BY <1>1, ListedFields
<1>3. f \in EdT /\ f.lines = ls /\ SameRest(e, f)
  BY <1>2, WithRowsIs
<1>4. Upto(ls, Len(ls))
  BY <1>2, UptoSame
<1>5. \A k \in 1 .. Len(e.lines) : ls[k].text = e.lines[k].text
  BY DEF SameAt, Same
<1>6. Texts(ls) = Texts(e.lines) /\ Speaks(e, f) /\ Spoken(f) = Spoken(e) /\ SameBuffer(e, f)
  <2>1. SameBuffer(e, f)
    BY <1>3 DEF SameRest, SameBuffer
  <2> QED BY <2>1, <1>2, <1>3, <1>5, TextsSame, SpeaksSame
<1> QED BY <1>1, <1>2, <1>3, <1>4, <1>6 DEF Listed, At, Whole, Stays, Quiet, Alike, Noted, SameRest

Flipped(ls, n) ==
  [i \in DOMAIN ls |-> IF n <= i /\ i <= FoldEnd(ls, n) THEN [ls[i] EXCEPT !.folded = ~ls[i].folded] ELSE ls[i]]
LEMMA FlippedIs ==
  ASSUME NEW ls \in Seq(LineT), NEW n \in Nat
  PROVE  /\ Flipped(ls, n) \in Seq(LineT) /\ Len(Flipped(ls, n)) = Len(ls)
         /\ \A k \in 1 .. Len(ls) : SameAt(Flipped(ls, n)[k], ls[k])
<1>1. ASSUME NEW l \in LineT
      PROVE  [l EXCEPT !.folded = ~l.folded] \in LineT /\ SameAt([l EXCEPT !.folded = ~l.folded], l)
  BY DEF LineT, SameAt, Same
<1> DEFINE F(i) == IF n <= i /\ i <= FoldEnd(ls, n) THEN [ls[i] EXCEPT !.folded = ~ls[i].folded] ELSE ls[i]
<1>2. \A k \in 1 .. Len(ls) : F(k) \in LineT /\ SameAt(F(k), ls[k])
  <2> TAKE k \in 1 .. Len(ls)
  <2>1. ls[k] \in LineT
    OBVIOUS
  <2>2. SameAt(ls[k], ls[k])
    BY DEF SameAt, Same
  <2> QED BY <1>1, <2>1, <2>2
<1>3. DOMAIN ls = 1 .. Len(ls) /\ Len(ls) \in Nat
  OBVIOUS
<1>4. Flipped(ls, n) = [k \in 1 .. Len(ls) |-> F(k)]
  BY <1>3 DEF Flipped
<1> HIDE DEF F
<1> QED BY <1>2, <1>3, <1>4

LEMMA foldIs ==
  ASSUME NEW e, NEW n
  PROVE  fold(e, n) = IF ~e.lines[n].fs THEN e
                      ELSE indentSuccLines(WithRows(Committed(e), Flipped(Committed(e).lines, n)), n)
BY DEF fold, With, WithRows, Flipped

LEMMA Unmoved ==
  ASSUME NEW e, Whole(e)
  PROVE  Stays(e, e) /\ Quiet(e, e) /\ Alike(e, e)
BY DEF Stays, Quiet, Noted, Speaks, Alike, SameBuffer

LEMMA foldKeeps ==
  ASSUME NEW e, Whole(e), NEW n \in 1 .. Len(e.lines), NEW f, f = fold(e, n)
  PROVE  Whole(f) /\ Stays(e, f) /\ Quiet(e, f) /\ (~e.editing => ~f.editing)
<1>1. CASE ~e.lines[n].fs
  BY <1>1, foldIs, Unmoved
<1>2. CASE e.lines[n].fs
  <2> DEFINE c == Committed(e)
             ls == Flipped(c.lines, n)
             g == WithRows(c, ls)
  <2>1. Whole(c) /\ Stays(e, c) /\ Quiet(e, c) /\ ~c.editing
    BY CommittedKeeps
  <2>2. c.lines \in Seq(LineT) /\ n \in Nat /\ Len(c.lines) = Len(e.lines)
    BY <2>1, ListedFields DEF Whole, Stays
  <2>3. ls \in Seq(LineT) /\ Len(ls) = Len(c.lines) /\ \A k \in 1 .. Len(ls) : SameAt(ls[k], c.lines[k])
    <3> HIDE DEF c
    <3> QED BY <2>2, FlippedIs
  <2>4. Whole(g) /\ Stays(c, g) /\ Quiet(c, g) /\ g.editing = c.editing
    <3> HIDE DEF c, ls
    <3> QED BY <2>1, <2>3, WithRowsKeeps
  <2>5. f = indentSuccLines(g, n)
    BY <1>2, foldIs
  <2> HIDE DEF c, ls, g
  <2>6. Listed(g, n) /\ At(g) /\ Len(g.lines) = Len(e.lines)
    <3>1. Listed(g, Len(g.lines)) /\ At(g) /\ Len(g.lines) = Len(e.lines)
      BY <2>1, <2>4 DEF Whole, Stays
    <3>2. Upto(g.lines, n)
      BY <3>1, UptoLess, ListedFields
    <3> QED BY <3>1, <3>2 DEF Listed
  <2>7. Listed(f, Len(f.lines)) /\ Len(f.lines) = Len(g.lines) /\ SameRest(g, f) /\ Quiet(g, f)
    BY <2>5, <2>6, indentSuccLinesOrders
  <2>8. Quiet(e, f)
    BY <2>1, <2>4, <2>7, QuietTrans
  <2> QED BY <2>1, <2>4, <2>6, <2>7, <2>8 DEF Whole, At, Stays, SameRest
<1> QED BY <1>1, <1>2

LEMMA FoldStartIn ==
  ASSUME NEW ls, NEW n \in Nat
  PROVE  FoldStart(ls, n) \in 0 .. n
<1> DEFINE S == {i \in 1 .. n : ls[i].fs}
<1>1. CASE S = {}
  BY <1>1 DEF FoldStart
<1>2. CASE S # {}
  <2>1. S \subseteq 0 .. n
    OBVIOUS
  <2> HIDE DEF S
  <2>2. \E i \in S : \A j \in S : j <= i
    BY <1>2, <2>1, Greatest
  <2>3. (CHOOSE i \in S : \A j \in S : j <= i) \in S
    BY <2>2
  <2> QED BY <1>2, <2>1, <2>3 DEF FoldStart, S
<1> QED BY <1>1, <1>2

LEMMA FoldEndIn ==
  ASSUME NEW ls \in Seq(LineT), NEW n \in 1 .. Len(ls)
  PROVE  FoldEnd(ls, n) \in n .. Len(ls)
<1> DEFINE S == {i \in (n + 1) .. Len(ls) : ls[i].fe}
<1>1. CASE S = {}
  BY <1>1 DEF FoldEnd
<1>2. CASE S # {}
  <2>1. S \subseteq Nat /\ S \subseteq n .. Len(ls)
    OBVIOUS
  <2> HIDE DEF S
  <2>2. (CHOOSE i \in S : \A j \in S : i <= j) \in S
    BY <1>2, <2>1, FirstOf
  <2> QED BY <1>2, <2>1, <2>2 DEF FoldEnd, S
<1> QED BY <1>1, <1>2

LEMMA unfoldLineKeeps ==
  ASSUME NEW e, Whole(e), NEW n \in 1 .. Len(e.lines), NEW f, f = unfoldLine(e, n)
  PROVE  Whole(f) /\ Stays(e, f) /\ Quiet(e, f) /\ (~e.editing => ~f.editing)
<1>1. n \in Nat /\ Len(e.lines) \in Nat
  BY ListedFields DEF Whole
<1>2. FoldStart(e.lines, n) \in 0 .. n
  BY <1>1, FoldStartIn
<1>3. CASE e.lines[n].folded /\ FoldStart(e.lines, n) # 0
  <2>1. f = fold(e, FoldStart(e.lines, n))
    BY <1>3 DEF unfoldLine
  <2>2. FoldStart(e.lines, n) \in 1 .. Len(e.lines)
    BY <1>1, <1>2, <1>3
  <2> QED BY <2>1, <2>2, foldKeeps
<1>4. CASE ~(e.lines[n].folded /\ FoldStart(e.lines, n) # 0)
  BY <1>4, Unmoved DEF unfoldLine
<1> QED BY <1>3, <1>4

-----------------------------------------------------------------------------
(* The buffer.                                                             *)
LEMMA foldKeepsRow ==
  ASSUME NEW e, Whole(e), ~e.editing, NEW n \in 1 .. Len(e.lines), NEW f, f = fold(e, n)
  PROVE  SameAt(f.lines[n], e.lines[n])
<1>1. CASE ~e.lines[n].fs
  <2>1. f = e
    BY <1>1, foldIs
  <2> QED BY <2>1 DEF SameAt, Same
<1>2. CASE e.lines[n].fs
  <2> DEFINE ls == Flipped(e.lines, n)
             g == WithRows(e, ls)
  <2>1. /\ e \in EdT /\ e.lines \in Seq(LineT) /\ Len(e.lines) \in Nat /\ n \in Nat
    BY ListedFields DEF Whole
  <2>2. ls \in Seq(LineT) /\ Len(ls) = Len(e.lines) /\ \A k \in 1 .. Len(ls) : SameAt(ls[k], e.lines[k])
    BY <2>1, FlippedIs
  <2> HIDE DEF ls
  <2>3. g \in EdT /\ g.lines = ls
    BY <2>1, <2>2, WithRowsIs
  <2>4. f = indentSuccLines(g, n)
    BY <1>2, foldIs DEF ls, Committed
  <2> HIDE DEF g
  <2>5. \A k \in 1 .. n : SameAt(f.lines[k], g.lines[k])
    BY <2>2, <2>3, <2>4, indentSuccLinesDoes
  <2>6. SameAt(f.lines[n], ls[n]) /\ SameAt(ls[n], e.lines[n])
    BY <2>1, <2>2, <2>3, <2>5
  <2> QED BY <2>6 DEF SameAt, Same
<1> QED BY <1>1, <1>2

LEMMA WidthType ==
  ASSUME NEW l \in LineT
  PROVE  Width(l) \in Nat
<1>1. IndentSpaces \in Nat /\ l.indent \in Nat /\ l.text \in Plain
  BY EditorAssumption, LineFields
<1>2. \A x, y \in Nat : x * y \in Nat
  OBVIOUS
<1>3. l.indent * IndentSpaces \in Nat
  BY <1>1, <1>2
<1>4. Len(l.text) \in Nat
  BY <1>1 DEF Plain
<1>5. \A x, y \in Nat : x + y \in Nat
  OBVIOUS
<1> QED BY <1>3, <1>4, <1>5 DEF Width

LEMMA RowLengthType ==
  ASSUME NEW e, Whole(e)
  PROVE  RowLength(e) \in Nat
<1>1. e.buf \in Text /\ Cur(e) \in LineT
  BY ListedFields, EdFields DEF Whole, At, Cur
<1>2. Len(e.buf) \in Nat
  BY <1>1 DEF Text
<1> QED BY <1>1, <1>2, WidthType DEF RowLength

LEMMA RowLengthIs ==
  ASSUME NEW l \in LineT
  PROVE  Len(Blanks(l.indent * IndentSpaces) \o l.text) = Width(l)
<1>1. IndentSpaces \in Nat /\ l.indent \in Nat /\ l.text \in Plain
  BY EditorAssumption, LineFields
<1>2. \A x, y \in Nat : x * y \in Nat
  OBVIOUS
<1> DEFINE b == Blanks(l.indent * IndentSpaces)
           t == l.text
<1>3. b \in Plain /\ Len(b) = l.indent * IndentSpaces /\ l.indent * IndentSpaces \in Nat
  BY <1>1, <1>2, BlanksType
<1>4. t \in Plain /\ Len(t) \in Nat
  BY <1>1 DEF Plain
<1>5. Len(b \o t) = Len(b) + Len(t)
  <2> HIDE DEF b, t
  <2> QED BY <1>3, <1>4, ConcatProperties DEF Plain
<1>6. \A x, y \in Nat : x + y = y + x
  OBVIOUS
<1>7. Len(b) + Len(t) = Width(l)
  BY <1>3, <1>4, <1>6 DEF Width
<1> QED BY <1>5, <1>7

LEMMA RowTextIs ==
  ASSUME NEW e, Whole(e)
  PROVE  RowText(e, e.cur) \in Text /\ Len(RowText(e, e.cur)) = RowLength(e)
         /\ (Clear(e) => RowText(e, e.cur) \in Plain)
<1>1. e.buf \in Text /\ e.lines[e.cur] \in LineT
  BY ListedFields, EdFields DEF Whole, At
<1>2. CASE e.editing
  BY <1>1, <1>2 DEF RowText, RowLength, Clear
<1>3. CASE ~e.editing
  <2>1. RowText(e, e.cur) = Blanks(e.lines[e.cur].indent * IndentSpaces) \o e.lines[e.cur].text
    BY <1>3 DEF RowText
  <2>2. RowText(e, e.cur) \in Plain
    BY <1>1, <2>1, RowType
  <2>3. Len(RowText(e, e.cur)) = Width(e.lines[e.cur])
    BY <1>1, <2>1, RowLengthIs
  <2> QED BY <2>2, <2>3, <1>3, PlainText DEF RowLength, Cur
<1> QED BY <1>2, <1>3

(* The words of every row, the buffer among them.                          *)
LEMMA RowSpoken ==
  ASSUME NEW e, Whole(e), NEW k \in 1 .. Len(e.lines)
  PROVE  Solid(RowText(e, k)) = Spoken(e)[k] /\ RowText(e, k) \in Text
<1>1. e.lines \in Seq(LineT) /\ e.lines[k] \in LineT /\ e.buf \in Text
  BY ListedFields, EdFields DEF Whole
<1>2. Spoken(e)[k] = IF e.editing /\ k = e.cur THEN Solid(e.buf) ELSE Solid(e.lines[k].text)
  BY <1>1, SpokenIs
<1>3. CASE e.editing /\ k = e.cur
  BY <1>1, <1>2, <1>3 DEF RowText
<1>4. CASE ~(e.editing /\ k = e.cur)
  <2>1. RowText(e, k) = Blanks(e.lines[k].indent * IndentSpaces) \o e.lines[k].text
    BY <1>4 DEF RowText
  <2> QED BY <2>1, <1>1, <1>2, <1>4, RowType, SolidOfRow, PlainText
<1> QED BY <1>3, <1>4

(* The buffer is written and the change noted.                             *)
Buffered(e, buf) == [e EXCEPT !.buf = buf, !.editing = TRUE, !.changed = TRUE]
LEMMA BufferedIs ==
  ASSUME NEW e, Whole(e), NEW buf \in Text, NEW f, f = Buffered(e, buf)
  PROVE  Whole(f) /\ Stays(e, f) /\ f.changed /\ f.editing /\ f.lines = e.lines /\ f.buf = buf
<1>1. /\ f \in EdT /\ f.lines = e.lines /\ f.changed /\ f.cur = e.cur /\ f.al = e.al /\ f.top = e.top
      /\ f.editing /\ f.col = e.col /\ f.buf = buf
  BY DEF EdT, Buffered, Whole, Listed
<1> QED BY <1>1 DEF Whole, Listed, At, Stays

LEMMA line2bufKeeps ==
  ASSUME NEW e, Whole(e), NEW n \in 1 .. Len(e.lines), NEW f, f = line2buf(e, n)
  PROVE  /\ Whole(f) /\ Stays(e, f) /\ f.changed /\ f.editing
         /\ (~e.editing => Wordings(f.lines) = Wordings(e.lines) /\ f.buf = RowText(e, n) /\ f.buf \in Plain)
<1> DEFINE g == IF e.lines[n].folded THEN fold(e, n) ELSE e
           buf == Blanks(g.lines[n].indent * IndentSpaces) \o g.lines[n].text
<1>1. Whole(g) /\ Stays(e, g) /\ Quiet(e, g) /\ (~e.editing => ~g.editing)
  BY foldKeeps, Unmoved
<1>2. f = Buffered(g, buf)
  BY DEF line2buf, With, Buffered
<1>3. ASSUME ~e.editing PROVE SameAt(g.lines[n], e.lines[n])
  <2>1. SameAt(e.lines[n], e.lines[n])
    BY DEF SameAt, Same
  <2> QED BY <2>1, <1>3, foldKeepsRow
<1> HIDE DEF g
<1>4. g.lines[n] \in LineT
  BY <1>1, ListedFields DEF Whole, Stays
<1>5. buf \in Text /\ buf \in Plain
  BY <1>4, RowType, PlainText
<1>6. ASSUME ~e.editing PROVE Wordings(g.lines) = Wordings(e.lines) /\ buf = RowText(e, n)
  <2>1. Wordings(g.lines) = Wordings(e.lines)
    BY <1>1, <1>6, SpokenSettled DEF Quiet, Speaks
  <2>2. buf = RowText(e, n)
    BY <1>3, <1>6 DEF RowText, SameAt, Same
  <2> QED BY <2>1, <2>2
<1> HIDE DEF buf
<1>7. Whole(f) /\ Stays(g, f) /\ f.changed /\ f.editing /\ f.lines = g.lines /\ f.buf = buf
  BY <1>1, <1>2, <1>5, BufferedIs
<1> QED BY <1>1, <1>5, <1>6, <1>7 DEF Stays

LEMMA EditingKeeps ==
  ASSUME NEW e, Whole(e), NEW f, f = Editing(e)
  PROVE  Whole(f) /\ Stays(e, f) /\ f.changed /\ f.editing /\ f.buf = RowText(e, e.cur) /\ Speaks(e, f)
         /\ Spoken(f) = Spoken(e)
<1>1. e.cur \in 1 .. Len(e.lines) /\ (e.editing => e.changed)
  BY DEF Whole, At, Listed
<1>2. CASE e.editing
  BY <1>1, <1>2, Unmoved DEF Editing, RowText, Quiet
<1>3. CASE ~e.editing
  <2>1. /\ Whole(f) /\ Stays(e, f) /\ f.changed /\ f.editing
        /\ Wordings(f.lines) = Wordings(e.lines) /\ f.buf = RowText(e, e.cur) /\ f.buf \in Plain
    BY <1>1, <1>3, line2bufKeeps DEF Editing
  <2>2. /\ DOMAIN e.lines = 1 .. Len(e.lines) /\ DOMAIN f.lines = 1 .. Len(e.lines) /\ f.cur = e.cur
        /\ f.lines \in Seq(LineT) /\ e.lines \in Seq(LineT)
    <3>1. e.lines \in Seq(LineT) /\ f.lines \in Seq(LineT) /\ Len(f.lines) = Len(e.lines) /\ f.cur = e.cur
      BY <2>1, ListedFields DEF Whole, Stays
    <3> QED BY <3>1
  <2>3. Clear(e)
    BY <1>3 DEF Clear
  <2>4. Solid(f.buf) = Spoken(e)[e.cur]
    BY <1>1, <2>1, <2>3, RowSpoken
  <2>5. Spoken(e) = Wordings(e.lines)
    BY <1>3, SpokenSettled
  <2>6. \A k \in 1 .. Len(e.lines) : Solid(f.lines[k].text) = Wordings(e.lines)[k]
    BY <2>1, <2>2 DEF Wordings
  <2>7. Spoken(f) = [k \in 1 .. Len(e.lines) |-> Wordings(e.lines)[k]]
    BY <2>1, <2>2, <2>4, <2>5, <2>6 DEF Spoken
  <2>8. Wordings(e.lines) = [k \in 1 .. Len(e.lines) |-> Wordings(e.lines)[k]]
    BY <2>2 DEF Wordings
  <2>9. Spoken(f) = Spoken(e)
    BY <2>5, <2>7, <2>8
  <2> QED BY <2>1, <2>9 DEF Speaks, Clear
<1> QED BY <1>2, <1>3

LEMMA EditingRow ==
  ASSUME NEW e, Whole(e), NEW f, f = Editing(e)
  PROVE  Len(f.buf) = RowLength(e) /\ f.buf \in Text
BY EditingKeeps, RowTextIs

-----------------------------------------------------------------------------
(* The text on the two sides of the cursor.                                *)
LeftOf(e)  == Solid(SubSeq(RowText(e, e.cur), 1, Smaller(e.col, Len(RowText(e, e.cur)))))
RightOf(e) == Solid(SubSeq(RowText(e, e.cur), e.col + 1, Len(RowText(e, e.cur))))

LEMMA CutType ==
  ASSUME NEW row \in Text, NEW col \in Nat
  PROVE  SubSeq(row, 1, Smaller(col, Len(row))) \in Text /\ SubSeq(row, col + 1, Len(row)) \in Text
<1>1. Len(row) \in Nat /\ \A i \in 1 .. Len(row) : row[i] \in Char
  BY DEF Text
<1>2. Smaller(col, Len(row)) \in Nat /\ Smaller(col, Len(row)) <= Len(row)
  BY <1>1 DEF Smaller
<1> DEFINE m == Smaller(col, Len(row))
<1> HIDE DEF m
<1>3. \A i \in 1 .. m : row[i] \in Char
  BY <1>1, <1>2 DEF m
<1>4. \A i \in col + 1 .. Len(row) : row[i] \in Char
  BY <1>1
<1>5. m \in Int /\ 1 \in Int /\ col + 1 \in Int /\ Len(row) \in Int
  BY <1>1, <1>2 DEF m
<1>6. SubSeq(row, 1, m) \in Seq(Char)
  BY ONLY <1>3, <1>5, SubSeqProperties
<1>7. SubSeq(row, col + 1, Len(row)) \in Seq(Char)
  BY ONLY <1>4, <1>5, SubSeqProperties
<1> QED BY <1>6, <1>7 DEF Text, m

(* A row cut at the cursor has its words in the two parts, also when the   *)
(* cursor is behind its end.                                               *)
LEMMA SolidCut ==
  ASSUME NEW row \in Text, NEW col \in Nat
  PROVE  Solid(SubSeq(row, 1, Smaller(col, Len(row)))) \o Solid(SubSeq(row, col + 1, Len(row))) = Solid(row)
<1>1. Len(row) \in Nat /\ row \in Seq(Char)
  BY DEF Text
<1>2. CASE col < Len(row) \/ col = Len(row)
  <2> DEFINE a == SubSeq(row, 1, col)
             b == SubSeq(row, col + 1, Len(row))
  <2>1. Smaller(col, Len(row)) = col /\ col \in 0 .. Len(row) /\ 1 \in 1 .. Len(row) + 1 /\ col \in 1 - 1 .. Len(row)
        /\ Len(row) \in col .. Len(row)
    BY <1>1, <1>2 DEF Smaller
  <2>2. a \in Text /\ b \in Text
    BY <2>1, Pieces
  <2>3. a \o b = row
    <3>1. a \o b = SubSeq(row, 1, Len(row))
      BY <1>1, <2>1, ConcatAdjacentSubSeq
    <3>2. SubSeq(row, 1, Len(row)) = row
      BY <1>1, SubSeqFull
    <3> HIDE DEF a, b
    <3> QED BY <3>1, <3>2, Zenon
  <2> HIDE DEF a, b
  <2>4. Solid(a \o b) = Solid(a) \o Solid(b)
    BY <2>2, SolidConcat
  <2>5. Solid(a) \o Solid(b) = Solid(row)
    BY <2>3, <2>4, Zenon
  <2>6. SubSeq(row, 1, Smaller(col, Len(row))) = a
    BY <2>1 DEF a
  <2>7. SubSeq(row, col + 1, Len(row)) = b
    BY DEF b
  <2> QED BY <2>5, <2>6, <2>7, Zenon
<1>3. CASE ~(col < Len(row) \/ col = Len(row))
  <2> DEFINE b == SubSeq(row, col + 1, Len(row))
  <2>1. Smaller(col, Len(row)) = Len(row) /\ ~(col + 1 <= Len(row)) /\ col + 1 \in Int
    BY <1>1, <1>3 DEF Smaller
  <2>2. SubSeq(row, 1, Len(row)) = row
    BY <1>1, SubSeqFull
  <2>3. b = <<>>
    <3>1. \A i \in col + 1 .. Len(row) : row[i] \in Char
      BY <1>1, <2>1
    <3>2. b \in Seq(Char) /\ Len(b) = 0
      <4>1. b \in Seq(Char) /\ Len(b) = IF col + 1 <= Len(row) THEN Len(row) - (col + 1) + 1 ELSE 0
        BY ONLY <1>1, <2>1, <3>1, SubSeqProperties
      <4> QED BY <4>1, <2>1
    <3> HIDE DEF b
    <3> QED BY <3>2, EmptySeq
  <2>4. Solid(<<>>) = <<>>
    <3>1. <<>> \in Text /\ \A i \in 1 .. Len(<<>>) : <<>>[i] = Blank
      BY DEF Text
    <3> QED BY <3>1, SolidOfBlanks
  <2>5. Solid(row) \o <<>> = Solid(row)
    BY SolidType, ConcatEmptySeq
  <2> HIDE DEF b
  <2> QED BY <2>1, <2>2, <2>3, <2>4, <2>5 DEF b
<1> QED BY <1>2, <1>3

Joins(x, p, q, y) == (x \o p) \o (q \o y) = (x \o (p \o q)) \o y
LEMMA Joined ==
  ASSUME NEW x \in Seq(Char), NEW p \in Seq(Char), NEW q \in Seq(Char), NEW y \in Seq(Char)
  PROVE  Joins(x, p, q, y)
<1>0. Regroups(Char)
  BY ONLY Regrouped
<1> DEFINE xp == x \o p
<1>1. xp \in Seq(Char)
  BY ConcatProperties
<1>2. (x \o p) \o q = x \o (p \o q)
  BY <1>0, Zenon DEF Regroups
<1> HIDE DEF xp
<1>3. (xp \o q) \o y = xp \o (q \o y)
  BY <1>0, <1>1, Zenon DEF Regroups
<1> QED BY <1>2, <1>3 DEF xp, Joins

LEMMA SolidOfNone == Solid(<<>>) = <<>>
<1>1. <<>> \in Text /\ \A i \in 1 .. Len(<<>>) : <<>>[i] = Blank
  BY DEF Text
<1> QED BY <1>1, SolidOfBlanks

LEMMA SidesAre ==
  ASSUME NEW e, Whole(e)
  PROVE  /\ Above(e) = Run(Spoken(e), 0, e.cur - 1) /\ Below(e) = Run(Spoken(e), e.cur, Len(e.lines) - e.cur)
         /\ Before(e) = Above(e) \o LeftOf(e) /\ Behind(e) = RightOf(e) \o Below(e)
         /\ {Above(e), Below(e), LeftOf(e), RightOf(e)} \subseteq Seq(Char)
         /\ LeftOf(e) \o RightOf(e) = Spoken(e)[e.cur]
<1> DEFINE c == e.cur
           n == Len(e.lines)
           ss == Spoken(e)
           row == RowText(e, c)
<1>1. /\ e.lines \in Seq(LineT) /\ n \in Nat /\ c \in 1 .. n /\ e.col \in Nat /\ e.buf \in Text
  <2>1. Listed(e, n) /\ c \in 1 .. n
    BY DEF Whole, At
  <2> QED BY <2>1, ListedFields, EdFields
<1>2. ss \in Seq(Seq(Char)) /\ Len(ss) = n
  BY <1>1, SpokenIs
<1>3. \A k \in 1 .. n : Solid(RowText(e, k)) = ss[k] /\ RowText(e, k) \in Text
  BY RowSpoken
<1> HIDE DEF ss
<1>4. Above(e) = Run(ss, 0, c - 1)
  <2>1. \A k \in 1 .. c - 1 : k \in 1 .. n /\ 0 + k = k
    BY <1>1
  <2>2. \A k \in 1 .. c - 1 : Solid(RowText(e, k)) = ss[0 + k]
    BY <2>1, <1>3
  <2>3. [k \in 1 .. c - 1 |-> Solid(RowText(e, k))] = Slice(ss, 0, c - 1)
    BY <2>2 DEF Slice
  <2> QED BY <2>3 DEF Above, Run
<1>5. Below(e) = Run(ss, c, n - c)
  <2>1. \A k \in 1 .. n - c : c + k \in 1 .. n
    BY <1>1
  <2>2. \A k \in 1 .. n - c : Solid(RowText(e, c + k)) = ss[c + k]
    BY <2>1, <1>3
  <2>3. [k \in 1 .. n - c |-> Solid(RowText(e, c + k))] = Slice(ss, c, n - c)
    BY <2>2 DEF Slice
  <2> QED BY <2>3 DEF Below, Run
<1>6. LeftOf(e) \o RightOf(e) = ss[c]
  <2>1. row \in Text /\ Solid(row) = ss[c]
    BY <1>1, <1>3
  <2> QED BY <2>1, <1>1, SolidCut DEF LeftOf, RightOf
<1>7. LeftOf(e) \in Seq(Char) /\ RightOf(e) \in Seq(Char)
  <2>1. row \in Text
    BY <1>1, <1>3
  <2>2. SubSeq(row, 1, Smaller(e.col, Len(row))) \in Text /\ SubSeq(row, e.col + 1, Len(row)) \in Text
    <3> HIDE DEF row
    <3> QED BY <2>1, <1>1, CutType
  <2> QED BY <2>2, SolidType DEF LeftOf, RightOf
<1>8. Run(ss, 0, c - 1) \in Seq(Char) /\ Run(ss, c, n - c) \in Seq(Char)
  <2> DEFINE i == 0
             m == c - 1
             q == n - c
  <2>1. i \in Nat /\ m \in Nat /\ c \in Nat /\ q \in Nat /\ i + m <= Len(ss) /\ c + q <= Len(ss)
    BY <1>1, <1>2
  <2> HIDE DEF i, m, q
  <2>2. Run(ss, i, m) \in Seq(Char)
    BY <1>2, <2>1, RunType
  <2>3. Run(ss, c, q) \in Seq(Char)
    BY <1>2, <2>1, RunType
  <2> QED BY <2>2, <2>3 DEF i, m, q
<1>9. Before(e) = Above(e) \o LeftOf(e) /\ Behind(e) = RightOf(e) \o Below(e)
  BY DEF Before, Behind, LeftOf, RightOf
<1> QED BY <1>4, <1>5, <1>6, <1>7, <1>8, <1>9 DEF ss

(* What is before the cursor and what is behind it are the words of the    *)
(* rows.                                                                   *)
LEMMA Around ==
  ASSUME NEW e, Whole(e)
  PROVE  /\ Before(e) \o Behind(e) = FlattenSeq(Spoken(e)) /\ Before(e) \in Seq(Char) /\ Behind(e) \in Seq(Char)
         /\ Before(e) \o Behind(e) = (Above(e) \o Spoken(e)[e.cur]) \o Below(e)
<1> DEFINE x == Above(e)
           y == Below(e)
           p == LeftOf(e)
           q == RightOf(e)
           ss == Spoken(e)
           c == e.cur
<1>1. /\ Before(e) = x \o p /\ Behind(e) = q \o y /\ p \o q = ss[c]
      /\ x \in Seq(Char) /\ y \in Seq(Char) /\ p \in Seq(Char) /\ q \in Seq(Char)
  BY SidesAre
<1>2. FlattenSeq(ss) = (x \o ss[c]) \o y
  <2>1. e.lines \in Seq(LineT) /\ c \in 1 .. Len(e.lines) /\ e.buf \in Text
    BY ListedFields, EdFields DEF Whole, At
  <2>2. ss \in Seq(Seq(Char)) /\ Len(ss) = Len(e.lines)
    BY <2>1, SpokenIs
  <2>3. x = Run(ss, 0, c - 1) /\ y = Run(ss, c, Len(e.lines) - c)
    BY SidesAre
  <2> HIDE DEF ss, x, y, c
  <2>4. FlattenSeq(ss) = (Run(ss, 0, c - 1) \o ss[c]) \o Run(ss, c, Len(ss) - c)
    BY <2>1, <2>2, FlattenSeqAround
  <2> QED BY <2>2, <2>3, <2>4
<1> HIDE DEF x, y, p, q, ss, c
<1>3. x \o p \in Seq(Char) /\ q \o y \in Seq(Char)
  BY ONLY <1>1, ConcatProperties
<1>4. (x \o p) \o (q \o y) = (x \o (p \o q)) \o y
  <2>1. x \in Seq(Char) /\ y \in Seq(Char) /\ p \in Seq(Char) /\ q \in Seq(Char)
    BY <1>1
  <2>2. Joins(x, p, q, y)
    BY ONLY <2>1, Joined
  <2> QED BY <2>2 DEF Joins
<1>5. (x \o p) \o (q \o y) = FlattenSeq(ss)
  BY ONLY <1>1, <1>2, <1>4
<1>6. /\ Before(e) \o Behind(e) = FlattenSeq(ss) /\ Before(e) \in Seq(Char) /\ Behind(e) \in Seq(Char)
      /\ Before(e) \o Behind(e) = (x \o ss[c]) \o y
  BY ONLY <1>1, <1>2, <1>3, <1>5
<1> QED BY <1>6 DEF ss, x, y, c

-----------------------------------------------------------------------------
(* The words of all lines.                                                  *)
LEMMA TextsType ==
  ASSUME NEW ls \in Seq(LineT)
  PROVE  Texts(ls) \in Seq(Char)
BY WordingsType, TextsIs, FlattenSeqType

LEMMA TextsConcat ==
  ASSUME NEW a \in Seq(LineT), NEW b \in Seq(LineT)
  PROVE  Texts(a \o b) = Texts(a) \o Texts(b)
<1>1. /\ a \o b \in Seq(LineT) /\ Len(a \o b) = Len(a) + Len(b)
      /\ \A i \in 1 .. Len(a) + Len(b) : (a \o b)[i] = IF i <= Len(a) THEN a[i] ELSE b[i - Len(a)]
  BY ConcatProperties
<1> DEFINE u == Wordings(a)
           v == Wordings(b)
           w == Wordings(a \o b)
<1>2. /\ u \in Seq(Seq(Char)) /\ Len(u) = Len(a) /\ \A i \in 1 .. Len(a) : u[i] = Solid(a[i].text)
  BY WordingsType
<1>3. /\ v \in Seq(Seq(Char)) /\ Len(v) = Len(b) /\ \A i \in 1 .. Len(b) : v[i] = Solid(b[i].text)
  BY WordingsType
<1>4. /\ w \in Seq(Seq(Char)) /\ Len(w) = Len(a) + Len(b)
      /\ \A i \in 1 .. Len(a) + Len(b) : w[i] = Solid((a \o b)[i].text)
  BY <1>1, WordingsType
<1>5. Texts(a) = FlattenSeq(u) /\ Texts(b) = FlattenSeq(v) /\ Texts(a \o b) = FlattenSeq(w)
  BY TextsIs
<1> HIDE DEF u, v, w
<1>6. /\ u \o v \in Seq(Seq(Char)) /\ Len(u \o v) = Len(u) + Len(v)
      /\ \A i \in 1 .. Len(u) + Len(v) : (u \o v)[i] = IF i <= Len(u) THEN u[i] ELSE v[i - Len(u)]
  <2>1. u \in Seq(Seq(Char)) /\ v \in Seq(Seq(Char))
    BY <1>2, <1>3
  <2> QED BY ONLY <2>1, ConcatProperties
<1>7. w = u \o v
  <2>1. ASSUME NEW i \in 1 .. Len(a) + Len(b) PROVE w[i] = (u \o v)[i]
    <3>1. Len(a) \in Nat /\ Len(b) \in Nat
      OBVIOUS
    <3>2. CASE i <= Len(a)
      <4>1. i \in 1 .. Len(a)
        BY <3>1, <3>2
      <4>2. w[i] = Solid(a[i].text) /\ (u \o v)[i] = u[i]
        BY <3>1, <3>2, <1>1, <1>2, <1>3, <1>4, <1>6
      <4> QED BY <4>1, <4>2, <1>2
    <3>3. CASE ~(i <= Len(a))
      <4>1. i - Len(a) \in 1 .. Len(b)
        BY <3>1, <3>3
      <4>2. w[i] = Solid(b[i - Len(a)].text) /\ (u \o v)[i] = v[i - Len(a)]
        BY <3>1, <3>3, <1>1, <1>2, <1>3, <1>4, <1>6
      <4> QED BY <4>1, <4>2, <1>3
    <3> QED BY <3>2, <3>3
  <2>2. Len(w) = Len(u \o v)
    BY <1>2, <1>3, <1>4, <1>6
  <2> QED BY ONLY <2>1, <2>2, <1>2, <1>3, <1>4, <1>6, SeqEqual
<1> QED BY <1>2, <1>3, <1>5, <1>7, FlattenSeqConcat

LEMMA TextsOfOne ==
  ASSUME NEW l \in LineT, l.text = <<>>
  PROVE  Texts(<<l>>) = <<>>
<1> DEFINE ls == <<l>>
           w == Wordings(ls)
<1>1. ls \in Seq(LineT) /\ Len(ls) = 1 /\ ls[1].text = <<>>
  OBVIOUS
<1> HIDE DEF ls
<1>2. w \in Seq(Seq(Char)) /\ Len(w) = 1 /\ w[1] = Solid(<<>>)
  <2>1. \A i \in 1 .. Len(ls) : Wordings(ls)[i] = Solid(ls[i].text)
    BY <1>1, WordingsType
  <2>2. Wordings(ls)[1] = Solid(ls[1].text)
    BY <1>1, <2>1
  <2>3. Wordings(ls) \in Seq(Seq(Char)) /\ Len(Wordings(ls)) = Len(ls)
    BY ONLY <1>1, WordingsType
  <2> QED BY <1>1, <2>2, <2>3
<1>3. Solid(<<>>) = <<>>
  <2>1. <<>> \in Text /\ Len(<<>>) = 0
    BY DEF Text
  <2>2. Items(<<>>) \in Seq(Seq(Char)) /\ Len(Items(<<>>)) = 0
    BY <2>1, ItemsType
  <2>3. PICK h : h[0] = <<>> /\ h[Len(Items(<<>>))] = FlattenSeq(Items(<<>>))
    BY <2>2, FlattenSeqSteps
  <2> QED BY <2>2, <2>3, SolidIs
<1> HIDE DEF w
<1>4. PICK h : /\ h \in [0 .. Len(w) -> Seq(Char)] /\ h[0] = <<>> /\ h[Len(w)] = FlattenSeq(w)
               /\ \A k \in 1 .. Len(w) : h[k] = h[k - 1] \o w[k]
  BY <1>2, FlattenSeqSteps
<1>5. h[1] = h[0] \o w[1]
  <2>1. 1 \in 1 .. Len(w) /\ 1 - 1 = 0
    BY <1>2
  <2>2. h[1] = h[1 - 1] \o w[1]
    BY ONLY <1>4, <2>1
  <2> QED BY ONLY <2>1, <2>2
<1>6. <<>> \o <<>> = <<>>
  OBVIOUS
<1>7. Texts(ls) = FlattenSeq(w)
  BY TextsIs DEF w
<1>8. h[1] = FlattenSeq(w)
  BY <1>2, <1>4
<1>9. Texts(ls) = <<>>
  BY ONLY <1>2, <1>3, <1>4, <1>5, <1>6, <1>7, <1>8
<1> QED BY <1>9 DEF ls

(* An empty line has no words.                                             *)
LEMMA TextsInsert ==
  ASSUME NEW ls \in Seq(LineT), NEW n \in 1 .. Len(ls) + 1, NEW l \in LineT, l.text = <<>>
  PROVE  Texts(InsertAt(ls, n, l)) = Texts(ls)
<1> DEFINE a == SubSeq(ls, 1, n - 1)
           b == SubSeq(ls, n, Len(ls))
<1>0. InsertAt(ls, n, l) = Append(a, l) \o b /\ ls = a \o b /\ a \in Seq(LineT) /\ b \in Seq(LineT)
  <2>1. InsertAt(ls, n, l) = Append(a, l) \o b
    BY ONLY ls \in Seq(LineT), n \in 1 .. Len(ls) + 1, l \in LineT, InsertedParts
  <2>2. ls = a \o b
    BY ONLY ls \in Seq(LineT), n \in 1 .. Len(ls) + 1, l \in LineT, InsertedParts
  <2>3. a \in Seq(LineT)
    BY ONLY ls \in Seq(LineT), n \in 1 .. Len(ls) + 1, l \in LineT, InsertedParts
  <2>4. b \in Seq(LineT)
    BY ONLY ls \in Seq(LineT), n \in 1 .. Len(ls) + 1, l \in LineT, InsertedParts
  <2> HIDE DEF a, b
  <2> QED BY <2>1, <2>2, <2>3, <2>4
<1>1. InsertAt(ls, n, l) = (a \o <<l>>) \o b /\ ls = a \o b /\ a \in Seq(LineT) /\ b \in Seq(LineT)
  <2> HIDE DEF a, b
  <2>1. Append(a, l) = a \o <<l>>
    BY <1>0, AppendIsConcat
  <2> QED BY <1>0, <2>1
<1> HIDE DEF a, b
<1>2. <<l>> \in Seq(LineT)
  OBVIOUS
<1>3. a \o <<l>> \in Seq(LineT)
  BY <1>1, <1>2, ConcatProperties
<1>4. Texts((a \o <<l>>) \o b) = Texts(a \o <<l>>) \o Texts(b)
  BY <1>1, <1>3, TextsConcat
<1>5. Texts(a \o <<l>>) = Texts(a) \o Texts(<<l>>)
  BY <1>1, <1>2, TextsConcat
<1>6. Texts(a) \o <<>> = Texts(a)
  BY <1>1, TextsType, ConcatEmptySeq
<1>7. Texts(a \o b) = Texts(a) \o Texts(b)
  BY <1>1, TextsConcat
<1> QED BY <1>1, <1>4, <1>5, <1>6, <1>7, TextsOfOne

-----------------------------------------------------------------------------
(* The cursor's place in the line and in the list.                         *)
SameList(e, f) == /\ f.lines = e.lines /\ f.cur = e.cur /\ f.al = e.al /\ f.top = e.top
                  /\ f.editing = e.editing /\ f.changed = e.changed
LEMMA Lasting ==
  ASSUME NEW e, Whole(e), NEW f \in EdT, SameList(e, f)
  PROVE  Whole(f) /\ Noted(e, f) /\ (f.buf = e.buf => Quiet(e, f) /\ Alike(e, f))
<1>1. Whole(f) /\ Noted(e, f)
  BY DEF Whole, Listed, At, Noted, SameList
<1>2. ASSUME f.buf = e.buf PROVE Alike(e, f)
  BY <1>1, <1>2 DEF Alike, SameBuffer, SameList, Spoken
<1> QED BY <1>1, <1>2, AlikeIs

WithCol(e, x) == [e EXCEPT !.col = x]
WithColCount(e, x, y) == [e EXCEPT !.col = x, !.num_lines = y]
WithColBuf(e, x, buf) == [e EXCEPT !.col = x, !.buf = buf]
WithBuf(e, buf) == [e EXCEPT !.buf = buf]
WithCount(e, y) == [e EXCEPT !.num_lines = y]
LEMMA WithColIs ==
  ASSUME NEW e, Whole(e), NEW x \in Nat, NEW f, f = WithCol(e, x)
  PROVE  Whole(f) /\ Quiet(e, f) /\ Alike(e, f) /\ f.lines = e.lines /\ f.changed = e.changed /\ f.cur = e.cur
         /\ f.editing = e.editing /\ f.buf = e.buf /\ f.col = x
<1>1. f \in EdT /\ SameList(e, f) /\ f.buf = e.buf /\ f.col = x
  BY DEF EdT, Whole, Listed, SameList, WithCol
<1> QED BY <1>1, Lasting DEF SameList
LEMMA WithColCountIs ==
  ASSUME NEW e, Whole(e), NEW x \in Nat, NEW y \in Int, NEW f, f = WithColCount(e, x, y)
  PROVE  Whole(f) /\ Quiet(e, f) /\ Alike(e, f) /\ f.lines = e.lines /\ f.changed = e.changed /\ f.cur = e.cur
         /\ f.editing = e.editing /\ f.buf = e.buf /\ f.col = x
<1>1. f \in EdT /\ SameList(e, f) /\ f.buf = e.buf /\ f.col = x
  BY DEF EdT, Whole, Listed, SameList, WithColCount
<1> QED BY <1>1, Lasting DEF SameList
LEMMA WithColBufIs ==
  ASSUME NEW e, Whole(e), NEW x \in Nat, NEW buf \in Text, NEW f, f = WithColBuf(e, x, buf)
  PROVE  Whole(f) /\ Noted(e, f) /\ f.lines = e.lines /\ f.changed = e.changed /\ f.cur = e.cur
         /\ f.editing = e.editing /\ f.buf = buf /\ f.col = x
<1>1. f \in EdT /\ SameList(e, f) /\ f.buf = buf /\ f.col = x
  BY DEF EdT, Whole, Listed, SameList, WithColBuf
<1> QED BY <1>1, Lasting DEF SameList
LEMMA WithBufIs ==
  ASSUME NEW e, Whole(e), NEW buf \in Text, NEW f, f = WithBuf(e, buf)
  PROVE  Whole(f) /\ Noted(e, f) /\ f.lines = e.lines /\ f.changed = e.changed /\ f.cur = e.cur
         /\ f.col = e.col /\ f.editing = e.editing /\ f.buf = buf
<1>1. f \in EdT /\ SameList(e, f) /\ f.col = e.col /\ f.buf = buf
  BY DEF EdT, Whole, Listed, SameList, WithBuf
<1> QED BY <1>1, Lasting DEF SameList
LEMMA WithCountIs ==
  ASSUME NEW e, Whole(e), NEW y \in Int, NEW f, f = WithCount(e, y)
  PROVE  Whole(f) /\ Quiet(e, f) /\ Alike(e, f) /\ f.lines = e.lines /\ f.changed = e.changed /\ f.cur = e.cur
         /\ f.editing = e.editing /\ f.buf = e.buf
<1>1. f \in EdT /\ SameList(e, f) /\ f.buf = e.buf
  BY DEF EdT, Whole, Listed, SameList, WithCount
<1> QED BY <1>1, Lasting DEF SameList

Moved(e, n, x, y) == [e EXCEPT !.cur = n, !.al = x, !.vl = y]
LEMMA MovedIs ==
  ASSUME NEW e \in EdT, NEW n \in Nat, NEW x \in Int, NEW y \in Int, NEW f, f = Moved(e, n, x, y)
  PROVE  /\ f \in EdT /\ f.lines = e.lines /\ f.cur = n /\ f.al = x /\ f.top = e.top /\ f.editing = e.editing
         /\ f.changed = e.changed /\ f.col = e.col /\ f.buf = e.buf
BY DEF EdT, Moved

LEMMA CursorIs ==
  ASSUME NEW e, Listed(e, Len(e.lines)), NEW n \in 1 .. Len(e.lines), NEW f, f = Cursor(e, n)
  PROVE  /\ Whole(f) /\ Noted(e, f) /\ f.lines = e.lines /\ f.cur = n /\ f.changed = e.changed
         /\ f.editing = e.editing /\ f.col = e.col /\ f.buf = e.buf
         /\ (~e.editing => Quiet(e, f))
<1>1. /\ e \in EdT /\ e.lines \in Seq(LineT) /\ Upto(e.lines, Len(e.lines))
      /\ e.lines[n] \in LineT /\ Len(e.lines) \in 1 .. Len(e.lines)
  BY ListedFields
<1>2. e.lines[n].a = n - 1
  BY <1>1, Numbers
<1>3. e.lines[n].a \in Int /\ e.lines[n].v \in Int /\ n \in Nat
  BY <1>1, LineFields
<1>4. f = Moved(e, n, e.lines[n].a, e.lines[n].v)
  BY DEF Cursor, Moved
<1>5. /\ Whole(f) /\ Noted(e, f) /\ f.lines = e.lines /\ f.cur = n /\ f.changed = e.changed
      /\ f.editing = e.editing /\ f.col = e.col /\ f.buf = e.buf
  BY <1>1, <1>2, <1>3, <1>4, MovedIs DEF Whole, Listed, At, Noted
<1> QED BY <1>5, SpeaksLines DEF Quiet

-----------------------------------------------------------------------------
(* A line is taken out: what is before it stays in order.                  *)
Deleted(e, ls) == [e EXCEPT !.lines = ls, !.top = 0, !.changed = TRUE]
LEMMA DeletedIs ==
  ASSUME NEW e \in EdT, NEW ls \in Seq(LineT), NEW f, f = Deleted(e, ls)
  PROVE  /\ f \in EdT /\ f.lines = ls /\ f.top = 0 /\ f.changed /\ f.cur = e.cur /\ f.al = e.al
         /\ f.col = e.col /\ f.editing = e.editing /\ f.buf = e.buf
BY DEF EdT, Deleted

LEMMA deleteLineOrders ==
  ASSUME NEW e, Whole(e), NEW n \in 1 .. Len(e.lines), Len(e.lines) >= 2, NEW f, f = deleteLine(e, n)
  PROVE  /\ Listed(f, Larger(1, n - 1)) /\ Len(f.lines) = Len(e.lines) - 1 /\ f.changed
         /\ f.cur = e.cur /\ f.al = e.al /\ f.col = e.col /\ f.editing = e.editing /\ f.buf = e.buf
         /\ \A k \in 1 .. n - 1 : f.lines[k].text = e.lines[k].text
         /\ \A k \in n .. Len(e.lines) - 1 : f.lines[k].text = e.lines[k + 1].text
<1> DEFINE rest == RemoveAt(e.lines, n)
           new == [rest EXCEPT ![1] = Numbered(rest[1], 0, 0)]
           ls == IF n = 1 THEN new ELSE rest
<1>1. /\ e \in EdT /\ e.lines \in Seq(LineT) /\ Len(e.lines) \in Nat /\ Upto(e.lines, Len(e.lines))
  BY ListedFields DEF Whole
<1>2. /\ rest \in Seq(LineT) /\ Len(rest) = Len(e.lines) - 1
      /\ \A k \in 1 .. n - 1 : rest[k] = e.lines[k]
      /\ \A k \in n .. Len(e.lines) - 1 : rest[k] = e.lines[k + 1]
  BY <1>1, RemovedIs
<1>3. rest[1] \in LineT
  <2> HIDE DEF rest
  <2> QED BY <1>1, <1>2
<1> HIDE DEF rest
<1>4. /\ Numbered(rest[1], 0, 0) \in LineT /\ Numbered(rest[1], 0, 0).a = 0
      /\ Numbered(rest[1], 0, 0).text = rest[1].text
  BY <1>3, EnteredIs
<1>5. /\ new \in Seq(LineT) /\ Len(new) = Len(rest) /\ new[1] = Numbered(rest[1], 0, 0)
      /\ \A k \in 1 .. Len(rest) : k # 1 => new[k] = rest[k]
  <2>1. 1 \in 1 .. Len(rest)
    BY <1>1, <1>2
  <2> QED BY ONLY <1>2, <1>4, <2>1, ExceptSeq
<1>6. f = Deleted(e, ls)
  <2>1. CASE n = 1
    <3>1. [rest EXCEPT ![1].a = 0, ![1].v = 0] = new
      BY <1>2, <1>3 DEF Numbered, LineT
    <3> HIDE DEF new
    <3> QED BY <2>1, <3>1 DEF deleteLine, Deleted, rest
  <2>2. CASE n # 1
    BY <2>2 DEF deleteLine, Deleted, rest
  <2> QED BY <2>1, <2>2
<1>7. ls \in Seq(LineT) /\ Len(ls) = Len(e.lines) - 1
  <2> HIDE DEF new
  <2> QED BY <1>2, <1>5
<1>8. Upto(ls, Larger(1, n - 1))
  <2>1. CASE n = 1
    <3>1. ls[1].a = 0 /\ Larger(1, n - 1) = 1
      BY <2>1, <1>4, <1>5 DEF Larger
    <3> HIDE DEF ls
    <3> QED BY <3>1 DEF Upto
  <2>2. CASE n # 1
    <3>1. Larger(1, n - 1) = n - 1 /\ ls = rest
      BY <2>2 DEF Larger
    <3>2. rest[1].a = 0
      BY <2>2, <1>1, <1>2 DEF Upto
    <3>3. ASSUME NEW k \in 2 .. n - 1 PROVE Follows(rest, k)
      <4>1. k \in 2 .. Len(e.lines) /\ k \in 1 .. n - 1 /\ k - 1 \in 1 .. n - 1
        BY <1>1
      <4>2. Follows(e.lines, k)
        BY <4>1, <1>1 DEF Upto
      <4> QED BY <4>1, <4>2, <1>2 DEF Follows, IndentOf
    <3> QED BY <3>1, <3>2, <3>3 DEF Upto
  <2> QED BY <2>1, <2>2
<1>10. \A k \in 1 .. Len(e.lines) - 1 : ls[k].text = rest[k].text
  <2> TAKE k \in 1 .. Len(e.lines) - 1
  <2>1. new[k].text = rest[k].text
    <3> HIDE DEF new
    <3>1. CASE k = 1
      BY <3>1, <1>4, <1>5
    <3>2. CASE k # 1
      BY <3>2, <1>2, <1>5
    <3> QED BY <3>1, <3>2
  <2> HIDE DEF new
  <2> QED BY <2>1
<1> HIDE DEF ls
<1>11. /\ \A k \in 1 .. n - 1 : ls[k].text = e.lines[k].text
       /\ \A k \in n .. Len(e.lines) - 1 : ls[k].text = e.lines[k + 1].text
  <2>1. ASSUME NEW k \in 1 .. n - 1 PROVE ls[k].text = e.lines[k].text
    <3>1. k \in 1 .. Len(e.lines) - 1
      BY <1>1
    <3> QED BY <3>1, <1>2, <1>10
  <2>2. ASSUME NEW k \in n .. Len(e.lines) - 1 PROVE ls[k].text = e.lines[k + 1].text
    <3>1. k \in 1 .. Len(e.lines) - 1
      BY <1>1
    <3> QED BY <3>1, <1>2, <1>10
  <2> QED BY <2>1, <2>2
<1>9. Larger(1, n - 1) \in 1 .. Len(e.lines) - 1
  BY <1>1 DEF Larger
<1>12. /\ f \in EdT /\ f.lines = ls /\ f.top = 0 /\ f.changed /\ f.cur = e.cur /\ f.al = e.al
       /\ f.col = e.col /\ f.editing = e.editing /\ f.buf = e.buf
  BY <1>1, <1>6, <1>7, DeletedIs
<1>13. Listed(f, Larger(1, n - 1))
  BY <1>1, <1>7, <1>8, <1>9, <1>12 DEF Listed
<1> QED BY <1>7, <1>11, <1>12, <1>13

(* A line is put in behind the cursor's.                                   *)
Inserting(e, ls, text) == [e EXCEPT !.lines = ls, !.buf = text]
LEMMA InsertingIs ==
  ASSUME NEW e \in EdT, NEW ls \in Seq(LineT), NEW text \in Text, NEW f, f = Inserting(e, ls, text)
  PROVE  /\ f \in EdT /\ f.lines = ls /\ f.cur = e.cur /\ f.al = e.al /\ f.top = e.top
         /\ f.editing = e.editing /\ f.changed = e.changed /\ f.buf = text
BY DEF EdT, Inserting

LEMMA OpenedKeeps ==
  ASSUME NEW e, Listed(e, Len(e.lines)), e.cur \in 1 .. Len(e.lines), NEW text \in Text,
         e.changed \/ text = <<>>, NEW f, f = Opened(e, text)
  PROVE  /\ Whole(f) /\ Noted(e, f) /\ (~e.editing => ~f.editing) /\ f.cur = e.cur + 1 /\ f.col = 0
         /\ Len(f.lines) = Len(e.lines) + 1 /\ f.lines[e.cur + 1].text = TextIn(text)
         /\ \A k \in 1 .. e.cur : f.lines[k].text = e.lines[k].text
         /\ \A k \in e.cur + 2 .. Len(e.lines) + 1 : f.lines[k].text = e.lines[k - 1].text
<1> DEFINE c == e.cur
           l == buf2line(text)
           ls == InsertAt(e.lines, c + 1, l)
           g == Inserting(e, ls, text)
           h == indentSuccLines(g, c)
           k == Cursor(h, c + 1)
<1>1. /\ e \in EdT /\ e.lines \in Seq(LineT) /\ Len(e.lines) \in Nat /\ Upto(e.lines, Len(e.lines))
      /\ e.top \in 0 .. Len(e.lines) /\ (e.editing => e.changed)
      /\ c \in Nat /\ c + 1 \in 1 .. Len(e.lines) + 1 /\ c \in 1 .. Len(e.lines) + 1
  BY ListedFields
<1>2. l \in LineT /\ l.text = TextIn(text)
  BY buf2lineIs
<1> HIDE DEF l
<1>3. /\ ls \in Seq(LineT) /\ Len(ls) = Len(e.lines) + 1 /\ \A i \in 1 .. c : ls[i] = e.lines[i]
      /\ ls[c + 1] = l /\ \A i \in c + 2 .. Len(e.lines) + 1 : ls[i] = e.lines[i - 1]
  <2>1. /\ ls \in Seq(LineT) /\ Len(ls) = Len(e.lines) + 1
        /\ \A i \in 1 .. (c + 1) - 1 : ls[i] = e.lines[i]
        /\ ls[c + 1] = l
        /\ \A i \in (c + 1) + 1 .. Len(e.lines) + 1 : ls[i] = e.lines[i - 1]
    <3> DEFINE old == e.lines
               n == c + 1
    <3>1. old \in Seq(LineT) /\ n \in 1 .. Len(old) + 1 /\ l \in LineT
      BY <1>1, <1>2
    <3> HIDE DEF old, n
    <3>2. /\ InsertAt(old, n, l) \in Seq(LineT) /\ Len(InsertAt(old, n, l)) = Len(old) + 1
          /\ \A i \in 1 .. n - 1 : InsertAt(old, n, l)[i] = old[i]
          /\ InsertAt(old, n, l)[n] = l
          /\ \A i \in n + 1 .. Len(old) + 1 : InsertAt(old, n, l)[i] = old[i - 1]
      BY ONLY <3>1, InsertedIs
    <3> QED BY <3>2 DEF old, n
  <2> HIDE DEF ls
  <2> QED BY <1>1, <2>1
<1>4. e.changed \/ Texts(ls) = Texts(e.lines)
  <2>1. CASE text = <<>>
    <3>1. TextIn(<<>>) = <<>>
      BY DEF TextIn
    <3> QED BY <3>1, <2>1, <1>1, <1>2, TextsInsert
  <2> QED BY <2>1
<1> HIDE DEF ls
<1>5. /\ g \in EdT /\ g.lines = ls /\ g.cur = c /\ g.al = e.al /\ g.top = e.top
      /\ g.editing = e.editing /\ g.changed = e.changed
  BY <1>1, <1>3, InsertingIs
<1> HIDE DEF g
<1>6. Upto(ls, c)
  <2>1. ls[1].a = 0
    BY <1>1, <1>3 DEF Upto
  <2>2. ASSUME NEW i \in 2 .. c PROVE Follows(ls, i)
    <3>1. i \in 2 .. Len(e.lines) /\ i \in 1 .. c /\ i - 1 \in 1 .. c
      BY <1>1
    <3>2. Follows(e.lines, i)
      BY <3>1, <1>1 DEF Upto
    <3> QED BY <3>1, <3>2, <1>3 DEF Follows, IndentOf
  <2> QED BY <2>1, <2>2 DEF Upto
<1>7. Listed(g, c)
  BY <1>1, <1>3, <1>5, <1>6 DEF Listed
<1>8. /\ Listed(h, Len(h.lines)) /\ Len(h.lines) = Len(e.lines) + 1 /\ Quiet(g, h) /\ SameRest(g, h)
      /\ \A i \in 1 .. Len(e.lines) + 1 : h.lines[i].text = ls[i].text
  <2>1. /\ Listed(h, Len(h.lines)) /\ Len(h.lines) = Len(g.lines) /\ Quiet(g, h) /\ SameRest(g, h)
        /\ \A i \in 1 .. Len(g.lines) : h.lines[i].text = g.lines[i].text
    BY ONLY <1>7, indentSuccLinesOrders
  <2> HIDE DEF h
  <2> QED BY <1>3, <1>5, <2>1
<1> HIDE DEF h
<1>9. Whole(k) /\ Noted(h, k) /\ k.cur = c + 1 /\ k.lines = h.lines /\ k.editing = h.editing
  BY <1>1, <1>8, CursorIs
<1>10. k \in EdT /\ k.num_lines + 1 \in Int
  <2> HIDE DEF k
  <2>1. k \in EdT
    BY <1>9 DEF Whole, Listed
  <2>2. k.num_lines \in Int
    BY <2>1, EdFields
  <2> QED BY <2>1, <2>2
<1> HIDE DEF k
<1>11. f = WithColCount(k, 0, k.num_lines + 1)
  BY DEF Opened, With, WithColCount, k, h, g, Inserting, ls, l
<1>12. Whole(f) /\ Noted(k, f) /\ f.lines = k.lines /\ f.cur = k.cur /\ f.editing = k.editing /\ f.col = 0
  <2>1. Whole(f) /\ Alike(k, f) /\ f.lines = k.lines /\ f.cur = k.cur /\ f.editing = k.editing /\ f.col = 0
    <3> DEFINE z == 0
               y == k.num_lines + 1
    <3>1. f = WithColCount(k, z, y)
      BY <1>11
    <3>4. z \in Nat /\ y \in Int
      BY <1>10
    <3> HIDE DEF z, y
    <3>2. Whole(k)
      BY <1>9
    <3>3. \A r : r = WithColCount(k, z, y) =>
            Whole(r) /\ Alike(k, r) /\ r.lines = k.lines /\ r.cur = k.cur /\ r.editing = k.editing /\ r.col = z
      BY ONLY <3>2, <3>4, WithColCountIs
    <3> QED BY <3>1, <3>3 DEF z
  <2> QED BY <2>1, AlikeIs
<1>13. Noted(e, g)
  BY <1>4, <1>5 DEF Noted
<1>14. Noted(e, f)
  BY <1>8, <1>9, <1>12, <1>13, NotedTrans DEF Quiet
<1>15. /\ (~e.editing => ~f.editing) /\ f.cur = c + 1 /\ Len(f.lines) = Len(e.lines) + 1
       /\ f.lines[c + 1].text = TextIn(text)
  BY <1>1, <1>2, <1>3, <1>5, <1>8, <1>9, <1>12 DEF SameRest
<1>16. \A i \in 1 .. Len(e.lines) + 1 : f.lines[i].text = ls[i].text
  BY <1>8, <1>9, <1>12
<1>17. \A i \in 1 .. c : f.lines[i].text = e.lines[i].text
  <2> TAKE i \in 1 .. c
  <2>1. i \in 1 .. Len(e.lines) + 1 /\ ls[i] = e.lines[i]
    BY <1>1, <1>3
  <2> QED BY <2>1, <1>16
<1>18. \A i \in c + 2 .. Len(e.lines) + 1 : f.lines[i].text = e.lines[i - 1].text
  <2> TAKE i \in c + 2 .. Len(e.lines) + 1
  <2>1. i \in 1 .. Len(e.lines) + 1 /\ ls[i] = e.lines[i - 1]
    BY <1>1, <1>3
  <2> QED BY <2>1, <1>16
<1> QED BY <1>12, <1>14, <1>15, <1>17, <1>18

-----------------------------------------------------------------------------
(* The length of the buffer is that of the row it is made of.              *)
LEMMA LastFoldedIn ==
  ASSUME NEW ls \in Seq(LineT), NEW n \in 1 .. Len(ls)
  PROVE  LastFolded(ls, n) \in 1 .. Len(ls) /\ (~ls[n].folded => LastFolded(ls, n) = n)
<1> DEFINE S == {i \in n..Len(ls) : (i = Len(ls) \/ ~ls[i + 1].folded) /\ \A j \in n..i : ls[j].folded}
<1>1. S \subseteq 1 .. Len(ls)
  OBVIOUS
<1>2. LastFolded(ls, n) = IF S = {} THEN n ELSE CHOOSE i \in S : TRUE
  BY DEF LastFolded
<1>5. ~ls[n].folded => S = {}
  OBVIOUS
<1> HIDE DEF S
<1>3. CASE S = {}
  BY <1>2, <1>3
<1>4. CASE S # {}
  <2>1. (CHOOSE i \in S : TRUE) \in S
    BY <1>4
  <2> QED BY <1>1, <1>2, <1>4, <1>5, <2>1
<1> QED BY <1>3, <1>4

LEMMA PlainPieces ==
  ASSUME NEW buf \in Plain, NEW n \in 0 .. Len(buf)
  PROVE  SubSeq(buf, 1, n) \in Plain /\ SubSeq(buf, n + 1, Len(buf)) \in Plain
<1>1. Len(buf) \in Nat /\ \A i \in 1 .. Len(buf) : buf[i] \in Char \ {Nul}
  BY DEF Plain
<1>2. \A i \in 1 .. n : buf[i] \in Char \ {Nul}
  BY <1>1
<1>3. \A i \in n + 1 .. Len(buf) : buf[i] \in Char \ {Nul}
  BY <1>1
<1>4. SubSeq(buf, 1, n) \in Seq(Char \ {Nul})
  BY <1>1, <1>2, SubSeqProperties
<1>5. SubSeq(buf, n + 1, Len(buf)) \in Seq(Char \ {Nul})
  BY <1>1, <1>3, SubSeqProperties
<1> QED BY <1>4, <1>5 DEF Plain

(* A line is parted at the cursor.                                         *)
SpreadOut(f, r) ==
  /\ \A k \in 1 .. f.cur - 1 : r.lines[k].text = f.lines[k].text
  /\ \A k \in f.cur + 2 .. Len(f.lines) + 1 : r.lines[k].text = f.lines[k - 1].text
Parted(e, r) ==
  /\ ~r.editing /\ r.cur = e.cur + 1 /\ r.col = 0 /\ Len(r.lines) = Len(e.lines) + 1
  /\ \A k \in 1 .. e.cur - 1 : Solid(r.lines[k].text) = Spoken(e)[k]
  /\ Solid(r.lines[e.cur].text) = LeftOf(e)
  /\ Solid(r.lines[e.cur + 1].text) = RightOf(e)
  /\ \A k \in e.cur + 2 .. Len(e.lines) + 1 : Solid(r.lines[k].text) = Spoken(e)[k - 1]

LEMMA PartedIs ==
  ASSUME NEW e, NEW f, Whole(f), Spoken(f) = Spoken(e), f.cur = e.cur, Len(f.lines) = Len(e.lines),
         NEW r, SpreadOut(f, r), ~r.editing, r.cur = e.cur + 1, r.col = 0, Len(r.lines) = Len(e.lines) + 1,
         Solid(r.lines[e.cur].text) = LeftOf(e), Solid(r.lines[e.cur + 1].text) = RightOf(e)
  PROVE  Parted(e, r)
<1> DEFINE c == f.cur
           n == Len(f.lines)
<1>1. f.lines \in Seq(LineT) /\ f.buf \in Text /\ n \in Nat /\ c \in 1 .. n
  BY ListedFields, EdFields DEF Whole, At
<1>2. \A k \in 1 .. n : Spoken(f)[k] = IF f.editing /\ k = c THEN Solid(f.buf) ELSE Solid(f.lines[k].text)
  BY <1>1, SpokenIs
<1>3. ASSUME NEW k \in 1 .. c - 1 PROVE Solid(r.lines[k].text) = Spoken(f)[k]
  <2>1. k \in 1 .. n /\ k # c
    BY <1>1
  <2>2. r.lines[k].text = f.lines[k].text
    BY DEF SpreadOut
  <2> QED BY <2>1, <2>2, <1>2
<1>4. ASSUME NEW k \in c + 2 .. n + 1 PROVE Solid(r.lines[k].text) = Spoken(f)[k - 1]
  <2>1. k - 1 \in 1 .. n /\ k - 1 # c
    BY <1>1
  <2>2. r.lines[k].text = f.lines[k - 1].text
    BY DEF SpreadOut
  <2> QED BY <2>1, <2>2, <1>2
<1> QED BY <1>3, <1>4 DEF Parted

LEMMA PartedSides ==
  ASSUME NEW e, Whole(e), NEW r, Whole(r), Parted(e, r)
  PROVE  Before(r) = Before(e) /\ Behind(r) = Behind(e)
<1> DEFINE c == e.cur
           n == Len(e.lines)
           ss == Spoken(e)
           tt == Spoken(r)
<1>1. /\ e.lines \in Seq(LineT) /\ n \in Nat /\ c \in 1 .. n /\ e.buf \in Text
      /\ r.lines \in Seq(LineT) /\ r.buf \in Text
  BY ListedFields, EdFields DEF Whole, At
<1>2. ~r.editing /\ r.cur = c + 1 /\ r.col = 0 /\ Len(r.lines) = n + 1
  BY DEF Parted
<1>3. /\ ss \in Seq(Seq(Char)) /\ Len(ss) = n /\ tt \in Seq(Seq(Char)) /\ Len(tt) = n + 1
      /\ \A k \in 1 .. n + 1 : tt[k] = Solid(r.lines[k].text)
  BY <1>1, <1>2, SpokenIs
<1>4. /\ \A k \in 1 .. c - 1 : tt[k] = ss[k]
      /\ tt[c] = LeftOf(e) /\ tt[c + 1] = RightOf(e)
      /\ \A k \in c + 2 .. n + 1 : tt[k] = ss[k - 1]
  <2>1. ASSUME NEW k \in 1 .. c - 1 PROVE tt[k] = ss[k]
    <3>1. k \in 1 .. n + 1
      BY <1>1
    <3> QED BY <3>1, <1>3 DEF Parted
  <2>2. ASSUME NEW k \in c + 2 .. n + 1 PROVE tt[k] = ss[k - 1]
    <3>1. k \in 1 .. n + 1
      BY <1>1
    <3> QED BY <3>1, <1>3 DEF Parted
  <2>3. c \in 1 .. n + 1 /\ c + 1 \in 1 .. n + 1
    BY <1>1
  <2> QED BY <2>1, <2>2, <2>3, <1>3 DEF Parted
<1>5. /\ Above(e) = Run(ss, 0, c - 1) /\ Below(e) = Run(ss, c, n - c)
      /\ Above(r) = Run(tt, 0, (c + 1) - 1) /\ Below(r) = Run(tt, c + 1, (n + 1) - (c + 1))
  BY <1>2, SidesAre
<1> HIDE DEF ss, tt, n, c
<1>6. Above(r) = Before(e)
  <2> DEFINE i == 0
             m == c - 1
             j == 1
  <2>1. i \in Nat /\ m \in Nat /\ j \in Nat /\ i + m + j <= Len(tt) /\ i + m = m /\ m + j = (c + 1) - 1
        /\ m + 1 <= Len(tt) /\ m + 1 = c /\ j = 1
    BY <1>1, <1>3
  <2>2. Agree(tt, 0, ss, 0, m)
    BY <1>1, <1>4 DEF Agree
  <2> HIDE DEF i, m, j
  <2>3. Run(tt, i, m + j) = Run(tt, i, m) \o Run(tt, i + m, j)
    <3>1. tt \in Seq(Seq(Char)) /\ i \in Nat /\ m \in Nat /\ j \in Nat /\ i + m + j <= Len(tt)
      BY <1>3, <2>1
    <3> QED BY ONLY <3>1, RunParts
  <2>4. Run(tt, m, 1) = tt[m + 1]
    BY <1>3, <2>1, RunOfOne
  <2>5. Run(tt, 0, m) = Run(ss, 0, m)
    BY <2>2, RunSame
  <2>6. Before(e) = Above(e) \o LeftOf(e)
    BY SidesAre
  <2> QED BY <1>4, <1>5, <2>1, <2>3, <2>4, <2>5, <2>6 DEF i, m
<1>7. LeftOf(r) = <<>>
  <2>1. RowText(r, r.cur) \in Text
    BY RowTextIs
  <2> DEFINE row == RowText(r, r.cur)
  <2>2. Len(row) \in Nat /\ Smaller(0, Len(row)) = 0
    <3> HIDE DEF row
    <3>1. Len(row) \in Nat
      BY <2>1 DEF row, Text
    <3> QED BY <3>1 DEF Smaller
  <2>3. SubSeq(row, 1, 0) = <<>>
    BY SubSeqEmpty
  <2> QED BY <2>2, <2>3, <1>2, SolidOfNone DEF LeftOf
<1>8. Before(r) = Above(r) /\ RightOf(r) = tt[c + 1]
  <2>1. /\ Before(r) = Above(r) \o LeftOf(r) /\ LeftOf(r) \o RightOf(r) = Spoken(r)[r.cur]
        /\ Above(r) \in Seq(Char) /\ RightOf(r) \in Seq(Char)
    BY SidesAre
  <2>2. Above(r) \o <<>> = Above(r) /\ <<>> \o RightOf(r) = RightOf(r)
    BY <2>1, ConcatEmptySeq
  <2> QED BY <1>2, <1>7, <2>1, <2>2 DEF tt
<1>9. Below(r) = Below(e)
  <2>1. Agree(tt, c + 1, ss, c, n - c)
    <3>1. ASSUME NEW k \in 1 .. n - c PROVE tt[c + 1 + k] = ss[c + k]
      <4>1. c + 1 + k \in c + 2 .. n + 1 /\ (c + 1 + k) - 1 = c + k
        BY <1>1
      <4> QED BY <4>1, <1>4
    <3> QED BY <3>1 DEF Agree
  <2>2. (n + 1) - (c + 1) = n - c
    BY <1>1
  <2> QED BY <1>5, <2>1, <2>2, RunSame
<1>10. Behind(r) = RightOf(r) \o Below(r) /\ Behind(e) = RightOf(e) \o Below(e)
  BY SidesAre
<1> QED BY <1>4, <1>6, <1>8, <1>9, <1>10

LEMMA EnterInside ==
  ASSUME NEW e, Whole(e), e.col < RowLength(e) + (IF Cur(e).folded THEN 1 ELSE 0), NEW r, r = enterKey(e)
  PROVE  Whole(r) /\ Noted(e, r) /\ (Clear(e) => Parted(e, r))
<1> DEFINE f == Editing(e)
           left == SubSeq(f.buf, 1, e.col)
           rest == SubSeq(f.buf, e.col + 1, Len(f.buf))
           g == WithBuf(f, left)
           h == commitBuf(g)
<1>1. /\ Whole(f) /\ f.changed /\ Len(f.buf) = RowLength(e) /\ f.buf \in Text /\ f.buf = RowText(e, e.cur)
      /\ Spoken(f) = Spoken(e) /\ f.cur = e.cur /\ Len(f.lines) = Len(e.lines)
  BY EditingKeeps, EditingRow DEF Stays
<1>2. e.col \in 0 .. Len(f.buf)
  <2>1. RowLength(e) \in Nat /\ e.col \in Nat
    BY RowLengthType, ListedFields, EdFields DEF Whole
  <2> HIDE DEF f
  <2> QED BY <2>1, <1>1
<1>3. r = Opened(h, rest)
  BY DEF enterKey, With, WithBuf
<1>4. Clear(e) => f.buf \in Plain
  BY <1>1, RowTextIs
<1> HIDE DEF f
<1>5. left \in Text /\ rest \in Text /\ (f.buf \in Plain => left \in Plain /\ rest \in Plain)
  BY <1>1, <1>2, Pieces, PlainPieces
<1>6. LeftOf(e) = Solid(left) /\ RightOf(e) = Solid(rest)
  <2>1. Len(f.buf) \in Nat
    BY <1>2
  <2>2. Smaller(e.col, Len(f.buf)) = e.col
    BY <2>1, <1>2 DEF Smaller
  <2> QED BY <2>2, <1>1 DEF LeftOf, RightOf
<1> HIDE DEF left, rest
<1>7. Whole(g) /\ g.changed /\ g.cur = e.cur /\ g.lines = f.lines /\ g.buf = left
  BY SMTT(30), <1>1, <1>5, WithBufIs
<1> HIDE DEF g
<1>8. /\ Listed(h, Len(h.lines)) /\ At(h) /\ h.changed /\ ~h.editing /\ h.cur = e.cur /\ Len(h.lines) = Len(e.lines)
      /\ \A k \in 1 .. Len(e.lines) : k # e.cur => h.lines[k].text = f.lines[k].text
      /\ h.lines[e.cur].text = TextIn(left)
  <2>1. Listed(g, Len(g.lines)) /\ At(g) /\ g.cur <= Len(g.lines)
    BY <1>7 DEF Whole, At
  <2>2. /\ Listed(h, Len(g.lines)) /\ At(h) /\ Stays(g, h) /\ h.changed = g.changed /\ ~h.editing
        /\ \A k \in 1 .. Len(g.lines) : k # g.cur => h.lines[k].text = g.lines[k].text
        /\ h.lines[g.cur].text = TextIn(g.buf)
    BY <2>1, commitBufOrders
  <2> HIDE DEF h
  <2> QED BY <2>2, <1>1, <1>7 DEF Stays
<1> HIDE DEF h
<1>9. /\ Whole(r) /\ Noted(h, r) /\ ~r.editing /\ r.cur = e.cur + 1 /\ r.col = 0
      /\ Len(r.lines) = Len(e.lines) + 1 /\ r.lines[e.cur + 1].text = TextIn(rest)
      /\ \A k \in 1 .. e.cur : r.lines[k].text = h.lines[k].text
      /\ \A k \in e.cur + 2 .. Len(e.lines) + 1 : r.lines[k].text = h.lines[k - 1].text
  <2>1. Listed(h, Len(h.lines)) /\ h.cur \in 1 .. Len(h.lines) /\ rest \in Text /\ (h.changed \/ rest = <<>>)
    BY <1>5, <1>8 DEF At
  <2>2. /\ Whole(r) /\ Noted(h, r) /\ (~h.editing => ~r.editing) /\ r.cur = h.cur + 1 /\ r.col = 0
        /\ Len(r.lines) = Len(h.lines) + 1 /\ r.lines[h.cur + 1].text = TextIn(rest)
        /\ \A k \in 1 .. h.cur : r.lines[k].text = h.lines[k].text
        /\ \A k \in h.cur + 2 .. Len(h.lines) + 1 : r.lines[k].text = h.lines[k - 1].text
    <3>1. Listed(h, Len(h.lines)) /\ h.cur \in 1 .. Len(h.lines) /\ r = Opened(h, rest)
      BY <1>3, <2>1
    <3>2. rest \in Text /\ (h.changed \/ rest = <<>>) /\ r = Opened(h, rest)
      BY <1>3, <2>1
    <3> QED BY ONLY <3>1, <3>2, OpenedKeeps
  <2> QED BY <2>2, <1>8
<1>10. Noted(e, r)
  BY <1>8, <1>9 DEF Noted
<1>11. SpreadOut(f, r)
  <2>1. f.cur \in 1 .. Len(f.lines) /\ Len(f.lines) \in Nat
    BY <1>1, ListedFields DEF Whole, At
  <2>2. ASSUME NEW k \in 1 .. f.cur - 1 PROVE r.lines[k].text = f.lines[k].text
    <3>1. k \in 1 .. e.cur /\ k \in 1 .. Len(e.lines) /\ k # e.cur
      BY <2>1, <1>1
    <3> QED BY <3>1, <1>8, <1>9
  <2>3. ASSUME NEW k \in f.cur + 2 .. Len(f.lines) + 1 PROVE r.lines[k].text = f.lines[k - 1].text
    <3>1. k \in e.cur + 2 .. Len(e.lines) + 1 /\ k - 1 \in 1 .. Len(e.lines) /\ k - 1 # e.cur
      BY <2>1, <1>1
    <3> QED BY <3>1, <1>8, <1>9
  <2> QED BY <2>2, <2>3 DEF SpreadOut
<1>12. ASSUME Clear(e) PROVE Parted(e, r)
  <2>1. left \in Plain /\ rest \in Plain
    BY <1>4, <1>5, <1>12
  <2>2. r.lines[e.cur].text = TextIn(left)
    <3>1. e.cur \in 1 .. e.cur
      BY ListedFields, EdFields DEF Whole, At
    <3> QED BY <3>1, <1>8, <1>9
  <2>3. Solid(r.lines[e.cur].text) = LeftOf(e) /\ Solid(r.lines[e.cur + 1].text) = RightOf(e)
    BY <2>1, <2>2, <1>6, <1>9, SolidTextIn
  <2> QED BY <2>3, <1>1, <1>9, <1>11, PartedIs
<1> QED BY <1>9, <1>10, <1>12

LEMMA EnterBehind ==
  ASSUME NEW e, Whole(e), ~(e.col < RowLength(e) + (IF Cur(e).folded THEN 1 ELSE 0)), NEW r, r = enterKey(e)
  PROVE  Whole(r) /\ Noted(e, r) /\ (Clear(e) /\ e.col <= RowLength(e) => Parted(e, r))
<1> DEFINE f == Committed(e)
           n == LastFolded(f.lines, f.cur)
           g == Moved(f, n, f.al, f.vl)
<1>1. /\ Whole(f) /\ Quiet(e, f) /\ ~f.editing /\ f.cur = e.cur /\ Len(f.lines) = Len(e.lines)
      /\ (e.editing => ~f.lines[e.cur].folded) /\ (~e.editing => f = e)
  BY CommittedKeeps DEF Stays
<1>2. /\ f \in EdT /\ f.lines \in Seq(LineT) /\ f.cur \in 1 .. Len(f.lines)
      /\ f.al \in Int /\ f.vl \in Int /\ Listed(f, Len(f.lines))
  BY <1>1, ListedFields, EdFields DEF Whole, At
<1>3. n \in 1 .. Len(f.lines) /\ n \in Nat /\ (~f.lines[e.cur].folded => n = e.cur)
  <2>1. n \in 1 .. Len(f.lines) /\ (~f.lines[f.cur].folded => n = f.cur)
    BY <1>2, LastFoldedIn
  <2> QED BY <2>1, <1>1
<1>4. r = Opened([f EXCEPT !.cur = n], <<>>)
  BY DEF enterKey, With
<1>5. [f EXCEPT !.cur = n] = g
  <2> HIDE DEF f, n
  <2> QED BY <1>2, <1>3 DEF Moved, EdT
<1> HIDE DEF f, n
<1>6. /\ g \in EdT /\ g.lines = f.lines /\ g.cur = n /\ g.top = f.top /\ g.editing = f.editing
      /\ g.changed = f.changed
  BY <1>2, <1>3, MovedIs
<1> HIDE DEF g
<1>7. Listed(g, Len(g.lines)) /\ g.cur \in 1 .. Len(g.lines) /\ Noted(f, g)
  BY <1>2, <1>3, <1>6 DEF Listed, Noted
<1>8. <<>> \in Text
  BY DEF Text
<1>9. /\ Whole(r) /\ Noted(g, r) /\ ~r.editing /\ r.cur = n + 1 /\ r.col = 0
      /\ Len(r.lines) = Len(f.lines) + 1 /\ r.lines[n + 1].text = TextIn(<<>>)
      /\ \A k \in 1 .. n : r.lines[k].text = f.lines[k].text
      /\ \A k \in n + 2 .. Len(f.lines) + 1 : r.lines[k].text = f.lines[k - 1].text
  <2>1. /\ Whole(r) /\ Noted(g, r) /\ (~g.editing => ~r.editing) /\ r.cur = g.cur + 1 /\ r.col = 0
        /\ Len(r.lines) = Len(g.lines) + 1 /\ r.lines[g.cur + 1].text = TextIn(<<>>)
        /\ \A k \in 1 .. g.cur : r.lines[k].text = g.lines[k].text
        /\ \A k \in g.cur + 2 .. Len(g.lines) + 1 : r.lines[k].text = g.lines[k - 1].text
    <3>1. Listed(g, Len(g.lines)) /\ g.cur \in 1 .. Len(g.lines) /\ r = Opened(g, <<>>) /\ <<>> \in Text
      BY <1>4, <1>5, <1>7, <1>8
    <3> DEFINE none == <<>>
    <3>2. none \in Text /\ (g.changed \/ none = <<>>) /\ r = Opened(g, none)
      BY <3>1
    <3> HIDE DEF none
    <3>3. /\ Whole(r) /\ Noted(g, r) /\ (~g.editing => ~r.editing) /\ r.cur = g.cur + 1 /\ r.col = 0
          /\ Len(r.lines) = Len(g.lines) + 1 /\ r.lines[g.cur + 1].text = TextIn(none)
          /\ \A k \in 1 .. g.cur : r.lines[k].text = g.lines[k].text
          /\ \A k \in g.cur + 2 .. Len(g.lines) + 1 : r.lines[k].text = g.lines[k - 1].text
      BY ONLY SMTT(30), <3>1, <3>2, OpenedKeeps
    <3> QED BY <3>3 DEF none
  <2> QED BY <2>1, <1>1, <1>6
<1>10. Noted(e, r)
  BY <1>1, <1>7, <1>9, NotedTrans DEF Quiet
<1>11. ASSUME Clear(e), e.col <= RowLength(e) PROVE Parted(e, r)
  <2>1. e.col = RowLength(e) /\ ~Cur(e).folded /\ RowLength(e) \in Nat /\ e.cur \in Nat
    <3>1. RowLength(e) \in Nat /\ e.col \in Nat /\ e.cur \in Nat
      BY RowLengthType, ListedFields, EdFields DEF Whole
    <3> QED BY <3>1, <1>11
  <2>2. n = e.cur
    BY <2>1, <1>1, <1>3 DEF Cur
  <2>3. Spoken(f) = Spoken(e)
    BY <1>1, <1>11 DEF Quiet, Speaks
  <2>4. SpreadOut(f, r)
    <3>1. \A k \in 1 .. f.cur - 1 : k \in 1 .. n
      BY <1>2, <2>2, <1>1
    <3> QED BY <3>1, <2>2, <1>1, <1>9 DEF SpreadOut
  <2>5. Solid(r.lines[e.cur + 1].text) = <<>>
    <3>1. TextIn(<<>>) = <<>>
      BY DEF TextIn
    <3> QED BY <3>1, <2>2, <1>9, SolidOfNone
  <2>6. RightOf(e) = <<>> /\ LeftOf(e) = Spoken(e)[e.cur]
    <3> DEFINE row == RowText(e, e.cur)
    <3>1. row \in Text /\ Len(row) = RowLength(e) /\ row \in Seq(Char)
      BY RowTextIs DEF Text
    <3>2. Solid(row) = Spoken(e)[e.cur]
      BY RowSpoken DEF Whole, At
    <3> HIDE DEF row
    <3>3. SubSeq(row, 1, Len(row)) = row
      BY <3>1, SubSeqFull
    <3>4. SubSeq(row, e.col + 1, Len(row)) = <<>>
      <4>1. e.col + 1 \in Int /\ Len(row) \in Int /\ Len(row) < e.col + 1
        BY <2>1, <3>1
      <4> QED BY <4>1, SubSeqEmpty
    <3>5. Smaller(e.col, Len(row)) = Len(row)
      BY <2>1, <3>1 DEF Smaller
    <3> QED BY <3>2, <3>3, <3>4, <3>5, SolidOfNone DEF LeftOf, RightOf, row
  <2>7. Solid(r.lines[e.cur].text) = LeftOf(e)
    <3>1. r.lines[e.cur].text = f.lines[e.cur].text
      <4>1. e.cur \in 1 .. n
        BY <2>1, <2>2, <1>1, <1>2
      <4> QED BY <4>1, <1>9
    <3>2. Spoken(f)[e.cur] = Solid(f.lines[e.cur].text)
      <4>1. f.buf \in Text
        BY <1>2, EdFields
      <4> QED BY <4>1, <1>1, <1>2, SpokenIs
    <3> QED BY <3>1, <3>2, <2>3, <2>6
  <2> QED BY <2>2, <2>3, <2>4, <2>5, <2>6, <2>7, <1>1, <1>9, PartedIs
<1> QED BY <1>9, <1>10, <1>11

LEMMA enterKeyKeeps ==
  ASSUME NEW e, Whole(e), NEW r, r = enterKey(e)
  PROVE  Whole(r) /\ Noted(e, r) /\ (Clear(e) /\ e.col <= RowLength(e) => Parted(e, r))
BY EnterInside, EnterBehind

-----------------------------------------------------------------------------
(* The buffer and the cursor's line are marked to be shown again.          *)
Shown(l) == [l EXCEPT !.up2date = FALSE]
Faded(ls, n) == [ls EXCEPT ![n] = Shown(ls[n])]
Cut(e, buf, ls) == [e EXCEPT !.buf = buf, !.lines = ls]
LEMMA FadedIs ==
  ASSUME NEW ls \in Seq(LineT), NEW n \in 1 .. Len(ls)
  PROVE  /\ Faded(ls, n) \in Seq(LineT) /\ Len(Faded(ls, n)) = Len(ls)
         /\ \A k \in 1 .. Len(ls) : SameAt(Faded(ls, n)[k], ls[k])
         /\ Faded(ls, n) = [ls EXCEPT ![n].up2date = FALSE]
<1>1. ls[n] \in LineT
  OBVIOUS
<1>2. Shown(ls[n]) \in LineT /\ SameAt(Shown(ls[n]), ls[n])
  BY <1>1 DEF LineT, SameAt, Same, Shown
<1>3. /\ Faded(ls, n) \in Seq(LineT) /\ Len(Faded(ls, n)) = Len(ls)
      /\ \A k \in 1 .. Len(ls) : Faded(ls, n)[k] = IF k = n THEN Shown(ls[n]) ELSE ls[k]
  BY <1>2, ExceptSeq DEF Faded
<1>4. \A k \in 1 .. Len(ls) : SameAt(ls[k], ls[k])
  BY DEF SameAt, Same
<1>5. Faded(ls, n) = [ls EXCEPT ![n].up2date = FALSE]
  BY DEF Faded, Shown
<1> QED BY <1>2, <1>3, <1>4, <1>5

LEMMA LinesLasting ==
  ASSUME NEW e, Whole(e), NEW f \in EdT, Len(f.lines) = Len(e.lines),
         \A k \in 1 .. Len(e.lines) : SameAt(f.lines[k], e.lines[k]),
         f.cur = e.cur, f.al = e.al, f.top \in 0 .. Len(e.lines), f.editing = e.editing, f.changed = e.changed
  PROVE  Whole(f) /\ Noted(e, f) /\ (f.buf = e.buf => Quiet(e, f) /\ Alike(e, f))
<1>1. /\ e \in EdT /\ e.lines \in Seq(LineT) /\ Len(e.lines) \in Nat /\ Len(e.lines) \in 1 .. Len(e.lines)
      /\ (e.editing => e.changed) /\ Upto(e.lines, Len(e.lines)) /\ f.lines \in Seq(LineT)
  BY ListedFields, EdFields DEF Whole
<1>2. Upto(f.lines, Len(e.lines))
  BY <1>1, UptoSame
<1>3. Texts(f.lines) = Texts(e.lines)
  BY <1>1, TextsSame DEF SameAt, Same
<1>4. Whole(f) /\ Noted(e, f)
  BY <1>1, <1>2, <1>3 DEF Whole, Listed, At, Noted
<1>5. ASSUME f.buf = e.buf PROVE Alike(e, f)
  <2>1. SameBuffer(e, f)
    BY <1>5 DEF SameBuffer
  <2>2. \A k \in 1 .. Len(e.lines) : f.lines[k].text = e.lines[k].text
    BY DEF SameAt, Same
  <2> QED BY <1>1, <1>4, <2>1, <2>2, SpeaksSame DEF Alike
<1> QED BY <1>4, <1>5, AlikeIs

(* The cursor's row is edited.                                             *)
Edited(e, f, buf) ==
  /\ f.editing /\ f.cur = e.cur /\ f.buf = buf /\ Len(f.lines) = Len(e.lines)
  /\ \A k \in 1 .. Len(e.lines) : k # e.cur => f.lines[k].text = e.lines[k].text

LEMMA EditedSides ==
  ASSUME NEW e, Whole(e), NEW r, Whole(r), NEW buf, Edited(Editing(e), r, buf)
  PROVE  /\ Above(r) = Above(e) /\ Below(r) = Below(e) /\ RowText(r, r.cur) = buf /\ r.cur = e.cur
         /\ Spoken(r)[r.cur] = Solid(buf)
<1> DEFINE f == Editing(e)
           c == e.cur
           n == Len(e.lines)
           ss == Spoken(e)
           tt == Spoken(r)
<1>1. Whole(f) /\ Stays(e, f) /\ f.editing /\ Spoken(f) = ss
  BY EditingKeeps
<1>2. Edited(f, r, buf)
  OBVIOUS
<1> HIDE DEF f
<1>3. r.editing /\ r.cur = c /\ r.buf = buf /\ Len(r.lines) = n /\ f.cur = c /\ Len(f.lines) = n
      /\ \A k \in 1 .. n : k # c => r.lines[k].text = f.lines[k].text
  BY <1>1, <1>2 DEF Edited, Stays
<1>4. /\ f.lines \in Seq(LineT) /\ f.buf \in Text /\ r.lines \in Seq(LineT) /\ r.buf \in Text
      /\ n \in Nat /\ c \in 1 .. n
  BY <1>1, ListedFields, EdFields DEF Whole, At
<1>5. \A k \in 1 .. n : k # c => tt[k] = ss[k]
  <2>1. \A k \in 1 .. n : ss[k] = IF f.editing /\ k = c THEN Solid(f.buf) ELSE Solid(f.lines[k].text)
    <3>1. \A k \in 1 .. Len(f.lines) :
            Spoken(f)[k] = IF f.editing /\ k = f.cur THEN Solid(f.buf) ELSE Solid(f.lines[k].text)
      BY <1>4, SpokenIs
    <3> HIDE DEF ss, c, n
    <3> QED BY <1>1, <1>3, <3>1
  <2>2. \A k \in 1 .. n : tt[k] = IF r.editing /\ k = c THEN Solid(buf) ELSE Solid(r.lines[k].text)
    <3>1. \A k \in 1 .. Len(r.lines) :
            Spoken(r)[k] = IF r.editing /\ k = r.cur THEN Solid(r.buf) ELSE Solid(r.lines[k].text)
      BY <1>4, SpokenIs
    <3> QED BY <3>1, <1>3
  <2> QED BY <1>3, <2>1, <2>2
<1>6. tt[c] = Solid(buf) /\ RowText(r, r.cur) = buf
  BY <1>3, <1>4, SpokenIs DEF RowText
<1>7. /\ Above(e) = Run(ss, 0, c - 1) /\ Below(e) = Run(ss, c, n - c)
      /\ Above(r) = Run(tt, 0, c - 1) /\ Below(r) = Run(tt, c, n - c)
  BY <1>3, SidesAre
<1> HIDE DEF ss, tt, c, n
<1>8. Agree(tt, 0, ss, 0, c - 1) /\ Agree(tt, c, ss, c, n - c)
  <2>1. \A k \in 1 .. c - 1 : 0 + k \in 1 .. n /\ 0 + k # c
    BY <1>4
  <2>2. \A k \in 1 .. n - c : c + k \in 1 .. n /\ c + k # c
    BY <1>4
  <2> QED BY <2>1, <2>2, <1>5 DEF Agree
<1>9. Above(r) = Above(e) /\ Below(r) = Below(e)
  BY <1>7, <1>8, RunSame
<1> QED BY <1>3, <1>6, <1>9 DEF tt, c

LEMMA CutKeeps ==
  ASSUME NEW e, Whole(e), e.editing, NEW buf \in Text, NEW f, f = Cut(e, buf, Faded(e.lines, e.cur))
  PROVE  Whole(f) /\ f.changed = e.changed /\ f.col = e.col /\ Edited(e, f, buf)
<1> DEFINE ls == Faded(e.lines, e.cur)
<1>1. e \in EdT /\ e.lines \in Seq(LineT) /\ e.cur \in 1 .. Len(e.lines) /\ e.top \in 0 .. Len(e.lines)
  BY ListedFields DEF Whole, At
<1>2. ls \in Seq(LineT) /\ Len(ls) = Len(e.lines) /\ \A k \in 1 .. Len(ls) : SameAt(ls[k], e.lines[k])
  BY <1>1, FadedIs
<1> HIDE DEF ls
<1>3. f = Cut(e, buf, ls)
  BY DEF ls
<1>4. /\ f \in EdT /\ f.lines = ls /\ f.cur = e.cur /\ f.al = e.al /\ f.top = e.top
      /\ f.editing = e.editing /\ f.changed = e.changed /\ f.col = e.col /\ f.buf = buf
  BY <1>1, <1>2, <1>3 DEF EdT, Cut
<1>5. Edited(e, f, buf)
  BY <1>2, <1>4 DEF Edited, SameAt, Same
<1> QED BY <1>1, <1>2, <1>4, <1>5, LinesLasting

LEMMA RemovedText ==
  ASSUME NEW buf \in Text, NEW n \in 1 .. Len(buf)
  PROVE  RemoveAt(buf, n) \in Text
BY RemovedIs DEF Text

LEMMA ShortenedKeeps ==
  ASSUME NEW e, Whole(e), e.editing, NEW at \in Nat, NEW f, f = Shortened(e, at)
  PROVE  Whole(f) /\ f.changed /\ f.col = e.col /\ (at \in DOMAIN e.buf => Edited(e, f, RemoveAt(e.buf, at)))
<1>1. e \in EdT /\ e.buf \in Text /\ e.lines \in Seq(LineT) /\ e.cur \in 1 .. Len(e.lines) /\ e.changed
  BY ListedFields, EdFields DEF Whole, At
<1>2. CASE e.buf = <<>>
  <2>1. f = [e EXCEPT !.wild = TRUE]
    BY <1>2 DEF Shortened
  <2>2. f \in EdT /\ SameList(e, f) /\ f.col = e.col
    BY <1>1, <2>1 DEF EdT, SameList
  <2>3. at \notin DOMAIN e.buf
    BY <1>2
  <2> QED BY <1>1, <2>2, <2>3, Lasting DEF SameList
<1>3. CASE e.buf # <<>>
  <2> DEFINE buf == IF at \in DOMAIN e.buf THEN RemoveAt(e.buf, at) ELSE SubSeq(e.buf, 1, Len(e.buf) - 1)
  <2>1. DOMAIN e.buf = 1 .. Len(e.buf) /\ Len(e.buf) - 1 \in 0 .. Len(e.buf)
    BY <1>1, <1>3 DEF Text
  <2>2. buf \in Text
    <3>1. CASE at \in DOMAIN e.buf
      BY <3>1, <2>1, <1>1, RemovedText
    <3>2. CASE at \notin DOMAIN e.buf
      <4>1. SubSeq(e.buf, 1, Len(e.buf) - 1) \in Text
        BY <1>1, <2>1, Pieces
      <4> QED BY <4>1, <3>2
    <3> QED BY <3>1, <3>2
  <2>3. f = [e EXCEPT !.buf = buf, !.lines[e.cur].up2date = FALSE]
    BY <1>3 DEF Shortened
  <2>6. at \in DOMAIN e.buf => buf = RemoveAt(e.buf, at)
    OBVIOUS
  <2> HIDE DEF buf
  <2>4. [e EXCEPT !.buf = buf, !.lines[e.cur].up2date = FALSE] = Cut(e, buf, [e.lines EXCEPT ![e.cur].up2date = FALSE])
    BY <1>1 DEF Cut, EdT
  <2>5. f = Cut(e, buf, Faded(e.lines, e.cur))
    BY <2>3, <2>4, <1>1, FadedIs
  <2>7. Whole(f) /\ f.changed = e.changed /\ f.col = e.col /\ Edited(e, f, buf)
    BY <2>2, <2>5, CutKeeps
  <2>8. at \in DOMAIN e.buf => Edited(e, f, RemoveAt(e.buf, at))
    BY <2>6, <2>7
  <2> QED BY <1>1, <2>7, <2>8
<1> QED BY <1>2, <1>3

(* What is typed into a row or taken out of it is next to the cursor.      *)
LEMMA SolidOfChar ==
  ASSUME NEW x \in Char
  PROVE  <<x>> \in Text /\ Solid(<<x>>) = IF x \in {Blank, Nul} THEN <<>> ELSE <<x>>
<1> DEFINE s == <<x>>
<1>1. s \in Text /\ Len(s) = 1 /\ s[1] = x /\ 1 \in 1 .. Len(s)
  BY DEF Text
<1> HIDE DEF s
<1>2. /\ Items(s) \in Seq(Seq(Char)) /\ Len(Items(s)) = 1
      /\ Items(s)[1] = IF x \in {Blank, Nul} THEN <<>> ELSE <<x>>
  BY <1>1, ItemsType
<1>3. Solid(s) = Items(s)[1]
  BY <1>2, SolidIs, FlattenSeqOne
<1> QED BY <1>1, <1>2, <1>3 DEF s

LEMMA RowParts ==
  ASSUME NEW buf \in Text, NEW n \in 1 .. Len(buf)
  PROVE  /\ SubSeq(buf, 1, n - 1) \in Text /\ SubSeq(buf, n + 1, Len(buf)) \in Text /\ buf[n] \in Char
         /\ Solid(RemoveAt(buf, n)) = Solid(SubSeq(buf, 1, n - 1)) \o Solid(SubSeq(buf, n + 1, Len(buf)))
         /\ Solid(SubSeq(buf, 1, n)) = Solid(SubSeq(buf, 1, n - 1)) \o Solid(<<buf[n]>>)
         /\ Solid(SubSeq(buf, n, Len(buf))) = Solid(<<buf[n]>>) \o Solid(SubSeq(buf, n + 1, Len(buf)))
<1> DEFINE p == SubSeq(buf, 1, n - 1)
           q == SubSeq(buf, n + 1, Len(buf))
           c == <<buf[n]>>
<1>1. buf \in Seq(Char) /\ Len(buf) \in Nat /\ n \in Nat /\ buf[n] \in Char
  BY DEF Text
<1>2. c \in Text
  BY <1>1, SolidOfChar
<1>3. p \in Text
  <2> DEFINE m == n - 1
  <2>1. m \in 0 .. Len(buf)
    BY <1>1
  <2> HIDE DEF m
  <2>2. SubSeq(buf, 1, m) \in Text
    BY <2>1, Pieces
  <2> QED BY <2>2 DEF m
<1>4. q \in Text
  <2>1. n \in 0 .. Len(buf)
    BY <1>1
  <2> QED BY <2>1, Pieces
<1>5. RemoveAt(buf, n) = p \o q
  BY DEF RemoveAt
<1>6. SubSeq(buf, 1, n) = p \o c
  <2>1. 1 \in 1 .. Len(buf) /\ n \in 1 .. Len(buf)
    BY <1>1
  <2> QED BY <1>1, <2>1, SubSeqRecursiveSecond
<1>7. SubSeq(buf, n, Len(buf)) = c \o q
  <2>1. Len(buf) \in n .. Len(buf)
    BY <1>1
  <2> QED BY <1>1, <2>1, SubSeqRecursiveFirst
<1> HIDE DEF p, q, c
<1>8. Solid(p \o q) = Solid(p) \o Solid(q) /\ Solid(p \o c) = Solid(p) \o Solid(c) /\ Solid(c \o q) = Solid(c) \o Solid(q)
  BY <1>2, <1>3, <1>4, SolidConcat
<1>9. /\ p \in Text /\ q \in Text /\ buf[n] \in Char /\ Solid(RemoveAt(buf, n)) = Solid(p) \o Solid(q)
      /\ Solid(SubSeq(buf, 1, n)) = Solid(p) \o Solid(c) /\ Solid(SubSeq(buf, n, Len(buf))) = Solid(c) \o Solid(q)
  BY <1>1, <1>3, <1>4, <1>5, <1>6, <1>7, <1>8
<1> QED BY <1>9 DEF p, q, c

LEMMA LastOff ==
  ASSUME NEW x \in Seq(Char), NEW c \in Char
  PROVE  x \o <<c>> # <<>> /\ Front(x \o <<c>>) = x
<1> DEFINE y == x \o <<c>>
<1>1. y \in Seq(Char) /\ Len(y) = Len(x) + 1 /\ \A i \in 1 .. Len(x) : y[i] = x[i]
  <2>1. <<c>> \in Seq(Char) /\ Len(<<c>>) = 1 /\ Len(x) \in Nat
    OBVIOUS
  <2> DEFINE z == <<c>>
  <2> HIDE DEF z
  <2>2. z \in Seq(Char) /\ Len(z) = 1
    BY <2>1 DEF z
  <2>3. /\ x \o z \in Seq(Char) /\ Len(x \o z) = Len(x) + Len(z)
        /\ \A i \in 1 .. Len(x) + Len(z) : (x \o z)[i] = IF i <= Len(x) THEN x[i] ELSE z[i - Len(x)]
    BY <2>2, ConcatProperties
  <2>4. \A i \in 1 .. Len(x) : (x \o z)[i] = x[i]
    BY <2>1, <2>2, <2>3
  <2> QED BY <2>2, <2>3, <2>4 DEF z
<1> HIDE DEF y
<1>2. Len(x) \in Nat /\ Len(y) - 1 = Len(x) /\ \A i \in 1 .. Len(x) : x[i] \in Char
  BY <1>1
<1> DEFINE n == Len(x)
           w == SubSeq(y, 1, n)
<1>3. w \in Seq(Char) /\ Len(w) = n /\ \A i \in 1 .. n : w[i] = x[i]
  <2>1. \A i \in 1 .. n : y[i] \in Char
    BY <1>1, <1>2
  <2>2. /\ w \in Seq(Char) /\ Len(w) = (IF 1 <= n THEN n - 1 + 1 ELSE 0)
        /\ \A i \in 1 .. n - 1 + 1 : w[i] = y[1 + i - 1]
    BY <1>2, <2>1, SubSeqProperties
  <2> HIDE DEF w
  <2> QED BY <1>1, <1>2, <2>2
<1> HIDE DEF w
<1>4. w = x
  BY <1>3
<1>5. y # <<>> /\ Front(y) = x
  <2>1. Front(y) = SubSeq(y, 1, Len(y) - 1)
    BY DEF Front
  <2>2. Front(y) = w
    BY <2>1, <1>2 DEF w
  <2> QED BY <2>2, <1>1, <1>2, <1>4
<1> QED BY <1>5 DEF y

LEMMA FirstOff ==
  ASSUME NEW x \in Seq(Char), NEW c \in Char
  PROVE  <<c>> \o x # <<>> /\ Tail(<<c>> \o x) = x
<1> DEFINE z == <<c>>
           y == z \o x
<1>1. z \in Seq(Char) /\ Len(z) = 1 /\ Len(x) \in Nat
  OBVIOUS
<1> HIDE DEF z
<1>2. /\ y \in Seq(Char) /\ Len(y) = Len(z) + Len(x)
      /\ \A i \in 1 .. Len(z) + Len(x) : y[i] = IF i <= Len(z) THEN z[i] ELSE x[i - Len(z)]
  BY <1>1, ConcatProperties
<1> HIDE DEF y
<1>3. y # <<>> /\ Len(y) = 1 + Len(x) /\ \A i \in 1 .. Len(x) : y[i + 1] = x[i]
  <2>1. \A i \in 1 .. Len(x) : i + 1 \in 1 .. Len(z) + Len(x) /\ ~(i + 1 <= Len(z)) /\ (i + 1) - Len(z) = i
    BY <1>1
  <2> QED BY <1>1, <1>2, <2>1
<1>4. /\ Tail(y) \in Seq(Char) /\ Len(Tail(y)) = Len(y) - 1
      /\ \A i \in 1 .. Len(Tail(y)) : Tail(y)[i] = y[i + 1]
  BY <1>2, <1>3, HeadTailProperties
<1> DEFINE t == Tail(y)
<1> HIDE DEF t
<1>5. t \in Seq(Char) /\ Len(t) = Len(x) /\ \A i \in 1 .. Len(x) : t[i] = x[i]
  BY <1>1, <1>3, <1>4 DEF t
<1>6. t = x
  BY <1>5
<1> QED BY <1>3, <1>6 DEF t, y, z

Erased(left, right, text) ==
  \/ text = left \o right
  \/ left # <<>> /\ text = Front(left) \o right
  \/ right # <<>> /\ text = left \o Tail(right)

LEMMA EditedText ==
  ASSUME NEW e, Whole(e), NEW r, Whole(r), NEW buf, Edited(Editing(e), r, buf),
         NEW p \in Seq(Char), NEW q \in Seq(Char), Solid(buf) = p \o q
  PROVE  Before(r) \o Behind(r) = (Above(e) \o p) \o (q \o Below(e))
<1> DEFINE A == Above(e)
           B == Below(e)
<1>1. A \in Seq(Char) /\ B \in Seq(Char) /\ p \in Seq(Char) /\ q \in Seq(Char)
  BY SidesAre
<1>2. Before(r) \o Behind(r) = (A \o (p \o q)) \o B
  <2>1. Above(r) = A /\ Below(r) = B /\ Spoken(r)[r.cur] = Solid(buf)
    BY EditedSides
  <2>2. Before(r) \o Behind(r) = (Above(r) \o Spoken(r)[r.cur]) \o Below(r)
    BY Around
  <2> QED BY <2>1, <2>2
<1> HIDE DEF A, B
<1>3. Joins(A, p, q, B)
  BY ONLY <1>1, Joined
<1> QED BY <1>2, <1>3 DEF Joins, A, B

LEMMA ErasedBefore ==
  ASSUME NEW e, Whole(e), e.col \in 1 .. RowLength(e), NEW r, Whole(r),
         Edited(Editing(e), r, RemoveAt(RowText(e, e.cur), e.col))
  PROVE  Erased(Before(e), Behind(e), Before(r) \o Behind(r))
<1> DEFINE A == Above(e)
           B == Below(e)
           row == RowText(e, e.cur)
           n == e.col
           p == Solid(SubSeq(row, 1, n - 1))
           q == Solid(SubSeq(row, n + 1, Len(row)))
           x == row[n]
           c == Solid(<<x>>)
           t == Before(r) \o Behind(r)
<1>1. row \in Text /\ n \in 1 .. Len(row) /\ Len(row) \in Nat
  BY RowTextIs, RowLengthType
<1>2. /\ A \in Seq(Char) /\ B \in Seq(Char) /\ Before(e) = A \o LeftOf(e) /\ Behind(e) = RightOf(e) \o B
  BY SidesAre
<1>3. LeftOf(e) = p \o c /\ RightOf(e) = q
  <2>1. Smaller(n, Len(row)) = n
    BY <1>1 DEF Smaller
  <2>2. Solid(SubSeq(row, 1, n)) = p \o c
    <3> HIDE DEF row, n
    <3> QED BY <1>1, RowParts
  <2> QED BY <2>1, <2>2 DEF LeftOf, RightOf
<1> HIDE DEF row, n
<1>4. /\ SubSeq(row, 1, n - 1) \in Text /\ SubSeq(row, n + 1, Len(row)) \in Text /\ x \in Char
      /\ Solid(RemoveAt(row, n)) = p \o q
  BY <1>1, RowParts
<1>5. p \in Seq(Char) /\ q \in Seq(Char)
  BY <1>4, SolidType
<1>6. c = IF x \in {Blank, Nul} THEN <<>> ELSE <<x>>
  BY <1>4, SolidOfChar
<1>7. t = (A \o p) \o (q \o B)
  <2>1. Edited(Editing(e), r, RemoveAt(row, n))
    BY DEF row, n
  <2> DEFINE buf == RemoveAt(row, n)
  <2>2. Whole(e) /\ Edited(Editing(e), r, buf)
    BY <2>1
  <2>3. Whole(r) /\ Solid(buf) = p \o q
    BY <1>4
  <2> HIDE DEF p, q, buf
  <2>4. t = (Above(e) \o p) \o (q \o Below(e))
    BY ONLY <2>2, <2>3, <1>5, EditedText DEF t
  <2> QED BY <2>4
<1> HIDE DEF t, p, q, A, B, x, c
<1>8. CASE x \in {Blank, Nul}
  <2>1. p \o c = p
    BY <1>5, <1>6, <1>8, ConcatEmptySeq
  <2> QED BY <2>1, <1>2, <1>3, <1>7 DEF Erased, t
<1>9. CASE x \notin {Blank, Nul}
  <2>1. A \o (p \o <<x>>) = (A \o p) \o <<x>>
    <3>1. A \in Seq(Char) /\ p \in Seq(Char) /\ <<x>> \in Seq(Char)
      BY <1>2, <1>4, <1>5
    <3>2. Regroups(Char)
      BY ONLY Regrouped
    <3> QED BY <3>1, <3>2, Zenon DEF Regroups
  <2>2. A \o p \in Seq(Char)
    BY <1>2, <1>5, ConcatProperties
  <2> DEFINE y == A \o p
  <2>3. Before(e) = y \o <<x>>
    BY <2>1, <1>2, <1>3, <1>6, <1>9
  <2>4. y \in Seq(Char)
    BY <2>2
  <2>5. t = y \o Behind(e)
    BY <1>2, <1>3, <1>7
  <2> HIDE DEF y
  <2>6. y \o <<x>> # <<>> /\ Front(y \o <<x>>) = y
    BY <2>4, <1>4, LastOff
  <2> QED BY <2>3, <2>5, <2>6 DEF Erased, t
<1> QED BY <1>8, <1>9

LEMMA ErasedBehind ==
  ASSUME NEW e, Whole(e), e.col + 1 \in 1 .. RowLength(e), NEW r, Whole(r),
         Edited(Editing(e), r, RemoveAt(RowText(e, e.cur), e.col + 1))
  PROVE  Erased(Before(e), Behind(e), Before(r) \o Behind(r))
<1> DEFINE A == Above(e)
           B == Below(e)
           row == RowText(e, e.cur)
           n == e.col + 1
           p == Solid(SubSeq(row, 1, n - 1))
           q == Solid(SubSeq(row, n + 1, Len(row)))
           x == row[n]
           c == Solid(<<x>>)
           t == Before(r) \o Behind(r)
<1>0. e.col \in Nat /\ n - 1 = e.col
  BY ListedFields, EdFields DEF Whole
<1>1. row \in Text /\ n \in 1 .. Len(row) /\ Len(row) \in Nat
  BY RowTextIs, RowLengthType
<1>2. /\ A \in Seq(Char) /\ B \in Seq(Char) /\ Before(e) = A \o LeftOf(e) /\ Behind(e) = RightOf(e) \o B
  BY SidesAre
<1>3. LeftOf(e) = p /\ RightOf(e) = c \o q
  <2>1. Smaller(e.col, Len(row)) = e.col
    BY <1>0, <1>1 DEF Smaller
  <2>2. Solid(SubSeq(row, n, Len(row))) = c \o q
    <3> HIDE DEF row, n
    <3> QED BY <1>1, RowParts
  <2> QED BY <1>0, <2>1, <2>2 DEF LeftOf, RightOf
<1> HIDE DEF row, n
<1>4. /\ SubSeq(row, 1, n - 1) \in Text /\ SubSeq(row, n + 1, Len(row)) \in Text /\ x \in Char
      /\ Solid(RemoveAt(row, n)) = p \o q
  BY <1>1, RowParts
<1>5. p \in Seq(Char) /\ q \in Seq(Char)
  BY <1>4, SolidType
<1>6. c = IF x \in {Blank, Nul} THEN <<>> ELSE <<x>>
  BY <1>4, SolidOfChar
<1>7. t = (A \o p) \o (q \o B)
  <2>1. Edited(Editing(e), r, RemoveAt(row, n))
    BY DEF row, n
  <2> DEFINE buf == RemoveAt(row, n)
  <2>2. Whole(e) /\ Edited(Editing(e), r, buf)
    BY <2>1
  <2>3. Whole(r) /\ Solid(buf) = p \o q
    BY <1>4
  <2> HIDE DEF p, q, buf
  <2>4. t = (Above(e) \o p) \o (q \o Below(e))
    BY ONLY <2>2, <2>3, <1>5, EditedText DEF t
  <2> QED BY <2>4
<1> HIDE DEF t, p, q, A, B, x, c
<1>8. CASE x \in {Blank, Nul}
  <2>1. c \o q = q
    BY <1>5, <1>6, <1>8, ConcatEmptySeq
  <2> QED BY <2>1, <1>2, <1>3, <1>7 DEF Erased, t
<1>9. CASE x \notin {Blank, Nul}
  <2>1. (<<x>> \o q) \o B = <<x>> \o (q \o B)
    <3>1. B \in Seq(Char) /\ q \in Seq(Char) /\ <<x>> \in Seq(Char)
      BY <1>2, <1>4, <1>5
    <3>2. Regroups(Char)
      BY ONLY Regrouped
    <3> QED BY <3>1, <3>2, Zenon DEF Regroups
  <2>2. q \o B \in Seq(Char)
    BY <1>2, <1>5, ConcatProperties
  <2> DEFINE y == q \o B
  <2>3. Behind(e) = <<x>> \o y
    BY <2>1, <1>2, <1>3, <1>6, <1>9
  <2>4. y \in Seq(Char)
    BY <2>2
  <2>5. t = Before(e) \o y
    BY <1>2, <1>3, <1>7
  <2> HIDE DEF y
  <2>6. <<x>> \o y # <<>> /\ Tail(<<x>> \o y) = y
    BY <2>4, <1>4, FirstOff
  <2> QED BY <2>3, <2>5, <2>6 DEF Erased, t
<1> QED BY <1>8, <1>9

LEMMA JoinedText ==
  ASSUME NEW a \in Text, NEW b \in Plain
  PROVE  /\ a \o <<Blank>> \o b \in Text /\ a \o b \in Text
         /\ Solid(a \o <<Blank>> \o b) = Solid(a) \o Solid(b) /\ Solid(a \o b) = Solid(a) \o Solid(b)
         /\ (a \in Plain => a \o <<Blank>> \o b \in Plain /\ a \o b \in Plain)
<1> DEFINE s == <<Blank>>
           t == a \o s
<1>1. Blank \in Char /\ Blank # Nul
  BY EditorAssumption DEF Blank, Nul
<1>2. s \in Text /\ s \in Plain /\ Solid(s) = <<>>
  BY <1>1, SolidOfChar DEF Plain
<1>3. b \in Text
  BY PlainText
<1> HIDE DEF s
<1>4. \A x, y \in Text : x \o y \in Text
  BY ConcatProperties DEF Text
<1>5. \A x, y \in Plain : x \o y \in Plain
  BY ConcatProperties DEF Plain
<1>6. t \in Text /\ t \o b \in Text /\ a \o b \in Text
  BY <1>2, <1>3, <1>4
<1>7. a \in Plain => t \o b \in Plain /\ a \o b \in Plain
  BY <1>2, <1>5
<1>8. Solid(t) = Solid(a)
  <2>1. Solid(t) = Solid(a) \o Solid(s)
    BY <1>2, SolidConcat
  <2>2. Solid(a) \o <<>> = Solid(a)
    BY SolidType, ConcatEmptySeq
  <2> QED BY <2>1, <2>2, <1>2
<1> HIDE DEF t
<1>9. Solid(t \o b) = Solid(t) \o Solid(b) /\ Solid(a \o b) = Solid(a) \o Solid(b)
  BY <1>3, <1>6, SolidConcat
<1> QED BY <1>6, <1>7, <1>8, <1>9 DEF t, s

(* Two rows become one.                                                    *)
Merged(h, r, n, buf) ==
  /\ ~r.editing /\ Len(r.lines) = Len(h.lines) - 1 /\ r.lines[n].text = TextIn(buf)
  /\ \A k \in 1 .. n - 1 : r.lines[k].text = h.lines[k].text
  /\ \A k \in n + 1 .. Len(h.lines) - 1 : r.lines[k].text = h.lines[k + 1].text
Words2(h, n, ss) ==
  /\ ss \in Seq(Seq(Char)) /\ Len(ss) = Len(h.lines)
  /\ \A k \in 1 .. Len(h.lines) : k # n => ss[k] = Solid(h.lines[k].text)

LEMMA MergedText ==
  ASSUME NEW h, Whole(h), NEW n \in 1 .. Len(h.lines) - 1, NEW r, Whole(r), NEW buf \in Plain, Merged(h, r, n, buf),
         NEW ss, Words2(h, n, ss), Solid(buf) = ss[n] \o ss[n + 1]
  PROVE  FlattenSeq(Spoken(r)) = FlattenSeq(ss)
<1> DEFINE tt == Spoken(r)
           m == Len(h.lines)
<1>1. r.lines \in Seq(LineT) /\ r.buf \in Text /\ m \in Nat /\ n \in 1 .. m - 1 /\ Len(r.lines) = m - 1 /\ ~r.editing
  BY ListedFields, EdFields DEF Whole, Merged
<1>2. ss \in Seq(Seq(Char)) /\ Len(ss) = m /\ \A k \in 1 .. m : k # n => ss[k] = Solid(h.lines[k].text)
  BY DEF Words2
<1>3. tt \in Seq(Seq(Char)) /\ Len(tt) = m - 1 /\ \A k \in 1 .. m - 1 : tt[k] = Solid(r.lines[k].text)
  BY <1>1, SpokenIs
<1>4. tt[n] = ss[n] \o ss[n + 1]
  <2>1. tt[n] = Solid(TextIn(buf))
    BY <1>1, <1>3 DEF Merged
  <2> QED BY <2>1, SolidTextIn
<1>5. ASSUME NEW k \in 1 .. n - 1 PROVE tt[k] = ss[k]
  <2>1. k \in 1 .. m - 1 /\ k \in 1 .. m /\ k # n
    BY <1>1
  <2> QED BY <2>1, <1>2, <1>3 DEF Merged
<1>6. ASSUME NEW k \in n + 1 .. m - 1 PROVE tt[k] = ss[k + 1]
  <2>1. k \in 1 .. m - 1 /\ k + 1 \in 1 .. m /\ k + 1 # n
    BY <1>1
  <2> QED BY <2>1, <1>2, <1>3 DEF Merged
<1> HIDE DEF tt, m
<1>7. ss \in Seq(Seq(Char)) /\ tt \in Seq(Seq(Char)) /\ n \in 1 .. Len(tt) /\ Len(ss) = Len(tt) + 1
  BY <1>1, <1>2, <1>3
<1>8. (\A k \in 1 .. n - 1 : tt[k] = ss[k]) /\ (\A k \in n + 1 .. Len(tt) : tt[k] = ss[k + 1])
  BY <1>3, <1>5, <1>6
<1>9. FlattenSeq(tt) = FlattenSeq(ss)
  BY ONLY <1>4, <1>7, <1>8, FlattenSeqMerged
<1> QED BY <1>9 DEF tt

(* A line is joined with the one before it.                                *)
JoinedUp(e, h) ==
  With(commitBuf(deleteLine(h, e.cur)), LAMBDA k : With(indentSuccLines(k, k.cur), LAMBDA m : [m EXCEPT !.num_lines = @ - 1]))

LEMMA JoinedUpKeeps ==
  ASSUME NEW e, NEW h, Whole(h), h.cur = e.cur - 1, e.cur \in 2 .. Len(h.lines), NEW r, r = JoinedUp(e, h)
  PROVE  Whole(r) /\ r.changed /\ Merged(h, r, e.cur - 1, h.buf)
<1> DEFINE c == e.cur
           d == deleteLine(h, c)
           k == commitBuf(d)
           m == indentSuccLines(k, k.cur)
<1>1. c \in 1 .. Len(h.lines) /\ Len(h.lines) >= 2 /\ Len(h.lines) \in Nat /\ h.al = h.cur - 1
  BY ListedFields DEF Whole, At
<1>2. /\ Listed(d, Larger(1, c - 1)) /\ Len(d.lines) = Len(h.lines) - 1 /\ d.changed /\ d.cur = h.cur /\ d.al = h.al
      /\ d.buf = h.buf
      /\ \A i \in 1 .. c - 1 : d.lines[i].text = h.lines[i].text
      /\ \A i \in c .. Len(h.lines) - 1 : d.lines[i].text = h.lines[i + 1].text
  BY <1>1, deleteLineOrders
<1> HIDE DEF d
<1>3. Larger(1, c - 1) = d.cur
  BY <1>2 DEF Larger
<1>4. At(d) /\ Listed(d, d.cur) /\ d.cur <= d.cur
  BY <1>1, <1>2, <1>3 DEF At
<1>5. /\ Listed(k, d.cur) /\ At(k) /\ Stays(d, k) /\ k.changed /\ ~k.editing
      /\ \A i \in 1 .. Len(d.lines) : i # d.cur => k.lines[i].text = d.lines[i].text
      /\ k.lines[d.cur].text = TextIn(d.buf)
  BY <1>2, <1>4, commitBufOrders
<1> HIDE DEF k
<1>6. Listed(k, k.cur)
  BY <1>5 DEF Stays
<1>7. /\ Listed(m, Len(m.lines)) /\ Len(m.lines) = Len(k.lines) /\ SameRest(k, m)
      /\ \A i \in 1 .. Len(k.lines) : m.lines[i].text = k.lines[i].text
  BY <1>6, indentSuccLinesOrders
<1> HIDE DEF m
<1>8. Whole(m) /\ m.changed
  BY <1>5, <1>7 DEF Whole, At, SameRest
<1>9. m.num_lines - 1 \in Int
  <2>1. m.num_lines \in Int
    BY <1>7, ListedFields, EdFields
  <2> QED BY <2>1
<1>10. r = WithCount(m, m.num_lines - 1)
  BY DEF JoinedUp, With, WithCount, m, k, d
<1>11. Whole(r) /\ r.changed = m.changed /\ r.lines = m.lines /\ r.editing = m.editing
  BY <1>8, <1>9, <1>10, WithCountIs
<1>12. Merged(h, r, c - 1, h.buf)
  <2> DEFINE n == c - 1
             len == Len(h.lines)
  <2>1. n \in 1 .. len - 1 /\ len \in Nat /\ d.cur = n /\ Len(d.lines) = len - 1 /\ Len(k.lines) = len - 1 /\ c = n + 1
    BY <1>1, <1>2, <1>5 DEF Stays
  <2>2. ~r.editing /\ Len(r.lines) = len - 1 /\ \A i \in 1 .. len - 1 : r.lines[i].text = k.lines[i].text
    BY <2>1, <1>5, <1>7, <1>11 DEF SameRest
  <2>3. r.lines[n].text = TextIn(h.buf)
    BY <2>1, <2>2, <1>2, <1>5
  <2>4. ASSUME NEW i \in 1 .. n - 1 PROVE r.lines[i].text = h.lines[i].text
    <3>1. i \in 1 .. len - 1 /\ i # n /\ i \in 1 .. c - 1
      BY <2>1
    <3> QED BY <3>1, <2>1, <2>2, <1>2, <1>5
  <2>5. ASSUME NEW i \in n + 1 .. len - 1 PROVE r.lines[i].text = h.lines[i + 1].text
    <3>1. i \in 1 .. len - 1 /\ i # n /\ i \in c .. len - 1
      BY <2>1
    <3> QED BY <3>1, <2>1, <2>2, <1>2, <1>5
  <2> QED BY <2>2, <2>3, <2>4, <2>5 DEF Merged
<1> QED BY <1>8, <1>11, <1>12

LEMMA JoinWithPreviousKeeps ==
  ASSUME NEW e, Whole(e), e.cur > 1, NEW r, r = JoinWithPrevious(e)
  PROVE  Whole(r) /\ r.changed /\ (~e.editing => FlattenSeq(Spoken(r)) = FlattenSeq(Spoken(e)))
<1> DEFINE c == e.cur
           f == unfoldLine(e, c - 1)
           u == unfoldLine(f, c)
           g == line2buf(u, c - 1)
           j == Cursor(g, c - 1)
           buf == g.buf \o <<Blank>> \o g.lines[c].text
           h == WithColBuf(j, Len(g.buf), buf)
<1>1. c \in 1 .. Len(e.lines) /\ c - 1 \in 1 .. Len(e.lines) /\ Len(e.lines) \in Nat /\ c \in 2 .. Len(e.lines)
  BY ListedFields DEF Whole, At
<1>2. Whole(f) /\ Len(f.lines) = Len(e.lines) /\ (~e.editing => ~f.editing) /\ Quiet(e, f)
  BY <1>1, unfoldLineKeeps DEF Stays
<1> HIDE DEF f
<1>3. Whole(u) /\ Len(u.lines) = Len(e.lines) /\ (~f.editing => ~u.editing) /\ Quiet(f, u)
  BY <1>1, <1>2, unfoldLineKeeps DEF Stays
<1> HIDE DEF u
<1>4. /\ Whole(g) /\ Len(g.lines) = Len(e.lines)
      /\ (~u.editing => Wordings(g.lines) = Wordings(u.lines) /\ g.buf = RowText(u, c - 1) /\ g.buf \in Plain)
  BY <1>1, <1>3, line2bufKeeps DEF Stays
<1> HIDE DEF g
<1>5. Whole(j) /\ j.lines = g.lines /\ j.cur = c - 1 /\ j.buf = g.buf
  BY <1>1, <1>4, CursorIs DEF Whole
<1>6. /\ buf \in Text /\ Len(g.buf) \in Nat /\ Solid(buf) = Solid(g.buf) \o Solid(g.lines[c].text)
      /\ (g.buf \in Plain => buf \in Plain)
  <2>1. g.buf \in Text /\ g.lines[c] \in LineT
    BY <1>1, <1>4, ListedFields, EdFields DEF Whole
  <2>2. Len(g.buf) \in Nat
    BY <2>1 DEF Text
  <2>3. g.lines[c].text \in Plain
    BY <2>1, LineFields
  <2> QED BY <2>1, <2>2, <2>3, JoinedText
<1> HIDE DEF buf
<1>7. h = [j EXCEPT !.col = Len(g.buf), !.buf = buf]
  BY DEF WithColBuf
<1> HIDE DEF j
<1>8. Whole(h) /\ h.lines = g.lines /\ h.cur = c - 1 /\ h.buf = buf
  BY <1>5, <1>6, WithColBufIs
<1>9. r = JoinedUp(e, [j EXCEPT !.col = Len(g.buf), !.buf = @ \o <<Blank>> \o g.lines[c].text])
  <2> DEFINE Op3(x) == JoinedUp(e, x)
             Op2(x) == With([Cursor(x, e.cur - 1) EXCEPT !.col = Len(x.buf), !.buf = @ \o <<Blank>> \o x.lines[e.cur].text], Op3)
             Op1(x) == With(line2buf(unfoldLine(x, e.cur), e.cur - 1), Op2)
  <2>1. r = With(f, Op1)
    BY DEF JoinWithPrevious, JoinedUp, f
  <2>2. With(f, Op1) = Op1(f)
    <3> HIDE DEF Op1
    <3> QED BY DEF With
  <2>3. Op1(f) = Op2(g)
    <3> HIDE DEF Op2
    <3> QED BY DEF With, g, u
  <2>4. Op2(g) = JoinedUp(e, [j EXCEPT !.col = Len(g.buf), !.buf = @ \o <<Blank>> \o g.lines[c].text])
    <3> HIDE DEF Op3
    <3>1. Op2(g) = Op3([j EXCEPT !.col = Len(g.buf), !.buf = @ \o <<Blank>> \o g.lines[c].text])
      BY DEF With, j
    <3> QED BY <3>1 DEF Op3
  <2> HIDE DEF Op1, Op2, Op3
  <2> QED BY <2>1, <2>2, <2>3, <2>4
<1>10. [j EXCEPT !.col = Len(g.buf), !.buf = @ \o <<Blank>> \o g.lines[c].text] = h
  BY <1>5, <1>7 DEF buf
<1> HIDE DEF h
<1>11. Whole(r) /\ r.changed /\ Merged(h, r, c - 1, buf)
  BY <1>1, <1>4, <1>8, <1>9, <1>10, JoinedUpKeeps
<1>12. ASSUME ~e.editing PROVE FlattenSeq(Spoken(r)) = FlattenSeq(Spoken(e))
  <2> DEFINE ss == Spoken(e)
             n == c - 1
  <2>1. ~f.editing /\ ~u.editing /\ Spoken(f) = ss /\ Spoken(u) = ss
    <3>1. ~f.editing /\ ~u.editing
      BY <1>2, <1>3, <1>12
    <3> QED BY <3>1, <1>2, <1>3, <1>12, SpokenSettled DEF Quiet, Speaks
  <2>2. g.lines \in Seq(LineT) /\ e.lines \in Seq(LineT) /\ e.buf \in Text /\ u.lines \in Seq(LineT)
    BY <1>3, <1>4, ListedFields, EdFields DEF Whole
  <2>3. ss \in Seq(Seq(Char)) /\ Len(ss) = Len(e.lines)
    BY <2>2, SpokenIs
  <2>4. \A k \in 1 .. Len(e.lines) : ss[k] = Solid(g.lines[k].text)
    <3>1. ss = Wordings(g.lines)
      BY <2>1, <1>4, SpokenSettled
    <3> QED BY <3>1, <2>2, <1>4, WordingsType
  <2>5. Words2(h, n, ss)
    BY <2>3, <2>4, <1>4, <1>8 DEF Words2
  <2>6. Solid(g.buf) = ss[n] /\ buf \in Plain
    <3>1. Solid(RowText(u, c - 1)) = Spoken(u)[c - 1]
      BY <1>1, <1>3, RowSpoken
    <3> QED BY <3>1, <2>1, <1>4, <1>6
  <2>7. n \in 1 .. Len(h.lines) - 1 /\ n + 1 = c
    BY <1>1, <1>4, <1>8
  <2>8. Solid(buf) = ss[n] \o ss[n + 1]
    BY <2>4, <2>6, <2>7, <1>1, <1>6
  <2>9. Merged(h, r, n, buf)
    BY <1>11
  <2> HIDE DEF ss, n
  <2>10. FlattenSeq(Spoken(r)) = FlattenSeq(ss)
    <3>1. Whole(h) /\ Whole(r) /\ buf \in Plain
      BY <1>8, <1>11, <2>6
    <3> QED BY ONLY <3>1, <2>5, <2>7, <2>8, <2>9, MergedText
  <2> QED BY <2>10 DEF ss
<1> QED BY <1>11, <1>12

LEMMA backspaceKeyKeeps ==
  ASSUME NEW e, Whole(e), NEW r, r = backspaceKey(e)
  PROVE  /\ Whole(r) /\ Noted(e, r)
         /\ (Clear(e) /\ e.col <= RowLength(e) => Erased(Before(e), Behind(e), Before(r) \o Behind(r)))
<1>1. e.col \in Nat /\ e.cur \in Nat /\ e.cur >= 1
  BY ListedFields, EdFields DEF Whole, At
<1>2. CASE e.col = 0 /\ e.cur = 1
  <2>1. r = e
    BY <1>2 DEF backspaceKey
  <2> QED BY <2>1, Unmoved DEF Quiet, Erased
<1>3. CASE e.col = 0 /\ e.cur > 1
  <2> DEFINE c == Committed(e)
  <2>1. r = JoinWithPrevious(c)
    BY <1>3 DEF backspaceKey
  <2>2. Whole(c) /\ c.cur = e.cur /\ ~c.editing /\ Quiet(e, c)
    BY CommittedKeeps DEF Stays
  <2> HIDE DEF c
  <2>3. Whole(r) /\ r.changed /\ FlattenSeq(Spoken(r)) = FlattenSeq(Spoken(c))
    BY <2>1, <2>2, <1>3, JoinWithPreviousKeeps
  <2>4. Clear(e) => Before(r) \o Behind(r) = Before(e) \o Behind(e)
    <3>1. Clear(e) => Spoken(c) = Spoken(e)
      BY <2>2 DEF Quiet, Speaks
    <3>2. Before(r) \o Behind(r) = FlattenSeq(Spoken(r)) /\ Before(e) \o Behind(e) = FlattenSeq(Spoken(e))
      BY <2>3, Around
    <3> QED BY <2>3, <3>1, <3>2
  <2> QED BY <2>3, <2>4 DEF Noted, Erased
<1>4. CASE e.col > 0
  <2> DEFINE f == Editing(e)
             g == Shortened(f, e.col)
  <2>1. Whole(f) /\ f.editing /\ f.col = e.col /\ f.buf = RowText(e, e.cur)
    BY EditingKeeps DEF Stays
  <2>2. e.col <= RowLength(e) => e.col \in DOMAIN f.buf
    <3>1. f.buf \in Text /\ Len(f.buf) = RowLength(e)
      BY EditingRow
    <3>2. DOMAIN f.buf = 1 .. Len(f.buf) /\ Len(f.buf) \in Nat
      BY <3>1 DEF Text
    <3> HIDE DEF f
    <3> QED BY <3>1, <3>2, <1>1, <1>4
  <2>3. Whole(g) /\ g.changed /\ g.col = e.col /\ (e.col \in DOMAIN f.buf => Edited(f, g, RemoveAt(f.buf, e.col)))
    <3> HIDE DEF f
    <3> QED BY <1>1, <2>1, ShortenedKeeps
  <2> HIDE DEF g
  <2>4. e.col - 1 \in Nat
    BY <1>1, <1>4
  <2>5. r = WithCol(g, e.col - 1)
    BY <1>4, <2>3 DEF backspaceKey, With, WithCol, g
  <2>6. /\ Whole(r) /\ r.changed /\ r.lines = g.lines /\ r.cur = g.cur /\ r.editing = g.editing /\ r.buf = g.buf
    <3> DEFINE x == e.col - 1
    <3>1. Whole(g) /\ r = WithCol(g, x)
      BY <2>3, <2>5
    <3>2. x \in Nat /\ r = WithCol(g, x)
      BY <2>4, <2>5
    <3> HIDE DEF x
    <3>3. /\ Whole(r) /\ Quiet(g, r) /\ Alike(g, r) /\ r.lines = g.lines /\ r.changed = g.changed /\ r.cur = g.cur
          /\ r.editing = g.editing /\ r.buf = g.buf /\ r.col = x
      BY ONLY <3>1, <3>2, WithColIs
    <3> QED BY <2>3, <3>3
  <2>7. ASSUME e.col <= RowLength(e) PROVE Erased(Before(e), Behind(e), Before(r) \o Behind(r))
    <3>1. Edited(Editing(e), r, RemoveAt(RowText(e, e.cur), e.col))
      BY <2>1, <2>2, <2>3, <2>6, <2>7 DEF Edited
    <3>2. e.col \in 1 .. RowLength(e)
      BY <1>1, <1>4, <2>7, RowLengthType
    <3> QED BY <2>6, <3>1, <3>2, ErasedBefore
  <2> QED BY <2>6, <2>7 DEF Noted
<1> QED BY <1>1, <1>2, <1>3, <1>4

(* And with the one behind it.                                             *)
LEMMA JoinWithNextKeeps ==
  ASSUME NEW e, Whole(e), e.cur < Len(e.lines), NEW r, r = JoinWithNext(e)
  PROVE  Whole(r) /\ r.changed /\ (Clear(e) => FlattenSeq(Spoken(r)) = FlattenSeq(Spoken(e)))
<1> DEFINE c == e.cur
           u == unfoldLine(e, c)
           f == unfoldLine(u, c + 1)
           g == Editing(f)
           h == WithBuf(g, g.buf \o g.lines[c + 1].text)
           d == deleteLine(h, c + 1)
           k == commitBuf(d)
<1>1. c \in 1 .. Len(e.lines) /\ c + 1 \in 1 .. Len(e.lines) /\ Len(e.lines) \in Nat /\ Len(e.lines) >= 2
      /\ (c + 1) - 1 = c /\ c \in Nat /\ c >= 1
  BY ListedFields DEF Whole, At
<1>2. Whole(u) /\ Len(u.lines) = Len(e.lines) /\ u.cur = c /\ Quiet(e, u)
  BY <1>1, unfoldLineKeeps DEF Stays
<1> HIDE DEF u
<1>3. Whole(f) /\ Len(f.lines) = Len(e.lines) /\ f.cur = c /\ Quiet(u, f)
  BY <1>1, <1>2, unfoldLineKeeps DEF Stays
<1> HIDE DEF f
<1>4. /\ Whole(g) /\ Len(g.lines) = Len(e.lines) /\ g.changed /\ g.cur = c /\ g.editing
      /\ Spoken(g) = Spoken(f) /\ g.buf = RowText(f, c)
  BY <1>3, EditingKeeps DEF Stays
<1> HIDE DEF g
<1> DEFINE buf == g.buf \o g.lines[c + 1].text
<1>5. /\ buf \in Text /\ Solid(buf) = Solid(g.buf) \o Solid(g.lines[c + 1].text)
      /\ (g.buf \in Plain => buf \in Plain)
  <2>1. g.buf \in Text /\ g.lines[c + 1] \in LineT
    BY <1>1, <1>4, ListedFields, EdFields DEF Whole
  <2>2. g.lines[c + 1].text \in Plain
    BY <2>1, LineFields
  <2> QED BY <2>1, <2>2, JoinedText
<1>6. Whole(h) /\ Len(h.lines) = Len(e.lines) /\ h.cur = c /\ h.lines = g.lines /\ h.buf = buf
  <2> HIDE DEF buf
  <2>1. h = WithBuf(g, buf)
    BY DEF buf
  <2> HIDE DEF h
  <2> QED BY <2>1, <1>4, <1>5, WithBufIs
<1> HIDE DEF h, buf
<1>7. /\ Listed(d, Larger(1, (c + 1) - 1)) /\ d.changed /\ d.cur = c /\ d.al = h.al /\ d.buf = h.buf
      /\ Len(d.lines) = Len(e.lines) - 1
      /\ \A i \in 1 .. (c + 1) - 1 : d.lines[i].text = h.lines[i].text
      /\ \A i \in c + 1 .. Len(e.lines) - 1 : d.lines[i].text = h.lines[i + 1].text
  <2> DEFINE n == c + 1
  <2>1. Whole(h) /\ d = deleteLine(h, n)
    BY <1>6
  <2>3. n \in 1 .. Len(h.lines) /\ Len(h.lines) >= 2 /\ d = deleteLine(h, n)
    BY <1>1, <1>6
  <2> HIDE DEF n, d
  <2>2. /\ Listed(d, Larger(1, n - 1)) /\ Len(d.lines) = Len(h.lines) - 1 /\ d.changed
        /\ d.cur = h.cur /\ d.al = h.al /\ d.col = h.col /\ d.editing = h.editing /\ d.buf = h.buf
        /\ \A i \in 1 .. n - 1 : d.lines[i].text = h.lines[i].text
        /\ \A i \in n .. Len(h.lines) - 1 : d.lines[i].text = h.lines[i + 1].text
    BY ONLY <2>1, <2>3, deleteLineOrders
  <2> QED BY <2>2, <1>6 DEF n
<1> HIDE DEF d
<1>8. Listed(d, c) /\ h.al = c - 1
  <2>1. Larger(1, (c + 1) - 1) = c
    BY <1>1 DEF Larger
  <2> QED BY <2>1, <1>6, <1>7 DEF Whole, At
<1>9. At(d) /\ d.cur <= c
  BY <1>1, <1>7, <1>8, ListedFields DEF At
<1>10. /\ Listed(k, c) /\ At(k) /\ k.cur = c /\ k.changed /\ ~k.editing /\ Len(k.lines) = Len(e.lines) - 1
       /\ \A i \in 1 .. Len(d.lines) : i # c => k.lines[i].text = d.lines[i].text
       /\ k.lines[c].text = TextIn(d.buf)
  BY <1>7, <1>8, <1>9, commitBufOrders DEF Stays
<1> HIDE DEF k
<1>11. r = indentSuccLines(k, k.cur)
  <2> DEFINE Op3(x) == indentSuccLines(x, x.cur)
             Op2(x) == With(commitBuf(deleteLine([x EXCEPT !.buf = @ \o x.lines[e.cur + 1].text], e.cur + 1)), Op3)
             Op1(x) == With(Editing(x), Op2)
  <2>1. r = With(f, Op1)
    BY DEF JoinWithNext, f, u
  <2>2. With(f, Op1) = Op1(f)
    <3> HIDE DEF Op1
    <3> QED BY DEF With
  <2>3. Op1(f) = Op2(g)
    <3> HIDE DEF Op2
    <3> QED BY DEF With, g
  <2>4. Op2(g) = Op3(k)
    <3> HIDE DEF Op3
    <3> QED BY DEF With, WithBuf, k, d, h
  <2> HIDE DEF Op1, Op2
  <2> QED BY <2>1, <2>2, <2>3, <2>4
<1>12. /\ Listed(r, Len(r.lines)) /\ Len(r.lines) = Len(k.lines) /\ SameRest(k, r)
       /\ \A i \in 1 .. Len(k.lines) : r.lines[i].text = k.lines[i].text
  <2>1. Listed(k, k.cur)
    BY <1>10
  <2>2. /\ Listed(r, Len(r.lines)) /\ Len(r.lines) = Len(k.lines) /\ SameRest(k, r)
        /\ \A i \in 1 .. Len(k.lines) : r.lines[i].text = k.lines[i].text
    BY ONLY <2>1, <1>11, indentSuccLinesOrders
  <2> QED BY <2>2
<1>13. Whole(r) /\ r.changed
  BY <1>10, <1>12 DEF Whole, At, SameRest
<1>14. Merged(h, r, c, buf)
  <2> DEFINE len == Len(h.lines)
  <2>1. c \in 1 .. len - 1 /\ len \in Nat /\ Len(d.lines) = len - 1 /\ Len(k.lines) = len - 1 /\ len = Len(e.lines)
    BY <1>1, <1>6, <1>7, <1>10
  <2>2. ~r.editing /\ Len(r.lines) = len - 1 /\ \A i \in 1 .. len - 1 : r.lines[i].text = k.lines[i].text
    BY <2>1, <1>10, <1>12 DEF SameRest
  <2>3. r.lines[c].text = TextIn(buf)
    BY <2>1, <2>2, <1>6, <1>7, <1>10
  <2>4. ASSUME NEW i \in 1 .. c - 1 PROVE r.lines[i].text = h.lines[i].text
    <3>1. i \in 1 .. len - 1 /\ i # c /\ i \in 1 .. (c + 1) - 1
      BY <2>1
    <3> QED BY <3>1, <2>1, <2>2, <1>7, <1>10
  <2>5. ASSUME NEW i \in c + 1 .. len - 1 PROVE r.lines[i].text = h.lines[i + 1].text
    <3>1. i \in 1 .. len - 1 /\ i # c
      BY <2>1
    <3> QED BY <3>1, <2>1, <2>2, <1>7, <1>10
  <2> QED BY <2>2, <2>3, <2>4, <2>5 DEF Merged
<1>15. ASSUME Clear(e) PROVE FlattenSeq(Spoken(r)) = FlattenSeq(Spoken(e))
  <2> DEFINE ss == Spoken(e)
  <2>1. Clear(f) /\ Spoken(f) = ss /\ Spoken(g) = ss
    BY <1>2, <1>3, <1>4, <1>15 DEF Quiet, Speaks
  <2>2. g.lines \in Seq(LineT) /\ g.buf \in Text
    BY <1>4, ListedFields, EdFields DEF Whole
  <2>3. /\ ss \in Seq(Seq(Char)) /\ Len(ss) = Len(g.lines)
        /\ \A i \in 1 .. Len(g.lines) : ss[i] = IF i = c THEN Solid(g.buf) ELSE Solid(g.lines[i].text)
    BY <2>1, <2>2, <1>4, SpokenIs
  <2>4. Words2(h, c, ss)
    BY <2>3, <1>4, <1>6 DEF Words2
  <2>5. buf \in Plain
    <3>1. RowText(f, c) \in Plain
      BY <2>1, <1>3, RowTextIs
    <3> QED BY <3>1, <1>4, <1>5
  <2>6. c \in 1 .. Len(h.lines) - 1
    BY <1>1, <1>6
  <2>7. Solid(buf) = ss[c] \o ss[c + 1]
    <3>1. c \in 1 .. Len(g.lines) /\ c + 1 \in 1 .. Len(g.lines) /\ c + 1 # c
      BY <1>1, <1>4
    <3> QED BY <3>1, <2>3, <1>5
  <2> HIDE DEF ss
  <2>8. FlattenSeq(Spoken(r)) = FlattenSeq(ss)
    <3>1. Whole(h) /\ Whole(r)
      BY <1>6, <1>13
    <3> QED BY ONLY <3>1, <1>14, <2>4, <2>5, <2>6, <2>7, MergedText
  <2> QED BY <2>8 DEF ss
<1> QED BY <1>13, <1>15

LEMMA deleteKeyKeeps ==
  ASSUME NEW e, Whole(e), NEW r, r = deleteKey(e)
  PROVE  /\ Whole(r) /\ Noted(e, r)
         /\ (Clear(e) /\ e.col <= RowLength(e) => Erased(Before(e), Behind(e), Before(r) \o Behind(r)))
<1>1. e.col \in Nat /\ e.cur \in 1 .. Len(e.lines) /\ e.col + 1 \in Nat /\ Len(e.lines) \in Nat
  BY ListedFields, EdFields DEF Whole, At
<1>2. CASE e.col = RowLength(e) /\ e.cur = Len(e.lines)
  <2>1. r = e
    BY <1>2 DEF deleteKey
  <2> QED BY <2>1, Unmoved DEF Quiet, Erased
<1>3. CASE e.col = RowLength(e) /\ e.cur < Len(e.lines)
  <2>1. r = JoinWithNext(e)
    BY <1>1, <1>3 DEF deleteKey
  <2>2. Whole(r) /\ r.changed /\ (Clear(e) => FlattenSeq(Spoken(r)) = FlattenSeq(Spoken(e)))
    BY <2>1, <1>3, JoinWithNextKeeps
  <2>3. Before(r) \o Behind(r) = FlattenSeq(Spoken(r)) /\ Before(e) \o Behind(e) = FlattenSeq(Spoken(e))
    BY <2>2, Around
  <2> QED BY <2>2, <2>3 DEF Noted, Erased
<1>4. CASE e.col # RowLength(e)
  <2> DEFINE f == Editing(e)
             n == e.col + 1
  <2>1. r = Shortened(f, n)
    BY <1>4 DEF deleteKey
  <2>2. Whole(f) /\ f.editing /\ f.buf = RowText(e, e.cur) /\ f.buf \in Text /\ Len(f.buf) = RowLength(e)
    BY EditingKeeps, EditingRow
  <2> HIDE DEF f
  <2>3. n \in Nat
    BY <1>1
  <2> HIDE DEF n
  <2>4. Whole(r) /\ r.changed /\ (n \in DOMAIN f.buf => Edited(f, r, RemoveAt(f.buf, n)))
    BY <2>1, <2>2, <2>3, ShortenedKeeps
  <2>5. ASSUME e.col <= RowLength(e) PROVE Erased(Before(e), Behind(e), Before(r) \o Behind(r))
    <3>1. e.col + 1 \in 1 .. RowLength(e)
      BY <1>1, <1>4, <2>5, RowLengthType
    <3>2. DOMAIN f.buf = 1 .. RowLength(e)
      BY <2>2 DEF Text
    <3>3. Edited(Editing(e), r, RemoveAt(RowText(e, e.cur), e.col + 1))
      BY <3>1, <3>2, <2>2, <2>4 DEF n, f
    <3> QED BY <2>4, <3>1, <3>3, ErasedBehind
  <2> QED BY <2>4, <2>5 DEF Noted
<1> QED BY <1>1, <1>2, <1>3, <1>4

LEMMA killLineKeeps ==
  ASSUME NEW e, Whole(e), NEW r, r = killLine(e)
  PROVE  /\ Whole(r) /\ Noted(e, r) /\ (Len(e.lines) = 1 => r = e)
         /\ (Len(e.lines) # 1 /\ Clear(e) => FlattenSeq(Spoken(r)) = Above(e) \o Below(e))
<1> DEFINE n  == e.cur
           nl == IF n < Len(e.lines) THEN n + 1 ELSE n - 1
           k  == IF n < Len(e.lines) THEN n ELSE n - 1
           c  == Committed(e)
           f  == unfoldLine(c, n)
           x  == Smaller(f.col, Len(f.lines[nl].text))
           v  == WithCol(f, x)
           g  == deleteLine(v, n)
           h  == indentSuccLines(g, Larger(1, k - 1))
           w  == Cursor(h, k)
<1>1. n \in 1 .. Len(e.lines) /\ Len(e.lines) \in Nat
  BY ListedFields DEF Whole, At
<1>2. CASE Len(e.lines) = 1
  BY <1>2, Unmoved DEF killLine, Quiet
<1>3. CASE Len(e.lines) # 1
  <2>1. /\ nl \in 1 .. Len(e.lines) /\ k \in 1 .. Len(e.lines) - 1 /\ Len(e.lines) >= 2
        /\ Larger(1, k - 1) \in 1 .. Larger(1, n - 1) /\ Larger(1, n - 1) \in 1 .. Len(e.lines) - 1
    <3> DEFINE len == Len(e.lines)
    <3>1. len >= 2 /\ len \in Nat /\ n \in 1 .. len
      <4>1. len \in Nat /\ n \in 1 .. len /\ len # 1
        BY <1>1, <1>3
      <4> HIDE DEF len, n, k, nl
      <4> QED BY ONLY <4>1
    <3> HIDE DEF len, n
    <3>2. nl \in 1 .. len /\ k \in 1 .. len - 1 /\ k \in Int /\ n \in Int
      BY <3>1 DEF len
    <3>3. (k = n \/ k = n - 1) /\ n - 1 <= len - 1
      BY <3>1 DEF len
    <3> HIDE DEF k, nl
    <3>4. Larger(1, k - 1) \in 1 .. Larger(1, n - 1) /\ Larger(1, n - 1) \in 1 .. len - 1
      BY <3>1, <3>2, <3>3 DEF Larger
    <3> QED BY <3>1, <3>2, <3>4 DEF len
  <2>2. Whole(c) /\ Len(c.lines) = Len(e.lines) /\ c.cur = n /\ ~c.editing /\ Quiet(e, c)
    BY CommittedKeeps DEF Stays
  <2> HIDE DEF c
  <2>3. Whole(f) /\ Len(f.lines) = Len(e.lines) /\ ~f.editing /\ Quiet(c, f)
    BY <1>1, <2>2, unfoldLineKeeps DEF Stays
  <2> HIDE DEF f, nl, k
  <2>4. x \in Nat
    <3>1. f.col \in Nat /\ f.lines[nl] \in LineT
      BY <2>1, <2>3, ListedFields, EdFields DEF Whole
    <3>2. Len(f.lines[nl].text) \in Nat
      BY <3>1, LineFields DEF Plain
    <3> QED BY <3>1, <3>2 DEF Smaller
  <2>5. Whole(v) /\ v.lines = f.lines /\ ~v.editing
    <3> HIDE DEF x
    <3>1. Whole(v) /\ v.lines = f.lines /\ v.editing = f.editing
      BY <2>3, <2>4, WithColIs
    <3> QED BY <2>3, <3>1
  <2>6. /\ Listed(g, Larger(1, n - 1)) /\ Len(g.lines) = Len(f.lines) - 1 /\ g.changed /\ ~g.editing
        /\ \A i \in 1 .. n - 1 : g.lines[i].text = f.lines[i].text
        /\ \A i \in n .. Len(f.lines) - 1 : g.lines[i].text = f.lines[i + 1].text
    <3>1. Whole(v) /\ g = deleteLine(v, n)
      BY <2>5
    <3>2. n \in 1 .. Len(v.lines) /\ Len(v.lines) >= 2 /\ g = deleteLine(v, n)
      BY <1>1, <2>1, <2>3, <2>5
    <3> HIDE DEF v, g, n
    <3>3. /\ Listed(g, Larger(1, n - 1)) /\ Len(g.lines) = Len(v.lines) - 1 /\ g.changed
          /\ g.cur = v.cur /\ g.al = v.al /\ g.col = v.col /\ g.editing = v.editing /\ g.buf = v.buf
          /\ \A i \in 1 .. n - 1 : g.lines[i].text = v.lines[i].text
          /\ \A i \in n .. Len(v.lines) - 1 : g.lines[i].text = v.lines[i + 1].text
      BY ONLY <3>1, <3>2, deleteLineOrders
    <3> QED BY <2>5, <3>3
  <2> HIDE DEF g
  <2>7. Listed(g, Larger(1, k - 1))
    <3>1. Larger(1, n - 1) \in Nat
      BY <2>1, <1>1
    <3>2. Upto(g.lines, Larger(1, k - 1))
      BY <3>1, <2>1, <2>6, UptoLess DEF Listed
    <3>3. Larger(1, k - 1) \in 1 .. Len(g.lines)
      <4>1. Len(g.lines) = Len(e.lines) - 1 /\ Len(e.lines) \in Nat
        BY <1>1, <2>3, <2>6
      <4>2. Larger(1, k - 1) \in 1 .. Larger(1, n - 1) /\ Larger(1, n - 1) \in 1 .. Len(e.lines) - 1
        BY <2>1
      <4> QED BY ONLY <4>1, <4>2
    <3> QED BY <3>2, <3>3, <2>6 DEF Listed
  <2>8. Listed(h, Len(h.lines)) /\ Len(h.lines) = Len(e.lines) - 1 /\ h.changed
    BY <2>3, <2>6, <2>7, indentSuccLinesOrders DEF SameRest
  <2>12. ~h.editing /\ \A i \in 1 .. Len(h.lines) : h.lines[i].text = g.lines[i].text
    BY <2>6, <2>7, indentSuccLinesOrders DEF SameRest
  <2> HIDE DEF h
  <2>9. Whole(w) /\ w.lines = h.lines /\ w.changed /\ ~w.editing
    <3>1. k \in 1 .. Len(h.lines)
      BY <2>1, <2>8
    <3>2. Whole(w) /\ w.lines = h.lines /\ w.changed = h.changed /\ w.editing = h.editing
      BY ONLY ZenonT(30), <2>8, <3>1, CursorIs
    <3> HIDE DEF w
    <3> QED BY ONLY <2>8, <2>12, <3>2
  <2>10. r = unfoldLine(w, k)
    <3> DEFINE Op3(y) == unfoldLine(Cursor(y, k), k)
               Op2(y) == With(indentSuccLines(y, Larger(1, k - 1)), Op3)
               Op1(y) == With(deleteLine([y EXCEPT !.col = Smaller(@, Len(y.lines[nl].text))], n), Op2)
    <3>1. r = With(f, Op1)
      BY <1>3 DEF killLine, f, c, nl, k
    <3>2. With(f, Op1) = Op1(f)
      <4> HIDE DEF Op1
      <4> QED BY DEF With
    <3>3. Op1(f) = Op2(g)
      <4> HIDE DEF Op2
      <4> QED BY DEF With, g, WithCol
    <3>4. Op2(g) = Op3(h)
      <4> HIDE DEF Op3
      <4> QED BY DEF With, h
    <3> HIDE DEF Op1, Op2
    <3> QED BY <3>1, <3>2, <3>3, <3>4
  <2> HIDE DEF w
  <2>11. Whole(r) /\ Quiet(w, r)
    BY <2>1, <2>8, <2>9, <2>10, unfoldLineKeeps
  <2> HIDE DEF n, x, v
  <2>13. ASSUME Clear(e) PROVE FlattenSeq(Spoken(r)) = Above(e) \o Below(e)
    <3> DEFINE ss == Spoken(e)
               tt == Wordings(h.lines)
    <3>1. ss = Wordings(f.lines)
      <4>1. Clear(c) /\ Spoken(c) = ss
        BY <2>2, <2>13 DEF Quiet, Speaks
      <4>2. Spoken(f) = ss
        BY <2>3, <4>1 DEF Quiet, Speaks
      <4> QED BY <2>3, <4>2, SpokenSettled
    <3>2. Spoken(r) = tt
      <4>1. Clear(w) /\ Spoken(w) = Wordings(w.lines)
        BY <2>9, SpokenSettled
      <4> QED BY <2>9, <2>11, <4>1 DEF Quiet, Speaks
    <3> HIDE DEF ss
    <3>3. /\ ss \in Seq(Seq(Char)) /\ Len(ss) = Len(e.lines)
          /\ \A i \in 1 .. Len(e.lines) : ss[i] = Solid(f.lines[i].text)
      <4>1. f.lines \in Seq(LineT)
        BY <2>3, ListedFields DEF Whole
      <4> QED BY <2>3, <3>1, <4>1, WordingsType
    <3>4. /\ tt \in Seq(Seq(Char)) /\ Len(tt) = Len(e.lines) - 1
          /\ \A i \in 1 .. Len(e.lines) - 1 : tt[i] = Solid(g.lines[i].text)
      <4>1. h.lines \in Seq(LineT)
        BY <2>8, ListedFields
      <4>2. Len(tt) = Len(h.lines) /\ \A i \in 1 .. Len(h.lines) : tt[i] = Solid(h.lines[i].text)
        BY <4>1, WordingsType
      <4>3. tt \in Seq(Seq(Char))
        BY <4>1, WordingsType
      <4> HIDE DEF tt
      <4> QED BY <2>8, <2>12, <4>2, <4>3
    <3> HIDE DEF tt
    <3>5. Len(ss) = Len(tt) + 1 /\ n \in 1 .. Len(ss) /\ Len(e.lines) \in Nat
      BY <1>1, <3>3, <3>4
    <3>6. \A i \in 1 .. n - 1 : tt[i] = ss[i]
      <4> TAKE i \in 1 .. n - 1
      <4>1. i \in 1 .. Len(e.lines) - 1 /\ i \in 1 .. Len(e.lines)
        BY <1>1
      <4> QED BY <4>1, <2>6, <3>3, <3>4
    <3>7. \A i \in n .. Len(tt) : tt[i] = ss[i + 1]
      <4> TAKE i \in n .. Len(tt)
      <4>1. i \in 1 .. Len(e.lines) - 1 /\ i + 1 \in 1 .. Len(e.lines) /\ i \in n .. Len(f.lines) - 1
        BY <1>1, <2>3, <3>4
      <4> QED BY <4>1, <2>6, <3>3, <3>4
    <3>8. FlattenSeq(tt) = Run(ss, 0, n - 1) \o Run(ss, n, Len(ss) - n)
      BY ONLY <3>3, <3>4, <3>5, <3>6, <3>7, FlattenSeqWithout
    <3>9. Above(e) = Run(ss, 0, n - 1) /\ Below(e) = Run(ss, n, Len(ss) - n)
      BY <3>3, SidesAre DEF ss, n
    <3> QED BY <3>2, <3>8, <3>9
  <2> QED BY <1>3, <2>9, <2>11, <2>13 DEF Quiet, Noted
<1> QED BY <1>2, <1>3

(* A character is put into a row.                                          *)
LEMMA TypedRow ==
  ASSUME NEW row \in Text, NEW n \in 1 .. Len(row) + 1, NEW c \in Char, NEW buf, buf = InsertAt(row, n, c)
  PROVE  /\ buf \in Text /\ Len(buf) = Len(row) + 1 /\ (row \in Plain /\ c # Nul => buf \in Plain)
         /\ Solid(SubSeq(buf, 1, n)) = Solid(SubSeq(row, 1, n - 1)) \o Solid(<<c>>)
         /\ Solid(SubSeq(buf, n + 1, Len(buf))) = Solid(SubSeq(row, n, Len(row)))
<1>1. row \in Seq(Char) /\ Len(row) \in Nat
  BY DEF Text
<1>2. /\ buf \in Seq(Char) /\ Len(buf) = Len(row) + 1
      /\ \A k \in 1 .. n - 1 : buf[k] = row[k]
      /\ buf[n] = c
      /\ \A k \in n + 1 .. Len(row) + 1 : buf[k] = row[k - 1]
  <2>2. row \in Seq(Char) /\ n \in 1 .. Len(row) + 1 /\ c \in Char
    BY <1>1
  <2>1. /\ InsertAt(row, n, c) \in Seq(Char) /\ Len(InsertAt(row, n, c)) = Len(row) + 1
        /\ \A k \in 1 .. n - 1 : InsertAt(row, n, c)[k] = row[k]
        /\ InsertAt(row, n, c)[n] = c
        /\ \A k \in n + 1 .. Len(row) + 1 : InsertAt(row, n, c)[k] = row[k - 1]
    BY ONLY <2>2, InsertedIs
  <2> QED BY <2>1
<1>3. row \in Plain /\ c # Nul => buf \in Plain
  <2>1. ASSUME row \in Plain, c # Nul, NEW k \in 1 .. Len(buf) PROVE buf[k] \in Char \ {Nul}
    <3>1. \A i \in 1 .. Len(row) : row[i] \in Char \ {Nul}
      BY <2>1 DEF Plain
    <3>2. k \in 1 .. n - 1 \/ k = n \/ (k \in n + 1 .. Len(row) + 1 /\ k - 1 \in 1 .. Len(row))
      BY <1>1, <1>2
    <3>3. k \in 1 .. n - 1 => k \in 1 .. Len(row)
      BY <1>1
    <3> QED BY <2>1, <3>1, <3>2, <3>3, <1>2
  <2> QED BY <1>2, <2>1 DEF Plain
<1>4. SubSeq(buf, 1, n - 1) = SubSeq(row, 1, n - 1)
  <2> DEFINE m == n - 1
  <2>1. m \in 0 .. Len(row) /\ \A k \in 1 .. m : buf[k] = row[k] /\ buf[k] \in Char /\ row[k] \in Char
    BY <1>1, <1>2
  <2> HIDE DEF m
  <2>2. Len(SubSeq(buf, 1, m)) = m /\ Len(SubSeq(row, 1, m)) = m /\ SubSeq(buf, 1, m) \in Seq(Char) /\ SubSeq(row, 1, m) \in Seq(Char)
        /\ \A k \in 1 .. m : SubSeq(buf, 1, m)[k] = buf[k] /\ SubSeq(row, 1, m)[k] = row[k]
    BY <1>1, <1>2, <2>1, SubSeqProperties
  <2>3. SubSeq(buf, 1, m) = SubSeq(row, 1, m)
    BY <2>1, <2>2
  <2> QED BY <2>3 DEF m
<1>5. SubSeq(buf, n + 1, Len(buf)) = SubSeq(row, n, Len(row))
  <2> DEFINE m == Len(row) + 1 - n
             p == n + 1
             s == SubSeq(buf, n + 1, Len(row) + 1)
             t == SubSeq(row, n, Len(row))
  <2>1. m \in Nat /\ n \in Nat /\ n >= 1 /\ n <= Len(row) + 1
    BY <1>1
  <2>2. s = [k \in 1 .. m |-> buf[n + k]]
    BY <1>1, <2>1
  <2>3. t = [k \in 1 .. m |-> row[n + k - 1]]
    BY <1>1, <2>1
  <2>4. \A k \in 1 .. m : buf[n + k] = row[n + k - 1]
    <3> TAKE k \in 1 .. m
    <3>1. n + k \in n + 1 .. Len(row) + 1
      BY <1>1, <2>1
    <3> QED BY <1>2, <3>1
  <2>5. s = t
    BY <2>2, <2>3, <2>4
  <2> QED BY <1>2, <2>5
<1>6. Solid(SubSeq(buf, 1, n)) = Solid(SubSeq(buf, 1, n - 1)) \o Solid(<<buf[n]>>)
  <2>1. buf \in Text /\ n \in 1 .. Len(buf)
    BY <1>1, <1>2 DEF Text
  <2> QED BY <2>1, RowParts
<1> QED BY <1>2, <1>3, <1>4, <1>5, <1>6 DEF Text

(* What is typed stands in front of the cursor.                            *)
Written(e, r, text) ==
  /\ Before(r) = Before(e) \o text /\ Behind(r) = Behind(e)
  /\ r.col <= RowLength(r)
LEMMA printableKeeps ==
  ASSUME NEW e, Whole(e), NEW c \in Char \ {Nul}, NEW r, r = insertChar(e, c)
  PROVE  /\ Whole(r) /\ Noted(e, r)
         /\ (Clear(e) /\ e.col <= RowLength(e) => Written(e, r, Solid(<<c>>)) /\ Clear(r))
<1> DEFINE f == Editing(e)
           n == Len(f.buf)
           buf == IF f.col <= n THEN InsertAt(f.buf, f.col + 1, c) ELSE Append(f.buf, Nul)
           after == Cut(f, buf, Faded(f.lines, f.cur))
           x == IF after.col < n + 1 THEN after.col + 1 ELSE after.col
<1>1. /\ Whole(f) /\ f.changed /\ f.editing /\ f.buf = RowText(e, e.cur) /\ f.col = e.col
      /\ f.buf \in Text /\ Len(f.buf) = RowLength(e)
  BY EditingKeeps, EditingRow DEF Stays
<1>2. after = [f EXCEPT !.buf = buf, !.lines[f.cur].up2date = FALSE]
  <2> HIDE DEF f, buf
  <2>1. f \in EdT /\ f.lines \in Seq(LineT) /\ f.cur \in 1 .. Len(f.lines)
    BY <1>1, ListedFields DEF Whole, At
  <2>2. [f EXCEPT !.buf = buf, !.lines[f.cur].up2date = FALSE] = Cut(f, buf, [f.lines EXCEPT ![f.cur].up2date = FALSE])
    BY <2>1 DEF Cut, EdT
  <2> QED BY <2>1, <2>2, FadedIs
<1>3. r = WithCol([f EXCEPT !.buf = buf, !.lines[f.cur].up2date = FALSE],
                  IF [f EXCEPT !.buf = buf, !.lines[f.cur].up2date = FALSE].col < n + 1
                  THEN [f EXCEPT !.buf = buf, !.lines[f.cur].up2date = FALSE].col + 1
                  ELSE [f EXCEPT !.buf = buf, !.lines[f.cur].up2date = FALSE].col)
  <2> DEFINE Op(y) == [[y EXCEPT !.buf = IF y.col <= Len(y.buf) THEN InsertAt(@, y.col + 1, c) ELSE Append(@, Nul),
                                 !.lines[y.cur].up2date = FALSE] EXCEPT !.col = IF @ < Len(y.buf) + 1 THEN @ + 1 ELSE @]
  <2>1. r = With(f, Op)
    BY DEF insertChar, f
  <2>2. With(f, Op) = Op(f)
    <3> HIDE DEF Op, f
    <3> QED BY DEF With
  <2> HIDE DEF f
  <2> QED BY <2>1, <2>2 DEF WithCol
<1> HIDE DEF f
<1>4. f.buf \in Text /\ f.col \in Nat /\ n \in Nat
  <2>1. f.buf \in Text /\ f.col \in Nat
    BY <1>1, ListedFields, EdFields DEF Whole
  <2> QED BY <2>1 DEF Text
<1>5. buf \in Text
  <2>1. CASE f.col <= n
    <3>1. f.col + 1 \in 1 .. Len(f.buf) + 1 /\ f.buf \in Seq(Char)
      BY <2>1, <1>4 DEF Text
    <3>2. InsertAt(f.buf, f.col + 1, c) \in Seq(Char)
      BY <3>1, InsertedIs
    <3> QED BY <3>2, <2>1 DEF Text
  <2>2. CASE ~(f.col <= n)
    <3>1. Nul \in Char
      BY EditorAssumption DEF Nul
    <3>2. Append(f.buf, Nul) \in Seq(Char)
      BY <3>1, <1>4, AppendProperties DEF Text
    <3> QED BY <3>2, <2>2 DEF Text
  <2> QED BY <2>1, <2>2
<1>9. f.col <= n => buf = InsertAt(f.buf, f.col + 1, c)
  OBVIOUS
<1> HIDE DEF buf
<1>6. Whole(after) /\ after.changed /\ after.col = f.col /\ Edited(f, after, buf)
  BY <1>1, <1>5, CutKeeps
<1> HIDE DEF after
<1>7. x \in Nat
  BY <1>4, <1>6
<1>8. r = WithCol(after, x)
  BY <1>2, <1>3
<1>10. e.col <= RowLength(e) => x = e.col + 1
  BY <1>1, <1>4, <1>6
<1> HIDE DEF x
<1>11. /\ Whole(r) /\ r.changed /\ r.lines = after.lines /\ r.cur = after.cur /\ r.editing = after.editing
       /\ r.buf = after.buf /\ r.col = x
  BY <1>6, <1>7, <1>8, WithColIs
<1>12. Edited(f, r, buf)
  BY <1>6, <1>11 DEF Edited
<1>13. ASSUME Clear(e), e.col <= RowLength(e) PROVE Written(e, r, Solid(<<c>>)) /\ Clear(r)
  <2> DEFINE row == RowText(e, e.cur)
             m == e.col + 1
  <2>1. row \in Text /\ row \in Plain /\ row = f.buf /\ Len(row) = RowLength(e) /\ Len(row) \in Nat /\ n = Len(row)
    BY <1>1, <1>4, <1>13, RowTextIs
  <2>2. m \in 1 .. Len(row) + 1 /\ m - 1 = e.col /\ buf = InsertAt(row, m, c) /\ e.col \in Nat
    BY <1>1, <1>4, <1>9, <1>13, <2>1
  <2> HIDE DEF row
  <2>3. r.col = m
    BY <1>10, <1>11, <1>13
  <2> HIDE DEF m, f, n
  <2>4. /\ buf \in Text /\ Len(buf) = Len(row) + 1 /\ (row \in Plain /\ c # Nul => buf \in Plain)
        /\ Solid(SubSeq(buf, 1, m)) = Solid(SubSeq(row, 1, m - 1)) \o Solid(<<c>>)
        /\ Solid(SubSeq(buf, m + 1, Len(buf))) = Solid(SubSeq(row, m, Len(row)))
    <3>1. row \in Text /\ buf = InsertAt(row, m, c)
      BY <2>1, <2>2
    <3>2. m \in 1 .. Len(row) + 1 /\ c \in Char /\ buf = InsertAt(row, m, c)
      BY <2>2
    <3> QED BY ONLY SMTT(30), <3>1, <3>2, TypedRow
  <2>5. Above(r) = Above(e) /\ Below(r) = Below(e) /\ RowText(r, r.cur) = buf
    BY <1>11, <1>12, EditedSides DEF f
  <2>6. LeftOf(r) = LeftOf(e) \o Solid(<<c>>)
    <3>1. Smaller(m, Len(buf)) = m /\ Smaller(e.col, Len(row)) = m - 1
      BY <2>1, <2>2, <2>4 DEF Smaller
    <3>2. LeftOf(r) = Solid(SubSeq(buf, 1, m)) /\ LeftOf(e) = Solid(SubSeq(row, 1, m - 1))
      BY <2>3, <2>5, <3>1 DEF LeftOf, row
    <3> QED BY <2>4, <3>2
  <2>7. RightOf(r) = RightOf(e)
    <3>1. RightOf(r) = Solid(SubSeq(buf, m + 1, Len(buf))) /\ RightOf(e) = Solid(SubSeq(row, m, Len(row)))
      BY <2>3, <2>5 DEF RightOf, row, m
    <3> QED BY <2>4, <3>1
  <2>8. Before(r) = Before(e) \o Solid(<<c>>) /\ Behind(r) = Behind(e)
    <3> DEFINE A == Above(e)
               L == LeftOf(e)
               C == Solid(<<c>>)
    <3>1. Before(r) = A \o (L \o C) /\ Before(e) = A \o L /\ Behind(r) = Behind(e)
      BY <1>11, <2>5, <2>6, <2>7, SidesAre
    <3>2. A \in Seq(Char) /\ L \in Seq(Char) /\ C \in Seq(Char)
      BY SidesAre, SolidOfChar, SolidType
    <3> HIDE DEF A, L, C
    <3>3. (A \o L) \o C = A \o (L \o C)
      BY <3>2, Regrouped DEF Regroups
    <3> QED BY <3>1, <3>3 DEF C
  <2>9. r.editing /\ r.buf = buf
    BY <1>12 DEF Edited
  <2>10. r.col <= RowLength(r)
    BY <2>1, <2>2, <2>3, <2>4, <2>9 DEF RowLength
  <2> QED BY <2>1, <2>4, <2>8, <2>9, <2>10 DEF Written, Clear
<1> QED BY <1>11, <1>13 DEF Noted

LEMMA insertCharKeeps ==
  ASSUME NEW e, Whole(e), NEW c \in Char, NEW r, r = insertChar(e, c)
  PROVE  /\ Whole(r) /\ Noted(e, r)
         /\ (Clear(e) /\ e.col <= RowLength(e) => Written(e, r, Solid(<<c>>)) /\ Clear(r))
<1>1. CASE c = Nul
  <2>1. r = e
    BY <1>1 DEF insertChar
  <2>2. Solid(<<c>>) = <<>>
    BY <1>1, SolidOfChar
  <2>3. Before(e) \o <<>> = Before(e)
    BY Around
  <2>4. Noted(e, r)
    BY <2>1, Unmoved DEF Quiet
  <2> QED BY <2>1, <2>2, <2>3, <2>4 DEF Written
<1>2. CASE c # Nul
  BY <1>2, printableKeeps
<1> QED BY <1>1, <1>2
-----------------------------------------------------------------------------
(* The cursor moves: a line in progress is committed first.                *)
LEMMA ToLineKeeps ==
  ASSUME NEW e, Whole(e), ~e.editing, NEW n \in 1 .. Len(e.lines), NEW r, r = ToLine(e, n)
  PROVE  Whole(r) /\ Quiet(e, r)
<1> DEFINE k == Cursor(e, n)
           x == Smaller(k.col, Width(e.lines[n]))
<1>1. Whole(k) /\ Quiet(e, k)
  BY CursorIs DEF Whole
<1> HIDE DEF k
<1>2. x \in Nat
  <2>1. k.col \in Nat /\ e.lines[n] \in LineT
    BY <1>1, ListedFields, EdFields DEF Whole
  <2>2. Width(e.lines[n]) \in Nat
    BY <2>1, WidthType
  <2> QED BY <2>1, <2>2 DEF Smaller
<1>3. r = WithCol(k, x)
  BY DEF ToLine, WithCol, k
<1> HIDE DEF x
<1>4. Whole(r) /\ Quiet(k, r)
  BY <1>1, <1>2, <1>3, WithColIs
<1> QED BY <1>1, <1>4, QuietTrans

LEMMA cursorUpKeeps ==
  ASSUME NEW e, Whole(e), NEW r, r = cursorUp(e)
  PROVE  Whole(r) /\ Quiet(e, r)
<1>1. CASE e.cur = 1
  BY <1>1, Unmoved DEF cursorUp
<1>2. CASE e.cur # 1
  <2> DEFINE f == Committed(e)
             n == LineAbove(f.lines, f.cur)
  <2>1. Whole(f) /\ Quiet(e, f) /\ f.cur = e.cur /\ ~f.editing
    BY CommittedKeeps DEF Stays
  <2>2. r = ToLine(f, n)
    <3> DEFINE Op(x) == ToLine(x, LineAbove(x.lines, x.cur))
    <3>1. r = With(f, Op)
      BY <1>2 DEF cursorUp
    <3>2. With(f, Op) = Op(f)
      <4> HIDE DEF Op
      <4> QED BY DEF With
    <3> QED BY <3>1, <3>2
  <2> HIDE DEF f
  <2>3. f.cur - 1 \in Nat /\ f.cur \in 2 .. Len(f.lines) /\ Len(f.lines) \in Nat
    BY <2>1, <1>2, ListedFields DEF Whole, At
  <2>4. FoldStart(f.lines, f.cur - 1) \in 0 .. f.cur - 1
    BY <2>3, FoldStartIn
  <2>5. n \in 1 .. Len(f.lines)
    BY <2>3, <2>4 DEF LineAbove, Larger
  <2> HIDE DEF n
  <2>6. Whole(r) /\ Quiet(f, r)
    BY <2>1, <2>2, <2>5, ToLineKeeps
  <2> QED BY <2>1, <2>6, QuietTrans
<1> QED BY <1>1, <1>2

LEMMA cursorDownKeeps ==
  ASSUME NEW e, Whole(e), NEW r, r = cursorDown(e)
  PROVE  Whole(r) /\ Quiet(e, r)
<1> DEFINE f == Committed(e)
           n == LineBelow(f.lines, f.cur)
<1>1. Whole(f) /\ Quiet(e, f) /\ ~f.editing
  BY CommittedKeeps
<1>2. r = IF n > Len(f.lines) THEN f ELSE ToLine(f, n)
  <2> DEFINE Op(x) == IF LineBelow(x.lines, x.cur) > Len(x.lines) THEN x ELSE ToLine(x, LineBelow(x.lines, x.cur))
  <2>1. r = With(f, Op)
    BY DEF cursorDown
  <2>2. With(f, Op) = Op(f)
    <3> HIDE DEF Op
    <3> QED BY DEF With
  <2> QED BY <2>1, <2>2
<1> HIDE DEF f
<1>3. f.cur \in 1 .. Len(f.lines) /\ Len(f.lines) \in Nat /\ f.lines \in Seq(LineT)
  BY <1>1, ListedFields DEF Whole, At
<1>4. FoldEnd(f.lines, f.cur) \in f.cur .. Len(f.lines)
  BY <1>3, FoldEndIn
<1>5. n \in 1 .. Len(f.lines) + 1
  BY <1>3, <1>4 DEF LineBelow
<1> HIDE DEF n
<1>6. CASE n > Len(f.lines)
  BY <1>1, <1>2, <1>6
<1>7. CASE ~(n > Len(f.lines))
  <2>1. n \in 1 .. Len(f.lines) /\ r = ToLine(f, n)
    BY <1>2, <1>3, <1>5, <1>7
  <2>2. Whole(r) /\ Quiet(f, r)
    BY <1>1, <2>1, ToLineKeeps
  <2> QED BY <1>1, <2>2, QuietTrans
<1> QED BY <1>6, <1>7

(* What the editor may be after some keys.                                 *)
Reached(e) == {f \in EdT : Whole(f) /\ Quiet(e, f)}
LEMMA ReachedIs ==
  ASSUME NEW e, NEW f, Whole(f), Quiet(e, f)
  PROVE  f \in Reached(e)
BY DEF Reached, Whole, Listed

StepUp(f, n) == With(f, LAMBDA g : cursorUp(g))
LEMMA StepUpIs == ASSUME NEW f, NEW n PROVE StepUp(f, n) = cursorUp(f)
BY DEF StepUp, With

LEMMA pageUpKeeps ==
  ASSUME NEW e, Whole(e), NEW r, r = pageUp(e)
  PROVE  Whole(r) /\ Quiet(e, r)
<1> DEFINE V == Reached(e)
           G == [i \in 1 .. Height |-> [f \in V |-> cursorUp(f)]]
           seq == [i \in 1 .. Height |-> i]
           Body(it, s) == StepUp(it[s \ {Max(s)}], seq[Max(s)])
           Eq(it) == it = [s \in SUBSET (DOMAIN seq) |-> IF s = {} THEN e ELSE Body(it, s)]
<1>1. Height \in Nat /\ e \in V /\ DOMAIN seq = 1 .. Height
  BY EditorAssumption, Unmoved, ReachedIs
<1>2. G \in [1 .. Height -> [V -> V]]
  <2>1. ASSUME NEW f \in V PROVE cursorUp(f) \in V
    <3>1. Whole(f) /\ Quiet(e, f)
      BY DEF Reached
    <3>2. Whole(cursorUp(f)) /\ Quiet(f, cursorUp(f))
      BY <3>1, cursorUpKeeps
    <3> QED BY <3>1, <3>2, QuietTrans, ReachedIs
  <2> HIDE DEF V
  <2> QED BY <2>1
<1> HIDE DEF V
<1>3. \E it : Eq(it)
  <2>1. PICK it \in [SUBSET (1 .. Height) -> V] : FoldFcn(it, Height, e, G)
    <3> HIDE DEF G
    <3> QED BY <1>1, <1>2, FoldExists
  <2>2. \A s \in SUBSET (1 .. Height) : s # {} => G[Max(s)][it[s \ {Max(s)}]] = Body(it, s)
    BY <1>1, <2>1, MaxIn, StepUpIs
  <2>3. \A s \in SUBSET (1 .. Height) : it[s] = IF s = {} THEN e ELSE Body(it, s)
    BY <2>1, <2>2 DEF FoldFcn
  <2>4. it = [s \in SUBSET (DOMAIN seq) |-> it[s]]
    BY <2>1, <1>1
  <2>5. Eq(it)
    <3> HIDE DEF Body
    <3> QED BY <2>3, <2>4, <1>1
  <2> HIDE DEF Eq
  <2> QED BY <2>5
<1> DEFINE it == CHOOSE it : Eq(it)
<1>4. Eq(it)
  BY <1>3
<1>5. r = it[DOMAIN seq]
  BY DEF pageUp, Repeated, FoldLeft, MapThenFoldSet, StepUp
<1>6. it[{}] = e
  BY <1>4
<1>7. \A s \in SUBSET (1 .. Height) :
        s # {} /\ it[s \ {Max(s)}] \in V => it[s] = G[Max(s)][it[s \ {Max(s)}]]
  <2> TAKE s \in SUBSET (1 .. Height)
  <2> HAVE s # {} /\ it[s \ {Max(s)}] \in V
  <2>1. it[s] = Body(it, s)
    <3> HIDE DEF it, Body
    <3> QED BY <1>4, <1>1
  <2> HIDE DEF it
  <2> QED BY <2>1, <1>1, MaxIn, StepUpIs
<1>8. it[1 .. Height] \in V
  <2> HIDE DEF G, it
  <2>1. GoesOn(it, Height, V, e, G)
    BY <1>6, <1>7 DEF GoesOn
  <2> QED BY <1>1, <1>2, <2>1, FoldStays
<1> HIDE DEF it
<1>9. r \in V
  BY <1>1, <1>5, <1>8
<1> QED BY <1>9 DEF V, Reached

StepDown(f, n) == With(f, LAMBDA g : cursorDown(g))
LEMMA StepDownIs == ASSUME NEW f, NEW n PROVE StepDown(f, n) = cursorDown(f)
BY DEF StepDown, With

LEMMA pageDownKeeps ==
  ASSUME NEW e, Whole(e), NEW r, r = pageDown(e)
  PROVE  Whole(r) /\ Quiet(e, r)
<1> DEFINE V == Reached(e)
           G == [i \in 1 .. Height |-> [f \in V |-> cursorDown(f)]]
           seq == [i \in 1 .. Height |-> i]
           Body(it, s) == StepDown(it[s \ {Max(s)}], seq[Max(s)])
           Eq(it) == it = [s \in SUBSET (DOMAIN seq) |-> IF s = {} THEN e ELSE Body(it, s)]
<1>1. Height \in Nat /\ e \in V /\ DOMAIN seq = 1 .. Height
  BY EditorAssumption, Unmoved, ReachedIs
<1>2. G \in [1 .. Height -> [V -> V]]
  <2>1. ASSUME NEW f \in V PROVE cursorDown(f) \in V
    <3>1. Whole(f) /\ Quiet(e, f)
      BY DEF Reached
    <3>2. Whole(cursorDown(f)) /\ Quiet(f, cursorDown(f))
      BY <3>1, cursorDownKeeps
    <3> QED BY <3>1, <3>2, QuietTrans, ReachedIs
  <2> HIDE DEF V
  <2> QED BY <2>1
<1> HIDE DEF V
<1>3. \E it : Eq(it)
  <2>1. PICK it \in [SUBSET (1 .. Height) -> V] : FoldFcn(it, Height, e, G)
    <3> HIDE DEF G
    <3> QED BY <1>1, <1>2, FoldExists
  <2>2. \A s \in SUBSET (1 .. Height) : s # {} => G[Max(s)][it[s \ {Max(s)}]] = Body(it, s)
    BY <1>1, <2>1, MaxIn, StepDownIs
  <2>3. \A s \in SUBSET (1 .. Height) : it[s] = IF s = {} THEN e ELSE Body(it, s)
    BY <2>1, <2>2 DEF FoldFcn
  <2>4. it = [s \in SUBSET (DOMAIN seq) |-> it[s]]
    BY <2>1, <1>1
  <2>5. Eq(it)
    <3> HIDE DEF Body
    <3> QED BY <2>3, <2>4, <1>1
  <2> HIDE DEF Eq
  <2> QED BY <2>5
<1> DEFINE it == CHOOSE it : Eq(it)
<1>4. Eq(it)
  BY <1>3
<1>5. r = it[DOMAIN seq]
  BY DEF pageDown, Repeated, FoldLeft, MapThenFoldSet, StepDown
<1>6. it[{}] = e
  BY <1>4
<1>7. \A s \in SUBSET (1 .. Height) :
        s # {} /\ it[s \ {Max(s)}] \in V => it[s] = G[Max(s)][it[s \ {Max(s)}]]
  <2> TAKE s \in SUBSET (1 .. Height)
  <2> HAVE s # {} /\ it[s \ {Max(s)}] \in V
  <2>1. it[s] = Body(it, s)
    <3> HIDE DEF it, Body
    <3> QED BY <1>4, <1>1
  <2> HIDE DEF it
  <2> QED BY <2>1, <1>1, MaxIn, StepDownIs
<1>8. it[1 .. Height] \in V
  <2> HIDE DEF G, it
  <2>1. GoesOn(it, Height, V, e, G)
    BY <1>6, <1>7 DEF GoesOn
  <2> QED BY <1>1, <1>2, <2>1, FoldStays
<1> HIDE DEF it
<1>9. r \in V
  BY <1>1, <1>5, <1>8
<1> QED BY <1>9 DEF V, Reached

LEMMA CommittedThen ==
  ASSUME NEW e, Whole(e), NEW n \in 1 .. Len(e.lines), NEW x \in Nat, NEW r,
         r = WithCol(Cursor(Committed(e), n), x)
  PROVE  Whole(r) /\ Quiet(e, r)
<1> DEFINE f == Committed(e)
           k == Cursor(f, n)
<1>1. Whole(f) /\ Quiet(e, f) /\ Len(f.lines) = Len(e.lines) /\ ~f.editing
  BY CommittedKeeps DEF Stays
<1> HIDE DEF f
<1>2. Whole(k) /\ Quiet(f, k)
  <2>1. n \in 1 .. Len(f.lines) /\ Listed(f, Len(f.lines))
    BY <1>1 DEF Whole
  <2> QED BY <1>1, <2>1, CursorIs
<1>3. r = WithCol(k, x)
  BY DEF k, f
<1> HIDE DEF k
<1>4. Whole(r) /\ Quiet(k, r)
  BY <1>2, <1>3, WithColIs
<1> QED BY <1>1, <1>2, <1>4, QuietTrans

LEMMA gotoEOFKeeps ==
  ASSUME NEW e, Whole(e), NEW r, r = gotoEOF(e)
  PROVE  Whole(r) /\ Quiet(e, r)
<1> DEFINE Op(f) == [Cursor(f, Len(f.lines)) EXCEPT !.col = 0]
           c == Committed(e)
<1>1. r = With(c, Op)
  BY DEF gotoEOF
<1>2. With(c, Op) = Op(c)
  <2> HIDE DEF Op, c
  <2> QED BY DEF With
<1>3. Whole(c) /\ Len(c.lines) = Len(e.lines)
  BY CommittedKeeps DEF Stays
<1>4. r = WithCol(Cursor(c, Len(e.lines)), 0)
  <2> HIDE DEF c
  <2> QED BY <1>1, <1>2, <1>3 DEF WithCol
<1>5. Len(e.lines) \in 1 .. Len(e.lines) /\ 0 \in Nat
  BY ListedFields DEF Whole
<1> QED BY <1>4, <1>5, CommittedThen

PutAt(e, n, x, y, z) == [e EXCEPT !.cur = n, !.al = x, !.vl = y, !.col = z]
LEMMA PutAtIs ==
  ASSUME NEW e \in EdT, NEW n \in Nat, NEW x \in Int, NEW y \in Int, NEW z \in Nat, NEW r, r = PutAt(e, n, x, y, z)
  PROVE  /\ r \in EdT /\ r.lines = e.lines /\ r.cur = n /\ r.al = x /\ r.top = e.top
         /\ r.editing = e.editing /\ r.changed = e.changed
BY DEF PutAt, EdT

LEMMA gotoBOFKeeps ==
  ASSUME NEW e, Whole(e), NEW r, r = gotoBOF(e)
  PROVE  Whole(r) /\ Quiet(e, r)
<1> DEFINE c == Committed(e)
<1>1. Whole(c) /\ Quiet(e, c) /\ ~c.editing
  BY CommittedKeeps
<1>2. r = PutAt(c, 1, 0, 0, 0)
  <2> DEFINE Op(f) == [f EXCEPT !.cur = 1, !.al = 0, !.vl = 0, !.col = 0]
  <2>1. r = With(c, Op)
    BY DEF gotoBOF
  <2>2. With(c, Op) = Op(c)
    <3> HIDE DEF Op, c
    <3> QED BY DEF With
  <2> QED BY <2>1, <2>2 DEF PutAt
<1> HIDE DEF c
<1>3. c \in EdT /\ 1 \in 1 .. Len(c.lines)
  BY <1>1, ListedFields DEF Whole
<1>4. /\ r \in EdT /\ r.lines = c.lines /\ r.cur = 1 /\ r.al = 0 /\ r.top = c.top
      /\ r.editing = c.editing /\ r.changed = c.changed
  <2>1. 1 \in Nat /\ 0 \in Nat /\ 0 \in Int
    OBVIOUS
  <2> QED BY <1>2, <1>3, <2>1, PutAtIs
<1>5. Whole(r) /\ Quiet(c, r)
  BY <1>1, <1>3, <1>4, SpeaksLines DEF Whole, Listed, At, Quiet, Noted
<1> QED BY <1>1, <1>5, QuietTrans

LEMMA gotoLineKeeps ==
  ASSUME NEW e, Whole(e), NEW n \in 1 .. Len(e.lines), NEW x \in Nat, NEW r, r = gotoLine(e, n, x)
  PROVE  Whole(r) /\ Quiet(e, r)
<1> DEFINE c == Committed(e)
           f == unfoldLine(c, n)
           k == Cursor(f, n)
<1>1. Whole(c) /\ Quiet(e, c) /\ Len(c.lines) = Len(e.lines) /\ ~c.editing
  BY CommittedKeeps DEF Stays
<1> HIDE DEF c
<1>2. Whole(f) /\ Quiet(c, f) /\ Len(f.lines) = Len(e.lines) /\ ~f.editing
  BY <1>1, unfoldLineKeeps DEF Stays
<1>3. r = WithCol(k, x)
  <2> DEFINE Op(y) == [Cursor(y, n) EXCEPT !.col = x]
  <2>1. r = With(f, Op)
    BY DEF gotoLine, f, c
  <2>2. With(f, Op) = Op(f)
    <3> HIDE DEF Op, f
    <3> QED BY DEF With
  <2> QED BY <2>1, <2>2 DEF WithCol
<1> HIDE DEF f
<1>4. Whole(k) /\ Quiet(f, k)
  <2>1. n \in 1 .. Len(f.lines) /\ Listed(f, Len(f.lines))
    BY <1>2 DEF Whole
  <2> QED BY <1>2, <2>1, CursorIs
<1> HIDE DEF k
<1>5. Whole(r) /\ Quiet(k, r)
  BY <1>3, <1>4, WithColIs
<1>6. Quiet(e, f)
  BY <1>1, <1>2, QuietTrans
<1> QED BY <1>4, <1>5, <1>6, QuietTrans

(* Keys that move the cursor in its line.                                  *)
LEMMA InLineKeeps ==
  ASSUME NEW e, Whole(e), NEW r, r \in {cursorLeft(e), cursorRight(e), gotoBOL(e), gotoEOL(e)}
  PROVE  Whole(r) /\ Quiet(e, r)
<1>1. e.col \in Nat /\ RowLength(e) \in Nat
  BY RowLengthType, ListedFields, EdFields DEF Whole
<1>2. ASSUME NEW x \in Nat, r = WithCol(e, x) PROVE Whole(r) /\ Quiet(e, r)
  BY <1>2, WithColIs
<1>3. CASE r = cursorLeft(e)
  <2>1. r = WithCol(e, Larger(0, e.col - 1))
    BY <1>3 DEF cursorLeft, WithCol
  <2>2. Larger(0, e.col - 1) \in Nat
    BY <1>1 DEF Larger
  <2> QED BY <2>1, <2>2, <1>2
<1>4. CASE r = cursorRight(e)
  <2>1. r = WithCol(e, e.col + 1) \/ r = e
    BY <1>4 DEF cursorRight, WithCol
  <2>2. e.col + 1 \in Nat
    BY <1>1
  <2> QED BY <2>1, <2>2, <1>2, Unmoved
<1>5. CASE r = gotoBOL(e)
  <2>1. r = WithCol(e, 0) /\ 0 \in Nat
    BY <1>5 DEF gotoBOL, WithCol
  <2> QED BY <2>1, <1>2
<1>6. CASE r = gotoEOL(e)
  <2>1. r = WithCol(e, RowLength(e))
    BY <1>6 DEF gotoEOL, WithCol
  <2> QED BY <2>1, <1>1, <1>2
<1> QED BY <1>3, <1>4, <1>5, <1>6

LEMMA toggleBreakPointKeeps ==
  ASSUME NEW e, Whole(e), NEW r, r = toggleBreakPoint(e)
  PROVE  Whole(r) /\ Quiet(e, r)
<1> DEFINE n == e.cur
           l == e.lines[n]
           new == [l EXCEPT !.bp = ~l.bp, !.up2date = FALSE]
           ls == [e.lines EXCEPT ![n] = new]
<1>1. e \in EdT /\ e.lines \in Seq(LineT) /\ n \in 1 .. Len(e.lines) /\ l \in LineT
  BY ListedFields DEF Whole, At
<1>2. new \in LineT /\ SameAt(new, l)
  <2> HIDE DEF l
  <2> QED BY <1>1 DEF LineT, SameAt, Same
<1>3. r = WithRows(e, ls)
  BY <1>1 DEF toggleBreakPoint, WithRows, EdT
<1> HIDE DEF new
<1>4. /\ ls \in Seq(LineT) /\ Len(ls) = Len(e.lines)
      /\ \A k \in 1 .. Len(e.lines) : ls[k] = IF k = n THEN new ELSE e.lines[k]
  BY <1>1, <1>2, ExceptSeq
<1> HIDE DEF ls
<1>5. \A k \in 1 .. Len(ls) : SameAt(ls[k], e.lines[k])
  <2>1. \A k \in 1 .. Len(ls) : SameAt(e.lines[k], e.lines[k])
    BY DEF SameAt, Same
  <2> QED BY <2>1, <1>2, <1>4
<1> QED BY <1>3, <1>4, <1>5, WithRowsKeeps

LEMMA InvalidateAllKeeps ==
  ASSUME NEW e, Whole(e), NEW r, r = InvalidateAll(e)
  PROVE  Whole(r) /\ Alike(e, r)
<1>1. e \in EdT /\ e.lines \in Seq(LineT) /\ e.top \in 0 .. Len(e.lines)
  BY ListedFields DEF Whole
<1>2. r \in EdT /\ r.lines = Outdated(e.lines) /\ SameRest(e, r)
  BY <1>1, InvalidateAllIs
<1>3. Len(r.lines) = Len(e.lines) /\ \A k \in 1 .. Len(e.lines) : SameAt(r.lines[k], e.lines[k])
  BY <1>1, <1>2, OutdatedIs
<1> QED BY <1>1, <1>2, <1>3, LinesLasting DEF SameRest

(* Pasting is typing and pressing Enter.                                   *)
Pasted(g, c) == IF c = "NL" THEN enterKey(g) ELSE insertChar(g, c)
PasteStep(f, c) == With(f, LAMBDA g : IF c = "NL" THEN enterKey(g) ELSE insertChar(g, c))
PasteLoop(e, clip) == FoldLeft(LAMBDA f, c : With(f, LAMBDA g : IF c = "NL" THEN enterKey(g) ELSE insertChar(g, c)), e, clip)
LEMMA PasteStepIs == ASSUME NEW f, NEW c PROVE PasteStep(f, c) = Pasted(f, c)
BY DEF PasteStep, With, Pasted

Spaced1(c) == IF c = "NL" THEN Blank ELSE c
LEMMA CharsAre == Blank \in Char /\ Nul \in Char
<1>1. Alphabet \cup {" ", "NUL"} \subseteq Char
  BY EditorAssumption, Zenon
<1> QED BY <1>1 DEF Blank, Nul
LEMMA PastedKeeps ==
  ASSUME NEW e, Whole(e), NEW c \in Char \cup {"NL"}, NEW r, r = Pasted(e, c)
  PROVE  /\ Whole(r) /\ Noted(e, r)
         /\ (Clear(e) /\ e.col <= RowLength(e) => Clear(r) /\ Written(e, r, Solid(<<Spaced1(c)>>)))
<1>1. CASE c = "NL"
  <2>1. r = enterKey(e)
    BY <1>1 DEF Pasted
  <2>2. Whole(r) /\ Noted(e, r) /\ (Clear(e) /\ e.col <= RowLength(e) => Parted(e, r))
    BY <2>1, enterKeyKeeps
  <2>3. ASSUME Clear(e), e.col <= RowLength(e) PROVE Clear(r) /\ Written(e, r, Solid(<<Spaced1(c)>>))
    <3>1. Parted(e, r)
      BY <2>2, <2>3
    <3>2. Before(r) = Before(e) /\ Behind(r) = Behind(e)
      BY <2>2, <3>1, PartedSides
    <3>3. ~r.editing /\ r.col = 0 /\ RowLength(r) \in Nat
      BY <2>2, <3>1, RowLengthType DEF Parted
    <3>4. Solid(<<Spaced1(c)>>) = <<>> /\ Before(e) \in Seq(Char)
      <4>1. Blank \in Char
        BY CharsAre
      <4> QED BY <1>1, <4>1, SolidOfChar, Around DEF Spaced1
    <3> QED BY <3>2, <3>3, <3>4 DEF Written, Clear
  <2> QED BY <2>2, <2>3
<1>2. CASE c # "NL"
  <2>1. c \in Char /\ r = insertChar(e, c)
    BY <1>2 DEF Pasted
  <2>2. Spaced1(c) = c
    BY <1>2 DEF Spaced1
  <2> QED BY <2>1, <2>2, insertCharKeeps
<1> QED BY <1>1, <1>2

LEMMA SpacedIs ==
  ASSUME NEW clip \in Seq(Char \cup {"NL"})
  PROVE  /\ Spaced(clip) \in Text /\ Len(Spaced(clip)) = Len(clip)
         /\ \A i \in 1 .. Len(clip) : Spaced(clip)[i] = Spaced1(clip[i])
<1>1. DOMAIN clip = 1 .. Len(clip) /\ Len(clip) \in Nat
  OBVIOUS
<1>2. \A i \in 1 .. Len(clip) : Spaced1(clip[i]) \in Char
  <2> TAKE i \in 1 .. Len(clip)
  <2>1. clip[i] \in Char \cup {"NL"} /\ Blank \in Char
    BY CharsAre
  <2> QED BY <2>1 DEF Spaced1
<1>3. Spaced(clip) = [i \in 1 .. Len(clip) |-> Spaced1(clip[i])]
  BY <1>1 DEF Spaced, Spaced1
<1> QED BY <1>1, <1>2, <1>3 DEF Text

(* What the editor may be after some of the characters.                    *)
After(e) == {f \in EdT : Whole(f) /\ Noted(e, f)}
LEMMA AfterIs ==
  ASSUME NEW e, NEW f, Whole(f), Noted(e, f)
  PROVE  f \in After(e)
BY DEF After, Whole, Listed

PastedSteps(h, clip) == \A k \in 1 .. Len(clip) : Whole(h[k - 1]) /\ h[k] = Pasted(h[k - 1], clip[k])
LEMMA StepsWrite ==
  ASSUME NEW clip \in Seq(Char \cup {"NL"}), NEW e, Whole(e), Clear(e), e.col <= RowLength(e),
         NEW h, h[0] = e, PastedSteps(h, clip)
  PROVE  Clear(h[Len(clip)]) /\ Written(e, h[Len(clip)], Solid(Spaced(clip)))
<1> DEFINE n == Len(clip)
           sp == Spaced(clip)
           Good(k) == Clear(h[k]) /\ Written(e, h[k], Solid(SubSeq(sp, 1, k)))
           T == {k \in 0 .. n : Good(k)}
<1>1. /\ n \in Nat /\ sp \in Text /\ Len(sp) = n
      /\ \A i \in 1 .. n : sp[i] = Spaced1(clip[i]) /\ clip[i] \in Char \cup {"NL"}
  BY SpacedIs
<1>2. Before(e) \in Seq(Char)
  BY Around
<1>3. Good(0)
  <2>1. SubSeq(sp, 1, 0) = <<>>
    <3> HIDE DEF sp
    <3> QED BY <1>1 DEF Text
  <2>2. Before(e) \o <<>> = Before(e)
    BY <1>2
  <2> QED BY <2>1, <2>2, SolidOfNone DEF Written
<1>4. ASSUME NEW k \in 0 .. n - 1, Good(k) PROVE Good(k + 1)
  <2> DEFINE m == k + 1
             f == h[k]
             r == h[m]
             A == Before(e)
             P == Solid(SubSeq(sp, 1, k))
             Q == Solid(<<sp[m]>>)
  <2>1. m \in 1 .. n /\ m - 1 = k
    BY <1>1
  <2>2. Whole(f) /\ r = Pasted(f, clip[m]) /\ clip[m] \in Char \cup {"NL"} /\ sp[m] = Spaced1(clip[m])
    BY <2>1, <1>1 DEF PastedSteps
  <2>3. Clear(f) /\ Before(f) = A \o P /\ Behind(f) = Behind(e) /\ f.col <= RowLength(f)
    BY <1>4 DEF Written
  <2>4. Clear(r) /\ Written(f, r, Q)
    <3> HIDE DEF f, r, m, sp
    <3>1. Clear(r) /\ Written(f, r, Solid(<<Spaced1(clip[m])>>))
      BY <2>2, <2>3, PastedKeeps
    <3> QED BY <3>1, <2>2
  <2>5. Solid(SubSeq(sp, 1, m)) = P \o Q /\ P \in Seq(Char) /\ Q \in Seq(Char)
    <3> HIDE DEF sp, m
    <3>1. m \in 1 .. Len(sp) /\ sp \in Text
      BY <1>1, <2>1
    <3>2. /\ SubSeq(sp, 1, m - 1) \in Text /\ sp[m] \in Char
          /\ Solid(SubSeq(sp, 1, m)) = Solid(SubSeq(sp, 1, m - 1)) \o Solid(<<sp[m]>>)
      BY <3>1, RowParts
    <3> QED BY <2>1, <3>2, SolidOfChar, SolidType
  <2> HIDE DEF f, r, A, P, Q, m, sp
  <2>6. (A \o P) \o Q = A \o (P \o Q)
    <3>1. Regroups(Char)
      BY Regrouped
    <3>2. A \in Seq(Char) /\ P \in Seq(Char) /\ Q \in Seq(Char)
      BY <1>2, <2>5 DEF A
    <3> QED BY ONLY <3>1, <3>2 DEF Regroups
  <2>7. Clear(r) /\ Written(e, r, Solid(SubSeq(sp, 1, m)))
    BY <2>3, <2>4, <2>5, <2>6 DEF Written, A
  <2> QED BY <2>7 DEF r, m
<1>5. 0 .. n \subseteq T
  <2>1. 0 \in T /\ \A k \in 0 .. n - 1 : k \in T => k + 1 \in T
    <3>1. n \in Nat
      BY <1>1
    <3> HIDE DEF n, Good
    <3> QED BY <3>1, <1>3, <1>4
  <2>2. n \in Nat
    BY <1>1
  <2> HIDE DEF T, n
  <2> QED BY <2>1, <2>2, Induction
<1>6. Good(n)
  BY <1>1, <1>5
<1>7. SubSeq(sp, 1, n) = sp
  <2> HIDE DEF sp, n
  <2> QED BY <1>1 DEF Text
<1> QED BY <1>6, <1>7

LEMMA PasteLoopKeeps ==
  ASSUME NEW e, Whole(e), NEW clip \in Seq(Char \cup {"NL"}), NEW r, r = PasteLoop(e, clip)
  PROVE  /\ Whole(r) /\ Noted(e, r)
         /\ (Clear(e) /\ e.col <= RowLength(e) =>
                Clear(r) /\ Written(e, r, Solid(Spaced(clip))))
<1> DEFINE V == After(e)
           n == Len(clip)
           G == [i \in 1 .. n |-> [f \in V |-> Pasted(f, clip[i])]]
           Body(it, s) == PasteStep(it[s \ {Max(s)}], clip[Max(s)])
           Eq(it) == it = [s \in SUBSET (DOMAIN clip) |-> IF s = {} THEN e ELSE Body(it, s)]
<1>1. n \in Nat /\ e \in V /\ DOMAIN clip = 1 .. n
  BY Unmoved, AfterIs DEF Quiet
<1>2. G \in [1 .. n -> [V -> V]]
  <2>1. ASSUME NEW i \in 1 .. n, NEW f \in V PROVE Pasted(f, clip[i]) \in V
    <3>1. Whole(f) /\ Noted(e, f) /\ clip[i] \in Char \cup {"NL"}
      BY DEF After
    <3>2. Whole(Pasted(f, clip[i])) /\ Noted(f, Pasted(f, clip[i]))
      BY <3>1, PastedKeeps
    <3> QED BY <3>1, <3>2, NotedTrans, AfterIs
  <2> HIDE DEF V, n
  <2> QED BY <2>1
<1> HIDE DEF V, n
<1>3. \E it : Eq(it)
  <2>1. PICK it \in [SUBSET (1 .. n) -> V] : FoldFcn(it, n, e, G)
    <3> HIDE DEF G
    <3> QED BY <1>1, <1>2, FoldExists
  <2>2. \A s \in SUBSET (1 .. n) : s # {} => G[Max(s)][it[s \ {Max(s)}]] = Body(it, s)
    BY <1>1, <2>1, MaxIn, PasteStepIs
  <2>3. \A s \in SUBSET (1 .. n) : it[s] = IF s = {} THEN e ELSE Body(it, s)
    BY <2>1, <2>2 DEF FoldFcn
  <2>4. it = [s \in SUBSET (DOMAIN clip) |-> it[s]]
    BY <2>1, <1>1
  <2>5. Eq(it)
    <3> HIDE DEF Body
    <3> QED BY <2>3, <2>4, <1>1
  <2> HIDE DEF Eq
  <2> QED BY <2>5
<1> DEFINE it == CHOOSE it : Eq(it)
<1>4. Eq(it)
  BY <1>3
<1>5. r = it[DOMAIN clip]
  BY DEF PasteLoop, FoldLeft, MapThenFoldSet, PasteStep
<1>6. it[{}] = e
  BY <1>4
<1>7. \A s \in SUBSET (1 .. n) :
        s # {} /\ it[s \ {Max(s)}] \in V => it[s] = G[Max(s)][it[s \ {Max(s)}]]
  <2> TAKE s \in SUBSET (1 .. n)
  <2> HAVE s # {} /\ it[s \ {Max(s)}] \in V
  <2>1. it[s] = Body(it, s)
    <3> HIDE DEF it, Body
    <3> QED BY <1>4, <1>1
  <2> HIDE DEF it
  <2> QED BY <2>1, <1>1, MaxIn, PasteStepIs
<1>8. PICK h : Walks(h, n, V, e, G, it[1 .. n])
  <2> HIDE DEF G, it
  <2>1. GoesOn(it, n, V, e, G)
    BY <1>6, <1>7 DEF GoesOn
  <2> QED BY <1>1, <1>2, <2>1, FoldSteps
<1>9. h \in [0 .. n -> V] /\ h[0] = e /\ h[n] = r /\ \A k \in 1 .. n : h[k] = G[k][h[k - 1]]
  <2> HIDE DEF G, it
  <2> QED BY <1>1, <1>5, <1>8 DEF Walks
<1> HIDE DEF it
<1>10. Whole(r) /\ Noted(e, r)
  <2>1. h[n] \in V
    BY <1>1, <1>9
  <2> QED BY <1>9, <2>1 DEF V, After
<1>11. PastedSteps(h, clip)
  <2> SUFFICES ASSUME NEW k \in 1 .. n PROVE Whole(h[k - 1]) /\ h[k] = Pasted(h[k - 1], clip[k])
    BY DEF PastedSteps, n
  <2>1. k - 1 \in 0 .. n
    BY <1>1
  <2>2. h[k - 1] \in V
    BY <1>9, <2>1
  <2>3. h[k] = Pasted(h[k - 1], clip[k])
    BY <1>9, <2>2
  <2> QED BY <2>2, <2>3 DEF V, After
<1> QED BY <1>9, <1>10, <1>11, StepsWrite DEF n

LEMMA SameWords ==
  ASSUME NEW e, Whole(e), NEW f, Whole(f), Spoken(f) = Spoken(e)
  PROVE  Before(f) \o Behind(f) = Before(e) \o Behind(e)
BY Around

LEMMA pasteKeeps ==
  ASSUME NEW e, Whole(e), NEW clip \in Clipboards, NEW r, r = paste(e, clip)
  PROVE  /\ Whole(r) /\ Noted(e, r)
         /\ (Clear(e) /\ e.col <= RowLength(e) =>
                Before(r) \o Behind(r) = (Before(e) \o Solid(Spaced(clip))) \o Behind(e))
<1> DEFINE f == PasteLoop(e, clip)
<1>1. clip \in Seq(Char \cup {"NL"})
  BY EditorAssumption
<1>2. /\ Whole(f) /\ Noted(e, f)
      /\ (Clear(e) /\ e.col <= RowLength(e) =>
             Clear(f) /\ Written(e, f, Solid(Spaced(clip))))
  BY <1>1, PasteLoopKeeps
<1>3. r = Committed(f)
  BY DEF paste, PasteLoop
<1> HIDE DEF f
<1>4. Whole(r) /\ Quiet(f, r)
  BY <1>2, <1>3, CommittedKeeps
<1>5. Clear(f) => Before(r) \o Behind(r) = Before(f) \o Behind(f)
  BY <1>2, <1>4, SameWords DEF Quiet, Speaks
<1> QED BY <1>2, <1>4, <1>5, NotedTrans DEF Quiet, Written

-----------------------------------------------------------------------------
(* A file is loaded with its procedures folded.                            *)
AccT == [folded : BOOLEAN, lines : Seq(LineT)]
Closed(l, b) == [l EXCEPT !.folded = b]
Folding(a, l) == [folded |-> IF l.fs THEN TRUE ELSE a.folded /\ ~l.fe,
                  lines |-> Append(a.lines, [l EXCEPT !.folded = l.fs \/ l.fe \/ a.folded])]
FoldingStep(acc, l) ==
  With(acc, LAMBDA a : [folded |-> IF l.fs THEN TRUE ELSE a.folded /\ ~l.fe,
                        lines |-> Append(a.lines, [l EXCEPT !.folded = l.fs \/ l.fe \/ a.folded])])
Unfolded == [folded |-> FALSE, lines |-> <<>>]
FoldingLoop(ls) ==
  FoldLeft(LAMBDA acc, l : With(acc, LAMBDA a :
             [folded |-> IF l.fs THEN TRUE ELSE a.folded /\ ~l.fe,
              lines |-> Append(a.lines, [l EXCEPT !.folded = l.fs \/ l.fe \/ a.folded])]), Unfolded, ls)
LEMMA FoldingStepIs == ASSUME NEW a, NEW l PROVE FoldingStep(a, l) = Folding(a, l)
<1> DEFINE Op(x) == Folding(x, l)
<1>1. FoldingStep(a, l) = With(a, Op)
  BY DEF FoldingStep, Folding
<1>2. With(a, Op) = Op(a)
  <2> HIDE DEF Op
  <2> QED BY DEF With
<1> QED BY <1>1, <1>2

LEMMA ClosedIs ==
  ASSUME NEW l \in LineT, NEW b \in BOOLEAN
  PROVE  Closed(l, b) \in LineT /\ SameAt(Closed(l, b), l)
BY DEF Closed, LineT, SameAt, Same

LEMMA FoldingIs ==
  ASSUME NEW a \in AccT, NEW l \in LineT
  PROVE  /\ Folding(a, l) \in AccT /\ Len(Folding(a, l).lines) = Len(a.lines) + 1
         /\ \A k \in 1 .. Len(a.lines) : Folding(a, l).lines[k] = a.lines[k]
         /\ SameAt(Folding(a, l).lines[Len(a.lines) + 1], l)
<1> DEFINE b == l.fs \/ l.fe \/ a.folded
           c == Closed(l, b)
           x == IF l.fs THEN TRUE ELSE a.folded /\ ~l.fe
<1>1. l.fs \in BOOLEAN /\ l.fe \in BOOLEAN /\ a.folded \in BOOLEAN /\ a.lines \in Seq(LineT)
  BY LineFields DEF AccT
<1>2. b \in BOOLEAN /\ x \in BOOLEAN
  BY <1>1
<1>3. Folding(a, l) = [folded |-> x, lines |-> Append(a.lines, c)]
  BY DEF Folding, Closed
<1> HIDE DEF b, x
<1>4. c \in LineT /\ SameAt(c, l)
  BY <1>2, ClosedIs
<1> HIDE DEF c
<1>5. /\ Append(a.lines, c) \in Seq(LineT) /\ Len(Append(a.lines, c)) = Len(a.lines) + 1
      /\ \A k \in 1 .. Len(a.lines) : Append(a.lines, c)[k] = a.lines[k]
      /\ Append(a.lines, c)[Len(a.lines) + 1] = c
  BY <1>1, <1>4, AppendProperties
<1> QED BY <1>2, <1>3, <1>4, <1>5 DEF AccT

LEMMA FoldedFromIs ==
  ASSUME NEW ls \in Seq(LineT)
  PROVE  /\ FoldedFrom(ls) \in Seq(LineT) /\ Len(FoldedFrom(ls)) = Len(ls)
         /\ \A k \in 1 .. Len(ls) : SameAt(FoldedFrom(ls)[k], ls[k])
<1> DEFINE n == Len(ls)
           V == AccT
           G == [i \in 1 .. n |-> [a \in V |-> Folding(a, ls[i])]]
           Body(it, s) == FoldingStep(it[s \ {Max(s)}], ls[Max(s)])
           Eq(it) == it = [s \in SUBSET (DOMAIN ls) |-> IF s = {} THEN Unfolded ELSE Body(it, s)]
<1>1. n \in Nat /\ Unfolded \in V /\ DOMAIN ls = 1 .. n /\ \A i \in 1 .. n : ls[i] \in LineT
  BY DEF Unfolded, AccT
<1>2. G \in [1 .. n -> [V -> V]]
  <2>1. ASSUME NEW i \in 1 .. n, NEW a \in V PROVE Folding(a, ls[i]) \in V
    BY <1>1, FoldingIs
  <2> HIDE DEF V, n
  <2> QED BY <2>1
<1> HIDE DEF V, n
<1>3. \E it : Eq(it)
  <2>1. PICK it \in [SUBSET (1 .. n) -> V] : FoldFcn(it, n, Unfolded, G)
    <3> HIDE DEF G
    <3> QED BY <1>1, <1>2, FoldExists
  <2>2. \A s \in SUBSET (1 .. n) : s # {} => G[Max(s)][it[s \ {Max(s)}]] = Body(it, s)
    BY <1>1, <2>1, MaxIn, FoldingStepIs
  <2>3. \A s \in SUBSET (1 .. n) : it[s] = IF s = {} THEN Unfolded ELSE Body(it, s)
    BY <2>1, <2>2 DEF FoldFcn
  <2>4. it = [s \in SUBSET (DOMAIN ls) |-> it[s]]
    BY <2>1, <1>1
  <2>5. Eq(it)
    <3> HIDE DEF Body
    <3> QED BY <2>3, <2>4, <1>1
  <2> HIDE DEF Eq
  <2> QED BY <2>5
<1> DEFINE it == CHOOSE it : Eq(it)
<1>4. Eq(it)
  BY <1>3
<1>5. FoldingLoop(ls) = it[DOMAIN ls]
  BY DEF FoldingLoop, FoldLeft, MapThenFoldSet, FoldingStep
<1>6. it[{}] = Unfolded
  BY <1>4
<1>7. \A s \in SUBSET (1 .. n) :
        s # {} /\ it[s \ {Max(s)}] \in V => it[s] = G[Max(s)][it[s \ {Max(s)}]]
  <2> TAKE s \in SUBSET (1 .. n)
  <2> HAVE s # {} /\ it[s \ {Max(s)}] \in V
  <2>1. it[s] = Body(it, s)
    <3> HIDE DEF it, Body
    <3> QED BY <1>4, <1>1
  <2> HIDE DEF it
  <2> QED BY <2>1, <1>1, MaxIn, FoldingStepIs
<1>8. PICK h : Walks(h, n, V, Unfolded, G, it[1 .. n])
  <2> HIDE DEF G, it
  <2>1. GoesOn(it, n, V, Unfolded, G)
    BY <1>6, <1>7 DEF GoesOn
  <2> QED BY <1>1, <1>2, <2>1, FoldSteps
<1> HIDE DEF it
<1>9. FoldedFrom(ls) = h[n].lines
  <2>1. h[n] = FoldingLoop(ls)
    BY <1>1, <1>5, <1>8 DEF Walks
  <2> QED BY <2>1 DEF FoldedFrom, FoldingLoop, Unfolded
<1>10. \A k \in 1 .. n : h[k - 1] \in AccT /\ h[k] \in AccT /\ h[k] = Folding(h[k - 1], ls[k])
  <2> TAKE k \in 1 .. n
  <2>1. k - 1 \in 0 .. n /\ k \in 0 .. n
    BY <1>1
  <2>2. h[k - 1] \in V /\ h[k] \in V
    BY <2>1, <1>8 DEF Walks
  <2> QED BY <2>2, <1>8 DEF Walks, V
<1> DEFINE T == {i \in 0 .. n : h[i] \in AccT /\ Len(h[i].lines) = i /\ \A k \in 1 .. i : SameAt(h[i].lines[k], ls[k])}
<1>11. n \in T
  <2>1. 0 \in T
    <3>1. h[0] = Unfolded
      BY <1>8 DEF Walks
    <3> QED BY <3>1, <1>1 DEF V, Unfolded
  <2>2. \A i \in 0 .. n - 1 : i \in T => i + 1 \in T
    <3> TAKE i \in 0 .. n - 1
    <3> HAVE i \in T
    <3> DEFINE a == h[i]
               b == h[i + 1]
               l == ls[i + 1]
    <3>1. i + 1 \in 1 .. n /\ (i + 1) - 1 = i /\ i + 1 \in 0 .. n /\ i \in Nat
      BY <1>1
    <3>2. b = Folding(a, l) /\ b \in AccT /\ l \in LineT
      BY <3>1, <1>1, <1>10
    <3>3. a \in AccT /\ Len(a.lines) = i /\ \A k \in 1 .. i : SameAt(a.lines[k], ls[k])
      OBVIOUS
    <3> HIDE DEF a, b
    <3>4. /\ Len(b.lines) = i + 1 /\ \A k \in 1 .. i : b.lines[k] = a.lines[k]
          /\ SameAt(b.lines[i + 1], l)
      <4> HIDE DEF l
      <4> QED BY <3>2, <3>3, FoldingIs
    <3>5. \A k \in 1 .. i + 1 : SameAt(b.lines[k], ls[k])
      <4>1. \A k \in 1 .. i + 1 : k \in 1 .. i \/ k = i + 1
        BY <3>1
      <4> QED BY <4>1, <3>3, <3>4
    <3> QED BY <3>1, <3>2, <3>4, <3>5 DEF b
  <2>3. 0 .. n \subseteq T
    <3> HIDE DEF T
    <3> QED BY <1>1, <2>1, <2>2, Induction
  <2>4. n \in 0 .. n
    BY <1>1
  <2> QED BY ONLY <2>3, <2>4
<1> QED BY <1>9, <1>11 DEF AccT, n

(* The words of the rows of a file and of the lines it is read into.       *)
LEMMA SolidRowsIs ==
  ASSUME NEW rows \in Seq(Plain), NEW ls \in Seq(LineT), Len(ls) = Len(rows),
         \A k \in 1 .. Len(rows) : Solid(ls[k].text) = Solid(rows[k])
  PROVE  SolidRows(rows) = Texts(ls)
<1>1. DOMAIN ls = 1 .. Len(rows) /\ DOMAIN rows = 1 .. Len(rows)
  OBVIOUS
<1>2. [n \in DOMAIN rows |-> Solid(rows[n])] = [n \in DOMAIN ls |-> Solid(ls[n].text)]
  BY <1>1
<1> QED BY <1>2 DEF SolidRows, Texts

ReadIn(e, ls, n, x, y, z, t, b) ==
  [e EXCEPT !.lines = ls, !.cur = n, !.al = x, !.vl = y, !.col = z, !.top = t, !.buf = b]
LEMMA ReadInIs ==
  ASSUME NEW e \in EdT, NEW ls \in Seq(LineT), NEW n \in Nat, NEW x \in Int, NEW y \in Int, NEW z \in Nat,
         NEW t \in Nat, NEW b \in Text, NEW r, r = ReadIn(e, ls, n, x, y, z, t, b)
  PROVE  /\ r \in EdT /\ r.lines = ls /\ r.cur = n /\ r.al = x /\ r.top = t
         /\ r.editing = e.editing /\ r.changed = e.changed
BY DEF ReadIn, EdT

LEMMA FreshKeeps ==
  ASSUME NEW e \in EdT, ~e.editing, NEW ls \in Seq(LineT), ls # <<>>, ls[1].a = 0,
         NEW r, r = Fresh(e, ls)
  PROVE  Whole(r) /\ Texts(r.lines) = Texts(ls) /\ r.changed = e.changed /\ ~r.editing
<1> DEFINE g == ReadIn(e, ls, 1, 0, 0, 0, 0, <<>>)
<1>1. 0 \in Nat /\ 0 \in Int /\ 1 \in Nat /\ <<>> \in Text
  BY DEF Text
<1>2. /\ g \in EdT /\ g.lines = ls /\ g.cur = 1 /\ g.al = 0 /\ g.top = 0
      /\ g.editing = e.editing /\ g.changed = e.changed
  BY <1>1, ReadInIs
<1>3. r = indentSuccLines(g, 1)
  BY DEF Fresh, ReadIn
<1> HIDE DEF g
<1>4. Len(ls) \in Nat /\ 1 \in 1 .. Len(ls) /\ 0 \in 0 .. Len(ls)
  OBVIOUS
<1>5. Listed(g, 1)
  BY <1>2, <1>4 DEF Listed, Upto
<1>6. Listed(r, Len(r.lines)) /\ Len(r.lines) = Len(g.lines) /\ SameRest(g, r)
  BY <1>3, <1>5, indentSuccLinesOrders
<1>7. Texts(r.lines) = Texts(ls)
  <2>1. /\ \A k \in 1 .. 1 : SameAt(r.lines[k], ls[k])
        /\ \A k \in 2 .. Len(ls) : Same(r.lines[k], ls[k])
    BY <1>2, <1>3, <1>4, indentSuccLinesDoes
  <2>2. \A k \in 1 .. Len(ls) : k \in 1 .. 1 \/ k \in 2 .. Len(ls)
    BY <1>4
  <2>3. \A k \in 1 .. Len(ls) : r.lines[k].text = ls[k].text
    BY <2>1, <2>2 DEF SameAt, Same
  <2>4. r.lines \in Seq(LineT)
    BY <1>6, ListedFields
  <2> QED BY <2>3, <2>4, <1>2, <1>6, TextsSame
<1> QED BY <1>2, <1>4, <1>6, <1>7 DEF Whole, At, SameRest

(* A file that is read has its words in the lines.                         *)
LEMMA loadSourceReads ==
  ASSUME NEW e \in EdT, ~e.editing, NEW rows \in Seq(Plain), rows # <<>>, NEW r, r = loadSource(e, rows)
  PROVE  Whole(r) /\ Texts(r.lines) = SolidRows(rows) /\ r.changed = e.changed /\ ~r.editing
<1> DEFINE raw == [n \in DOMAIN rows |-> buf2line(rows[n])]
           ls == FoldedFrom(raw)
<1>1. DOMAIN rows = 1 .. Len(rows) /\ Len(rows) \in Nat /\ 1 \in 1 .. Len(rows)
      /\ \A k \in 1 .. Len(rows) : rows[k] \in Plain /\ rows[k] \in Text
  BY PlainText
<1>2. \A k \in 1 .. Len(rows) : /\ buf2line(rows[k]) \in LineT /\ buf2line(rows[k]).text = TextIn(rows[k])
                                /\ buf2line(rows[k]).a = 0
  BY <1>1, buf2lineIs
<1>3. raw \in Seq(LineT) /\ Len(raw) = Len(rows) /\ \A k \in 1 .. Len(rows) : raw[k] = buf2line(rows[k])
  BY <1>1, <1>2
<1> HIDE DEF raw
<1>4. ls \in Seq(LineT) /\ Len(ls) = Len(rows) /\ \A k \in 1 .. Len(rows) : SameAt(ls[k], raw[k])
  BY <1>3, FoldedFromIs
<1>5. r = Fresh(e, ls)
  BY DEF loadSource, raw
<1> HIDE DEF ls
<1>6. ls[1].a = 0 /\ ls # <<>>
  BY <1>1, <1>2, <1>3, <1>4 DEF SameAt
<1>7. \A k \in 1 .. Len(rows) : Solid(ls[k].text) = Solid(rows[k])
  <2> TAKE k \in 1 .. Len(rows)
  <2>1. ls[k].text = TextIn(rows[k])
    BY <1>2, <1>3, <1>4 DEF SameAt, Same
  <2> QED BY <2>1, <1>1, SolidTextIn
<1>8. SolidRows(rows) = Texts(ls)
  BY <1>4, <1>7, SolidRowsIs
<1> QED BY <1>4, <1>5, <1>6, <1>8, FreshKeeps

LEMMA doNewReads ==
  ASSUME NEW e \in EdT, ~e.editing, NEW r, r = doNew(e)
  PROVE  Whole(r) /\ Texts(r.lines) = <<>> /\ r.changed = e.changed /\ ~r.editing
<1> DEFINE l == buf2line(<<>>)
           ls == <<l>>
<1>1. <<>> \in Text
  BY DEF Text
<1>2. TextIn(<<>>) = <<>>
  BY DEF TextIn
<1>3. l \in LineT /\ l.text = <<>> /\ l.a = 0
  BY <1>1, <1>2, buf2lineIs
<1>4. r = Fresh(e, ls)
  BY DEF doNew
<1> HIDE DEF l
<1>5. Texts(ls) = <<>>
  BY <1>3, TextsOfOne
<1>6. ls \in Seq(LineT) /\ ls # <<>> /\ ls[1].a = 0
  BY <1>3
<1> HIDE DEF ls
<1> QED BY <1>4, <1>5, <1>6, FreshKeeps

(* What is written to the file has the words of the lines.                 *)
LEMMA RowsAre ==
  ASSUME NEW e, Whole(e)
  PROVE  Rows(e) \in Seq(Plain) /\ Rows(e) # <<>> /\ SolidRows(Rows(e)) = Texts(e.lines)
<1> DEFINE ls == e.lines
           F(k) == Blanks(ls[k].indent * IndentSpaces) \o ls[k].text
           rows == Rows(e)
<1>1. ls \in Seq(LineT) /\ Len(ls) \in 1 .. Len(ls) /\ Len(ls) \in Nat /\ DOMAIN ls = 1 .. Len(ls)
      /\ \A k \in 1 .. Len(ls) : ls[k] \in LineT
  BY ListedFields DEF Whole
<1>2. \A k \in 1 .. Len(ls) : F(k) \in Plain
  BY <1>1, RowType
<1>3. rows = [k \in 1 .. Len(ls) |-> F(k)]
  BY <1>1 DEF Rows
<1>4. \A k \in 1 .. Len(ls) : Solid(F(k)) = Solid(ls[k].text)
  BY <1>1, SolidOfRow
<1> HIDE DEF F, ls, rows
<1>5. rows \in Seq(Plain) /\ Len(rows) = Len(ls) /\ \A k \in 1 .. Len(ls) : rows[k] = F(k)
  BY <1>1, <1>2, <1>3
<1>6. rows # <<>>
  BY <1>1, <1>5
<1>7. SolidRows(rows) = Texts(ls)
  BY <1>1, <1>4, <1>5, SolidRowsIs
<1> QED BY <1>5, <1>6, <1>7 DEF rows, ls

-----------------------------------------------------------------------------
(* What is shown: _scroll and _repaint change which lines are up to date,  *)
(* the first row and its line, and nothing of the text.                    *)
Scrolled(e, n) == [e EXCEPT !.scroll = n]
LEMMA ScrolledKeeps ==
  ASSUME NEW e, Whole(e), NEW n \in Int, NEW f, f = Scrolled(e, n)
  PROVE  Whole(f) /\ Alike(e, f) /\ f.lines = e.lines /\ f.top = e.top
<1>1. e \in EdT
  BY DEF Whole, Listed
<1>2. f \in EdT /\ SameList(e, f) /\ f.buf = e.buf
  BY <1>1 DEF Scrolled, EdT, SameList
<1> QED BY <1>2, Lasting DEF SameList

LEMMA StaleKeeps ==
  ASSUME NEW e, Whole(e), NEW n \in 1 .. Len(e.lines), NEW f, f = Stale(e, n)
  PROVE  Whole(f) /\ Alike(e, f)
<1> DEFINE ls == Faded(e.lines, n)
<1>1. e \in EdT /\ e.lines \in Seq(LineT)
  BY ListedFields DEF Whole
<1>2. /\ ls \in Seq(LineT) /\ Len(ls) = Len(e.lines)
      /\ \A k \in 1 .. Len(e.lines) : SameAt(ls[k], e.lines[k])
      /\ ls = [e.lines EXCEPT ![n].up2date = FALSE]
  BY <1>1, FadedIs
<1>3. f = [e EXCEPT !.lines = [e.lines EXCEPT ![n].up2date = FALSE]]
  BY <1>1 DEF Stale, EdT
<1> HIDE DEF ls
<1>4. f = WithRows(e, ls)
  BY <1>2, <1>3 DEF WithRows
<1> QED BY <1>1, <1>2, <1>4, WithRowsKeeps

LEMMA WindowType == Height \in Nat /\ Margin \in Nat
<1>1. Height \in Nat
  BY EditorAssumption, Zenon
<1>2. Margin \in Nat
  BY EditorAssumption, Zenon
<1> QED BY <1>1, <1>2

LEMMA scrollForwardKeeps ==
  ASSUME NEW s, Whole(s.e), NEW f, f = scrollForward(s).e
  PROVE  Whole(f) /\ Alike(s.e, f)
<1> DEFINE e == s.e
           new == Smaller(e.vl - Height + Margin, e.num_vlines - Height + 1)
           moved == Scrolled(e, new)
           below == e.top + Height + 1
<1>1. e \in EdT /\ e.vl \in Int /\ e.num_vlines \in Int /\ e.top \in Nat /\ Height \in Nat /\ Margin \in Nat
      /\ Len(e.lines) \in Nat
  <2>1. e \in EdT /\ Len(e.lines) \in Nat
    BY ListedFields DEF Whole
  <2> HIDE DEF e
  <2>2. e.vl \in Int /\ e.num_vlines \in Int /\ e.top \in Nat
    BY <2>1 DEF EdT
  <2>3. Height \in Nat /\ Margin \in Nat
    BY WindowType
  <2> QED BY <2>1, <2>2, <2>3
<1>2. new \in Int /\ below \in Int /\ below >= 1
  <2>1. \A x, y, z \in Int : x - y + z \in Int
    OBVIOUS
  <2>2. \A x, y \in Nat : x + y + 1 \in Int /\ x + y + 1 >= 1
    OBVIOUS
  <2>3. Height \in Int /\ Margin \in Int /\ 1 \in Int
    BY <1>1
  <2>4. e.vl - Height + Margin \in Int /\ e.num_vlines - Height + 1 \in Int
    BY <1>1, <2>1, <2>3
  <2>5. new \in Int
    BY <2>4 DEF Smaller
  <2>6. below \in Int /\ below >= 1
    <3> HIDE DEF e
    <3> QED BY <2>2, <1>1
  <2> QED BY <2>5, <2>6
<1>4. f = e \/ f = InvalidateAll(moved) \/ (f = Stale(moved, below) /\ below <= Len(e.lines))
  <2> DEFINE One == e.vl - e.scroll <= Height - Margin \/ new = e.scroll
             Two == e.vl - e.scroll > Height - Margin /\ new = e.scroll + 1
             g == IF e.top # 0 /\ below <= Len(e.lines) THEN Stale(moved, below) ELSE InvalidateAll(moved)
             t == [s EXCEPT !.e = InvalidateAll(moved)]
  <2>1. scrollForward(s) = CASE One -> s [] Two -> [e |-> g, rows |-> ScrolledUp(s.rows)] [] OTHER -> t
    BY DEF scrollForward, Scrolled
  <2>2. t.e = InvalidateAll(moved) \/ t.e = e
    OBVIOUS
  <2>3. g = InvalidateAll(moved) \/ (g = Stale(moved, below) /\ below <= Len(e.lines))
    <3> HIDE DEF e, moved, below
    <3> QED OBVIOUS
  <2>4. [e |-> g, rows |-> ScrolledUp(s.rows)].e = g
    OBVIOUS
  <2> HIDE DEF One, Two, g, t, new, below, moved
  <2>5. scrollForward(s) \in {s, [e |-> g, rows |-> ScrolledUp(s.rows)], t}
    BY <2>1
  <2>6. f \in {e, g, InvalidateAll(moved)}
    BY <2>2, <2>4, <2>5
  <2> QED BY <2>3, <2>6
<1> HIDE DEF new, below
<1>5. Whole(moved) /\ Alike(e, moved) /\ moved.lines = e.lines
  BY <1>2, ScrolledKeeps
<1> HIDE DEF moved
<1>6. CASE f = e
  BY <1>6, Unmoved
<1>7. CASE f = InvalidateAll(moved)
  BY <1>5, <1>7, InvalidateAllKeeps, AlikeTrans
<1>8. CASE f = Stale(moved, below) /\ below <= Len(e.lines)
  <2>1. below \in 1 .. Len(moved.lines)
    BY <1>1, <1>2, <1>5, <1>8
  <2> QED BY <1>5, <1>8, <2>1, StaleKeeps, AlikeTrans
<1> QED BY <1>4, <1>6, <1>7, <1>8

LEMMA scrollBackKeeps ==
  ASSUME NEW s, Whole(s.e), NEW row, NEW f, f = scrollBack(s, row).e
  PROVE  Whole(f) /\ Alike(s.e, f)
<1> DEFINE e == s.e
           new == IF e.vl > Margin THEN e.vl - Margin ELSE 0
           moved == Scrolled(e, new)
<1>1. e \in EdT /\ e.vl \in Int /\ e.top \in 0 .. Len(e.lines) /\ Margin \in Nat /\ Len(e.lines) \in Nat
  <2>1. e \in EdT /\ Len(e.lines) \in Nat /\ e.top \in 0 .. Len(e.lines)
    BY ListedFields DEF Whole, Listed
  <2> HIDE DEF e
  <2>2. e.vl \in Int
    BY <2>1 DEF EdT
  <2>3. Height \in Nat /\ Margin \in Nat
    BY WindowType
  <2> QED BY <2>1, <2>2, <2>3
<1>2. new \in Int
  BY <1>1
<1>3. f = e \/ f = moved \/ f = InvalidateAll(moved) \/ (f = Stale(moved, e.top - 1) /\ e.top > 1)
  <2> DEFINE One == row >= Margin \/ new = e.scroll
             Two == row < Margin /\ new = e.scroll - 1
             g == IF e.top > 1 THEN Stale(moved, e.top - 1) ELSE moved
             t == [s EXCEPT !.e = InvalidateAll(moved)]
  <2>1. scrollBack(s, row) = CASE One -> s [] Two -> [e |-> g, rows |-> ScrolledDown(s.rows)] [] OTHER -> t
    BY DEF scrollBack, Scrolled
  <2>2. t.e = InvalidateAll(moved) \/ t.e = e
    OBVIOUS
  <2>3. g = moved \/ (g = Stale(moved, e.top - 1) /\ e.top > 1)
    <3> HIDE DEF e, moved
    <3> QED OBVIOUS
  <2>4. [e |-> g, rows |-> ScrolledDown(s.rows)].e = g
    OBVIOUS
  <2> HIDE DEF One, Two, g, t, new, moved
  <2>5. scrollBack(s, row) \in {s, [e |-> g, rows |-> ScrolledDown(s.rows)], t}
    BY <2>1
  <2>6. f \in {e, g, InvalidateAll(moved)}
    BY <2>2, <2>4, <2>5
  <2> QED BY <2>3, <2>6
<1> HIDE DEF new
<1>5. Whole(moved) /\ Alike(e, moved) /\ moved.lines = e.lines
  BY <1>2, ScrolledKeeps
<1> HIDE DEF moved
<1>6. CASE f = e
  BY <1>6, Unmoved
<1>7. CASE f = InvalidateAll(moved)
  BY <1>5, <1>7, InvalidateAllKeeps, AlikeTrans
<1>8. CASE f = Stale(moved, e.top - 1) /\ e.top > 1
  <2>1. e.top - 1 \in 1 .. Len(moved.lines)
    BY <1>1, <1>5, <1>8
  <2> QED BY <1>5, <1>8, <2>1, StaleKeeps, AlikeTrans
<1>9. CASE f = moved
  BY <1>9, <1>5
<1> QED BY <1>3, <1>6, <1>7, <1>8, <1>9

LEMMA scrollKeeps ==
  ASSUME NEW s, Whole(s.e), NEW f, f = scroll(s).e
  PROVE  Whole(f) /\ Alike(s.e, f)
<1> DEFINE t == scrollForward(s)
           row == s.e.vl - s.e.scroll
<1>1. Whole(t.e) /\ Alike(s.e, t.e)
  BY scrollForwardKeeps
<1>2. scroll(s) = scrollBack(t, row)
  BY DEF scroll, With
<1> HIDE DEF t, row
<1>3. Whole(f) /\ Alike(t.e, f)
  BY <1>1, <1>2, scrollBackKeeps
<1> QED BY <1>1, <1>3, AlikeTrans

LEMMA FirstFromIn ==
  ASSUME NEW ls \in Seq(LineT), NEW v
  PROVE  FirstFrom(ls, v) \in 0 .. Len(ls)
<1> DEFINE S == {i \in DOMAIN ls : ls[i].v >= v}
<1>1. S \subseteq 1 .. Len(ls) /\ S \subseteq Nat /\ Len(ls) \in Nat
  OBVIOUS
<1>2. FirstFrom(ls, v) = IF S = {} THEN 0 ELSE CHOOSE i \in S : \A j \in S : i <= j
  BY DEF FirstFrom
<1> HIDE DEF S
<1>3. CASE S = {}
  BY <1>1, <1>2, <1>3
<1>4. CASE S # {}
  <2>1. (CHOOSE i \in S : \A j \in S : i <= j) \in S
    BY <1>1, <1>4, FirstOf
  <2> DEFINE x == CHOOSE i \in S : \A j \in S : i <= j
  <2>2. FirstFrom(ls, v) = x /\ x \in S
    BY <1>2, <1>4, <2>1
  <2> HIDE DEF x
  <2>3. x \in 1 .. Len(ls)
    BY <1>1, <2>2
  <2> QED BY <1>1, <2>2, <2>3
<1> QED BY <1>3, <1>4

Marked(l, b) == [l EXCEPT !.up2date = b]
MarkedLines(ls, M) == [n \in DOMAIN ls |-> Marked(ls[n], M[n])]
LEMMA MarkedIs ==
  ASSUME NEW l \in LineT, NEW b \in BOOLEAN
  PROVE  Marked(l, b) \in LineT /\ SameAt(Marked(l, b), l)
BY DEF Marked, LineT, SameAt, Same

LEMMA MarkedLinesAre ==
  ASSUME NEW ls \in Seq(LineT), NEW M \in [1 .. Len(ls) -> BOOLEAN], NEW ms, ms = MarkedLines(ls, M)
  PROVE  ms \in Seq(LineT) /\ Len(ms) = Len(ls) /\ \A k \in 1 .. Len(ls) : SameAt(ms[k], ls[k])
<1> DEFINE F(k) == Marked(ls[k], M[k])
<1>1. \A k \in 1 .. Len(ls) : F(k) \in LineT /\ SameAt(F(k), ls[k])
  <2> TAKE k \in 1 .. Len(ls)
  <2>1. ls[k] \in LineT /\ M[k] \in BOOLEAN
    OBVIOUS
  <2> QED BY <2>1, MarkedIs
<1>2. DOMAIN ls = 1 .. Len(ls) /\ Len(ls) \in Nat
  OBVIOUS
<1>3. ms = [k \in 1 .. Len(ls) |-> F(k)]
  BY <1>2 DEF MarkedLines
<1> HIDE DEF F
<1> QED BY <1>1, <1>2, <1>3

Painted(e, t, x, b, ls) == [e EXCEPT !.top = t, !.topRow = x, !.repaint_all = b, !.lines = ls]
LEMMA PaintedKeeps ==
  ASSUME NEW e, Whole(e), NEW t \in 0 .. Len(e.lines), NEW x \in Int, NEW b \in BOOLEAN, NEW ls \in Seq(LineT),
         Len(ls) = Len(e.lines), \A k \in 1 .. Len(e.lines) : SameAt(ls[k], e.lines[k]),
         NEW f, f = Painted(e, t, x, b, ls)
  PROVE  Whole(f) /\ Alike(e, f)
<1>1. e \in EdT /\ t \in Nat /\ Len(e.lines) \in Nat
  BY ListedFields DEF Whole
<1>2. f \in EdT /\ f.lines = ls /\ f.cur = e.cur /\ f.al = e.al /\ f.top = t /\ f.editing = e.editing
      /\ f.changed = e.changed /\ f.buf = e.buf
  BY <1>1 DEF Painted, EdT
<1> QED BY <1>2, LinesLasting

LEMMA repaintKeeps ==
  ASSUME NEW s, Whole(s.e), NEW f, f = repaint(s).e
  PROVE  Whole(f) /\ Alike(s.e, f)
<1> DEFINE e == s.e
           ls == e.lines
           top == IF e.top = 0 \/ e.topRow # e.scroll THEN FirstFrom(e.lines, e.scroll) ELSE e.top
           at == Visible(e, top)
           M == [n \in 1 .. Len(ls) |-> e.lines[n].up2date \/ n \in {at[k] : k \in DOMAIN at}]
           ms == MarkedLines(ls, M)
<1>1. e \in EdT /\ ls \in Seq(LineT) /\ Len(ls) \in Nat /\ e.top \in 0 .. Len(ls) /\ e.scroll \in Int /\ FALSE \in BOOLEAN
  <2>1. e \in EdT /\ ls \in Seq(LineT) /\ Len(ls) \in Nat /\ e.top \in 0 .. Len(ls)
    BY ListedFields DEF Whole, Listed
  <2> HIDE DEF e
  <2> QED BY <2>1, EdFields
<1>2. top \in 0 .. Len(ls)
  BY <1>1, FirstFromIn
<1>3. repaint(s).e = Painted(e, top, e.scroll, FALSE, ms)
  <2> DEFINE Op(q) ==
    [rows |-> [k \in 1..Height |->
                 IF k \in DOMAIN q THEN IF e.lines[q[k]].up2date THEN s.rows[k] ELSE RowOf(e, q[k])
                 ELSE IF e.repaint_all THEN NoRow ELSE s.rows[k]],
     e |-> [e EXCEPT !.top = top, !.topRow = e.scroll, !.repaint_all = FALSE,
                     !.lines = [n \in DOMAIN @ |-> [@[n] EXCEPT !.up2date = e.lines[n].up2date \/ n \in {q[k] : k \in DOMAIN q}]]]]
  <2>1. repaint(s) = With(at, Op)
    BY DEF repaint
  <2>2. Op(at).e = [e EXCEPT !.top = top, !.topRow = e.scroll, !.repaint_all = FALSE,
             !.lines = [n \in DOMAIN e.lines |-> [e.lines[n] EXCEPT !.up2date = e.lines[n].up2date \/ n \in {at[k] : k \in DOMAIN at}]]]
    BY <1>1 DEF EdT
  <2>3. With(at, Op) = Op(at)
    <3> HIDE DEF Op
    <3> QED BY DEF With
  <2>4. [n \in DOMAIN e.lines |-> [e.lines[n] EXCEPT !.up2date = e.lines[n].up2date \/ n \in {at[k] : k \in DOMAIN at}]] = ms
    BY <1>1 DEF MarkedLines, Marked
  <2> HIDE DEF Op, ms, top, at
  <2> QED BY <2>1, <2>2, <2>3, <2>4 DEF Painted
<1>4. M \in [1 .. Len(ls) -> BOOLEAN]
  <2> HIDE DEF at, ls
  <2> QED OBVIOUS
<1> HIDE DEF M, top, at
<1>5. ms \in Seq(LineT) /\ Len(ms) = Len(ls) /\ \A k \in 1 .. Len(ls) : SameAt(ms[k], ls[k])
  BY <1>1, <1>4, MarkedLinesAre
<1> HIDE DEF ms
<1> QED BY <1>1, <1>2, <1>3, <1>5, PaintedKeeps

LEMMA ShowsKeeps ==
  ASSUME NEW e, Whole(e), NEW rows, Shows(e, rows)
  PROVE  Whole(ed') /\ Alike(e, ed')
<1> DEFINE s == [e |-> e, rows |-> rows]
           t == scroll(s)
<1>1. CASE e.wild
  <2>1. ed' = e
    BY <1>1 DEF Shows
  <2> QED BY <2>1, Unmoved
<1>2. CASE ~e.wild
  <2>1. ed' = repaint(t).e
    BY <1>2 DEF Shows
  <2>2. s.e = e
    OBVIOUS
  <2> HIDE DEF s
  <2>3. Whole(t.e) /\ Alike(e, t.e)
    BY <2>2, scrollKeeps
  <2> HIDE DEF t
  <2>4. Whole(ed') /\ Alike(t.e, ed')
    BY <2>1, <2>3, repaintKeeps
  <2> QED BY <2>3, <2>4, AlikeTrans
<1> QED BY <1>1, <1>2

-----------------------------------------------------------------------------
(* The inductive invariant: the list is whole and, unless a change is      *)
(* noted, the file has the words of the lines.                             *)
OnDisk(rows, e) == rows \in Seq(Plain) /\ (~e.changed => SolidRows(rows) = Texts(e.lines))
IInv == Whole(ed) /\ OnDisk(disk, ed)

LEMMA FilesType ==
  ASSUME NEW rows \in Files
  PROVE  rows \in Seq(Plain) /\ rows # <<>>
<1>1. rows \in Seq(Seq(Char \ {"NUL"})) \ {<<>>}
  BY EditorAssumption, Zenon
<1> QED BY <1>1 DEF Plain, Nul

Beginning == [lines |-> <<>>, cur |-> 1, al |-> 0, vl |-> 0, col |-> 0, num_lines |-> 0, num_vlines |-> 0,
              editing |-> FALSE, buf |-> <<>>, changed |-> FALSE, wild |-> FALSE,
              scroll |-> 0, top |-> 0, topRow |-> 0, repaint_all |-> TRUE]
LEMMA BeginningType == Beginning \in EdT /\ ~Beginning.editing /\ ~Beginning.changed
<1>1. <<>> \in Seq(LineT) /\ <<>> \in Text
  BY DEF Text
<1> QED BY <1>1 DEF Beginning, EdT

LEMMA InitKeeps == Init => IInv
<1> HAVE Init
<1> DEFINE e == NewEditor(disk)
           s == [e |-> e, rows |-> NoRows]
           t == scroll(s)
<1>1. disk \in Files /\ ed = repaint(t).e
  BY DEF Init
<1>2. e = loadSource(Beginning, disk)
  BY DEF NewEditor, Beginning
<1>3. Whole(e) /\ Texts(e.lines) = SolidRows(disk) /\ ~e.changed
  BY <1>1, <1>2, FilesType, BeginningType, loadSourceReads
<1>4. s.e = e
  OBVIOUS
<1> HIDE DEF e, s
<1>5. Whole(t.e) /\ Noted(e, t.e)
  BY <1>3, <1>4, scrollKeeps, AlikeIs
<1> HIDE DEF t
<1>6. Whole(ed) /\ Noted(t.e, ed)
  BY <1>1, <1>5, repaintKeeps, AlikeIs
<1>7. Noted(e, ed) /\ disk \in Seq(Plain)
  BY <1>1, <1>5, <1>6, NotedTrans, FilesType
<1> QED BY <1>3, <1>6, <1>7 DEF IInv, OnDisk, Noted

LEMMA OnDiskNoted ==
  ASSUME NEW rows, NEW e, NEW f, OnDisk(rows, e), Noted(e, f)
  PROVE  OnDisk(rows, f)
BY DEF OnDisk, Noted

LEMMA KeyKeeps ==
  ASSUME IInv, NEW e, Whole(e), Noted(ed, e), Key(e)
  PROVE  IInv'
<1>1. Whole(ed') /\ Noted(e, ed') /\ disk' = disk
  BY ShowsKeeps, AlikeIs DEF Key
<1>2. Noted(ed, ed')
  BY <1>1, NotedTrans
<1>3. OnDisk(disk, ed')
  BY <1>2, OnDiskNoted DEF IInv
<1> QED BY <1>1, <1>3 DEF IInv

LEMMA FileKeeps ==
  ASSUME NEW e, Whole(e), NEW rows, OnDisk(rows, e), File(e, rows)
  PROVE  IInv'
<1>1. Whole(ed') /\ Noted(e, ed') /\ disk' = rows
  BY ShowsKeeps, AlikeIs DEF File
<1>2. OnDisk(rows, ed')
  BY <1>1, OnDiskNoted
<1> QED BY <1>1, <1>2 DEF IInv

LEMMA SavedIs ==
  ASSUME NEW e, Whole(e), ~e.editing, NEW f, f = Saved(e)
  PROVE  Whole(f) /\ f.lines = e.lines /\ ~f.changed /\ ~f.editing
<1>1. e \in EdT
  BY DEF Whole, Listed
<1>2. f \in EdT /\ f.lines = e.lines /\ f.cur = e.cur /\ f.al = e.al /\ f.top = e.top /\ ~f.editing /\ ~f.changed
  BY <1>1 DEF Saved, EdT
<1> QED BY <1>2 DEF Whole, Listed, At

(* The text is committed and written, or neither the file nor its words    *)
(* change.                                                                 *)
LEMMA GivenKeeps ==
  ASSUME IInv, NEW saves \in BOOLEAN
  PROVE  /\ Whole(Given(saves)) /\ ~Given(saves).editing /\ Len(Given(saves).lines) = Len(ed.lines)
         /\ OnDisk(FileOf(saves), Given(saves)) /\ Speaks(ed, Given(saves))
<1> DEFINE c == Committed(ed)
<1>1. Whole(c) /\ Stays(ed, c) /\ Quiet(ed, c) /\ ~c.editing
  BY CommittedKeeps DEF IInv
<1>2. CASE saves
  <2>1. Given(saves) = Saved(c) /\ FileOf(saves) = Rows(c)
    BY <1>2 DEF Given, FileOf
  <2> HIDE DEF c
  <2>2. Whole(Saved(c)) /\ Saved(c).lines = c.lines /\ ~Saved(c).editing /\ Speaks(c, Saved(c))
    BY <1>1, SavedIs, SpeaksLines
  <2>3. Rows(c) \in Seq(Plain) /\ SolidRows(Rows(c)) = Texts(c.lines)
    BY <1>1, RowsAre
  <2> QED BY <1>1, <2>1, <2>2, <2>3 DEF OnDisk, Stays, Quiet, Speaks
<1>3. CASE ~saves
  <2>1. Given(saves) = c /\ FileOf(saves) = disk
    BY <1>3 DEF Given, FileOf
  <2> HIDE DEF c
  <2>2. OnDisk(disk, c)
    BY <1>1, OnDiskNoted DEF IInv, Quiet
  <2> QED BY <1>1, <2>1, <2>2 DEF Stays, Quiet
<1> QED BY <1>2, <1>3

LEMMA SaveKeeps == ASSUME IInv, Save PROVE IInv'
<1>1. PICK written \in BOOLEAN :
        File(IF written THEN Saved(Committed(ed)) ELSE Committed(ed), FileOf(written))
  BY DEF Save
<1>2. File(Given(written), FileOf(written))
  BY <1>1 DEF Given
<1> QED BY <1>2, GivenKeeps, FileKeeps

LEMMA CompileKeeps == ASSUME IInv, Compile PROVE IInv'
<1>1. CASE File(Committed(ed), disk)
  <2>1. File(Given(FALSE), FileOf(FALSE))
    BY <1>1 DEF Given, FileOf
  <2> QED BY <2>1, GivenKeeps, FileKeeps
<1>2. CASE \E e \in {Saved(Committed(ed))}, line \in 0..Len(ed.lines) :
             File(IF line = 0 THEN e ELSE gotoLine(e, line, 0), FileOf(TRUE))
  <2> DEFINE e == Given(TRUE)
  <2>1. e = Saved(Committed(ed))
    BY DEF Given
  <2>2. Whole(e) /\ Len(e.lines) = Len(ed.lines) /\ OnDisk(FileOf(TRUE), e)
    BY GivenKeeps
  <2> HIDE DEF e
  <2>3. PICK line \in 0 .. Len(ed.lines) : File(IF line = 0 THEN e ELSE gotoLine(e, line, 0), FileOf(TRUE))
    BY <1>2, <2>1
  <2>4. CASE line = 0
    <3>1. File(e, FileOf(TRUE))
      BY <2>3, <2>4
    <3> QED BY <2>2, <3>1, FileKeeps
  <2>5. CASE line # 0
    <3> DEFINE r == gotoLine(e, line, 0)
    <3>1. File(r, FileOf(TRUE))
      BY <2>3, <2>5
    <3>2. line \in 1 .. Len(e.lines) /\ 0 \in Nat
      BY <2>2, <2>5
    <3>3. Whole(r) /\ Quiet(e, r)
      BY <2>2, <3>2, gotoLineKeeps
    <3> HIDE DEF r
    <3>4. OnDisk(FileOf(TRUE), r)
      BY <2>2, <3>3, OnDiskNoted DEF Quiet
    <3> QED BY <3>1, <3>3, <3>4, FileKeeps
  <2> QED BY <2>4, <2>5
<1> QED BY <1>1, <1>2 DEF Compile

LEMMA NewKeeps == ASSUME IInv, New PROVE IInv'
<1>1. PICK saves \in BOOLEAN : File(doNew(Given(saves)), <<>>)
  BY DEF New
<1>2. Whole(Given(saves)) /\ ~Given(saves).editing
  BY GivenKeeps
<1>3. Given(saves) \in EdT
  BY <1>2 DEF Whole, Listed
<1>4. Whole(doNew(Given(saves))) /\ Texts(doNew(Given(saves)).lines) = <<>>
  BY <1>2, <1>3, doNewReads
<1>5. SolidRows(<<>>) = <<>> /\ <<>> \in Seq(Plain)
  <2>1. <<>> \in Seq(Plain)
    OBVIOUS
  <2>2. SolidRows(<<>>) = <<>>
    BY DEF SolidRows, FlattenSeq
  <2> QED BY <2>1, <2>2
<1> QED BY <1>1, <1>4, <1>5, FileKeeps DEF OnDisk

LEMMA OpenKeeps == ASSUME IInv, Open PROVE IInv'
<1>1. PICK saves \in BOOLEAN :
        \/ File(Given(saves), FileOf(saves))
        \/ \E rows \in Files \cup {FileOf(saves)} : rows # <<>> /\ File(loadSource(Given(saves), rows), rows)
  BY DEF Open
<1>2. Whole(Given(saves)) /\ ~Given(saves).editing /\ OnDisk(FileOf(saves), Given(saves))
  BY GivenKeeps
<1>3. CASE File(Given(saves), FileOf(saves))
  BY <1>2, <1>3, FileKeeps
<1>4. CASE \E rows \in Files \cup {FileOf(saves)} : rows # <<>> /\ File(loadSource(Given(saves), rows), rows)
  <2>1. PICK rows \in Files \cup {FileOf(saves)} : rows # <<>> /\ File(loadSource(Given(saves), rows), rows)
    BY <1>4
  <2>2. rows \in Seq(Plain)
    BY <1>2, <2>1, FilesType DEF OnDisk
  <2>3. Given(saves) \in EdT
    BY <1>2 DEF Whole, Listed
  <2> DEFINE r == loadSource(Given(saves), rows)
  <2>4. Whole(r) /\ Texts(r.lines) = SolidRows(rows)
    BY <1>2, <2>1, <2>2, <2>3, loadSourceReads
  <2> HIDE DEF r
  <2>5. OnDisk(rows, r)
    BY <2>2, <2>4 DEF OnDisk
  <2> QED BY <2>1, <2>4, <2>5, FileKeeps DEF r
<1> QED BY <1>1, <1>3, <1>4

LEMMA ExitKeeps == ASSUME IInv, Exit PROVE IInv'
<1>1. PICK saves \in BOOLEAN : ed' = (IF saves THEN Given(saves) ELSE ed) /\ disk' = FileOf(saves)
  BY DEF Exit
<1>2. CASE saves
  <2>1. ed' = Given(saves)
    BY <1>1, <1>2
  <2> QED BY <1>1, <2>1, GivenKeeps DEF IInv
<1>3. CASE ~saves
  <2>1. ed' = ed /\ disk' = disk
    BY <1>1, <1>3 DEF FileOf
  <2> QED BY <2>1 DEF IInv
<1> QED BY <1>2, <1>3

(* What a key does leaves the list whole and notes every change.           *)
LEMMA KeysKeep ==
  ASSUME IInv,
         \/ \E c \in Alphabet : Type(c)
         \/ \E clip \in Clipboards : Paste(clip)
         \/ Enter \/ Backspace \/ Delete \/ Kill \/ Fold \/ Breakpoint \/ Resize
         \/ Up \/ Down \/ Left \/ Right \/ PageUp \/ PageDown \/ Top \/ Bottom \/ Home \/ End
  PROVE  IInv'
<1>1. Whole(ed) /\ ed.cur \in 1 .. Len(ed.lines)
  BY DEF IInv, Whole, At
<1>2. ASSUME NEW c \in Alphabet, Type(c) PROVE IInv'
  <2>1. c \in Char
    <3>1. Alphabet \subseteq Char
      BY EditorAssumption, Zenon
    <3> QED BY <3>1
  <2>2. Whole(insertChar(ed, c)) /\ Noted(ed, insertChar(ed, c))
    BY <1>1, <2>1, insertCharKeeps
  <2> QED BY <1>2, <2>2, KeyKeeps DEF Type
<1>3. ASSUME NEW clip \in Clipboards, Paste(clip) PROVE IInv'
  <2>1. Whole(paste(ed, clip)) /\ Noted(ed, paste(ed, clip))
    BY <1>1, pasteKeeps
  <2> QED BY <1>3, <2>1, KeyKeeps DEF Paste
<1>4. CASE Enter
  BY <1>1, <1>4, enterKeyKeeps, KeyKeeps DEF Enter
<1>5. CASE Backspace
  BY <1>1, <1>5, backspaceKeyKeeps, KeyKeeps DEF Backspace
<1>6. CASE Delete
  BY <1>1, <1>6, deleteKeyKeeps, KeyKeeps DEF Delete
<1>7. CASE Kill
  BY <1>1, <1>7, killLineKeeps, KeyKeeps DEF Kill
<1>8. CASE Fold
  BY <1>1, <1>8, foldKeeps, KeyKeeps DEF Quiet, Fold
<1>9. CASE Breakpoint
  BY <1>1, <1>9, toggleBreakPointKeeps, KeyKeeps DEF Quiet, Breakpoint
<1>10. CASE Resize
  <2> DEFINE r == InvalidateAll(ed)
  <2>1. Whole(r) /\ Noted(ed, r)
    BY <1>1, InvalidateAllKeeps, AlikeIs
  <2>2. Shows(r, NoRows) /\ disk' = disk
    BY <1>10 DEF Resize
  <2> HIDE DEF r
  <2>3. Whole(ed') /\ Noted(r, ed')
    BY <2>1, <2>2, ShowsKeeps, AlikeIs
  <2>4. OnDisk(disk, ed')
    BY <2>1, <2>3, NotedTrans, OnDiskNoted DEF IInv
  <2> QED BY <2>2, <2>3, <2>4 DEF IInv
<1>11. CASE Up
  BY <1>1, <1>11, cursorUpKeeps, KeyKeeps DEF Quiet, Up
<1>12. CASE Down
  BY <1>1, <1>12, cursorDownKeeps, KeyKeeps DEF Quiet, Down
<1>13. CASE Left \/ Right \/ Home \/ End
  BY <1>1, <1>13, InLineKeeps, KeyKeeps DEF Quiet, Left, Right, Home, End
<1>14. CASE PageUp
  BY <1>1, <1>14, pageUpKeeps, KeyKeeps DEF Quiet, PageUp
<1>15. CASE PageDown
  BY <1>1, <1>15, pageDownKeeps, KeyKeeps DEF Quiet, PageDown
<1>16. CASE Top
  BY <1>1, <1>16, gotoBOFKeeps, KeyKeeps DEF Quiet, Top
<1>17. CASE Bottom
  BY <1>1, <1>17, gotoEOFKeeps, KeyKeeps DEF Quiet, Bottom
<1> QED BY <1>2, <1>3, <1>4, <1>5, <1>6, <1>7, <1>8, <1>9, <1>10, <1>11, <1>12, <1>13, <1>14, <1>15, <1>16, <1>17

(* The inductive invariant of the editor: the lines are numbered and       *)
(* indented as they stand in the list, and unless a change is noted the    *)
(* file on disk has the words of the lines (every key handler of ide.c     *)
(* with _scroll and _repaint, _ide_save, _compile, _doNew, _loadSource).   *)
THEOREM Inductive == Spec => []IInv
<1>1. Init => IInv
  BY InitKeeps
<1>2. IInv /\ [Next]_vars => IInv'
  <2> SUFFICES ASSUME IInv, [Next]_vars PROVE IInv'
    OBVIOUS
  <2>1. CASE Save
    BY <2>1, SaveKeeps
  <2>2. CASE Compile
    BY <2>2, CompileKeeps
  <2>3. CASE New
    BY <2>3, NewKeeps
  <2>4. CASE Open
    BY <2>4, OpenKeeps
  <2>5. CASE Exit
    BY <2>5, ExitKeeps
  <2>6. CASE UNCHANGED vars
    BY <2>6 DEF IInv, vars
  <2>7. CASE Next
    BY <2>1, <2>2, <2>3, <2>4, <2>5, <2>7, KeysKeep DEF Next
  <2> QED BY <2>6, <2>7
<1> QED BY <1>1, <1>2, PTL DEF Spec

(* The cursor is on a line, the lines are numbered as they stand, and      *)
(* every line is indented as the lines before it say, after any sequence   *)
(* of keys, folds, files and errors (commitBuf, indentSuccLines).          *)
THEOREM ConsistentHolds == Spec => []Consistent
<1>1. IInv => Consistent
  <2> SUFFICES ASSUME IInv PROVE Consistent
    OBVIOUS
  <2> DEFINE ls == ed.lines
  <2>1. /\ ed \in EdT /\ ls \in Seq(LineT) /\ Len(ls) \in 1 .. Len(ls) /\ Upto(ls, Len(ls))
        /\ ed.top \in 0 .. Len(ls) /\ ed.cur \in 1 .. Len(ls) /\ ed.al = ed.cur - 1 /\ DOMAIN ls = 1 .. Len(ls)
    <3>1. Listed(ed, Len(ls)) /\ At(ed)
      BY DEF IInv, Whole
    <3>2. ed \in EdT /\ ls \in Seq(LineT) /\ Len(ls) \in 1 .. Len(ls)
      BY <3>1, ListedFields
    <3>3. Upto(ls, Len(ls)) /\ ed.top \in 0 .. Len(ls)
      BY <3>1 DEF Listed
    <3>4. ed.cur \in 1 .. Len(ls) /\ ed.al = ed.cur - 1
      BY <3>1 DEF At
    <3> HIDE DEF ls
    <3> QED BY <3>2, <3>3, <3>4
  <2>2. ed.col \in Nat
    BY <2>1, EdFields
  <2>3. \A n \in 1 .. Len(ls) : ls[n].a = n - 1
    BY <2>1, Numbers
  <2>4. ASSUME NEW n \in 2 .. Len(ls)
        PROVE  ls[n].indent = IF ls[n - 1].indent + ls[n - 1].post + ls[n].pre > 0
                              THEN ls[n - 1].indent + ls[n - 1].post + ls[n].pre ELSE 0
    <3>1. Follows(ls, n)
      BY <2>1 DEF Upto
    <3>2. n # 1 /\ n \in 1 .. Len(ls) /\ n - 1 \in 1 .. Len(ls)
      OBVIOUS
    <3>3. ls[n] \in LineT /\ ls[n - 1] \in LineT
      BY <2>1, <3>2
    <3>4. ls[n].pre \in Int /\ ls[n - 1].post \in Int /\ ls[n - 1].indent \in Int
      BY <3>3, LineFields
    <3>5. ls[n].indent = IndentOf(ls, n)
      BY <3>1 DEF Follows
    <3> HIDE DEF ls
    <3>6. \A x, y, z \in Int : Larger(0, x + y + z) = IF x + y + z > 0 THEN x + y + z ELSE 0
      BY DEF Larger
    <3>7. ls[n].indent = Larger(0, ls[n - 1].indent + ls[n - 1].post + ls[n].pre)
      BY <3>2, <3>5 DEF IndentOf
    <3> QED BY <3>4, <3>6, <3>7
  <2> QED BY <2>1, <2>2, <2>3, <2>4 DEF Consistent, TypeOK, LinesNumbered, IndentFollows
<1> QED BY <1>1, Inductive, PTL

(* An editor that does not ask before it gives the text up has every word  *)
(* of it on the disk (the changed flag of line2buf and deleteLine, what    *)
(* _ide_save and _loadSource do).                                          *)
THEOREM UnchangedMeansSavedHolds == Spec => []UnchangedMeansSaved
<1>1. IInv => UnchangedMeansSaved
  <2> SUFFICES ASSUME IInv, ~ed.changed PROVE SolidRows(disk) = Before(ed) \o Behind(ed)
    BY DEF UnchangedMeansSaved
  <2>1. Whole(ed) /\ ~ed.editing
    BY DEF IInv, Whole, Listed
  <2>2. SolidRows(disk) = Texts(ed.lines)
    BY DEF IInv, OnDisk
  <2> QED BY <2>1, <2>2, Around, SpokenSettled
<1> QED BY <1>1, Inductive, PTL

-----------------------------------------------------------------------------
(* A key changes the text at the cursor.                                   *)
AtCursor(e, text, rows) ==
  \/ text \in {Before(e) \o Behind(e), Above(e) \o Below(e), SolidRows(rows)}
  \/ \E c \in Alphabet : text = Before(e) \o Solid(<<c>>) \o Behind(e)
  \/ \E clip \in Clipboards : text = Before(e) \o Solid(Spaced(clip)) \o Behind(e)
  \/ Before(e) # <<>> /\ text = Front(Before(e)) \o Behind(e)
  \/ Behind(e) # <<>> /\ text = Before(e) \o Tail(Behind(e))

LEMMA ErasedAtCursor ==
  ASSUME NEW e, NEW text, NEW rows, Erased(Before(e), Behind(e), text)
  PROVE  AtCursor(e, text, rows)
BY DEF Erased, AtCursor

LEMMA SpeaksAtCursor ==
  ASSUME NEW e, Whole(e), Clear(e), NEW f, Whole(f), Speaks(e, f), NEW rows
  PROVE  AtCursor(e, Before(f) \o Behind(f), rows)
<1>1. Before(f) \o Behind(f) = Before(e) \o Behind(e)
  BY SameWords DEF Speaks
<1> QED BY <1>1 DEF AtCursor

(* What the window shows is the text as the key left it.                   *)
LEMMA ShownText ==
  ASSUME NEW e, Whole(e), NEW rows, Shows(e, rows)
  PROVE  Before(ed') \o Behind(ed') = Before(e) \o Behind(e)
<1>1. Whole(ed') /\ Alike(e, ed')
  BY ShowsKeeps
<1> QED BY <1>1, SameWords DEF Alike

Told == AtCursor(ed, Before(ed') \o Behind(ed'), disk')
LEMMA KeyTells ==
  ASSUME NEW e, Whole(e), Key(e), AtCursor(ed, Before(e) \o Behind(e), disk')
  PROVE  Told
<1>1. Before(ed') \o Behind(ed') = Before(e) \o Behind(e)
  BY ShownText DEF Key
<1> QED BY <1>1 DEF Told

LEMMA FileTells ==
  ASSUME NEW e, Whole(e), NEW rows, File(e, rows), AtCursor(ed, Before(e) \o Behind(e), disk')
  PROVE  Told
<1>1. Before(ed') \o Behind(ed') = Before(e) \o Behind(e)
  BY ShownText DEF File
<1> QED BY <1>1 DEF Told

(* Keys that write or erase.                                               *)
LEMMA WritingTells ==
  ASSUME IInv, Clear(ed), ed.col <= RowLength(ed),
         \/ \E c \in Alphabet : Type(c)
         \/ \E clip \in Clipboards : Paste(clip)
         \/ Enter \/ Backspace \/ Delete \/ Kill
  PROVE  Told
<1>1. Whole(ed)
  BY DEF IInv
<1>2. ASSUME NEW c \in Alphabet, Type(c) PROVE Told
  <2> DEFINE r == insertChar(ed, c)
  <2>1. c \in Char
    <3>1. Alphabet \subseteq Char
      BY EditorAssumption, Zenon
    <3> QED BY <3>1
  <2>2. Whole(r) /\ Written(ed, r, Solid(<<c>>))
    BY <1>1, <2>1, insertCharKeeps
  <2>3. Key(r)
    BY <1>2 DEF Type
  <2> HIDE DEF r
  <2>4. AtCursor(ed, Before(r) \o Behind(r), disk')
    BY <2>2 DEF AtCursor, Written
  <2> QED BY <2>2, <2>3, <2>4, KeyTells
<1>3. ASSUME NEW clip \in Clipboards, Paste(clip) PROVE Told
  <2> DEFINE r == paste(ed, clip)
  <2>2. Whole(r) /\ Before(r) \o Behind(r) = (Before(ed) \o Solid(Spaced(clip))) \o Behind(ed)
    BY <1>1, pasteKeeps
  <2>3. Key(r)
    BY <1>3 DEF Paste
  <2> HIDE DEF r
  <2>4. AtCursor(ed, Before(r) \o Behind(r), disk')
    BY <2>2 DEF AtCursor
  <2> QED BY <2>2, <2>3, <2>4, KeyTells
<1>4. CASE Enter
  <2> DEFINE r == enterKey(ed)
  <2>1. Whole(r) /\ Parted(ed, r)
    BY <1>1, enterKeyKeeps
  <2>2. Key(r)
    BY <1>4 DEF Enter
  <2> HIDE DEF r
  <2>3. Before(r) = Before(ed) /\ Behind(r) = Behind(ed)
    BY <1>1, <2>1, PartedSides
  <2>4. AtCursor(ed, Before(r) \o Behind(r), disk')
    BY <2>3 DEF AtCursor
  <2> QED BY <2>1, <2>2, <2>4, KeyTells
<1>5. CASE Backspace
  <2> DEFINE r == backspaceKey(ed)
  <2>1. Whole(r) /\ Erased(Before(ed), Behind(ed), Before(r) \o Behind(r))
    BY <1>1, backspaceKeyKeeps
  <2>2. Key(r)
    BY <1>5 DEF Backspace
  <2> HIDE DEF r
  <2> QED BY <2>1, <2>2, ErasedAtCursor, KeyTells
<1>6. CASE Delete
  <2> DEFINE r == deleteKey(ed)
  <2>1. Whole(r) /\ Erased(Before(ed), Behind(ed), Before(r) \o Behind(r))
    BY <1>1, deleteKeyKeeps
  <2>2. Key(r)
    BY <1>6 DEF Delete
  <2> HIDE DEF r
  <2> QED BY <2>1, <2>2, ErasedAtCursor, KeyTells
<1>7. CASE Kill
  <2> DEFINE r == killLine(ed)
  <2>1. /\ Whole(r) /\ (Len(ed.lines) = 1 => r = ed)
        /\ (Len(ed.lines) # 1 => FlattenSeq(Spoken(r)) = Above(ed) \o Below(ed))
    BY <1>1, killLineKeeps
  <2>2. Key(r)
    BY <1>7 DEF Kill
  <2> HIDE DEF r
  <2>3. Before(r) \o Behind(r) = FlattenSeq(Spoken(r))
    BY <2>1, Around
  <2>4. AtCursor(ed, Before(r) \o Behind(r), disk')
    BY <2>1, <2>3 DEF AtCursor
  <2> QED BY <2>1, <2>2, <2>4, KeyTells
<1> QED BY <1>2, <1>3, <1>4, <1>5, <1>6, <1>7

(* Keys that move the cursor or fold.                                      *)
LEMMA MovingTells ==
  ASSUME IInv, Clear(ed),
         \/ Fold \/ Breakpoint \/ Resize
         \/ Up \/ Down \/ Left \/ Right \/ PageUp \/ PageDown \/ Top \/ Bottom \/ Home \/ End
  PROVE  Told
<1>1. Whole(ed) /\ ed.cur \in 1 .. Len(ed.lines)
  BY DEF IInv, Whole, At
<1>2. ASSUME NEW e, Whole(e), Quiet(ed, e), Key(e) PROVE Told
  <2>1. AtCursor(ed, Before(e) \o Behind(e), disk')
    BY <1>1, <1>2, SpeaksAtCursor DEF Quiet
  <2> QED BY <1>2, <2>1, KeyTells
<1>3. CASE Fold
  BY <1>1, <1>2, <1>3, foldKeeps DEF Fold
<1>4. CASE Breakpoint
  BY <1>1, <1>2, <1>4, toggleBreakPointKeeps DEF Breakpoint
<1>5. CASE Resize
  <2> DEFINE r == InvalidateAll(ed)
  <2>1. Whole(r) /\ Quiet(ed, r)
    BY <1>1, InvalidateAllKeeps, AlikeIs
  <2>2. Shows(r, NoRows)
    BY <1>5 DEF Resize
  <2> HIDE DEF r
  <2>3. AtCursor(ed, Before(r) \o Behind(r), disk')
    BY <1>1, <2>1, SpeaksAtCursor DEF Quiet
  <2>4. Before(ed') \o Behind(ed') = Before(r) \o Behind(r)
    BY <2>1, <2>2, ShownText
  <2> QED BY <2>3, <2>4 DEF Told
<1>6. CASE Up
  BY <1>1, <1>2, <1>6, cursorUpKeeps DEF Up
<1>7. CASE Down
  BY <1>1, <1>2, <1>7, cursorDownKeeps DEF Down
<1>8. CASE Left \/ Right \/ Home \/ End
  BY <1>1, <1>2, <1>8, InLineKeeps DEF Left, Right, Home, End
<1>9. CASE PageUp
  BY <1>1, <1>2, <1>9, pageUpKeeps DEF PageUp
<1>10. CASE PageDown
  BY <1>1, <1>2, <1>10, pageDownKeeps DEF PageDown
<1>11. CASE Top
  BY <1>1, <1>2, <1>11, gotoBOFKeeps DEF Top
<1>12. CASE Bottom
  BY <1>1, <1>2, <1>12, gotoEOFKeeps DEF Bottom
<1> QED BY <1>3, <1>4, <1>5, <1>6, <1>7, <1>8, <1>9, <1>10, <1>11, <1>12

(* What is done with the file.                                             *)
LEMMA ReadTells ==
  ASSUME NEW e, Whole(e), ~e.editing, NEW rows, Texts(e.lines) = SolidRows(rows), File(e, rows)
  PROVE  Told
<1>1. Before(e) \o Behind(e) = SolidRows(rows) /\ disk' = rows
  BY Around, SpokenSettled DEF File
<1>2. AtCursor(ed, Before(e) \o Behind(e), disk')
  BY <1>1 DEF AtCursor
<1> QED BY <1>2, FileTells

LEMMA FilingTells ==
  ASSUME IInv, Clear(ed), Save \/ Compile \/ New \/ Open \/ Exit
  PROVE  Told
<1>1. Whole(ed)
  BY DEF IInv
<1>2. ASSUME NEW saves \in BOOLEAN
      PROVE  /\ Whole(Given(saves)) /\ ~Given(saves).editing /\ Given(saves) \in EdT
             /\ Len(Given(saves).lines) = Len(ed.lines)
             /\ Speaks(ed, Given(saves)) /\ OnDisk(FileOf(saves), Given(saves))
  BY GivenKeeps DEF Whole, Listed
<1>3. ASSUME NEW e, Whole(e), Speaks(ed, e), NEW rows, File(e, rows) PROVE Told
  BY <1>1, <1>3, SpeaksAtCursor, FileTells
<1>4. CASE Save
  <2>1. PICK written \in BOOLEAN :
          File(IF written THEN Saved(Committed(ed)) ELSE Committed(ed), FileOf(written))
    BY <1>4 DEF Save
  <2>2. File(Given(written), FileOf(written))
    BY <2>1 DEF Given
  <2> QED BY <1>2, <1>3, <2>2
<1>5. CASE Compile
  <2>1. CASE File(Committed(ed), disk)
    <3>1. File(Given(FALSE), disk)
      BY <2>1 DEF Given
    <3> QED BY <1>2, <1>3, <3>1
  <2>2. CASE \E e \in {Saved(Committed(ed))}, line \in 0..Len(ed.lines) :
               File(IF line = 0 THEN e ELSE gotoLine(e, line, 0), FileOf(TRUE))
    <3> DEFINE e == Given(TRUE)
    <3>1. e = Saved(Committed(ed))
      BY DEF Given
    <3>2. Whole(e) /\ Len(e.lines) = Len(ed.lines) /\ Speaks(ed, e)
      BY <1>2
    <3> HIDE DEF e
    <3>3. PICK line \in 0 .. Len(ed.lines) : File(IF line = 0 THEN e ELSE gotoLine(e, line, 0), FileOf(TRUE))
      BY <2>2, <3>1
    <3>4. CASE line = 0
      <4>1. File(e, FileOf(TRUE))
        BY <3>3, <3>4
      <4> QED BY <1>3, <3>2, <4>1
    <3>5. CASE line # 0
      <4> DEFINE r == gotoLine(e, line, 0)
      <4>1. File(r, FileOf(TRUE))
        BY <3>3, <3>5
      <4>2. line \in 1 .. Len(e.lines) /\ 0 \in Nat
        BY <3>2, <3>5
      <4>3. Whole(r) /\ Quiet(e, r)
        BY <3>2, <4>2, gotoLineKeeps
      <4> HIDE DEF r
      <4>4. Speaks(ed, r)
        BY <3>2, <4>3 DEF Quiet, Speaks
      <4> QED BY <1>3, <4>1, <4>3, <4>4
    <3> QED BY <3>4, <3>5
  <2> QED BY <1>5, <2>1, <2>2 DEF Compile
<1>6. CASE New
  <2>1. PICK saves \in BOOLEAN : File(doNew(Given(saves)), <<>>)
    BY <1>6 DEF New
  <2> DEFINE r == doNew(Given(saves))
  <2>2. Whole(r) /\ ~r.editing /\ Texts(r.lines) = <<>>
    BY <1>2, doNewReads
  <2>3. SolidRows(<<>>) = <<>>
    BY DEF SolidRows, FlattenSeq
  <2> HIDE DEF r
  <2> QED BY <2>1, <2>2, <2>3, ReadTells DEF r
<1>7. CASE Open
  <2>1. PICK saves \in BOOLEAN :
          \/ File(Given(saves), FileOf(saves))
          \/ \E rows \in Files \cup {FileOf(saves)} : rows # <<>> /\ File(loadSource(Given(saves), rows), rows)
    BY <1>7 DEF Open
  <2>2. CASE File(Given(saves), FileOf(saves))
    BY <1>2, <1>3, <2>2
  <2>3. CASE \E rows \in Files \cup {FileOf(saves)} : rows # <<>> /\ File(loadSource(Given(saves), rows), rows)
    <3>1. PICK rows \in Files \cup {FileOf(saves)} : rows # <<>> /\ File(loadSource(Given(saves), rows), rows)
      BY <2>3
    <3>2. rows \in Seq(Plain)
      BY <1>2, <3>1, FilesType DEF OnDisk
    <3> DEFINE r == loadSource(Given(saves), rows)
    <3>3. Whole(r) /\ ~r.editing /\ Texts(r.lines) = SolidRows(rows)
      BY <1>2, <3>1, <3>2, loadSourceReads
    <3> HIDE DEF r
    <3> QED BY <3>1, <3>3, ReadTells DEF r
  <2> QED BY <2>1, <2>2, <2>3
<1>8. CASE Exit
  <2>1. PICK saves \in BOOLEAN : ed' = IF saves THEN Given(saves) ELSE ed
    BY <1>8 DEF Exit
  <2>2. Whole(ed') /\ Speaks(ed, ed')
    BY <1>1, <1>2, <2>1 DEF Speaks
  <2> QED BY <1>1, <2>2, SpeaksAtCursor DEF Told
<1> QED BY <1>4, <1>5, <1>6, <1>7, <1>8

(* A key changes the words of the text at the cursor and nowhere else: it  *)
(* types or pastes them there, erases one before or behind it or those of  *)
(* the cursor's line, or the text is the one read from the file, whatever  *)
(* is committed, folded, parted, joined or shown on the way (enterKey,     *)
(* backspaceKey, deleteKey, killLine, insertChar, _edit_paste, commitBuf). *)
THEOREM TextChangesAtCursorHolds == Spec => TextChangesAtCursor
<1>1. ASSUME IInv, [Next]_vars, ~UNCHANGED vars, ed.col <= RowLength(ed), Nul \notin Range(RowText(ed, ed.cur))
      PROVE  Told
  <2>1. Whole(ed)
    BY <1>1 DEF IInv
  <2>2. Clear(ed)
    <3>1. ASSUME ed.editing PROVE ed.buf \in Plain
      <4>1. ed.buf \in Text
        BY <2>1, ListedFields, EdFields DEF Whole
      <4>2. RowText(ed, ed.cur) = ed.buf
        BY <3>1 DEF RowText
      <4>3. \A k \in 1 .. Len(ed.buf) : ed.buf[k] # Nul
        BY <1>1, <4>1, <4>2 DEF Range, Text
      <4> QED BY <4>1, <4>3 DEF Text, Plain
    <3> QED BY <3>1 DEF Clear
  <2>3. Next
    BY <1>1
  <2> QED BY <1>1, <2>2, <2>3, WritingTells, MovingTells, FilingTells DEF Next
<1>2. IInv /\ [Next]_vars => [ed.col <= RowLength(ed) /\ Nul \notin Range(RowText(ed, ed.cur)) => Told]_vars
  BY <1>1
<1>3. IInv /\ [Next]_vars =>
        [ed.col <= RowLength(ed) /\ Nul \notin Range(RowText(ed, ed.cur)) =>
         LET left == Before(ed)
             right == Behind(ed)
             text == Before(ed') \o Behind(ed') IN
         \/ text \in {left \o right, Above(ed) \o Below(ed), SolidRows(disk')}
         \/ \E c \in Alphabet : text = left \o Solid(<<c>>) \o right
         \/ \E clip \in Clipboards : text = left \o Solid(Spaced(clip)) \o right
         \/ left # <<>> /\ text = Front(left) \o right
         \/ right # <<>> /\ text = left \o Tail(right)]_vars
  BY <1>2 DEF Told, AtCursor
<1> QED BY <1>3, Inductive, PTL DEF Spec, TextChangesAtCursor
=============================================================================
