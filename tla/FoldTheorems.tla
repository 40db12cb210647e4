---------------------------- MODULE FoldTheorems ----------------------------
(***************************************************************************)
(* Induction for the loops of the code.  The models write a loop over data *)
(* as a fold; the lemmas here say what a fold returns, with a set in the   *)
(* place of the induction hypothesis and a function in that of the loop's  *)
(* body, so that they can be cited.                                        *)
(***************************************************************************)
EXTENDS Integers, Sequences, SequencesExt, SequenceTheorems, WellFoundedInduction, TLAPS

(* A set of numbers has a least element.                                   *)
LEMMA Least ==
  ASSUME NEW T, T \subseteq Nat, T # {}
  PROVE  \E x \in T : \A y \in T : x <= y
<1>1. IsWellFoundedOn(OpToRel(<, Nat), Nat)
  BY NatLessThanWellFounded
<1>2. PICK x \in T : \A y \in T : ~ (<<y, x>> \in OpToRel(<, Nat))
  BY <1>1, WFMin
<1>3. \A y \in T : ~ (y < x)
  BY <1>2 DEF OpToRel
<1> QED BY <1>3

(* What holds at first and is passed on holds to the end.                  *)
LEMMA Induction ==
  ASSUME NEW n \in Nat, NEW T, 0 \in T, \A k \in 0 .. n - 1 : k \in T => k + 1 \in T
  PROVE  0 .. n \subseteq T
<1> DEFINE U == (0 .. n) \ T
<1>1. SUFFICES ASSUME U # {} PROVE FALSE
  OBVIOUS
<1>2. U \subseteq Nat
  OBVIOUS
<1>3. \E x \in U : \A y \in U : x <= y
  <2> HIDE DEF U
  <2> QED BY <1>1, <1>2, Least
<1>4. PICK x \in U : \A y \in U : x <= y
  BY <1>3
<1>5. x # 0 /\ x \in 1 .. n /\ x \notin T
  OBVIOUS
<1>6. x - 1 \in 0 .. n - 1 /\ x - 1 \in T
  BY <1>4, <1>5
<1> QED BY <1>6, <1>5

(* A bounded set of numbers has a greatest element.                        *)
LEMMA Greatest ==
  ASSUME NEW n \in Nat, NEW T, T \subseteq 0 .. n, T # {}
  PROVE  Max(T) \in T /\ \A y \in T : y <= Max(T)
<1> DEFINE U == {n - y : y \in T}
<1>1. \E x \in U : \A y \in U : x <= y
  <2>1. \A y \in T : n - y \in Nat
    OBVIOUS
  <2>2. U \subseteq Nat /\ U # {}
    BY <2>1
  <2> HIDE DEF U
  <2> QED BY <2>2, Least
<1>2. PICK z \in T : \A y \in T : n - z <= n - y
  BY <1>1
<1>3. \A y \in T : z >= y
  BY <1>2
<1>4. \E x \in T : \A y \in T : x >= y
  BY <1>3
<1> HIDE DEF U
<1>5. Max(T) \in T /\ \A y \in T : Max(T) >= y
  BY <1>4 DEF Max
<1> QED BY <1>5

-----------------------------------------------------------------------------
(* A fold from the left with the body G, element after element: the        *)
(* function of the Folds module exists and stays in V.                     *)
FoldFcn(it, n, b, G) ==
  it = [s \in SUBSET (1 .. n) |-> IF s = {} THEN b ELSE G[Max(s)][it[s \ {Max(s)}]]]

LEMMA FoldExists ==
  ASSUME NEW n \in Nat, NEW V, NEW b \in V, NEW G \in [1 .. n -> [V -> V]]
  PROVE  \E it \in [SUBSET (1 .. n) -> V] : FoldFcn(it, n, b, G)
<1> DEFINE Good(m, f) ==
             /\ f \in [SUBSET (1 .. m) -> V] /\ f[{}] = b
             /\ \A s \in SUBSET (1 .. m) : s # {} => f[s] = G[Max(s)][f[s \ {Max(s)}]]
           T == {m \in 0 .. n : \E f : Good(m, f)}
<1>1. 0 \in T
  <2>1. SUBSET (1 .. 0) = {{}}
    OBVIOUS
  <2>2. Good(0, [s \in SUBSET (1 .. 0) |-> b])
    BY <2>1
  <2> HIDE DEF Good
  <2> QED BY <2>2
<1>2. \A m \in 0 .. n - 1 : m \in T => m + 1 \in T
  <2> TAKE m \in 0 .. n - 1
  <2> HAVE m \in T
  <2>1. PICK f : Good(m, f)
    OBVIOUS
  <2> DEFINE g == [s \in SUBSET (1 .. m + 1) |->
                     IF m + 1 \notin s THEN f[s] ELSE G[m + 1][f[s \ {m + 1}]]]
  <2>2. \A s \in SUBSET (1 .. m + 1) : m + 1 \notin s => s \in SUBSET (1 .. m)
    OBVIOUS
  <2>3. \A s \in SUBSET (1 .. m + 1) : s \ {m + 1} \in SUBSET (1 .. m)
    OBVIOUS
  <2>4. g \in [SUBSET (1 .. m + 1) -> V]
    <3>1. m + 1 \in 1 .. n
      OBVIOUS
    <3>2. ASSUME NEW s \in SUBSET (1 .. m + 1) PROVE g[s] \in V
      <4>1. CASE m + 1 \notin s
        BY <4>1, <2>1, <2>2
      <4>2. CASE m + 1 \in s
        <5>1. f[s \ {m + 1}] \in V
          BY <2>1, <2>3
        <5> QED BY <5>1, <4>2, <3>1
      <4> QED BY <4>1, <4>2
    <3> QED BY <3>2
  <2>5. g[{}] = b
    BY <2>1
  <2>6. ASSUME NEW s \in SUBSET (1 .. m + 1), s # {}
        PROVE  g[s] = G[Max(s)][g[s \ {Max(s)}]]
    <3>1. s \subseteq 0 .. m + 1 /\ m + 1 \in Nat
      OBVIOUS
    <3>2. Max(s) \in s /\ \A y \in s : y <= Max(s)
      BY ONLY <3>1, <2>6, Greatest
    <3>3. CASE m + 1 \notin s
      <4>1. s \in SUBSET (1 .. m) /\ s \ {Max(s)} \in SUBSET (1 .. m)
        BY <2>2, <3>3
      <4>2. g[s] = f[s] /\ g[s \ {Max(s)}] = f[s \ {Max(s)}]
        BY <3>3
      <4> QED BY <4>1, <4>2, <2>1, <2>6
    <3>4. CASE m + 1 \in s
      <4> DEFINE x == Max(s)
      <4>0. x \in 1 .. m + 1 /\ m + 1 <= x
        BY <3>4, <3>2
      <4>1. x = m + 1
        <5> HIDE DEF x
        <5> QED BY <4>0
      <4>2. g[s \ {m + 1}] = f[s \ {m + 1}]
        OBVIOUS
      <4> QED BY <4>1, <4>2, <3>4
    <3> QED BY <3>3, <3>4
  <2>7. Good(m + 1, g)
    <3> HIDE DEF g
    <3> QED BY <2>4, <2>5, <2>6
  <2> HIDE DEF Good
  <2> QED BY <2>7
<1>3. n \in T
  <2> HIDE DEF T
  <2>1. 0 .. n \subseteq T
    BY <1>1, <1>2, Induction
  <2> QED BY <2>1
<1>4. PICK f : Good(n, f)
  BY <1>3
<1>5. \A s \in SUBSET (1 .. n) : f[s] = IF s = {} THEN b ELSE G[Max(s)][f[s \ {Max(s)}]]
  BY <1>4
<1>6. f = [s \in SUBSET (1 .. n) |-> f[s]]
  BY <1>4
<1> QED BY <1>4, <1>5, <1>6 DEF FoldFcn

(* Any function that goes on as that one does, as long as it is in V, stays*)
(* in V: it goes through the elements one by one.                          *)
GoesOn(it, n, V, b, G) ==
  /\ it[{}] = b
  /\ \A s \in SUBSET (1 .. n) :
       s # {} /\ it[s \ {Max(s)}] \in V => it[s] = G[Max(s)][it[s \ {Max(s)}]]

Walks(h, n, V, b, G, r) ==
  /\ h \in [0 .. n -> V] /\ h[0] = b /\ h[n] = r
  /\ \A k \in 1 .. n : h[k] = G[k][h[k - 1]]

LEMMA FoldSteps ==
  ASSUME NEW n \in Nat, NEW V, NEW b \in V, NEW G \in [1 .. n -> [V -> V]], NEW it, GoesOn(it, n, V, b, G)
  PROVE  \E h : Walks(h, n, V, b, G, it[1 .. n])
<1> DEFINE T == {m \in 0 .. n : it[1 .. m] \in V}
<1>1. ASSUME NEW k \in 1 .. n
      PROVE  1 .. k \in SUBSET (1 .. n) /\ 1 .. k # {} /\ Max(1 .. k) = k /\ (1 .. k) \ {k} = 1 .. k - 1
  <2>0. k \in 1 .. k /\ \A j \in 1 .. k : j \in 0 .. n
    OBVIOUS
  <2>1. 1 .. k \subseteq 0 .. n /\ 1 .. k # {}
    <3>1. 1 .. k \subseteq 0 .. n
      BY <2>0
    <3> QED BY <2>0, <3>1
  <2> DEFINE x == Max(1 .. k)
  <2>2. x \in 1 .. k /\ \A y \in 1 .. k : y <= x
    BY ONLY n \in Nat, <2>1, Greatest
  <2>3. x = k
    <3> HIDE DEF x
    <3> QED BY <2>2
  <2> QED BY <2>1, <2>3
<1>2. ASSUME NEW k \in 1 .. n, it[1 .. k - 1] \in V
      PROVE  it[1 .. k] = G[k][it[1 .. k - 1]]
  BY <1>1, <1>2 DEF GoesOn
<1>3. 1 .. 0 = {}
  OBVIOUS
<1>4. 0 \in T
  BY <1>3 DEF GoesOn
<1>5. \A m \in 0 .. n - 1 : m \in T => m + 1 \in T
  <2> TAKE m \in 0 .. n - 1
  <2> HAVE m \in T
  <2>1. m + 1 \in 1 .. n /\ (m + 1) - 1 = m
    OBVIOUS
  <2>2. it[1 .. m + 1] = G[m + 1][it[1 .. m]]
    BY <2>1, <1>2
  <2> QED BY <2>1, <2>2
<1>6. 0 .. n \subseteq T
  <2> HIDE DEF T
  <2> QED BY <1>4, <1>5, Induction
<1> DEFINE h == [k \in 0 .. n |-> it[1 .. k]]
<1>7. h \in [0 .. n -> V]
  BY <1>6
<1>8. h[0] = b /\ h[n] = it[1 .. n]
  BY <1>3 DEF GoesOn
<1>9. \A k \in 1 .. n : h[k] = G[k][h[k - 1]]
  <2> TAKE k \in 1 .. n
  <2>1. k - 1 \in 0 .. n /\ k \in 0 .. n
    OBVIOUS
  <2> QED BY <2>1, <1>6, <1>2
<1> HIDE DEF h
<1> QED BY <1>7, <1>8, <1>9 DEF Walks

(* What the body keeps holds at the end.                                   *)
LEMMA FoldStays ==
  ASSUME NEW n \in Nat, NEW V, NEW b \in V, NEW G \in [1 .. n -> [V -> V]], NEW it, GoesOn(it, n, V, b, G)
  PROVE  it[1 .. n] \in V
<1>1. PICK h : Walks(h, n, V, b, G, it[1 .. n])
  BY FoldSteps
<1> QED BY <1>1 DEF Walks

LEMMA MaxIn ==
  ASSUME NEW n \in Nat, NEW s \in SUBSET (1 .. n), s # {}
  PROVE  Max(s) \in s /\ Max(s) \in 1 .. n /\ s \ {Max(s)} \in SUBSET (1 .. n)
<1>1. \A x \in s : x \in 0 .. n
  OBVIOUS
<1>2. Max(s) \in s
  BY ONLY <1>1, n \in Nat, s # {}, Greatest
<1> QED BY <1>2

(* There is such a way through the elements.                               *)
LEMMA MaxTop ==
  ASSUME NEW n \in Nat, NEW s \in SUBSET (1 .. n), n \in s
  PROVE  Max(s) = n
<1>1. Max(s) \in s /\ \A y \in s : y <= Max(s)
  <2>1. s \subseteq 0 .. n /\ s # {}
    OBVIOUS
  <2> QED BY ONLY <2>1, n \in Nat, Greatest
<1>2. Max(s) \in 1 .. n
  BY <1>1
<1>3. n <= Max(s)
  BY <1>1
<1> QED BY ONLY <1>2, <1>3, n \in Nat

LEMMA WalkExists ==
  ASSUME NEW n \in Nat, NEW V, NEW b \in V, NEW G \in [1 .. n -> [V -> V]]
  PROVE  \E h : Walks(h, n, V, b, G, h[n])
<1> DEFINE T == {m \in 0 .. n : \E h : Walks(h, m, V, b, G, h[m])}
<1>1. 0 \in T
  <2>1. Walks([k \in 0 .. 0 |-> b], 0, V, b, G, [k \in 0 .. 0 |-> b][0])
    BY DEF Walks
  <2> QED BY <2>1
<1>2. \A m \in 0 .. n - 1 : m \in T => m + 1 \in T
  <2> TAKE m \in 0 .. n - 1
  <2> HAVE m \in T
  <2>1. PICK f : Walks(f, m, V, b, G, f[m])
    OBVIOUS
  <2> DEFINE g == [k \in 0 .. m + 1 |-> IF k <= m THEN f[k] ELSE G[m + 1][f[m]]]
  <2>2. G[m + 1][f[m]] \in V
    <3>1. f[m] \in V /\ m + 1 \in 1 .. n
      BY <2>1 DEF Walks
    <3> QED BY <3>1
  <2>3. g \in [0 .. m + 1 -> V]
    BY <2>1, <2>2 DEF Walks
  <2>4. g[0] = b
    BY <2>1 DEF Walks
  <2>5. \A k \in 1 .. m + 1 : g[k] = G[k][g[k - 1]]
    <3> TAKE k \in 1 .. m + 1
    <3>1. CASE k <= m
      BY <3>1, <2>1 DEF Walks
    <3>2. CASE k = m + 1
      BY <3>2
    <3> QED BY <3>1, <3>2
  <2> HIDE DEF g
  <2>6. Walks(g, m + 1, V, b, G, g[m + 1])
    BY <2>3, <2>4, <2>5 DEF Walks
  <2> QED BY <2>6
<1>3. 0 .. n \subseteq T
  <2> HIDE DEF T
  <2> QED BY <1>1, <1>2, Induction
<1> QED BY <1>3

(* FlattenSeq appends the sequences one by one.                            *)
LEMMA FlattenSeqSteps ==
  ASSUME NEW S, NEW ss \in Seq(Seq(S))
  PROVE  \E h : /\ h \in [0 .. Len(ss) -> Seq(S)] /\ h[0] = <<>> /\ h[Len(ss)] = FlattenSeq(ss)
                /\ \A k \in 1 .. Len(ss) : h[k] = h[k - 1] \o ss[k]
<1> DEFINE n == Len(ss)
           V == Seq(S)
           G == [k \in 1 .. n |-> [v \in V |-> v \o ss[k]]]
           Eq(f) == f = [i \in 1 .. n |-> IF i = 1 THEN ss[i] ELSE f[i - 1] \o ss[i]]
<1>1. n \in Nat /\ <<>> \in V
  OBVIOUS
<1>2. \A k \in 1 .. n : ss[k] \in V
  OBVIOUS
<1>3. G \in [1 .. n -> [V -> V]]
  BY <1>2
<1>4. PICK h : Walks(h, n, V, <<>>, G, h[n])
  <2> HIDE DEF n, V, G
  <2> QED BY <1>1, <1>3, WalkExists
<1>5. \A k \in 1 .. n : h[k] = h[k - 1] \o ss[k]
  <2> TAKE k \in 1 .. n
  <2>1. k - 1 \in 0 .. n /\ h[k - 1] \in V
    <3> HIDE DEF n, V
    <3> QED BY <1>1, <1>4 DEF Walks
  <2> QED BY <2>1, <1>4 DEF Walks
<1>6. h \in [0 .. n -> V] /\ h[0] = <<>>
  BY <1>4 DEF Walks
<1>7. CASE n = 0
  <2>1. FlattenSeq(ss) = <<>>
    BY <1>7 DEF FlattenSeq
  <2> QED BY <2>1, <1>5, <1>6, <1>7
<1>8. CASE n # 0
  <2> DEFINE g == [i \in 1 .. n |-> h[i]]
  <2>1. \A i \in 1 .. n : g[i] = IF i = 1 THEN ss[i] ELSE g[i - 1] \o ss[i]
    <3> TAKE i \in 1 .. n
    <3>1. CASE i = 1
      <4>1. h[1] = <<>> \o ss[1]
        <5>1. 1 \in 1 .. n /\ 1 - 1 = 0
          BY <3>1
        <5>2. h[1] = h[1 - 1] \o ss[1]
          BY <5>1, <1>5
        <5> QED BY <5>1, <5>2, <1>6
      <4> QED BY <4>1, <3>1, <1>2, ConcatEmptySeq
    <3>2. CASE i # 1
      <4>1. i - 1 \in 1 .. n
        BY <3>2
      <4>2. g[i] = h[i] /\ g[i - 1] = h[i - 1]
        BY <4>1
      <4> HIDE DEF g
      <4> QED BY <4>2, <3>2, <1>5
    <3> QED BY <3>1, <3>2
  <2>2. \E f : Eq(f)
    <3>1. Eq(g)
      BY <2>1
    <3> HIDE DEF Eq
    <3> QED BY <3>1
  <2> DEFINE f == CHOOSE f : Eq(f)
  <2>3. Eq(f)
    BY <2>2
  <2>4. FlattenSeq(ss) = f[n]
    BY <1>8 DEF FlattenSeq
  <2>5. \A i \in 1 .. n : f[i] = IF i = 1 THEN ss[i] ELSE f[i - 1] \o ss[i]
    <3> HIDE DEF f
    <3> QED BY <2>3
  <2> HIDE DEF f
  <2> DEFINE T == {m \in 0 .. n : m = 0 \/ f[m] = g[m]}
  <2>6. 0 .. n \subseteq T
    <3>1. 0 \in T
      OBVIOUS
    <3>2. \A m \in 0 .. n - 1 : m \in T => m + 1 \in T
      <4> TAKE m \in 0 .. n - 1
      <4> HAVE m \in T
      <4>1. m + 1 \in 1 .. n /\ (m + 1) - 1 = m
        OBVIOUS
      <4>2. f[m + 1] = IF m + 1 = 1 THEN ss[m + 1] ELSE f[m] \o ss[m + 1]
        BY <4>1, <2>5
      <4>3. g[m + 1] = IF m + 1 = 1 THEN ss[m + 1] ELSE g[m] \o ss[m + 1]
        <5> HIDE DEF g
        <5> QED BY <4>1, <2>1
      <4> HIDE DEF g
      <4> QED BY <4>1, <4>2, <4>3
    <3> HIDE DEF T
    <3> QED BY <1>1, <3>1, <3>2, Induction
  <2>7. f[n] = h[n]
    <3>1. n \in 0 .. n /\ n \in 1 .. n
      <4> HIDE DEF n
      <4> QED BY <1>1, <1>8
    <3>2. n \in T
      BY <3>1, <2>6
    <3> QED BY <3>1, <3>2, <1>8
  <2> QED BY <2>4, <2>7, <1>5, <1>6
<1> QED BY <1>7, <1>8

LEMMA FlattenSeqType ==
  ASSUME NEW S, NEW ss \in Seq(Seq(S))
  PROVE  FlattenSeq(ss) \in Seq(S)
<1>1. PICK h : h \in [0 .. Len(ss) -> Seq(S)] /\ h[Len(ss)] = FlattenSeq(ss)
  BY FlattenSeqSteps
<1>2. Len(ss) \in 0 .. Len(ss)
  OBVIOUS
<1> QED BY <1>1, <1>2

LEMMA FlattenSeqConcat ==
  ASSUME NEW S, NEW a \in Seq(Seq(S)), NEW b \in Seq(Seq(S))
  PROVE  FlattenSeq(a \o b) = FlattenSeq(a) \o FlattenSeq(b)
<1> DEFINE m == Len(a)
           n == Len(b)
<1>1. m \in Nat /\ n \in Nat
  OBVIOUS
<1>2. /\ a \o b \in Seq(Seq(S)) /\ Len(a \o b) = m + n
      /\ \A i \in 1 .. m + n : (a \o b)[i] = IF i <= m THEN a[i] ELSE b[i - m]
  BY ConcatProperties
<1>3. PICK h : /\ h \in [0 .. m + n -> Seq(S)] /\ h[0] = <<>> /\ h[m + n] = FlattenSeq(a \o b)
               /\ \A k \in 1 .. m + n : h[k] = h[k - 1] \o (a \o b)[k]
  <2>1. \E h : /\ h \in [0 .. Len(a \o b) -> Seq(S)] /\ h[0] = <<>> /\ h[Len(a \o b)] = FlattenSeq(a \o b)
               /\ \A k \in 1 .. Len(a \o b) : h[k] = h[k - 1] \o (a \o b)[k]
    BY <1>2, FlattenSeqSteps
  <2> QED BY <2>1, <1>2
<1>4. PICK f : /\ f \in [0 .. m -> Seq(S)] /\ f[0] = <<>> /\ f[m] = FlattenSeq(a)
               /\ \A k \in 1 .. m : f[k] = f[k - 1] \o a[k]
  BY FlattenSeqSteps
<1>5. PICK g : /\ g \in [0 .. n -> Seq(S)] /\ g[0] = <<>> /\ g[n] = FlattenSeq(b)
               /\ \A k \in 1 .. n : g[k] = g[k - 1] \o b[k]
  BY FlattenSeqSteps
<1>b. \A k \in 1 .. n : b[k] \in Seq(S)
  OBVIOUS
<1> DEFINE T == {k \in 0 .. m : h[k] = f[k]}
           U == {k \in 0 .. n : h[m + k] = f[m] \o g[k]}
<1> HIDE DEF m, n
<1>6. m \in T
  <2>1. 0 \in T
    BY <1>1, <1>3, <1>4
  <2>2. \A k \in 0 .. m - 1 : k \in T => k + 1 \in T
    <3> TAKE k \in 0 .. m - 1
    <3> HAVE k \in T
    <3>1. k + 1 \in 1 .. m /\ k + 1 \in 1 .. m + n /\ (k + 1) - 1 = k /\ k + 1 <= m /\ k + 1 \in 0 .. m
      BY <1>1
    <3>2. h[k + 1] = h[k] \o a[k + 1] /\ f[k + 1] = f[k] \o a[k + 1]
      BY <3>1, <1>2, <1>3, <1>4
    <3>3. h[k] = f[k]
      OBVIOUS
    <3>4. h[k + 1] = f[k + 1]
      BY ONLY <3>2, <3>3
    <3> QED BY ONLY <3>1, <3>4 DEF T
  <2>3. 0 .. m \subseteq T
    <3> HIDE DEF T
    <3> QED BY <1>1, <2>1, <2>2, Induction
  <2> QED BY <1>1, <2>3
<1>7. n \in U
  <2>1. 0 \in U
    <3>1. f[m] \in Seq(S) /\ h[m] = f[m] /\ m + 0 = m /\ 0 \in 0 .. n
      BY <1>1, <1>4, <1>6
    <3>2. f[m] \o <<>> = f[m]
      BY <3>1, ConcatEmptySeq
    <3> QED BY <3>1, <3>2, <1>5
  <2>2. \A k \in 0 .. n - 1 : k \in U => k + 1 \in U
    <3> TAKE k \in 0 .. n - 1
    <3> HAVE k \in U
    <3>1. /\ k + 1 \in 1 .. n /\ m + (k + 1) \in 1 .. m + n /\ (m + (k + 1)) - 1 = m + k
          /\ ~(m + (k + 1) <= m) /\ (m + (k + 1)) - m = k + 1 /\ (k + 1) - 1 = k /\ k \in 0 .. n /\ m \in 0 .. m
          /\ k + 1 \in 0 .. n
      BY <1>1
    <3>2. h[m + (k + 1)] = h[m + k] \o b[k + 1] /\ g[k + 1] = g[k] \o b[k + 1]
      BY <3>1, <1>2, <1>3, <1>5
    <3>3. f[m] \in Seq(S) /\ g[k] \in Seq(S) /\ b[k + 1] \in Seq(S)
      BY <3>1, <1>b, <1>4, <1>5
    <3>4. \A x, y, z \in Seq(S) : (x \o y) \o z = x \o (y \o z)
      BY ONLY SMTT(30), ConcatAssociative
    <3>5. (f[m] \o g[k]) \o b[k + 1] = f[m] \o (g[k] \o b[k + 1])
      BY ONLY <3>3, <3>4
    <3>6. h[m + k] = f[m] \o g[k]
      OBVIOUS
    <3>7. h[m + (k + 1)] = f[m] \o g[k + 1]
      BY ONLY <3>2, <3>5, <3>6
    <3> QED BY ONLY <3>1, <3>7 DEF U
  <2>3. 0 .. n \subseteq U
    <3> HIDE DEF U
    <3> QED BY <1>1, <2>1, <2>2, Induction
  <2>4. n \in 0 .. n
    BY <1>1
  <2> QED BY ONLY <2>3, <2>4
<1>8. h[m + n] = f[m] \o g[n]
  BY <1>7
<1> QED BY ONLY <1>3, <1>4, <1>5, <1>8

-----------------------------------------------------------------------------
(* Sequences with an element taken out or put in.                          *)
LEMMA RemovedIs ==
  ASSUME NEW S, NEW s \in Seq(S), NEW n \in 1 .. Len(s)
  PROVE  /\ RemoveAt(s, n) \in Seq(S) /\ Len(RemoveAt(s, n)) = Len(s) - 1
         /\ \A k \in 1 .. n - 1 : RemoveAt(s, n)[k] = s[k]
         /\ \A k \in n .. Len(s) - 1 : RemoveAt(s, n)[k] = s[k + 1]
<1> DEFINE a == SubSeq(s, 1, n - 1)
           b == SubSeq(s, n + 1, Len(s))
<1>1. Len(s) \in Nat /\ \A k \in 1 .. Len(s) : s[k] \in S
  OBVIOUS
<1>2. a \in Seq(S) /\ Len(a) = n - 1 /\ \A i \in 1 .. n - 1 : a[i] = s[i]
  <2>1. \A i \in 1 .. n - 1 : s[i] \in S
    BY <1>1
  <2>2. /\ a \in Seq(S) /\ Len(a) = (IF 1 <= n - 1 THEN (n - 1) - 1 + 1 ELSE 0)
        /\ \A i \in 1 .. (n - 1) - 1 + 1 : a[i] = s[1 + i - 1]
    BY <1>1, <2>1, SubSeqProperties
  <2> HIDE DEF a
  <2> QED BY <2>2, <1>1
<1>3. b \in Seq(S) /\ Len(b) = Len(s) - n /\ \A i \in 1 .. Len(s) - n : b[i] = s[n + i]
  <2>1. \A i \in n + 1 .. Len(s) : s[i] \in S
    BY <1>1
  <2>2. /\ b \in Seq(S) /\ Len(b) = (IF n + 1 <= Len(s) THEN Len(s) - (n + 1) + 1 ELSE 0)
        /\ \A i \in 1 .. Len(s) - (n + 1) + 1 : b[i] = s[(n + 1) + i - 1]
    BY <1>1, <2>1, SubSeqProperties
  <2> HIDE DEF b
  <2> QED BY <2>2, <1>1
<1>4. RemoveAt(s, n) = a \o b
  BY DEF RemoveAt
<1> HIDE DEF a, b
<1>5. /\ a \o b \in Seq(S) /\ Len(a \o b) = Len(a) + Len(b)
      /\ \A i \in 1 .. Len(a) + Len(b) : (a \o b)[i] = IF i <= Len(a) THEN a[i] ELSE b[i - Len(a)]
  BY <1>2, <1>3, ConcatProperties
<1>6. RemoveAt(s, n) \in Seq(S) /\ Len(RemoveAt(s, n)) = Len(s) - 1
  BY ONLY <1>1, <1>2, <1>3, <1>4, <1>5, n \in 1 .. Len(s)
<1>7. ASSUME NEW k \in 1 .. n - 1 PROVE RemoveAt(s, n)[k] = s[k]
  <2>1. k \in 1 .. Len(a) + Len(b) /\ k <= Len(a)
    BY <1>1, <1>2, <1>3
  <2> QED BY ONLY <2>1, <1>2, <1>4, <1>5, k \in 1 .. n - 1
<1>8. ASSUME NEW k \in n .. Len(s) - 1 PROVE RemoveAt(s, n)[k] = s[k + 1]
  <2>1. /\ k \in 1 .. Len(a) + Len(b) /\ ~(k <= Len(a)) /\ k - Len(a) = k - (n - 1)
        /\ k - (n - 1) \in 1 .. Len(s) - n /\ n + (k - (n - 1)) = k + 1
    BY <1>1, <1>2, <1>3
  <2>2. b[k - (n - 1)] = s[k + 1]
    BY ONLY <2>1, <1>3
  <2> QED BY ONLY <2>1, <2>2, <1>4, <1>5
<1> QED BY <1>6, <1>7, <1>8

LEMMA InsertedParts ==
  ASSUME NEW S, NEW s \in Seq(S), NEW n \in 1 .. Len(s) + 1, NEW x \in S
  PROVE  /\ InsertAt(s, n, x) = Append(SubSeq(s, 1, n - 1), x) \o SubSeq(s, n, Len(s))
         /\ s = SubSeq(s, 1, n - 1) \o SubSeq(s, n, Len(s))
         /\ SubSeq(s, 1, n - 1) \in Seq(S) /\ SubSeq(s, n, Len(s)) \in Seq(S)
<1> DEFINE a == SubSeq(s, 1, n - 1)
           b == SubSeq(s, n, Len(s))
<1>1. Len(s) \in Nat /\ \A k \in 1 .. Len(s) : s[k] \in S
  OBVIOUS
<1>2. a \in Seq(S) /\ Len(a) = n - 1 /\ \A i \in 1 .. n - 1 : a[i] = s[i]
  <2>1. \A i \in 1 .. n - 1 : s[i] \in S
    BY <1>1
  <2>2. /\ a \in Seq(S) /\ Len(a) = (IF 1 <= n - 1 THEN (n - 1) - 1 + 1 ELSE 0)
        /\ \A i \in 1 .. (n - 1) - 1 + 1 : a[i] = s[1 + i - 1]
    BY <1>1, <2>1, SubSeqProperties
  <2> HIDE DEF a
  <2> QED BY <2>2, <1>1
<1>3. b \in Seq(S) /\ Len(b) = Len(s) - n + 1
  <2>1. \A i \in n .. Len(s) : s[i] \in S
    BY <1>1
  <2>2. b \in Seq(S) /\ Len(b) = (IF n <= Len(s) THEN Len(s) - n + 1 ELSE 0)
    BY <1>1, <2>1, SubSeqProperties
  <2> HIDE DEF b
  <2> QED BY <2>2, <1>1
<1>4. InsertAt(s, n, x) = (a \o <<x>>) \o b
  BY DEF InsertAt
<1>5. s = a \o b
  <2>1. n - 1 \in 0 .. Len(s) /\ Len(s) \in n - 1 .. Len(s) /\ 1 \in 1 .. Len(s) + 1 /\ (n - 1) + 1 = n /\ 1 - 1 = 0
    BY <1>1
  <2>2. SubSeq(s, 1, n - 1) \o SubSeq(s, (n - 1) + 1, Len(s)) = SubSeq(s, 1, Len(s))
    BY <2>1, ConcatAdjacentSubSeq
  <2>3. SubSeq(s, 1, Len(s)) = s
    BY SubSeqFull
  <2> QED BY <2>1, <2>2, <2>3
<1>6. a \in Seq(S) /\ b \in Seq(S) /\ InsertAt(s, n, x) = (a \o <<x>>) \o b /\ s = a \o b
  BY <1>2, <1>3, <1>4, <1>5
<1>7. Append(a, x) = a \o <<x>>
  <2> HIDE DEF a
  <2> QED BY <1>2, AppendIsConcat
<1> QED BY <1>6, <1>7

LEMMA InsertedIs ==
  ASSUME NEW S, NEW s \in Seq(S), NEW n \in 1 .. Len(s) + 1, NEW x \in S
  PROVE  /\ InsertAt(s, n, x) \in Seq(S) /\ Len(InsertAt(s, n, x)) = Len(s) + 1
         /\ \A k \in 1 .. n - 1 : InsertAt(s, n, x)[k] = s[k]
         /\ InsertAt(s, n, x)[n] = x
         /\ \A k \in n + 1 .. Len(s) + 1 : InsertAt(s, n, x)[k] = s[k - 1]
<1> DEFINE a == SubSeq(s, 1, n - 1)
           b == SubSeq(s, n, Len(s))
<1>1. Len(s) \in Nat /\ \A k \in 1 .. Len(s) : s[k] \in S
  OBVIOUS
<1>2. a \in Seq(S) /\ Len(a) = n - 1 /\ \A i \in 1 .. n - 1 : a[i] = s[i]
  <2>1. \A i \in 1 .. n - 1 : s[i] \in S
    BY <1>1
  <2>2. /\ a \in Seq(S) /\ Len(a) = (IF 1 <= n - 1 THEN (n - 1) - 1 + 1 ELSE 0)
        /\ \A i \in 1 .. (n - 1) - 1 + 1 : a[i] = s[1 + i - 1]
    BY <1>1, <2>1, SubSeqProperties
  <2> HIDE DEF a
  <2> QED BY <2>2, <1>1
<1>3. b \in Seq(S) /\ Len(b) = Len(s) - n + 1 /\ \A i \in 1 .. Len(s) - n + 1 : b[i] = s[n + i - 1]
  <2>1. \A i \in n .. Len(s) : s[i] \in S
    BY <1>1
  <2>2. /\ b \in Seq(S) /\ Len(b) = (IF n <= Len(s) THEN Len(s) - n + 1 ELSE 0)
        /\ \A i \in 1 .. Len(s) - n + 1 : b[i] = s[n + i - 1]
    BY <1>1, <2>1, SubSeqProperties
  <2> HIDE DEF b
  <2> QED BY <2>2, <1>1
<1>4. InsertAt(s, n, x) = (a \o <<x>>) \o b
  BY DEF InsertAt
<1>7. /\ a \o <<x>> \in Seq(S) /\ Len(a \o <<x>>) = n
      /\ \A i \in 1 .. n - 1 : (a \o <<x>>)[i] = s[i]
      /\ (a \o <<x>>)[n] = x
  <2>1. <<x>> \in Seq(S) /\ Len(<<x>>) = 1
    OBVIOUS
  <2> HIDE DEF a, b
  <2>2. /\ a \o <<x>> \in Seq(S) /\ Len(a \o <<x>>) = Len(a) + 1
        /\ \A i \in 1 .. Len(a) + 1 : (a \o <<x>>)[i] = IF i <= Len(a) THEN a[i] ELSE <<x>>[i - Len(a)]
    BY <1>2, <2>1, ConcatProperties
  <2>3. <<x>>[1] = x /\ n - Len(a) = 1 /\ n \in 1 .. Len(a) + 1 /\ ~(n <= Len(a))
    BY <1>1, <1>2
  <2>4. (a \o <<x>>)[n] = x
    BY <2>2, <2>3
  <2> QED BY <1>1, <1>2, <2>2, <2>4
<1>8. /\ InsertAt(s, n, x) \in Seq(S) /\ Len(InsertAt(s, n, x)) = Len(s) + 1
      /\ \A k \in 1 .. n - 1 : InsertAt(s, n, x)[k] = s[k]
      /\ InsertAt(s, n, x)[n] = x
      /\ \A k \in n + 1 .. Len(s) + 1 : InsertAt(s, n, x)[k] = s[k - 1]
  <2> HIDE DEF a, b
  <2> DEFINE c == a \o <<x>>
  <2>1. c \in Seq(S) /\ Len(c) = n /\ c[n] = x /\ \A i \in 1 .. n - 1 : c[i] = s[i]
    BY <1>7
  <2> HIDE DEF c
  <2>2. /\ c \o b \in Seq(S) /\ Len(c \o b) = Len(c) + Len(b)
        /\ \A i \in 1 .. Len(c) + Len(b) : (c \o b)[i] = IF i <= Len(c) THEN c[i] ELSE b[i - Len(c)]
    BY <1>3, <2>1, ConcatProperties
  <2>3. InsertAt(s, n, x) = c \o b
    BY <1>4 DEF c
  <2>4. Len(c \o b) = Len(s) + 1 /\ (c \o b)[n] = x /\ \A k \in 1 .. n - 1 : (c \o b)[k] = s[k]
    BY <1>1, <1>3, <2>1, <2>2
  <2>5. ASSUME NEW k \in n + 1 .. Len(s) + 1 PROVE (c \o b)[k] = s[k - 1]
    <3>1. k \in 1 .. Len(c) + Len(b) /\ ~(k <= Len(c)) /\ k - n \in 1 .. Len(s) - n + 1 /\ n + (k - n) - 1 = k - 1
      BY <1>1, <1>3, <2>1
    <3>2. (c \o b)[k] = b[k - n]
      BY <2>1, <2>2, <3>1
    <3>3. b[k - n] = s[n + (k - n) - 1]
      BY <1>3, <3>1
    <3> QED BY <3>1, <3>2, <3>3
  <2> QED BY <2>2, <2>3, <2>4, <2>5
<1> QED BY <1>8

LEMMA FlattenSeqOne ==
  ASSUME NEW S, NEW ss \in Seq(Seq(S)), Len(ss) = 1
  PROVE  FlattenSeq(ss) = ss[1]
<1>1. PICK h : /\ h \in [0 .. Len(ss) -> Seq(S)] /\ h[0] = <<>> /\ h[Len(ss)] = FlattenSeq(ss)
               /\ \A k \in 1 .. Len(ss) : h[k] = h[k - 1] \o ss[k]
  BY FlattenSeqSteps
<1>2. 1 \in 1 .. Len(ss) /\ 1 - 1 = 0 /\ ss[1] \in Seq(S)
  OBVIOUS
<1>3. h[1] = h[1 - 1] \o ss[1]
  BY ONLY <1>1, <1>2
<1>4. <<>> \o ss[1] = ss[1]
  BY <1>2, ConcatEmptySeq
<1> QED BY <1>1, <1>2, <1>3, <1>4

(* A part of a sequence, and what it holds joined into one.                *)
Slice(ss, i, n) == [k \in 1 .. n |-> ss[i + k]]
Run(ss, i, n)   == FlattenSeq(Slice(ss, i, n))

LEMMA SliceIs ==
  ASSUME NEW S, NEW ss \in Seq(S), NEW i \in Nat, NEW n \in Nat, i + n <= Len(ss)
  PROVE  /\ Slice(ss, i, n) \in Seq(S) /\ Len(Slice(ss, i, n)) = n
         /\ \A k \in 1 .. n : Slice(ss, i, n)[k] = ss[i + k]
<1>1. \A k \in 1 .. n : i + k \in 1 .. Len(ss)
  OBVIOUS
<1>2. \A k \in 1 .. n : ss[i + k] \in S
  BY <1>1
<1> QED BY <1>2 DEF Slice

LEMMA SliceParts ==
  ASSUME NEW S, NEW ss \in Seq(S), NEW i \in Nat, NEW m \in Nat, NEW n \in Nat, i + m + n <= Len(ss)
  PROVE  Slice(ss, i, m + n) = Slice(ss, i, m) \o Slice(ss, i + m, n)
<1> DEFINE a == Slice(ss, i, m)
           b == Slice(ss, i + m, n)
           w == Slice(ss, i, m + n)
<1>0. i + m <= Len(ss) /\ i + m \in Nat /\ m + n \in Nat /\ i + (m + n) <= Len(ss) /\ Len(ss) \in Nat
  OBVIOUS
<1>1. a \in Seq(S) /\ Len(a) = m /\ \A k \in 1 .. m : a[k] = ss[i + k]
  BY <1>0, SliceIs
<1>2. b \in Seq(S) /\ Len(b) = n /\ \A k \in 1 .. n : b[k] = ss[(i + m) + k]
  BY <1>0, SliceIs
<1>3. w \in Seq(S) /\ Len(w) = m + n /\ \A k \in 1 .. m + n : w[k] = ss[i + k]
  BY <1>0, SliceIs
<1> HIDE DEF a, b, w
<1>4. /\ a \o b \in Seq(S) /\ Len(a \o b) = m + n
      /\ \A k \in 1 .. m + n : (a \o b)[k] = IF k <= m THEN a[k] ELSE b[k - m]
  BY <1>1, <1>2, ConcatProperties
<1>5. ASSUME NEW k \in 1 .. m + n PROVE w[k] = (a \o b)[k]
  <2>1. CASE k <= m
    <3>1. k \in 1 .. m
      BY <2>1
    <3>2. a[k] = ss[i + k] /\ w[k] = ss[i + k] /\ (a \o b)[k] = a[k]
      BY <2>1, <3>1, <1>1, <1>3, <1>4
    <3> QED BY <3>2
  <2>2. CASE ~(k <= m)
    <3>1. k - m \in 1 .. n /\ (i + m) + (k - m) = i + k
      BY <2>2
    <3>2. b[k - m] = ss[i + k]
      BY <3>1, <1>2
    <3> QED BY <2>2, <3>2, <1>3, <1>4
  <2> QED BY <2>1, <2>2
<1>6. Len(w) = Len(a \o b) /\ \A k \in 1 .. Len(w) : w[k] = (a \o b)[k]
  BY <1>3, <1>4, <1>5
<1>7. w = a \o b
  BY ONLY <1>3, <1>4, <1>6, SeqEqual
<1> QED BY <1>7 DEF a, b, w

LEMMA RunType ==
  ASSUME NEW S, NEW ss \in Seq(Seq(S)), NEW i \in Nat, NEW n \in Nat, i + n <= Len(ss)
  PROVE  Run(ss, i, n) \in Seq(S)
BY SliceIs, FlattenSeqType DEF Run

LEMMA RunParts ==
  ASSUME NEW S, NEW ss \in Seq(Seq(S)), NEW i \in Nat, NEW m \in Nat, NEW n \in Nat, i + m + n <= Len(ss)
  PROVE  Run(ss, i, m + n) = Run(ss, i, m) \o Run(ss, i + m, n)
<1>1. i + m <= Len(ss) /\ i + m \in Nat
  OBVIOUS
<1>2. Slice(ss, i, m) \in Seq(Seq(S)) /\ Slice(ss, i + m, n) \in Seq(Seq(S))
  BY <1>1, SliceIs
<1>3. Slice(ss, i, m + n) = Slice(ss, i, m) \o Slice(ss, i + m, n)
  BY SliceParts
<1> QED BY <1>2, <1>3, FlattenSeqConcat DEF Run

LEMMA RunOfOne ==
  ASSUME NEW S, NEW ss \in Seq(Seq(S)), NEW i \in Nat, i + 1 <= Len(ss)
  PROVE  Run(ss, i, 1) = ss[i + 1]
<1>1. /\ Slice(ss, i, 1) \in Seq(Seq(S)) /\ Len(Slice(ss, i, 1)) = 1
      /\ \A k \in 1 .. 1 : Slice(ss, i, 1)[k] = ss[i + k]
  BY ONLY ss \in Seq(Seq(S)), i \in Nat, 1 \in Nat, i + 1 <= Len(ss), SliceIs
<1> QED BY <1>1, FlattenSeqOne DEF Run

LEMMA RunOfNone ==
  ASSUME NEW ss, NEW i
  PROVE  Run(ss, i, 0) = <<>>
<1>1. Slice(ss, i, 0) = <<>>
  BY DEF Slice
<1>2. <<>> \in Seq(Seq({})) /\ Len(<<>>) = 0
  OBVIOUS
<1>3. PICK h : h[0] = <<>> /\ h[0] = FlattenSeq(<<>>)
  BY <1>2, FlattenSeqSteps
<1> QED BY <1>1, <1>3 DEF Run

LEMMA RunOfAll ==
  ASSUME NEW S, NEW ss \in Seq(S)
  PROVE  Run(ss, 0, Len(ss)) = FlattenSeq(ss)
<1>1. Len(ss) \in Nat /\ 0 + Len(ss) <= Len(ss)
  OBVIOUS
<1> DEFINE w == Slice(ss, 0, Len(ss))
<1>2. w \in Seq(S) /\ Len(w) = Len(ss) /\ \A k \in 1 .. Len(ss) : w[k] = ss[0 + k]
  BY <1>1, SliceIs
<1> HIDE DEF w
<1>3. w = ss
  <2>1. \A k \in 1 .. Len(w) : w[k] = ss[k]
    BY <1>2
  <2> QED BY ONLY <1>2, <2>1, ss \in Seq(S), SeqEqual
<1> QED BY <1>3 DEF w, Run

Agree(ss, i, tt, j, n) == \A k \in 1 .. n : ss[i + k] = tt[j + k]
LEMMA RunSame ==
  ASSUME NEW ss, NEW tt, NEW i, NEW j, NEW n, Agree(ss, i, tt, j, n)
  PROVE  Run(ss, i, n) = Run(tt, j, n)
<1>1. Slice(ss, i, n) = Slice(tt, j, n)
  BY DEF Slice, Agree
<1> QED BY <1>1 DEF Run

(* A sequence of sequences, joined around one of them.                     *)
LEMMA FlattenSeqAround ==
  ASSUME NEW S, NEW ss \in Seq(Seq(S)), NEW c \in 1 .. Len(ss)
  PROVE  FlattenSeq(ss) = (Run(ss, 0, c - 1) \o ss[c]) \o Run(ss, c, Len(ss) - c)
<1>1. /\ Len(ss) \in Nat /\ c \in Nat /\ c - 1 \in Nat /\ Len(ss) - c \in Nat /\ 0 + c + (Len(ss) - c) <= Len(ss)
      /\ c + (Len(ss) - c) = Len(ss) /\ (c - 1) + 1 = c /\ 0 + (c - 1) + 1 <= Len(ss) /\ 0 + (c - 1) = c - 1
      /\ 0 + c = c /\ (c - 1) + 1 <= Len(ss)
  OBVIOUS
<1>2. FlattenSeq(ss) = Run(ss, 0, Len(ss))
  BY RunOfAll
<1>3. Run(ss, 0, c + (Len(ss) - c)) = Run(ss, 0, c) \o Run(ss, 0 + c, Len(ss) - c)
  <2> DEFINE n == Len(ss) - c
             i == 0
  <2>1. n \in Nat /\ i + c + n <= Len(ss) /\ i \in Nat /\ c \in Nat
    BY <1>1
  <2> HIDE DEF n, i
  <2>2. Run(ss, i, c + n) = Run(ss, i, c) \o Run(ss, i + c, n)
    BY ONLY <2>1, ss \in Seq(Seq(S)), RunParts
  <2> QED BY <2>2 DEF n, i
<1>4. Run(ss, 0, (c - 1) + 1) = Run(ss, 0, c - 1) \o Run(ss, 0 + (c - 1), 1)
  BY ONLY <1>1, ss \in Seq(Seq(S)), RunParts, 0 \in Nat, 1 \in Nat
<1>5. Run(ss, c - 1, 1) = ss[(c - 1) + 1]
  BY ONLY <1>1, ss \in Seq(Seq(S)), RunOfOne
<1> QED BY ONLY <1>1, <1>2, <1>3, <1>4, <1>5

Regroups(S) == \A x, y, z \in Seq(S) : (x \o y) \o z = x \o (y \o z)
LEMMA Regrouped == ASSUME NEW S PROVE Regroups(S)
<1>1. \A x, y, z \in Seq(S) : (x \o y) \o z = x \o (y \o z)
  <2> TAKE x, y, z \in Seq(S)
  <2> QED BY ConcatAssociative
<1> QED BY <1>1, Zenon DEF Regroups

(* Two neighbours become one, or one is taken out.                         *)
LEMMA FlattenSeqMerged ==
  ASSUME NEW S, NEW ss \in Seq(Seq(S)), NEW tt \in Seq(Seq(S)), NEW c \in 1 .. Len(tt), Len(ss) = Len(tt) + 1,
         tt[c] = ss[c] \o ss[c + 1], \A k \in 1 .. c - 1 : tt[k] = ss[k],
         \A k \in c + 1 .. Len(tt) : tt[k] = ss[k + 1]
  PROVE  FlattenSeq(tt) = FlattenSeq(ss)
<1>0. Regroups(S)
  BY ONLY Regrouped
<1> DEFINE n == Len(tt) - c
           x == Run(ss, 0, c - 1)
           y == Run(ss, c + 1, n)
<1>1. /\ Len(tt) \in Nat /\ c \in Nat /\ c - 1 \in Nat /\ n \in Nat /\ c + 1 \in Nat /\ Len(ss) - c = 1 + n /\ 1 \in Nat
      /\ c + 1 + n <= Len(ss) /\ c + 1 <= Len(ss) /\ 0 + (c - 1) <= Len(ss) /\ c \in 1 .. Len(ss) /\ c + 1 \in 1 .. Len(ss)
      /\ 0 \in Nat
  OBVIOUS
<1>2. x = Run(tt, 0, c - 1)
  <2>1. \A k \in 1 .. c - 1 : 0 + k = k
    OBVIOUS
  <2>2. \A k \in 1 .. c - 1 : ss[0 + k] = tt[0 + k]
    BY <2>1
  <2>3. Agree(ss, 0, tt, 0, c - 1)
    BY <2>2 DEF Agree
  <2> QED BY ONLY <2>3, RunSame DEF x
<1>3. y = Run(tt, c, n)
  <2>1. \A k \in 1 .. n : c + k \in c + 1 .. Len(tt) /\ (c + 1) + k = (c + k) + 1
    <3>1. c \in Nat /\ Len(tt) \in Nat /\ c <= Len(tt) /\ n = Len(tt) - c
      OBVIOUS
    <3> HIDE DEF n
    <3> QED BY ONLY <3>1
  <2>2. \A k \in 1 .. n : ss[(c + 1) + k] = tt[c + k]
    BY <2>1
  <2> HIDE DEF n
  <2>3. Agree(ss, c + 1, tt, c, n)
    BY <2>2 DEF Agree
  <2> QED BY ONLY <2>3, RunSame DEF y
<1> HIDE DEF n
<1>4. FlattenSeq(tt) = (x \o tt[c]) \o y
  BY <1>2, <1>3, FlattenSeqAround DEF n
<1>5. FlattenSeq(ss) = (x \o ss[c]) \o Run(ss, c, 1 + n)
  <2>1. FlattenSeq(ss) = (x \o ss[c]) \o Run(ss, c, Len(ss) - c)
    BY ONLY <1>1, ss \in Seq(Seq(S)), FlattenSeqAround DEF x
  <2> QED BY <2>1, <1>1
<1>6. Run(ss, c, 1 + n) = Run(ss, c, 1) \o y
  <2> DEFINE m == 1
  <2>1. c \in Nat /\ m \in Nat /\ n \in Nat /\ c + m + n <= Len(ss)
    BY <1>1
  <2> HIDE DEF m
  <2>2. Run(ss, c, m + n) = Run(ss, c, m) \o Run(ss, c + m, n)
    <3>1. ss \in Seq(Seq(S))
      OBVIOUS
    <3> QED BY ONLY SMTT(30), <2>1, <3>1, RunParts
  <2> QED BY <2>2 DEF m, y
<1>7. Run(ss, c, 1) = ss[c + 1]
  BY ONLY <1>1, ss \in Seq(Seq(S)), RunOfOne
<1>8. x \in Seq(S) /\ y \in Seq(S)
  BY ONLY <1>1, ss \in Seq(Seq(S)), RunType DEF x, y
<1> HIDE DEF x, y
<1>9. ss[c] \in Seq(S) /\ ss[c + 1] \in Seq(S)
  BY ONLY <1>1, ss \in Seq(Seq(S))
<1>10. x \o ss[c] \in Seq(S)
  BY ONLY <1>8, <1>9, ConcatProperties
<1> DEFINE p == ss[c]
           q == ss[c + 1]
           xp == x \o p
<1>11. xp \o (q \o y) = (xp \o q) \o y /\ xp \o q = x \o (p \o q)
  <2>1. x \in Seq(S) /\ y \in Seq(S) /\ p \in Seq(S) /\ q \in Seq(S) /\ xp \in Seq(S)
    BY <1>8, <1>9, <1>10
  <2>2. (x \o p) \o q = x \o (p \o q)
    <3> HIDE DEF p, q, xp
    <3>1. x \in Seq(S) /\ p \in Seq(S) /\ q \in Seq(S)
      BY ONLY <2>1
    <3> QED BY ONLY <3>1, <1>0 DEF Regroups
  <2> HIDE DEF p, q, xp
  <2>3. xp \o (q \o y) = (xp \o q) \o y
    <3>1. xp \in Seq(S) /\ y \in Seq(S) /\ q \in Seq(S)
      BY ONLY <2>1
    <3> QED BY ONLY <3>1, <1>0 DEF Regroups
  <2> QED BY <2>2, <2>3 DEF xp
<1> HIDE DEF xp
<1> QED BY ONLY <1>4, <1>5, <1>6, <1>7, <1>11, tt[c] = ss[c] \o ss[c + 1] DEF xp

LEMMA FlattenSeqWithout ==
  ASSUME NEW S, NEW ss \in Seq(Seq(S)), NEW tt \in Seq(Seq(S)), NEW c \in 1 .. Len(ss), Len(ss) = Len(tt) + 1,
         \A k \in 1 .. c - 1 : tt[k] = ss[k], \A k \in c .. Len(tt) : tt[k] = ss[k + 1]
  PROVE  FlattenSeq(tt) = Run(ss, 0, c - 1) \o Run(ss, c, Len(ss) - c)
<1> DEFINE n == Len(ss) - c
           b == c - 1
           i == 0
<1>1. /\ Len(tt) \in Nat /\ c \in Nat /\ b \in Nat /\ n \in Nat /\ i \in Nat /\ Len(tt) = b + n /\ i + b + n <= Len(tt) /\ i + b = b
  OBVIOUS
<1>2. FlattenSeq(tt) = Run(tt, 0, Len(tt))
  BY RunOfAll
<1>3. Run(ss, 0, c - 1) = Run(tt, i, b)
  <2>1. \A k \in 1 .. c - 1 : 0 + k = k
    OBVIOUS
  <2>2. \A k \in 1 .. c - 1 : ss[0 + k] = tt[0 + k]
    BY <2>1
  <2>3. Agree(ss, 0, tt, 0, c - 1)
    BY <2>2 DEF Agree
  <2> QED BY ONLY <2>3, RunSame DEF i, b
<1>4. Run(ss, c, n) = Run(tt, b, n)
  <2>1. \A k \in 1 .. n : b + k \in c .. Len(tt) /\ (b + k) + 1 = c + k
    BY <1>1
  <2>2. \A k \in 1 .. n : ss[c + k] = tt[b + k]
    BY <2>1
  <2> HIDE DEF n, b
  <2>3. Agree(ss, c, tt, b, n)
    BY <2>2 DEF Agree
  <2> QED BY ONLY <2>3, RunSame
<1> HIDE DEF n, b, i
<1>5. Run(tt, i, b + n) = Run(tt, i, b) \o Run(tt, i + b, n)
  <2>1. i \in Nat /\ b \in Nat /\ n \in Nat /\ i + b + n <= Len(tt)
    BY ONLY <1>1
  <2>2. tt \in Seq(Seq(S))
    OBVIOUS
  <2> QED BY ONLY SMTT(30), <2>1, <2>2, RunParts
<1> QED BY <1>1, <1>2, <1>3, <1>4, <1>5 DEF n, i

-----------------------------------------------------------------------------
(* A function defined by recursion over what has a lower rank exists.      *)
Ranked(D, V, n, rank, B) ==
  /\ rank \in [D -> 0 .. n] /\ B \in [D -> [[D -> V] -> V]]
  /\ \A d \in D : \A f, g \in [D -> V] :
       (\A e \in D : rank[e] < rank[d] => f[e] = g[e]) => B[d][f] = B[d][g]

LEMMA RankedExists ==
  ASSUME NEW D, NEW V, NEW n \in Nat, NEW rank, NEW B, NEW v \in V, Ranked(D, V, n, rank, B)
  PROVE  \E f \in [D -> V] : \A d \in D : f[d] = B[d][f]
<1> DEFINE W == [D -> V]
           G == [i \in 1 .. n + 1 |-> [f \in W |-> [d \in D |-> B[d][f]]]]
           b == [d \in D |-> v]
<1>0. /\ rank \in [D -> 0 .. n] /\ B \in [D -> [[D -> V] -> V]]
      /\ \A d \in D : \A f, g \in [D -> V] :
           (\A e \in D : rank[e] < rank[d] => f[e] = g[e]) => B[d][f] = B[d][g]
  BY DEF Ranked
<1>1. b \in W /\ n + 1 \in Nat /\ G \in [1 .. n + 1 -> [W -> W]]
  BY <1>0
<1>2. PICK h : Walks(h, n + 1, W, b, G, h[n + 1])
  <2> HIDE DEF W, b, G
  <2> QED BY <1>1, WalkExists
<1>3. \A k \in 0 .. n + 1 : h[k] \in W
  BY <1>2 DEF Walks
<1>4. \A k \in 1 .. n + 1 : \A d \in D : h[k][d] = B[d][h[k - 1]]
  <2> TAKE k \in 1 .. n + 1
  <2>1. h[k] = G[k][h[k - 1]]
    <3> HIDE DEF G, W, b
    <3> QED BY <1>2 DEF Walks
  <2>2. k - 1 \in 0 .. n + 1
    OBVIOUS
  <2>3. h[k - 1] \in W
    BY ONLY <2>2, <1>3
  <2> QED BY <2>1, <2>3
<1> DEFINE T == {k \in 0 .. n : \A d \in D : rank[d] < k => \A j \in k .. n + 1 : h[j][d] = h[k][d]}
<1> HIDE DEF W, G, b
<1>5. 0 \in T
  BY <1>0
<1>6. \A k \in 0 .. n - 1 : k \in T => k + 1 \in T
  <2> SUFFICES ASSUME NEW k \in 0 .. n - 1, k \in T, NEW d \in D, rank[d] < k + 1, NEW j \in k + 1 .. n + 1
               PROVE  h[j][d] = h[k + 1][d]
    <3> DEFINE P(i) == \A d \in D : rank[d] < i => \A j \in i .. n + 1 : h[j][d] = h[i][d]
    <3>1. \A k \in 0 .. n - 1 : k \in T => P(k + 1)
      OBVIOUS
    <3>2. T = {i \in 0 .. n : P(i)}
      OBVIOUS
    <3> HIDE DEF P, T
    <3> QED BY <3>1, <3>2
  <2>0. \A i \in k .. n + 1 : \A e \in D : rank[e] < k => h[i][e] = h[k][e]
    BY <1>0, k \in T
  <2>1. j \in 1 .. n + 1 /\ k + 1 \in 1 .. n + 1 /\ j - 1 \in k .. n + 1 /\ k \in 0 .. n + 1 /\ (k + 1) - 1 = k
        /\ j - 1 \in 0 .. n + 1
    OBVIOUS
  <2>2. h[j][d] = B[d][h[j - 1]] /\ h[k + 1][d] = B[d][h[k]]
    BY <2>1, <1>4
  <2>3. \A e \in D : rank[e] < rank[d] => h[j - 1][e] = h[k][e]
    BY <2>0, <2>1, <1>0
  <2>4. h[j - 1] \in [D -> V] /\ h[k] \in [D -> V]
    BY ONLY <2>1, <1>3 DEF W
  <2> QED BY <2>2, <2>3, <2>4, <1>0
<1>7. n \in T
  <2> HIDE DEF T
  <2>1. 0 .. n \subseteq T
    BY ONLY <1>5, <1>6, n \in Nat, Induction
  <2> QED BY <2>1
<1>8. h[n + 1] \in [D -> V] /\ h[n] \in [D -> V] /\ n + 1 \in n .. n + 1
  BY <1>3 DEF W
<1>9. \A d \in D : h[n + 1][d] = B[d][h[n + 1]]
  <2> TAKE d \in D
  <2>1. h[n + 1][d] = B[d][h[n]]
    BY <1>4
  <2>2. \A e \in D : rank[e] < rank[d] => h[n + 1][e] = h[n][e]
    BY <1>7, <1>8, <1>0
  <2> QED BY <2>1, <2>2, <1>8, <1>0
<1> QED BY <1>8, <1>9
=============================================================================
