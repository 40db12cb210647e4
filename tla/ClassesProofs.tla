--------------------------- MODULE ClassesProofs ----------------------------
(***************************************************************************)
(* Proofs about Classes.  Whatever a program declares, its classes are     *)
(* laid out so that no two fields overlap, those of the base classes and   *)
(* the pointers to the interfaces' tables included, and a program that     *)
(* imports the module reads from the module file the types its compilation *)
(* made.                                                                   *)
(*                                                                         *)
(* The k-th type of the program only refers to CObject and the types       *)
(* before it (Known(k - 1)): that is what the recursions over base classes *)
(* and interfaces end by.                                                  *)
(***************************************************************************)
EXTENDS Classes, FoldTheorems

(* CObject and the first k types.                                          *)
Known(k) == {Root} \cup {Names[i] : i \in 1 .. k}

(* What the members and types consist of.                                  *)
Word == {e.name : e \in Declarations} \cup {"ToString", "_vTablePtr"}
          \cup {"__intf_vtable_" \o d : d \in Known(Len(Names))}
Sort == {e.of : e \in {d \in Declarations : d.kind # "field"}} \cup {"string"}
ProcT(k) == [owner : Known(k), name : Word, role : {"method", "getter", "setter"}, of : Sort]
MethodT(k) == [proc : ProcT(k), idx : Int]
HalfT(k) == MethodT(k) \cup {NoMethod}
FieldM == [kind : {"field"}, name : Word, at : Nat, size : Nat]
MethodM(k) == {m \in [kind : {"method"}, name : Word, proc : ProcT(k), idx : Int] : m.name = m.proc.name}
PropertyM(k) == [kind : {"property"}, name : Word, of : Sort, get : HalfT(k), set : HalfT(k)]
CodeM(k) == MethodM(k) \cup PropertyM(k)
MemberT(k) == FieldM \cup CodeM(k)
ImplT(k) == [intf : Known(k - 1), at : Nat]
TypeT(k) == [kind : {"class", "interface"}, base : Known(k - 1) \cup {NULL}, impls : Seq(ImplT(k)),
             members : Seq(MemberT(k)), size : Nat, count : Int]

(* The fields among the members lie behind each other, from low on, below  *)
(* high.                                                                   *)
Laid(members, low, high) ==
  /\ \A k \in 1 .. Len(members) : members[k].kind = "field" =>
       /\ low <= members[k].at /\ members[k].at + members[k].size <= high
       /\ members[k].size > 1 => members[k].at % 2 = 0
  /\ \A k, l \in 1 .. Len(members) :
       k < l /\ members[k].kind = "field" /\ members[l].kind = "field" =>
         members[k].at + members[k].size <= members[l].at

(* The k-th type, whose base class has `low' bytes.                        *)
MadeClass(k, T, low) ==
  /\ T.kind = "class" /\ T.base # NULL /\ low <= T.size /\ 4 <= T.size
  /\ Laid(T.members, low, T.size)
  /\ \A i \in 1 .. Len(T.impls) : T.impls[i].at + 4 <= T.size
MadeInterface(k, T) ==
  /\ T.kind = "interface" /\ T.base = NULL /\ T.size = 0
  /\ \A i \in 1 .. Len(T.members) : T.members[i] \in CodeM(k)
Made(k, T, low) == T \in TypeT(k) /\ (MadeClass(k, T, low) \/ MadeInterface(k, T))

(* The size of the base class.                                             *)
Low(ts, T) == IF T.base = NULL THEN 0 ELSE ts[T.base].size

(* The table of the first m types.                                         *)
Function(ts) == ts = [d \in DOMAIN ts |-> ts[d]]
Table(ts, m) ==
  /\ m \in 0 .. Len(Names) /\ Function(ts) /\ DOMAIN ts = Known(m) /\ ts[Root] = CObject
  /\ \A k \in 1 .. m : /\ Made(k, ts[Names[k]], Low(ts, ts[Names[k]]))
                       /\ ts[Names[k]].base # NULL => ts[ts[Names[k]].base].kind = "class"

LEMMA NamesApart ==
  /\ Names \in Seq(STRING) /\ Len(Names) \in Nat /\ DOMAIN Names = 1 .. Len(Names)
  /\ \A k \in 1 .. Len(Names) : Names[k] # Root /\ Names[k] # NULL
  /\ \A j, k \in 1 .. Len(Names) : Names[j] = Names[k] => j = k
  /\ \A k \in 1 .. Len(Names) : Names[k] \notin Known(k - 1) /\ Names[k] \in Known(k)
<1>1. Names \in Seq(STRING) /\ Len(Names) \in Nat /\ DOMAIN Names = 1 .. Len(Names)
  BY ClassesAssumption
<1>2. \A k \in 1 .. Len(Names) : Names[k] # Root /\ Names[k] # NULL
  BY <1>1, ClassesAssumption
<1>3. \A j, k \in 1 .. Len(Names) : Names[j] = Names[k] => j = k
  BY <1>1, ClassesAssumption DEF IsInjective
<1>4. \A k \in 1 .. Len(Names) : Names[k] \notin Known(k - 1) /\ Names[k] \in Known(k)
  BY <1>1, <1>2, <1>3 DEF Known
<1> QED BY <1>1, <1>2, <1>3, <1>4

LEMMA IsASequence ==
  ASSUME NEW S, NEW n \in Nat, NEW f \in [1 .. n -> S]
  PROVE  f \in Seq(S) /\ Len(f) = n
OBVIOUS

LEMMA KnownGrows ==
  ASSUME NEW j \in Int, NEW k \in Int, j <= k
  PROVE  Known(j) \subseteq Known(k)
BY DEF Known

LEMMA KnownNext ==
  ASSUME NEW k \in 1 .. Len(Names)
  PROVE  Known(k) = Known(k - 1) \cup {Names[k]} /\ Known(k - 1) = Known(k) \ {Names[k]}
<1>1. k \in Nat /\ k - 1 \in Nat /\ \A i \in 1 .. k : i = k \/ i \in 1 .. k - 1
  BY NamesApart
<1>2. Known(k) = Known(k - 1) \cup {Names[k]}
  BY <1>1 DEF Known
<1> QED BY <1>2, NamesApart

LEMMA KnownNames ==
  ASSUME NEW m \in 0 .. Len(Names), NEW d \in Known(m)
  PROVE  d # NULL /\ (d = Root \/ \E k \in 1 .. m : d = Names[k])
<1>1. d = Root \/ \E k \in 1 .. m : d = Names[k]
  BY DEF Known
<1>2. \A k \in 1 .. m : k \in 1 .. Len(Names)
  BY NamesApart
<1>3. Root # NULL
  BY DEF Root, NULL
<1> QED BY <1>1, <1>2, <1>3, NamesApart
-----------------------------------------------------------------------------
(* The inductive invariant.                                                *)
Ordered == Len(order) \in 0 .. Len(Names) /\ order = [k \in 1 .. Len(order) |-> Names[k]]

Sources ==
  /\ DOMAIN source = DOMAIN types
  /\ \A n \in DOMAIN source \ {Root} :
       "entries" \in DOMAIN source[n] /\ source[n].entries \in Seq(Declarations)

(* The type being read is the last one, and has no tables yet.             *)
Opened ==
  open # NULL => order # <<>> /\ open = order[Len(order)] /\ open \notin DOMAIN inits

(* What __init stores are tables, at places inside the object.             *)
Stored ==
  /\ DOMAIN inits \subseteq DOMAIN types
  /\ \A c \in DOMAIN inits :
       /\ types[c].kind = "class"
       /\ \A at \in DOMAIN inits[c] : inits[c][at] \in DOMAIN vtables /\ at + 4 <= types[c].size

Pointers ==
  object.cls \in DOMAIN inits \cup {NULL} /\ ptr.ty \in DOMAIN types \cup {NULL}

Inv == Ordered /\ Table(types, Len(order)) /\ Sources /\ Opened /\ Stored /\ Pointers
-----------------------------------------------------------------------------
(* What a declaration may make of the last type: another one of the same   *)
(* kind and base class, all others as they were.                           *)
Goods(ts, m) ==
  {T \in TypeT(m) : /\ Made(m, T, Low(ts, ts[Names[m]]))
                    /\ T.kind = ts[Names[m]].kind /\ T.base = ts[Names[m]].base}
Change(ts, m) == {[ts EXCEPT ![Names[m]] = T] : T \in Goods(ts, m)}

LEMMA TableIs ==
  ASSUME NEW ts, NEW m, Table(ts, m), m # 0
  PROVE  /\ m \in 1 .. Len(Names) /\ m \in Nat /\ Names[m] \in Known(m) /\ DOMAIN ts = Known(m)
         /\ ts[Names[m]] \in Goods(ts, m) /\ ts \in Change(ts, m)
<1>1. m \in 1 .. Len(Names) /\ m \in 1 .. m /\ m \in Nat /\ Names[m] \in Known(m) /\ DOMAIN ts = Known(m) /\ Function(ts)
  BY NamesApart DEF Table
<1>2. ts[Names[m]] \in Goods(ts, m)
  BY <1>1 DEF Table, Goods, Made
<1>3. ts = [ts EXCEPT ![Names[m]] = ts[Names[m]]]
  BY <1>1 DEF Function
<1> QED BY <1>1, <1>2, <1>3 DEF Change

LEMMA ChangeIs ==
  ASSUME NEW ts, NEW m, Table(ts, m), m # 0, NEW us \in Change(ts, m)
  PROVE  /\ Table(us, m) /\ us[Names[m]] \in Goods(ts, m)
         /\ \A d \in Known(m) \ {Names[m]} : us[d] = ts[d]
         /\ \A T \in Goods(ts, m) : [us EXCEPT ![Names[m]] = T] \in Change(ts, m)
<1> DEFINE n == Names[m]
<1>1. m \in 1 .. Len(Names) /\ m \in Nat /\ n \in Known(m) /\ n # Root /\ DOMAIN ts = Known(m) /\ Function(ts)
  BY TableIs, NamesApart DEF Table
<1>2. PICK T \in Goods(ts, m) : us = [ts EXCEPT ![n] = T]
  BY DEF Change
<1>3. /\ us[n] = T /\ DOMAIN us = Known(m) /\ Function(us)
      /\ \A d \in Known(m) \ {n} : us[d] = ts[d]
  BY <1>1, <1>2 DEF Function
<1>4. \A U : [us EXCEPT ![n] = U] = [ts EXCEPT ![n] = U]
  BY <1>1, <1>2
<1>5. Root \in Known(m) \ {n} /\ us[Root] = CObject
  BY <1>1, <1>3 DEF Known, Table
<1>6. ASSUME NEW k \in 1 .. m
      PROVE  /\ us[Names[k]].kind = ts[Names[k]].kind /\ us[Names[k]].base = ts[Names[k]].base
             /\ Names[k] \in Known(m) /\ k \in 1 .. Len(Names)
             /\ us[Names[k]].base # NULL => us[Names[k]].base \in Known(k - 1) /\ us[Names[k]].base \in Known(m) \ {n}
  <2>1. k \in 1 .. Len(Names) /\ k \in Nat /\ k - 1 <= m - 1 /\ k <= m /\ Names[k] \in Known(m)
    BY <1>1 DEF Known
  <2>2. ts[Names[k]] \in TypeT(k)
    BY DEF Table, Made
  <2>3. us[Names[k]].kind = ts[Names[k]].kind /\ us[Names[k]].base = ts[Names[k]].base
    BY <1>3, <2>1 DEF Goods
  <2>4. ts[Names[k]].base \in Known(k - 1) \cup {NULL}
    BY <2>2 DEF TypeT
  <2>5. Known(k - 1) \subseteq Known(m) \ {n}
    BY <2>1, <1>1, KnownGrows, KnownNext
  <2> QED BY <2>1, <2>3, <2>4, <2>5
<1>7. ASSUME NEW k \in 1 .. m
      PROVE  /\ Made(k, us[Names[k]], Low(us, us[Names[k]]))
             /\ us[Names[k]].base # NULL => us[us[Names[k]].base].kind = "class"
  <2>1. Low(us, us[Names[k]]) = Low(ts, ts[Names[k]])
    BY <1>6, <1>3 DEF Low
  <2>2. Made(k, us[Names[k]], Low(ts, ts[Names[k]]))
    <3>1. CASE Names[k] = n
      <4>1. k = m
        BY <3>1, <1>1, <1>6, NamesApart
      <4> QED BY <4>1, <1>3 DEF Goods
    <3>2. CASE Names[k] # n
      BY <3>2, <1>3, <1>6 DEF Table
    <3> QED BY <3>1, <3>2
  <2>3. us[Names[k]].base # NULL => us[us[Names[k]].base].kind = "class"
    BY <1>6, <1>3 DEF Table
  <2> QED BY <2>1, <2>2, <2>3
<1>8. Table(us, m)
  BY <1>7, <1>5, <1>3 DEF Table
<1> QED BY <1>8, <1>3, <1>4 DEF Change
-----------------------------------------------------------------------------
(* What the declarations do to one type.                                   *)
Counting(T, c) == [T EXCEPT !.count = c]
PlusMember(T, x) == [T EXCEPT !.members = Append(@, x)]
FieldOf(T, name, s) == [kind |-> "field", name |-> name, at |-> Aligned(T.size, s), size |-> s]
PlusField(T, name, s) == [PlusMember(T, FieldOf(T, name, s)) EXCEPT !.size = Aligned(T.size, s) + s]
PlusImpl(T, j, at) == [T EXCEPT !.impls = <<[intf |-> j, at |-> at]>> \o @]

LEMMA AlignedIs ==
  ASSUME NEW size \in Nat, NEW s \in Nat
  PROVE  /\ Aligned(size, s) \in Nat /\ size <= Aligned(size, s)
         /\ s > 1 => Aligned(size, s) % 2 = 0
BY DEF Aligned

LEMMA LaidMore ==
  ASSUME NEW S, NEW members \in Seq(S), NEW x, NEW low \in Nat, NEW high \in Nat, NEW more \in Nat,
         \A k \in 1 .. Len(members) : members[k].kind = "field" => members[k].at \in Nat /\ members[k].size \in Nat,
         Laid(members, low, high), high <= more,
         x.kind = "field" => /\ x.at \in Nat /\ x.size \in Nat /\ low <= x.at /\ high <= x.at /\ x.at + x.size <= more
                             /\ x.size > 1 => x.at % 2 = 0
  PROVE  Laid(Append(members, x), low, more)
<1> DEFINE n == Len(members)
           both == Append(members, x)
<1>1. n \in Nat /\ Len(both) = n + 1 /\ (\A k \in 1 .. n : both[k] = members[k]) /\ both[n + 1] = x
  OBVIOUS
<1> HIDE DEF n, both
<1>2. ASSUME NEW k \in 1 .. n + 1, both[k].kind = "field"
      PROVE  /\ low <= both[k].at /\ both[k].at + both[k].size <= more
             /\ both[k].size > 1 => both[k].at % 2 = 0
  <2>1. CASE k = n + 1
    BY <2>1, <1>1, <1>2
  <2>2. CASE k \in 1 .. n
    <3>1. /\ low <= members[k].at /\ members[k].at + members[k].size <= high
          /\ members[k].size > 1 => members[k].at % 2 = 0
          /\ members[k].at \in Nat /\ members[k].size \in Nat
      BY <2>2, <1>1, <1>2 DEF Laid, n
    <3>2. both[k] = members[k]
      BY <2>2, <1>1
    <3>3. members[k].at + members[k].size <= more
      BY ONLY <3>1, high <= more, high \in Nat, more \in Nat
    <3> QED BY ONLY <3>1, <3>2, <3>3
  <2> QED BY <2>1, <2>2, <1>1
<1>3. ASSUME NEW k \in 1 .. n + 1, NEW l \in 1 .. n + 1, k < l, both[k].kind = "field", both[l].kind = "field"
      PROVE  both[k].at + both[k].size <= both[l].at
  <2>1. k \in 1 .. n /\ both[k] = members[k]
    BY <1>3, <1>1
  <2>2. CASE l = n + 1
    <3>1. members[k].at + members[k].size <= high /\ members[k].at \in Nat /\ members[k].size \in Nat
      BY <2>1, <1>3 DEF Laid, n
    <3>2. both[l] = x /\ x.kind = "field"
      BY <2>2, <1>1, <1>3
    <3>3. x.at \in Nat /\ high <= x.at
      BY <3>2
    <3> QED BY ONLY <3>1, <3>2, <3>3, <2>1, high \in Nat
  <2>3. CASE l \in 1 .. n
    BY <2>3, <2>1, <1>1, <1>3 DEF Laid, n
  <2> QED BY <2>2, <2>3, <1>1
<1> QED BY <1>2, <1>3, <1>1 DEF Laid, both

LEMMA GoodIs ==
  ASSUME NEW ts, NEW m, Table(ts, m), m # 0, NEW T \in Goods(ts, m)
  PROVE  /\ T \in TypeT(m) /\ m \in Nat /\ Low(ts, ts[Names[m]]) \in Nat
         /\ Made(m, T, Low(ts, ts[Names[m]])) /\ T.kind = ts[Names[m]].kind /\ T.base = ts[Names[m]].base
         /\ T.size \in Nat /\ T.count \in Int /\ T.members \in Seq(MemberT(m)) /\ T.impls \in Seq(ImplT(m))
         /\ Len(T.members) \in Nat /\ Len(T.impls) \in Nat
         /\ \A k \in 1 .. Len(T.members) : /\ T.members[k] \in MemberT(m)
                                           /\ T.members[k].kind = "field" => T.members[k].at \in Nat /\ T.members[k].size \in Nat
<1> DEFINE U == ts[Names[m]]
<1>1. U \in Goods(ts, m) /\ m \in 1 .. Len(Names) /\ m \in Nat
  BY TableIs
<1>2. U \in TypeT(m)
  BY <1>1 DEF Goods
<1>3. Low(ts, U) \in Nat
  <2>1. CASE U.base = NULL
    BY <2>1 DEF Low
  <2>2. CASE U.base # NULL
    <3>1. U.base \in Known(m - 1)
      BY <2>2, <1>2 DEF TypeT
    <3>2. CASE U.base = Root
      BY <3>2, <2>2 DEF Table, Low, CObject
    <3>3. CASE U.base # Root
      <4>1. PICK k \in 1 .. m - 1 : U.base = Names[k]
        BY <3>1, <3>3 DEF Known
      <4>2. k \in 1 .. m
        BY <1>1
      <4>3. ts[Names[k]] \in TypeT(k)
        BY <4>2 DEF Table, Made
      <4> QED BY <4>1, <4>3, <2>2 DEF Low, TypeT
    <3> QED BY <3>2, <3>3
  <2> QED BY <2>1, <2>2
<1>4. T \in TypeT(m) /\ Made(m, T, Low(ts, U)) /\ T.kind = U.kind /\ T.base = U.base
  BY DEF Goods
<1>5. T.size \in Nat /\ T.count \in Int /\ T.members \in Seq(MemberT(m)) /\ T.impls \in Seq(ImplT(m))
  BY <1>4 DEF TypeT
<1>6. ASSUME NEW k \in 1 .. Len(T.members)
      PROVE  T.members[k] \in MemberT(m) /\ (T.members[k].kind = "field" => T.members[k].at \in Nat /\ T.members[k].size \in Nat)
  <2>1. T.members[k] \in MemberT(m)
    BY <1>5
  <2> QED BY <2>1 DEF MemberT, FieldM, CodeM, MethodM, PropertyM
<1>7. Len(T.members) \in Nat /\ Len(T.impls) \in Nat
  BY <1>5
<1> QED BY <1>1, <1>3, <1>4, <1>5, <1>6, <1>7

LEMMA MakeGood ==
  ASSUME NEW ts, NEW m, NEW T \in TypeT(m), Made(m, T, Low(ts, ts[Names[m]])),
         T.kind = ts[Names[m]].kind, T.base = ts[Names[m]].base
  PROVE  T \in Goods(ts, m)
BY DEF Goods

LEMMA GoodCount ==
  ASSUME NEW ts, NEW m, Table(ts, m), m # 0, NEW T \in Goods(ts, m), NEW c \in Int
  PROVE  Counting(T, c) \in Goods(ts, m)
<1> DEFINE U == Counting(T, c)
           low == Low(ts, ts[Names[m]])
<1>1. T \in TypeT(m) /\ Made(m, T, low) /\ T.kind = ts[Names[m]].kind /\ T.base = ts[Names[m]].base
  BY GoodIs
<1>2. /\ U \in TypeT(m) /\ U.kind = T.kind /\ U.base = T.base /\ U.size = T.size /\ U.members = T.members
      /\ U.impls = T.impls
  BY <1>1 DEF TypeT, Counting
<1>3. Made(m, U, low)
  <2> HIDE DEF U, low
  <2> QED BY <1>1, <1>2 DEF Made, MadeClass, MadeInterface
<1> HIDE DEF U
<1> QED BY <1>1, <1>2, <1>3, MakeGood DEF low, U

LEMMA GoodCode ==
  ASSUME NEW ts, NEW m, Table(ts, m), m # 0, NEW T \in Goods(ts, m), NEW x \in CodeM(m)
  PROVE  PlusMember(T, x) \in Goods(ts, m)
<1> DEFINE U == PlusMember(T, x)
           low == Low(ts, ts[Names[m]])
           n == Len(T.members)
<1>1. /\ T \in TypeT(m) /\ Made(m, T, low) /\ T.kind = ts[Names[m]].kind /\ T.base = ts[Names[m]].base
      /\ T.members \in Seq(MemberT(m)) /\ low \in Nat /\ T.size \in Nat /\ n \in Nat
      /\ \A k \in 1 .. n : T.members[k].kind = "field" => T.members[k].at \in Nat /\ T.members[k].size \in Nat
  BY GoodIs
<1>2. x \in MemberT(m) /\ x.kind # "field"
  BY DEF MemberT, CodeM, MethodM, PropertyM
<1>3. Append(T.members, x) \in Seq(MemberT(m))
  BY <1>1, <1>2
<1>4. /\ U \in TypeT(m) /\ U.kind = T.kind /\ U.base = T.base /\ U.size = T.size /\ U.members = Append(T.members, x)
      /\ U.impls = T.impls
  BY <1>1, <1>3 DEF TypeT, PlusMember
<1> HIDE DEF U, low
<1>5. CASE MadeClass(m, T, low)
  <2>1. Laid(T.members, low, T.size)
    BY <1>5 DEF MadeClass
  <2>2. Laid(Append(T.members, x), low, T.size)
    <3>1. T.size <= T.size
      BY <1>1
    <3> QED BY ONLY <3>1, <2>1, <1>1, <1>2, LaidMore
  <2>3. MadeClass(m, U, low)
    BY <2>2, <1>4, <1>5 DEF MadeClass
  <2> QED BY <2>3, <1>1, <1>4, MakeGood DEF Made, low, U
<1>6. CASE MadeInterface(m, T)
  <2>1. \A i \in 1 .. Len(U.members) : U.members[i] \in CodeM(m)
    BY <1>6, <1>4, <1>1 DEF MadeInterface
  <2>2. MadeInterface(m, U)
    BY <2>1, <1>4, <1>6 DEF MadeInterface
  <2> QED BY <2>2, <1>1, <1>4, MakeGood DEF Made, low, U
<1> QED BY <1>1, <1>5, <1>6 DEF Made

LEMMA GoodField ==
  ASSUME NEW ts, NEW m, Table(ts, m), m # 0, NEW T \in Goods(ts, m), T.kind = "class", NEW name \in Word, NEW s \in Nat
  PROVE  PlusField(T, name, s) \in Goods(ts, m)
<1> DEFINE x == FieldOf(T, name, s)
           U == PlusField(T, name, s)
           low == Low(ts, ts[Names[m]])
           n == Len(T.members)
           more == Aligned(T.size, s) + s
<1>1. /\ T \in TypeT(m) /\ Made(m, T, low) /\ T.kind = ts[Names[m]].kind /\ T.base = ts[Names[m]].base
      /\ T.members \in Seq(MemberT(m)) /\ low \in Nat /\ T.size \in Nat /\ n \in Nat
      /\ T.impls \in Seq(ImplT(m)) /\ Len(T.impls) \in Nat
      /\ \A k \in 1 .. n : T.members[k].kind = "field" => T.members[k].at \in Nat /\ T.members[k].size \in Nat
  BY GoodIs
<1>2. Aligned(T.size, s) \in Nat /\ T.size <= Aligned(T.size, s) /\ (s > 1 => Aligned(T.size, s) % 2 = 0)
  BY <1>1, AlignedIs
<1>3. x \in FieldM /\ x.at = Aligned(T.size, s) /\ x.size = s
  BY <1>2 DEF FieldM, FieldOf
<1>4. Append(T.members, x) \in Seq(MemberT(m)) /\ more \in Nat /\ T.size <= more
  BY <1>1, <1>2, <1>3 DEF MemberT
<1>5. /\ U \in TypeT(m) /\ U.kind = T.kind /\ U.base = T.base /\ U.size = more /\ U.members = Append(T.members, x)
      /\ U.impls = T.impls
  BY <1>1, <1>4 DEF TypeT, PlusMember, PlusField
<1> HIDE DEF U, low, x
<1>6. MadeClass(m, T, low)
  BY <1>1 DEF Made, MadeInterface
<1>7. Laid(T.members, low, T.size) /\ low <= T.size /\ 4 <= T.size
  BY <1>6 DEF MadeClass
<1>8. low <= x.at /\ x.at + x.size <= more /\ T.size <= x.at /\ x.at \in Nat /\ x.size \in Nat
      /\ (x.size > 1 => x.at % 2 = 0)
  BY <1>7, <1>2, <1>3, <1>1
<1>9. Laid(Append(T.members, x), low, more)
  <2> HIDE DEF more
  <2> QED BY <1>1, <1>4, <1>7, <1>8, LaidMore
<1>10. low <= more /\ 4 <= more
  <2> HIDE DEF more
  <2> QED BY <1>1, <1>4, <1>7
<1>11. \A i \in 1 .. Len(T.impls) : T.impls[i].at + 4 <= more
  <2> TAKE i \in 1 .. Len(T.impls)
  <2>1. T.impls[i].at + 4 <= T.size
    BY <1>6 DEF MadeClass
  <2>2. T.impls[i].at \in Nat
    <3>1. T.impls[i] \in ImplT(m)
      BY <1>1
    <3> QED BY <3>1 DEF ImplT
  <2> HIDE DEF more
  <2> QED BY <2>1, <2>2, <1>1, <1>4
<1> HIDE DEF more
<1>12. MadeClass(m, U, low)
  BY <1>5, <1>6, <1>9, <1>10, <1>11 DEF MadeClass
<1> QED BY <1>12, <1>1, <1>5, MakeGood DEF Made, low, U

LEMMA GoodImpl ==
  ASSUME NEW ts, NEW m, Table(ts, m), m # 0, NEW T \in Goods(ts, m), NEW j \in Known(m - 1), NEW at \in Nat,
         T.kind = "class" => at + 4 <= T.size
  PROVE  PlusImpl(T, j, at) \in Goods(ts, m)
<1> DEFINE one == <<[intf |-> j, at |-> at]>>
           U == PlusImpl(T, j, at)
           low == Low(ts, ts[Names[m]])
<1>1. /\ T \in TypeT(m) /\ Made(m, T, low) /\ T.kind = ts[Names[m]].kind /\ T.base = ts[Names[m]].base
      /\ T.impls \in Seq(ImplT(m)) /\ Len(T.impls) \in Nat
  BY GoodIs
<1>2. one \in Seq(ImplT(m)) /\ Len(one) = 1 /\ one[1].at = at
  BY DEF ImplT
<1> HIDE DEF one
<1>3. /\ one \o T.impls \in Seq(ImplT(m)) /\ Len(one \o T.impls) = 1 + Len(T.impls)
      /\ \A i \in 1 .. 1 + Len(T.impls) : (one \o T.impls)[i] = IF i <= 1 THEN one[i] ELSE T.impls[i - 1]
  <2>1. /\ one \o T.impls \in Seq(ImplT(m)) /\ Len(one \o T.impls) = Len(one) + Len(T.impls)
        /\ \A i \in 1 .. Len(one) + Len(T.impls) :
             (one \o T.impls)[i] = IF i <= Len(one) THEN one[i] ELSE T.impls[i - Len(one)]
    BY <1>1, <1>2, ConcatProperties
  <2> QED BY <2>1, <1>2
<1>4. /\ U \in TypeT(m) /\ U.kind = T.kind /\ U.base = T.base /\ U.size = T.size /\ U.members = T.members
      /\ U.impls = one \o T.impls
  BY <1>1, <1>3 DEF TypeT, PlusImpl, one
<1> HIDE DEF U, low
<1>5. CASE MadeClass(m, T, low)
  <2>1. \A i \in 1 .. Len(U.impls) : U.impls[i].at + 4 <= U.size
    <3>1. SUFFICES ASSUME NEW i \in 1 .. 1 + Len(T.impls)
                   PROVE  (one \o T.impls)[i].at + 4 <= T.size
      BY <1>3, <1>4
    <3>2. CASE i = 1
      <4>1. (one \o T.impls)[i] = one[1]
        BY <3>2, <1>3
      <4> QED BY <4>1, <1>2, <1>5 DEF MadeClass
    <3>3. CASE i # 1
      <4>1. i - 1 \in 1 .. Len(T.impls) /\ ~(i <= 1)
        BY <3>3, <1>1
      <4>2. (one \o T.impls)[i] = T.impls[i - 1]
        BY <4>1, <1>3
      <4>3. T.impls[i - 1].at + 4 <= T.size
        BY <4>1, <1>5 DEF MadeClass
      <4> QED BY <4>2, <4>3
    <3> QED BY <3>2, <3>3
  <2>2. MadeClass(m, U, low)
    BY <2>1, <1>4, <1>5 DEF MadeClass
  <2> QED BY <2>2, <1>1, <1>4, MakeGood DEF Made, low, U
<1>6. CASE MadeInterface(m, T)
  <2>1. MadeInterface(m, U)
    BY <1>4, <1>6 DEF MadeInterface
  <2> QED BY <2>1, <1>1, <1>4, MakeGood DEF Made, low, U
<1> QED BY <1>1, <1>5, <1>6 DEF Made
-----------------------------------------------------------------------------
(* The loop over the interfaces visited.                                   *)
VisitStep(acc, c, j) ==
  With(acc, LAMBDA t :
         IF \E k \in DOMAIN t[c].impls : t[c].impls[k].intf = j THEN t
         ELSE LET at == Aligned(t[c].size, 4)
              IN [AddField(t, c, "__intf_vtable_" \o j, 4)
                    EXCEPT ![c].impls = <<[intf |-> j, at |-> at]>> \o @])
VisitOne(t, c, j) ==
  IF \E k \in DOMAIN t[c].impls : t[c].impls[k].intf = j THEN t
  ELSE [AddField(t, c, "__intf_vtable_" \o j, 4)
          EXCEPT ![c].impls = <<[intf |-> j, at |-> Aligned(t[c].size, 4)]>> \o @]
VisitLoop(ts, c, list) ==
  FoldLeft(LAMBDA acc, j :
             With(acc, LAMBDA t :
               IF \E k \in DOMAIN t[c].impls : t[c].impls[k].intf = j THEN t
               ELSE LET at == Aligned(t[c].size, 4)
                    IN [AddField(t, c, "__intf_vtable_" \o j, 4)
                          EXCEPT ![c].impls = <<[intf |-> j, at |-> at]>> \o @]),
           ts, list)

LEMMA VisitStepIs == ASSUME NEW t, NEW c, NEW j PROVE VisitStep(t, c, j) = VisitOne(t, c, j)
BY DEF VisitStep, VisitOne, With

LEMMA VisitLoopIs ==
  ASSUME NEW ts, NEW c, NEW i
  PROVE  _clsAddIntfImplRecursive(ts, c, i) = VisitLoop(ts, c, Visited(ts, i))
BY DEF _clsAddIntfImplRecursive, VisitLoop

LEMMA VisitKeeps ==
  ASSUME NEW ts, NEW c, NEW list, Len(list) \in Nat, DOMAIN list = 1 .. Len(list), NEW V, ts \in V,
         \A k \in 1 .. Len(list) : \A v \in V : VisitOne(v, c, list[k]) \in V
  PROVE  VisitLoop(ts, c, list) \in V
<1> DEFINE seq == list
           n == Len(seq)
           base == ts
           G == [k \in 1 .. n |-> [v \in V |-> VisitOne(v, c, seq[k])]]
           Body(it, s) == VisitStep(it[s \ {Max(s)}], c, seq[Max(s)])
           Eq(it) == it = [s \in SUBSET (DOMAIN seq) |-> IF s = {} THEN base ELSE Body(it, s)]
<1>1. n \in Nat /\ base \in V /\ DOMAIN seq = 1 .. n
  OBVIOUS
<1>2. G \in [1 .. n -> [V -> V]]
  OBVIOUS
<1>3. \A s \in SUBSET (1 .. n) : s # {} => Max(s) \in s /\ Max(s) \in 1 .. n /\ s \ {Max(s)} \in SUBSET (1 .. n)
  BY ONLY <1>1, MaxIn
<1>4. \E it : Eq(it)
  <2>1. PICK it \in [SUBSET (1 .. n) -> V] : FoldFcn(it, n, base, G)
    <3> HIDE DEF n, G, base
    <3> QED BY <1>1, <1>2, FoldExists
  <2>2. \A s \in SUBSET (1 .. n) : s # {} => G[Max(s)][it[s \ {Max(s)}]] = Body(it, s)
    <3> HIDE DEF seq, n, base
    <3> QED BY <1>3, <2>1, VisitStepIs
  <2>3. \A s \in SUBSET (1 .. n) : it[s] = IF s = {} THEN base ELSE Body(it, s)
    <3> HIDE DEF Body, G, base, n, seq
    <3> QED BY <2>1, <2>2 DEF FoldFcn
  <2>4. it = [s \in SUBSET (DOMAIN seq) |-> it[s]]
    BY <2>1, <1>1
  <2>5. Eq(it)
    <3> HIDE DEF Body, base, n, seq
    <3> QED BY <2>3, <2>4, <1>1
  <2> HIDE DEF Eq
  <2> QED BY <2>5
<1> DEFINE it == CHOOSE it : Eq(it)
<1>5. Eq(it)
  BY <1>4
<1>6. VisitLoop(ts, c, list) = it[DOMAIN seq]
  BY DEF VisitLoop, VisitStep, FoldLeft, MapThenFoldSet
<1>7. it[{}] = base
  BY <1>5
<1>8. \A s \in SUBSET (1 .. n) :
        s # {} /\ it[s \ {Max(s)}] \in V => it[s] = G[Max(s)][it[s \ {Max(s)}]]
  <2> TAKE s \in SUBSET (1 .. n)
  <2> HAVE s # {} /\ it[s \ {Max(s)}] \in V
  <2>1. it[s] = Body(it, s)
    <3> HIDE DEF it, Body
    <3> QED BY <1>5, <1>1
  <2> HIDE DEF it, seq, n, base
  <2> QED BY <2>1, <1>3, VisitStepIs
<1>9. it[1 .. n] \in V
  <2> HIDE DEF n, G, it, base
  <2>1. GoesOn(it, n, V, base, G)
    BY <1>7, <1>8 DEF GoesOn
  <2> QED BY <1>1, <1>2, <2>1, FoldStays
<1> HIDE DEF it, n
<1> QED BY <1>1, <1>6, <1>9

-----------------------------------------------------------------------------
(* The recursions over base classes and interfaces.                        *)
LEMMA RankIs ==
  ASSUME NEW m \in 0 .. Len(Names)
  PROVE  \E rank \in [Known(m) -> 0 .. m] :
            \A k \in 0 .. m : \A d \in Known(m) : d \in Known(k) <=> rank[d] <= k
<1> DEFINE P(d, j) == j \in 0 .. m /\ \A k \in 0 .. m : d \in Known(k) <=> j <= k
<1>1. \A d \in Known(m) : \E j : P(d, j)
  <2> TAKE d \in Known(m)
  <2>1. m \in Nat /\ Len(Names) \in Nat
    BY NamesApart
  <2>2. CASE d = Root
    <3>1. P(d, 0)
      BY <2>1, <2>2 DEF Known
    <3> QED BY <3>1
  <2>3. CASE d # Root
    <3>1. PICK j \in 1 .. m : d = Names[j]
      BY <2>3 DEF Known
    <3>2. \A k \in 0 .. m : d \in Known(k) => j <= k
      <4> TAKE k \in 0 .. m
      <4> HAVE d \in Known(k)
      <4>1. PICK i \in 1 .. k : d = Names[i]
        BY <2>3 DEF Known
      <4>2. i = j
        <5>1. i \in 1 .. Len(Names) /\ j \in 1 .. Len(Names)
          BY <2>1
        <5>2. Names[i] = Names[j]
          BY <4>1, <3>1
        <5> QED BY ONLY <5>1, <5>2, NamesApart
      <4> QED BY <4>1, <4>2
    <3>3. \A k \in 0 .. m : j <= k => d \in Known(k)
      BY <3>1 DEF Known
    <3>4. P(d, j)
      BY <3>1, <3>2, <3>3
    <3> QED BY <3>4
  <2> QED BY <2>2, <2>3
<1> DEFINE rank == [d \in Known(m) |-> CHOOSE j : P(d, j)]
<1>2. \A d \in Known(m) : P(d, rank[d])
  BY <1>1
<1>3. \A d \in Known(m) : rank[d] \in 0 .. m
  BY <1>2
<1> HIDE DEF P
<1>4. rank \in [Known(m) -> 0 .. m]
  BY <1>3
<1> HIDE DEF rank
<1>5. \A k \in 0 .. m : \A d \in Known(m) : d \in Known(k) <=> rank[d] <= k
  BY <1>2 DEF P
<1> QED BY <1>4, <1>5

LEMMA BaseIs ==
  ASSUME NEW ts, NEW m, Table(ts, m), NEW d \in Known(m), ts[d].base # NULL
  PROVE  \E k \in 1 .. m : d = Names[k] /\ ts[d].base \in Known(k - 1) /\ ts[d].base \in Known(m)
<1>1. d # Root
  BY DEF Table, CObject
<1>2. PICK k \in 1 .. m : d = Names[k]
  BY <1>1 DEF Known
<1>3. ts[d] \in TypeT(k)
  BY <1>2 DEF Table, Made
<1>4. ts[d].base \in Known(k - 1)
  BY <1>3 DEF TypeT
<1>5. Known(k - 1) \subseteq Known(m)
  BY KnownGrows DEF Table
<1> QED BY <1>2, <1>4, <1>5

ChainBody(ts, d, up) == IF ts[d].base = NULL THEN <<d>> ELSE <<d>> \o up[ts[d].base]

LEMMA ChainIs ==
  ASSUME NEW ts, NEW m, Table(ts, m), NEW c \in Known(m)
  PROVE  Chain(ts, c) = IF ts[c].base = NULL THEN <<c>> ELSE <<c>> \o Chain(ts, ts[c].base)
<1> DEFINE D == Known(m)
           V == Seq(D)
           B == [d \in D |-> [f \in [D -> V] |-> ChainBody(ts, d, f)]]
           Eq(up) == up = [d \in DOMAIN ts |-> ChainBody(ts, d, up)]
<1>1. m \in Nat /\ DOMAIN ts = D /\ m \in 0 .. Len(Names)
  BY NamesApart DEF Table
<1>2. PICK rank \in [D -> 0 .. m] : \A k \in 0 .. m : \A d \in D : d \in Known(k) <=> rank[d] <= k
  BY <1>1, RankIs
<1>3. \A d \in D : ts[d].base # NULL => ts[d].base \in D /\ rank[ts[d].base] < rank[d]
  <2> SUFFICES ASSUME NEW d \in D, ts[d].base # NULL PROVE ts[d].base \in D /\ rank[ts[d].base] < rank[d]
    OBVIOUS
  <2>1. PICK k \in 1 .. m : d = Names[k] /\ ts[d].base \in Known(k - 1) /\ ts[d].base \in D
    BY BaseIs
  <2>2. k \in 1 .. Len(Names) /\ k - 1 \in 0 .. m
    BY <1>1, NamesApart
  <2>3. d \notin Known(k - 1)
    BY <2>1, <2>2, NamesApart
  <2>4. ~(rank[d] <= k - 1) /\ rank[ts[d].base] <= k - 1
    BY <2>1, <2>2, <2>3, <1>2
  <2> QED BY <2>4, <2>1, <2>2
<1>4. B \in [D -> [[D -> V] -> V]]
  <2>1. \A d \in D : \A f \in [D -> V] : ChainBody(ts, d, f) \in V
    <3> TAKE d \in D
    <3> TAKE f \in [D -> V]
    <3>1. <<d>> \in V
      OBVIOUS
    <3>2. ts[d].base # NULL => f[ts[d].base] \in V
      BY <1>3
    <3> HIDE DEF D
    <3> QED BY <3>1, <3>2 DEF ChainBody
  <2> QED BY <2>1
<1>5. \A d \in D : \A f, g \in [D -> V] :
        (\A e \in D : rank[e] < rank[d] => f[e] = g[e]) => B[d][f] = B[d][g]
  BY <1>3 DEF ChainBody
<1>6. <<>> \in V
  OBVIOUS
<1>7. PICK f \in [D -> V] : \A d \in D : f[d] = B[d][f]
  <2>1. Ranked(D, V, m, rank, B)
    <3> HIDE DEF D, V, B
    <3> QED BY <1>2, <1>4, <1>5 DEF Ranked
  <2> HIDE DEF D, V, B
  <2> QED BY <2>1, <1>1, <1>6, RankedExists
<1>8. Eq(f)
  <2>1. f = [d \in D |-> f[d]]
    BY <1>7
  <2>2. \A d \in D : f[d] = ChainBody(ts, d, f)
    BY <1>7
  <2> QED BY <2>1, <2>2, <1>1
<1> DEFINE up == CHOOSE up : Eq(up)
<1>9. Eq(up)
  BY <1>8
<1>10. \A e : Chain(ts, e) = up[e]
  BY DEF Chain, ChainBody
<1>11. up[c] = ChainBody(ts, c, up)
  <2> HIDE DEF up
  <2> QED BY <1>9, <1>1
<1> HIDE DEF up
<1> QED BY <1>10, <1>11 DEF ChainBody

(* The k-th type only refers to what is known before it.                   *)
LEMMA RefersBack ==
  ASSUME NEW ts, NEW m, Table(ts, m), NEW k \in 1 .. m, NEW d \in Known(k), d \notin Known(k - 1)
  PROVE  /\ d = Names[k] /\ d \in Known(m) /\ ts[d].base \in Known(k - 1) \cup {NULL}
         /\ ts[d].impls \in Seq(ImplT(k))
<1>1. k \in 1 .. Len(Names) /\ k <= m /\ k \in Int /\ m \in Int
  BY NamesApart DEF Table
<1>2. d = Names[k] /\ d \in Known(m)
  <2>1. Known(k - 1) = Known(k) \ {Names[k]}
    BY <1>1, KnownNext
  <2>2. Known(k) \subseteq Known(m)
    BY ONLY <1>1, KnownGrows
  <2> QED BY <2>1, <2>2
<1>3. ts[d] \in TypeT(k)
  BY <1>2 DEF Table, Made
<1> QED BY <1>2, <1>3 DEF TypeT

LEMMA ChainType ==
  ASSUME NEW ts, NEW m, Table(ts, m), NEW c \in Known(m)
  PROVE  Chain(ts, c) \in Seq(Known(m))
<1> DEFINE D == Known(m)
           P(d) == Chain(ts, d) \in Seq(D)
           T == {k \in 0 .. m : \A d \in Known(k) : P(d)}
<1>1. m \in Nat /\ \A k \in 0 .. m : Known(k) \subseteq D
  BY NamesApart, KnownGrows DEF Table
<1>2. 0 \in T
  <2>1. \A d \in Known(0) : d = Root /\ d \in D
    BY DEF Known
  <2>2. Chain(ts, Root) = <<Root>>
    <3>1. ts[Root].base = NULL /\ Root \in D
      BY DEF Table, CObject, Known
    <3> QED BY <3>1, ChainIs
  <2>3. P(Root)
    BY <2>2 DEF Known
  <2> HIDE DEF P
  <2> QED BY <2>1, <2>3, <1>1
<1>3. \A k \in 0 .. m - 1 : k \in T => k + 1 \in T
  <2> SUFFICES ASSUME NEW k \in 0 .. m - 1, k \in T, NEW d \in Known(k + 1), d \notin Known(k)
               PROVE  P(d)
    <3> HIDE DEF P
    <3>1. \A k \in 0 .. m - 1 : k + 1 \in 0 .. m
      BY <1>1
    <3> QED BY <3>1
  <2>1. k + 1 \in 1 .. m /\ (k + 1) - 1 = k
    BY <1>1
  <2>2. d \in D /\ ts[d].base \in Known(k) \cup {NULL}
    BY <2>1, RefersBack
  <2>3. <<d>> \in Seq(D)
    BY <2>2
  <2>4. CASE ts[d].base = NULL
    BY <2>2, <2>3, <2>4, ChainIs
  <2>5. CASE ts[d].base # NULL
    <3>1. Chain(ts, ts[d].base) \in Seq(D)
      BY <2>2, <2>5
    <3>2. Chain(ts, d) = <<d>> \o Chain(ts, ts[d].base)
      BY <2>2, <2>5, ChainIs
    <3> HIDE DEF D
    <3> QED BY ONLY <3>1, <3>2, <2>3, ConcatProperties
  <2> QED BY <2>4, <2>5
<1>4. 0 .. m \subseteq T
  <2> HIDE DEF T
  <2> QED BY ONLY <1>1, <1>2, <1>3, Induction
<1> QED BY <1>4, <1>1

VisitedBody(ts, j, from) == <<j>> \o FlattenSeq([k \in DOMAIN ts[j].impls |-> from[ts[j].impls[k].intf]])

LEMMA ImplsIs ==
  ASSUME NEW ts, NEW m, Table(ts, m), NEW k \in 0 .. m, NEW d \in Known(k)
  PROVE  /\ DOMAIN ts[d].impls = 1 .. Len(ts[d].impls) /\ Len(ts[d].impls) \in Nat
         /\ \A i \in 1 .. Len(ts[d].impls) :
              ts[d].impls[i].intf \in Known(k) /\ (k > 0 /\ d \notin Known(k - 1) => ts[d].impls[i].intf \in Known(k - 1))
<1> DEFINE impls == ts[d].impls
<1>1. m \in Nat /\ k \in Nat /\ m \in 0 .. Len(Names) /\ \A i \in 0 .. m : i \in Nat
  BY NamesApart DEF Table
<1>2. CASE d = Root
  <2>1. impls = <<>>
    BY <1>2 DEF Table, CObject
  <2> QED BY <2>1
<1>3. CASE d # Root
  <2>1. PICK j \in 1 .. k : d = Names[j]
    BY <1>3 DEF Known
  <2>2. j \in 1 .. m /\ j \in Nat /\ j <= k /\ (j = k \/ d \in Known(k - 1))
    BY <2>1, <1>1 DEF Known
  <2>3. ts[d] \in TypeT(j)
    BY <2>1, <2>2 DEF Table, Made
  <2>4. impls \in Seq(ImplT(j))
    BY <2>3 DEF TypeT
  <2>5. \A i \in 1 .. Len(impls) : impls[i].intf \in Known(j - 1)
    <3> TAKE i \in 1 .. Len(impls)
    <3>1. impls[i] \in ImplT(j)
      BY <2>4
    <3> QED BY <3>1 DEF ImplT
  <2>6. Known(j - 1) \subseteq Known(k)
    <3>1. j - 1 \in Int /\ k \in Int /\ j - 1 <= k
      BY <2>2, <1>1
    <3> QED BY ONLY <3>1, KnownGrows
  <2>7. DOMAIN impls = 1 .. Len(impls) /\ Len(impls) \in Nat
    BY <2>4
  <2> QED BY <2>2, <2>5, <2>6, <2>7
<1> QED BY <1>2, <1>3

LEMMA VisitedIs ==
  ASSUME NEW ts, NEW m, Table(ts, m), NEW c \in Known(m)
  PROVE  Visited(ts, c) = <<c>> \o FlattenSeq([k \in DOMAIN ts[c].impls |-> Visited(ts, ts[c].impls[k].intf)])
<1> DEFINE D == Known(m)
           V == Seq(D)
           B == [d \in D |-> [f \in [D -> V] |-> VisitedBody(ts, d, f)]]
           Eq(from) == from = [d \in DOMAIN ts |-> VisitedBody(ts, d, from)]
<1>1. m \in Nat /\ DOMAIN ts = D /\ m \in 0 .. Len(Names)
  BY NamesApart DEF Table
<1>2. PICK rank \in [D -> 0 .. m] : \A k \in 0 .. m : \A d \in D : d \in Known(k) <=> rank[d] <= k
  BY <1>1, RankIs
<1>3. \A d \in D : /\ DOMAIN ts[d].impls = 1 .. Len(ts[d].impls) /\ Len(ts[d].impls) \in Nat
                   /\ \A i \in 1 .. Len(ts[d].impls) :
                        ts[d].impls[i].intf \in D /\ rank[ts[d].impls[i].intf] < rank[d]
  <2> TAKE d \in D
  <2>1. m \in 0 .. m
    BY <1>1
  <2>2. /\ DOMAIN ts[d].impls = 1 .. Len(ts[d].impls) /\ Len(ts[d].impls) \in Nat
        /\ \A i \in 1 .. Len(ts[d].impls) : ts[d].impls[i].intf \in D
    BY <2>1, ImplsIs
  <2>3. ASSUME NEW i \in 1 .. Len(ts[d].impls) PROVE rank[ts[d].impls[i].intf] < rank[d]
    <3> DEFINE k == rank[d]
               j == ts[d].impls[i].intf
    <3>1. k \in 0 .. m /\ k \in Nat /\ d \in Known(k) /\ j \in D
      BY <1>1, <1>2, <2>2, <2>3
    <3>2. CASE k = 0
      <4>1. d = Root
        BY <3>1, <3>2 DEF Known
      <4>2. ts[d].impls = <<>>
        BY <4>1 DEF Table, CObject
      <4> QED BY <4>2, <2>3
    <3>3. CASE k > 0
      <4>1. k - 1 \in 0 .. m /\ ~(k <= k - 1)
        <5> HIDE DEF k
        <5> QED BY <1>1, <3>1, <3>3
      <4>2. d \notin Known(k - 1)
        BY <4>1, <1>2
      <4>3. j \in Known(k - 1)
        BY <3>1, <3>3, <4>2, <2>3, ImplsIs
      <4>4. rank[j] <= k - 1 /\ rank[j] \in 0 .. m
        BY <4>1, <4>3, <3>1, <1>2
      <4> QED BY <4>4, <3>1, <1>1
    <3> QED BY <3>1, <3>2, <3>3
  <2> QED BY <2>2, <2>3
<1>4. B \in [D -> [[D -> V] -> V]]
  <2>1. \A d \in D : \A f \in [D -> V] : VisitedBody(ts, d, f) \in V
    <3> TAKE d \in D
    <3> TAKE f \in [D -> V]
    <3> DEFINE ss == [k \in DOMAIN ts[d].impls |-> f[ts[d].impls[k].intf]]
    <3>1. <<d>> \in V
      OBVIOUS
    <3>2. ss \in Seq(V)
      <4>1. \A k \in 1 .. Len(ts[d].impls) : f[ts[d].impls[k].intf] \in V
        BY <1>3
      <4>2. ss \in [1 .. Len(ts[d].impls) -> V]
        <5> HIDE DEF V
        <5> QED BY <4>1, <1>3
      <4> HIDE DEF V, ss
      <4> QED BY <4>2, <1>3, IsASequence
    <3>3. FlattenSeq(ss) \in V
      <4> HIDE DEF ss, D
      <4> QED BY <3>2, FlattenSeqType
    <3> HIDE DEF D, ss
    <3>4. <<d>> \o FlattenSeq(ss) \in V
      BY <3>1, <3>3, ConcatProperties
    <3> QED BY <3>4 DEF VisitedBody, ss
  <2> HIDE DEF D, V
  <2> QED BY <2>1
<1>5. \A d \in D : \A f, g \in [D -> V] :
        (\A e \in D : rank[e] < rank[d] => f[e] = g[e]) => B[d][f] = B[d][g]
  <2> SUFFICES ASSUME NEW d \in D, NEW f \in [D -> V], NEW g \in [D -> V],
                      \A e \in D : rank[e] < rank[d] => f[e] = g[e]
               PROVE  VisitedBody(ts, d, f) = VisitedBody(ts, d, g)
    OBVIOUS
  <2>1. [k \in DOMAIN ts[d].impls |-> f[ts[d].impls[k].intf]] = [k \in DOMAIN ts[d].impls |-> g[ts[d].impls[k].intf]]
    BY <1>3
  <2> QED BY ONLY <2>1 DEF VisitedBody
<1>6. <<>> \in V
  OBVIOUS
<1>7. PICK f \in [D -> V] : \A d \in D : f[d] = B[d][f]
  <2>1. Ranked(D, V, m, rank, B)
    <3> HIDE DEF D, V, B
    <3> QED BY <1>2, <1>4, <1>5 DEF Ranked
  <2> HIDE DEF D, V, B
  <2> QED BY <2>1, <1>1, <1>6, RankedExists
<1>8. Eq(f)
  <2>1. f = [d \in D |-> f[d]]
    BY <1>7
  <2>2. \A d \in D : f[d] = VisitedBody(ts, d, f)
    BY <1>7
  <2> QED BY <2>1, <2>2, <1>1
<1> DEFINE from == CHOOSE from : Eq(from)
<1>9. Eq(from)
  BY <1>8
<1>10. \A e : Visited(ts, e) = from[e]
  BY DEF Visited, VisitedBody
<1>11. from[c] = VisitedBody(ts, c, from)
  <2> HIDE DEF from
  <2> QED BY <1>9, <1>1
<1> HIDE DEF from
<1> QED BY <1>10, <1>11 DEF VisitedBody

LEMMA VisitedType ==
  ASSUME NEW ts, NEW m, Table(ts, m), NEW j \in 0 .. m, NEW c \in Known(j)
  PROVE  Visited(ts, c) \in Seq(Known(j))
<1> DEFINE P(k, d) == Visited(ts, d) \in Seq(Known(k))
           T == {k \in 0 .. m : \A d \in Known(k) : P(k, d)}
<1>1. m \in Nat /\ \A k \in 0 .. m : Known(k) \subseteq Known(m)
  BY NamesApart, KnownGrows DEF Table
<1>2. 0 \in T
  <2>1. \A d \in Known(0) : d = Root
    BY DEF Known
  <2>2. Visited(ts, Root) = <<Root>>
    <3>1. ts[Root].impls = <<>> /\ Root \in Known(m)
      BY DEF Table, CObject, Known
    <3>2. Visited(ts, Root) = <<Root>> \o FlattenSeq([k \in DOMAIN ts[Root].impls |-> Visited(ts, ts[Root].impls[k].intf)])
      BY <3>1, VisitedIs
    <3>3. [k \in DOMAIN ts[Root].impls |-> Visited(ts, ts[Root].impls[k].intf)] = <<>>
      BY <3>1
    <3>4. FlattenSeq(<<>>) = <<>>
      BY DEF FlattenSeq
    <3>5. <<Root>> \in Seq({Root})
      OBVIOUS
    <3> QED BY <3>2, <3>3, <3>4, <3>5, ConcatEmptySeq
  <2>3. P(0, Root)
    BY <2>2 DEF Known
  <2> HIDE DEF P
  <2> QED BY <2>1, <2>3, <1>1
<1>3. \A k \in 0 .. m - 1 : k \in T => k + 1 \in T
  <2> SUFFICES ASSUME NEW k \in 0 .. m - 1, k \in T, NEW d \in Known(k + 1)
               PROVE  P(k + 1, d)
    <3> HIDE DEF P
    <3>1. \A k \in 0 .. m - 1 : k + 1 \in 0 .. m
      BY <1>1
    <3> QED BY <3>1
  <2>1. k + 1 \in 0 .. m /\ (k + 1) - 1 = k /\ k + 1 > 0 /\ k \in Int /\ k + 1 \in Int /\ k <= k + 1
    BY <1>1
  <2>2. Known(k) \subseteq Known(k + 1) /\ d \in Known(m)
    BY <2>1, <1>1, KnownGrows
  <2>3. Seq(Known(k)) \subseteq Seq(Known(k + 1))
    BY <2>2, SeqMonotonic
  <2>4. CASE d \in Known(k)
    BY <2>4, <2>3
  <2>5. CASE d \notin Known(k)
    <3> DEFINE ss == [i \in DOMAIN ts[d].impls |-> Visited(ts, ts[d].impls[i].intf)]
               S == Known(k + 1)
    <3>1. /\ DOMAIN ts[d].impls = 1 .. Len(ts[d].impls) /\ Len(ts[d].impls) \in Nat
          /\ \A i \in 1 .. Len(ts[d].impls) : ts[d].impls[i].intf \in Known(k)
      <4>1. d \notin Known((k + 1) - 1)
        BY <2>1, <2>5
      <4>2. Known((k + 1) - 1) = Known(k)
        BY <2>1
      <4> QED BY <2>1, <4>1, <4>2, ImplsIs
    <3>2. \A i \in 1 .. Len(ts[d].impls) : ss[i] \in Seq(S)
      BY <3>1, <2>3
    <3>3. ss \in Seq(Seq(S))
      <4>1. ss \in [1 .. Len(ts[d].impls) -> Seq(S)]
        <5> HIDE DEF S
        <5> QED BY <3>1, <3>2
      <4> HIDE DEF S, ss
      <4> QED BY <4>1, <3>1, IsASequence
    <3>4. <<d>> \in Seq(S)
      OBVIOUS
    <3>5. Visited(ts, d) = <<d>> \o FlattenSeq(ss)
      BY <2>2, VisitedIs
    <3> HIDE DEF S, ss
    <3>6. FlattenSeq(ss) \in Seq(S)
      BY <3>3, FlattenSeqType
    <3>7. <<d>> \o FlattenSeq(ss) \in Seq(S)
      BY ONLY <3>4, <3>6, ConcatProperties
    <3> QED BY <3>5, <3>7 DEF S
  <2> QED BY <2>4, <2>5
<1>4. 0 .. m \subseteq T
  <2> HIDE DEF T
  <2> QED BY ONLY <1>1, <1>2, <1>3, Induction
<1> QED BY <1>4
-----------------------------------------------------------------------------
(* What the declarations do to the table.                                  *)
LEMMA AddFieldIs ==
  ASSUME NEW ts, NEW m, Table(ts, m), m # 0, NEW us \in Change(ts, m), ts[Names[m]].kind = "class",
         NEW name \in Word, NEW s \in Nat
  PROVE  /\ AddField(us, Names[m], name, s) = [us EXCEPT ![Names[m]] = PlusField(us[Names[m]], name, s)]
         /\ AddField(us, Names[m], name, s) \in Change(ts, m)
<1> DEFINE n == Names[m]
           T == us[n]
<1>1. Table(us, m) /\ T \in Goods(ts, m) /\ \A U \in Goods(ts, m) : [us EXCEPT ![n] = U] \in Change(ts, m)
  BY ChangeIs
<1>2. n \in DOMAIN us /\ Function(us)
  BY <1>1, TableIs DEF Table
<1>3. T \in TypeT(m) /\ T.kind = "class"
  BY <1>1 DEF Goods
<1>4. AddField(us, n, name, s) = [us EXCEPT ![n] = PlusField(T, name, s)]
  <2>1. Ty_addMember(us, n, FieldOf(T, name, s)) = [us EXCEPT ![n] = PlusMember(T, FieldOf(T, name, s))]
    BY <1>2, <1>3 DEF Ty_addMember, PlusMember, Function
  <2>2. AddField(us, n, name, s) = [Ty_addMember(us, n, FieldOf(T, name, s)) EXCEPT ![n].size = Aligned(T.size, s) + s]
    BY DEF AddField, FieldOf
  <2>3. /\ n \in DOMAIN [us EXCEPT ![n] = PlusMember(T, FieldOf(T, name, s))]
        /\ [us EXCEPT ![n] = PlusMember(T, FieldOf(T, name, s))][n] = PlusMember(T, FieldOf(T, name, s))
    BY <1>2
  <2>4. [[us EXCEPT ![n] = PlusMember(T, FieldOf(T, name, s))] EXCEPT ![n].size = Aligned(T.size, s) + s]
          = [us EXCEPT ![n] = PlusField(T, name, s)]
    BY <1>2, <2>3 DEF PlusField, Function
  <2> QED BY <2>1, <2>2, <2>4
<1>5. PlusField(T, name, s) \in Goods(ts, m)
  BY <1>1, <1>3, GoodField
<1> QED BY <1>1, <1>4, <1>5

LEMMA VisitOneStays ==
  ASSUME NEW ts, NEW m, Table(ts, m), m # 0, NEW us \in Change(ts, m), ts[Names[m]].kind = "class",
         NEW j \in Known(m - 1)
  PROVE  VisitOne(us, Names[m], j) \in Change(ts, m)
<1> DEFINE n == Names[m]
           T == us[n]
           name == "__intf_vtable_" \o j
           F == PlusField(T, name, 4)
           at == Aligned(T.size, 4)
<1>1. Table(us, m) /\ T \in Goods(ts, m) /\ \A U \in Goods(ts, m) : [us EXCEPT ![n] = U] \in Change(ts, m)
  BY ChangeIs
<1>2. n \in DOMAIN us /\ Function(us) /\ m \in 1 .. Len(Names)
  BY <1>1, TableIs DEF Table
<1>3. T \in TypeT(m) /\ T.kind = "class" /\ T.size \in Nat
  BY <1>1, GoodIs DEF Goods
<1>4. name \in Word
  <2>1. Known(m - 1) \subseteq Known(Len(Names))
    <3>1. m - 1 \in Int /\ Len(Names) \in Int /\ m - 1 <= Len(Names)
      BY <1>2, NamesApart
    <3> QED BY ONLY <3>1, KnownGrows
  <2>2. j \in Known(Len(Names))
    BY <2>1
  <2> QED BY <2>2 DEF Word
<1> HIDE DEF name
<1>5. AddField(us, n, name, 4) = [us EXCEPT ![n] = F] /\ F \in Goods(ts, m)
  BY <1>1, <1>3, <1>4, AddFieldIs, GoodField
<1>6. at \in Nat /\ F.kind = "class" /\ at + 4 <= F.size
  <2>1. at \in Nat
    BY <1>3, AlignedIs
  <2>2. F.kind = T.kind /\ F.size = at + 4
    BY <1>3 DEF PlusField, PlusMember, TypeT
  <2> QED BY ONLY <2>1, <2>2, <1>3
<1> HIDE DEF at
<1>7. PlusImpl(F, j, at) \in Goods(ts, m)
  <2> HIDE DEF F
  <2> QED BY <1>5, <1>6, GoodImpl
<1>8. [[us EXCEPT ![n] = F] EXCEPT ![n].impls = <<[intf |-> j, at |-> at]>> \o @] = [us EXCEPT ![n] = PlusImpl(F, j, at)]
  <2> HIDE DEF F
  <2>1. n \in DOMAIN [us EXCEPT ![n] = F] /\ [us EXCEPT ![n] = F][n] = F
    BY <1>2
  <2> QED BY <1>2, <2>1 DEF PlusImpl, Function
<1>9. CASE \E k \in DOMAIN T.impls : T.impls[k].intf = j
  BY <1>9 DEF VisitOne
<1>10. CASE ~ \E k \in DOMAIN T.impls : T.impls[k].intf = j
  <2>1. VisitOne(us, n, j) = [AddField(us, n, name, 4) EXCEPT ![n].impls = <<[intf |-> j, at |-> at]>> \o @]
    BY <1>10 DEF VisitOne, at, name
  <2> HIDE DEF F
  <2>2. VisitOne(us, n, j) = [us EXCEPT ![n] = PlusImpl(F, j, at)]
    BY ONLY <2>1, <1>5, <1>8
  <2>3. [us EXCEPT ![n] = PlusImpl(F, j, at)] \in Change(ts, m)
    BY ONLY <1>1, <1>7
  <2> QED BY ONLY <2>2, <2>3
<1> QED BY <1>9, <1>10

LEMMA VisitStays ==
  ASSUME NEW ts, NEW m, Table(ts, m), m # 0, NEW us \in Change(ts, m), ts[Names[m]].kind = "class",
         NEW b \in Known(m - 1)
  PROVE  _clsAddIntfImplRecursive(us, Names[m], b) \in Change(ts, m)
<1> DEFINE list == Visited(us, b)
           V == Change(ts, m)
           D == Known(m - 1)
           c == Names[m]
<1>1. Table(us, m) /\ m - 1 \in 0 .. m
  BY ChangeIs, NamesApart DEF Table
<1>2. list \in Seq(D)
  BY <1>1, VisitedType
<1>3. \A k \in 1 .. Len(list) : list[k] \in Known(m - 1)
  BY <1>2
<1>4. \A k \in 1 .. Len(list) : \A v \in V : VisitOne(v, c, list[k]) \in V
  <2> HIDE DEF list
  <2> QED BY <1>3, VisitOneStays
<1> HIDE DEF list, V, D, c
<1>5. us \in V /\ Len(list) \in Nat /\ DOMAIN list = 1 .. Len(list)
  BY <1>2 DEF V
<1>6. VisitLoop(us, c, list) \in V
  BY <1>4, <1>5, VisitKeeps
<1> QED BY <1>6, VisitLoopIs DEF list, V, c

(* A declaration begins: one more type.                                    *)
LEMMA OneMore ==
  ASSUME NEW ts, NEW m \in 1 .. Len(Names), Table(ts, m - 1), NEW T, Made(m, T, Low(ts, T)),
         T.base # NULL => ts[T.base].kind = "class"
  PROVE  LET us == Entered(ts, Names[m], T)
         IN Table(us, m) /\ us[Names[m]] = T /\ \A d \in Known(m - 1) : us[d] = ts[d]
<1> DEFINE n == Names[m]
           us == Entered(ts, n, T)
<1>1. /\ m \in Nat /\ m \in 0 .. Len(Names) /\ n \notin Known(m - 1) /\ Known(m) = Known(m - 1) \cup {n}
      /\ DOMAIN ts = Known(m - 1) /\ Root \in Known(m - 1) /\ ts[Root] = CObject
  BY NamesApart, KnownNext DEF Table, Known
<1>2. /\ us = [d \in DOMAIN us |-> us[d]] /\ DOMAIN us = Known(m) /\ us[n] = T
      /\ \A d \in Known(m - 1) : us[d] = ts[d]
  BY <1>1 DEF Entered
<1> HIDE DEF us
<1>3. T \in TypeT(m)
  BY DEF Made
<1>4. \A k \in 1 .. m : k \in 1 .. Len(Names) /\ (k = m \/ k \in 1 .. m - 1)
  BY <1>1, NamesApart
<1>5. ASSUME NEW k \in 1 .. m
      PROVE  /\ Made(k, us[Names[k]], Low(us, us[Names[k]]))
             /\ us[Names[k]].base # NULL => us[us[Names[k]].base].kind = "class"
  <2>1. CASE k = m
    <3>1. T.base \in Known(m - 1) \cup {NULL}
      BY <1>3 DEF TypeT
    <3>2. Low(us, T) = Low(ts, T)
      BY <3>1, <1>2 DEF Low
    <3> QED BY <2>1, <1>2, <3>1, <3>2
  <2>2. CASE k \in 1 .. m - 1
    <3>1. Names[k] \in Known(m - 1)
      BY <2>2 DEF Known
    <3>2. us[Names[k]] = ts[Names[k]]
      BY <3>1, <1>2
    <3>3. Made(k, ts[Names[k]], Low(ts, ts[Names[k]])) /\ (ts[Names[k]].base # NULL => ts[ts[Names[k]].base].kind = "class")
      BY <2>2 DEF Table
    <3>4. ts[Names[k]].base # NULL => ts[Names[k]].base \in Known(m - 1)
      BY <3>1, BaseIs
    <3>5. Low(us, ts[Names[k]]) = Low(ts, ts[Names[k]])
      BY <3>4, <1>2 DEF Low
    <3> QED BY <3>2, <3>3, <3>4, <3>5, <1>2
  <2> QED BY <2>1, <2>2, <1>4
<1>6. us[Root] = CObject
  BY <1>1, <1>2
<1>7. Table(us, m)
  BY <1>1, <1>2, <1>5, <1>6 DEF Table, Function
<1> QED BY <1>2, <1>7 DEF us

LEMMA ClassBegins ==
  ASSUME NEW ts, NEW m \in 1 .. Len(Names), Table(ts, m - 1), NEW base \in Known(m - 1), ts[base].kind = "class"
  PROVE  LET us == Entered(ts, Names[m], Ty_Class(ts, base))
         IN Table(us, m) /\ us[Names[m]].kind = "class" /\ \A d \in Known(m - 1) : us[d] = ts[d]
<1> DEFINE T == Ty_Class(ts, base)
           B == ts[base]
<1>1. B.size \in Nat /\ 4 <= B.size /\ B.count \in Int /\ base # NULL
  <2>1. base # NULL
    <3>1. m - 1 \in 0 .. Len(Names)
      BY NamesApart
    <3> QED BY <3>1, KnownNames
  <2>2. CASE base = Root
    BY <2>1, <2>2 DEF Table, CObject
  <2>3. CASE base # Root
    <3>1. PICK k \in 1 .. m - 1 : base = Names[k]
      BY <2>3 DEF Known
    <3>2. Made(k, B, Low(ts, B))
      BY <3>1 DEF Table
    <3>3. MadeClass(k, B, Low(ts, B)) /\ B \in TypeT(k)
      BY <3>2 DEF Made, MadeInterface
    <3> QED BY <3>3, <2>1 DEF MadeClass, TypeT
  <2> QED BY <2>2, <2>3
<1>2. /\ T.kind = "class" /\ T.base = base /\ T.impls = <<>> /\ T.members = <<>>
      /\ T.size = B.size /\ T.count = B.count
      /\ T = [kind |-> "class", base |-> base, impls |-> <<>>, members |-> <<>>, size |-> B.size, count |-> B.count]
  BY DEF Ty_Class
<1> HIDE DEF T
<1>3. T \in TypeT(m)
  BY <1>1, <1>2 DEF TypeT
<1>4. Low(ts, T) = B.size
  BY <1>1, <1>2 DEF Low
<1>5. MadeClass(m, T, Low(ts, T))
  <2>1. Len(T.members) = 0 /\ Len(T.impls) = 0 /\ 1 .. 0 = {}
    BY <1>2
  <2>2. Laid(T.members, B.size, B.size)
    BY <2>1 DEF Laid
  <2> QED BY <1>1, <1>2, <1>4, <2>1, <2>2 DEF MadeClass
<1>6. Made(m, T, Low(ts, T))
  BY <1>3, <1>5 DEF Made
<1> QED BY <1>2, <1>6, OneMore DEF T

LEMMA InterfaceBegins ==
  ASSUME NEW ts, NEW m \in 1 .. Len(Names), Table(ts, m - 1)
  PROVE  LET us == Entered(ts, Names[m], Ty_Interface)
         IN Table(us, m) /\ us[Names[m]].kind = "interface" /\ \A d \in Known(m - 1) : us[d] = ts[d]
<1> DEFINE T == Ty_Interface
<1>1. T.kind = "interface" /\ T.base = NULL /\ T.size = 0 /\ T.members = <<>>
  BY DEF Ty_Interface
<1>2. T \in TypeT(m)
  BY DEF Ty_Interface, TypeT
<1>3. MadeInterface(m, T)
  <2>1. Len(T.members) = 0 /\ 1 .. 0 = {}
    BY <1>1
  <2> QED BY <1>1, <2>1 DEF MadeInterface
<1>4. Made(m, T, Low(ts, T))
  BY <1>2, <1>3 DEF Made
<1> HIDE DEF T
<1>5. LET us == Entered(ts, Names[m], T)
      IN Table(us, m) /\ us[Names[m]] = T /\ \A d \in Known(m - 1) : us[d] = ts[d]
  BY SMTT(30), <1>1, <1>4, OneMore
<1> QED BY <1>1, <1>5 DEF T
-----------------------------------------------------------------------------
(* The loops that a refusal ends.                                          *)
Why == {NoError, "assert", "signature", "duplicate", "other kind", "not virtual", "type"}
Result(V) == [ts : V, refusal : Why]

LEMMA FineIs == ASSUME NEW V, NEW v \in V PROVE Fine(v) \in Result(V)
BY DEF Fine, Result, Why

LEMMA RefusedIs == ASSUME NEW V, NEW v \in V, NEW why \in Why PROVE Refused(v, why) \in Result(V)
BY DEF Refused, Result

(* The IMPLEMENTS list of a class.                                         *)
RawClassStep(acc, c, b) ==
  With(acc, LAMBDA r : IF r.refusal # NoError THEN r ELSE Fine(_clsAddIntfImplRecursive(r.ts, c, b)))
ClassStep(r, c, b) == IF r.refusal # NoError THEN r ELSE Fine(_clsAddIntfImplRecursive(r.ts, c, b))
ClassLoop(ts, c, bases) ==
  FoldLeft(LAMBDA acc, i : With(acc, LAMBDA r : IF r.refusal # NoError THEN r ELSE Fine(_clsAddIntfImplRecursive(r.ts, c, i))),
           Fine(ts), bases)

LEMMA ClassStepIs ==
  ASSUME NEW r, NEW c, NEW b PROVE RawClassStep(r, c, b) = ClassStep(r, c, b)
BY DEF RawClassStep, ClassStep, With

LEMMA ClassKeeps ==
  ASSUME NEW ts, NEW c, NEW bases, Len(bases) \in Nat, DOMAIN bases = 1 .. Len(bases), NEW V, Fine(ts) \in V,
         \A k \in 1 .. Len(bases) : \A v \in V : ClassStep(v, c, bases[k]) \in V
  PROVE  ClassLoop(ts, c, bases) \in V
<1> DEFINE seq == bases
           n == Len(seq)
           base == Fine(ts)
           G == [k \in 1 .. n |-> [v \in V |-> ClassStep(v, c, seq[k])]]
           Body(it, s) == RawClassStep(it[s \ {Max(s)}], c, seq[Max(s)])
           Eq(it) == it = [s \in SUBSET (DOMAIN seq) |-> IF s = {} THEN base ELSE Body(it, s)]
<1>1. n \in Nat /\ base \in V /\ DOMAIN seq = 1 .. n
  OBVIOUS
<1>2. G \in [1 .. n -> [V -> V]]
  OBVIOUS
<1>3. \A s \in SUBSET (1 .. n) : s # {} => Max(s) \in s /\ Max(s) \in 1 .. n /\ s \ {Max(s)} \in SUBSET (1 .. n)
  BY ONLY <1>1, MaxIn
<1>4. \E it : Eq(it)
  <2>1. PICK it \in [SUBSET (1 .. n) -> V] : FoldFcn(it, n, base, G)
    <3> HIDE DEF n, G, base
    <3> QED BY <1>1, <1>2, FoldExists
  <2>2. \A s \in SUBSET (1 .. n) : s # {} => G[Max(s)][it[s \ {Max(s)}]] = Body(it, s)
    <3> HIDE DEF seq, n, base
    <3> QED BY <1>3, <2>1, ClassStepIs
  <2>3. \A s \in SUBSET (1 .. n) : it[s] = IF s = {} THEN base ELSE Body(it, s)
    <3> HIDE DEF Body, G, base, n, seq
    <3> QED BY <2>1, <2>2 DEF FoldFcn
  <2>4. it = [s \in SUBSET (DOMAIN seq) |-> it[s]]
    BY <2>1, <1>1
  <2>5. Eq(it)
    <3> HIDE DEF Body, base, n, seq
    <3> QED BY <2>3, <2>4, <1>1
  <2> HIDE DEF Eq
  <2> QED BY <2>5
<1> DEFINE it == CHOOSE it : Eq(it)
<1>5. Eq(it)
  BY <1>4
<1>6. ClassLoop(ts, c, bases) = it[DOMAIN seq]
  BY DEF ClassLoop, RawClassStep, FoldLeft, MapThenFoldSet
<1>7. it[{}] = base
  BY <1>5
<1>8. \A s \in SUBSET (1 .. n) :
        s # {} /\ it[s \ {Max(s)}] \in V => it[s] = G[Max(s)][it[s \ {Max(s)}]]
  <2> TAKE s \in SUBSET (1 .. n)
  <2> HAVE s # {} /\ it[s \ {Max(s)}] \in V
  <2>1. it[s] = Body(it, s)
    <3> HIDE DEF it, Body
    <3> QED BY <1>5, <1>1
  <2> HIDE DEF it, seq, n, base
  <2> QED BY <2>1, <1>3, ClassStepIs
<1>9. it[1 .. n] \in V
  <2> HIDE DEF n, G, it, base
  <2>1. GoesOn(it, n, V, base, G)
    BY <1>7, <1>8 DEF GoesOn
  <2> QED BY <1>1, <1>2, <2>1, FoldStays
<1> HIDE DEF it, n
<1> QED BY <1>1, <1>6, <1>9

LEMMA ClassLoopIs ==
  ASSUME NEW ts, NEW n, NEW bases
  PROVE  Fold(LAMBDA us, b : Fine(_clsAddIntfImplRecursive(us, n, b)), ts, bases) = ClassLoop(ts, n, bases)
BY DEF Fold, ClassLoop

LEMMA ClassLoopStays ==
  ASSUME NEW ts, NEW m, Table(ts, m), m # 0, ts[Names[m]].kind = "class", NEW bases \in Seq(Known(m - 1))
  PROVE  ClassLoop(ts, Names[m], bases) \in Result(Change(ts, m))
<1> DEFINE V == Result(Change(ts, m))
           D == Known(m - 1)
           c == Names[m]
<1>1. Fine(ts) \in V
  BY TableIs, FineIs
<1>2. \A b \in D : \A r \in V : ClassStep(r, c, b) \in V
  <2> TAKE b \in D
  <2> TAKE r \in V
  <2>1. r.ts \in Change(ts, m)
    BY DEF Result
  <2>2. _clsAddIntfImplRecursive(r.ts, c, b) \in Change(ts, m)
    BY <2>1, VisitStays
  <2>3. Fine(_clsAddIntfImplRecursive(r.ts, c, b)) \in V
    BY <2>2, FineIs
  <2> QED BY <2>3 DEF ClassStep
<1>3. \A k \in 1 .. Len(bases) : bases[k] \in D
  OBVIOUS
<1> HIDE DEF V, D, c
<1>4. \A k \in 1 .. Len(bases) : \A r \in V : ClassStep(r, c, bases[k]) \in V
  BY <1>2, <1>3
<1>5. Len(bases) \in Nat /\ DOMAIN bases = 1 .. Len(bases)
  OBVIOUS
<1> QED BY <1>1, <1>4, <1>5, ClassKeeps DEF V, c

-----------------------------------------------------------------------------
(* The members a type has.                                                 *)
LEMMA MinIn ==
  ASSUME NEW n \in Nat, NEW s \in SUBSET (1 .. n), s # {}
  PROVE  Min(s) \in s /\ \A y \in s : Min(s) <= y
<1>1. s \subseteq Nat
  OBVIOUS
<1>2. \E x \in s : \A y \in s : x <= y
  BY <1>1, Least
<1> QED BY <1>2 DEF Min

LEMMA MemberOfIs ==
  ASSUME NEW T, NEW name, Len(T.members) \in Nat
  PROVE  \/ MemberOf(T, name) = NoMember
         \/ \E i \in 1 .. Len(T.members) : MemberOf(T, name) = T.members[i] /\ T.members[i].name = name
<1> DEFINE I == {i \in 1 .. Len(T.members) : T.members[i].name = name}
<1>1. MemberOf(T, name) = IF I = {} THEN NoMember ELSE T.members[Min(I)]
  <2>1. I # {} => Min(I) \in I
    BY MinIn
  <2>2. MemberOf(T, name) = IF (IF I # {} THEN Min(I) ELSE 0) = 0 THEN NoMember
                            ELSE T.members[IF I # {} THEN Min(I) ELSE 0]
    BY DEF MemberOf, SelectInSeq
  <2> QED BY <2>1, <2>2
<1>2. I # {} => Min(I) \in I
  BY MinIn
<1> QED BY <1>1, <1>2

LEMMA CodeGrows ==
  ASSUME NEW j \in Int, NEW k \in Int, j <= k
  PROVE  CodeM(j) \subseteq CodeM(k)
<1>1. Known(j) \subseteq Known(k)
  BY KnownGrows
<1>2. ProcT(j) \subseteq ProcT(k)
  BY <1>1 DEF ProcT
<1>3. MethodT(j) \subseteq MethodT(k)
  BY <1>2 DEF MethodT
<1>4. MethodM(j) \subseteq MethodM(k) /\ PropertyM(j) \subseteq PropertyM(k)
  BY <1>2, <1>3 DEF MethodM, PropertyM, HalfT
<1> QED BY <1>4 DEF CodeM

(* The members of an interface.                                            *)
LEMMA InterfaceMembers ==
  ASSUME NEW ts, NEW m, Table(ts, m), NEW b \in Known(m), ts[b].kind = "interface"
  PROVE  /\ Len(ts[b].members) \in Nat /\ DOMAIN ts[b].members = 1 .. Len(ts[b].members)
         /\ \A i \in 1 .. Len(ts[b].members) : ts[b].members[i] \in CodeM(m)
<1>1. b # Root
  BY DEF Table, CObject
<1>2. PICK k \in 1 .. m : b = Names[k]
  BY <1>1 DEF Known
<1>3. Made(k, ts[b], Low(ts, ts[b])) /\ k \in Int /\ m \in Int /\ k <= m
  BY <1>2, NamesApart DEF Table
<1>4. MadeInterface(k, ts[b]) /\ ts[b] \in TypeT(k)
  BY <1>3 DEF Made, MadeClass
<1>5. CodeM(k) \subseteq CodeM(m)
  BY <1>3, CodeGrows
<1>6. ts[b].members \in Seq(MemberT(k))
  BY <1>4 DEF TypeT
<1>7. Len(ts[b].members) \in Nat /\ DOMAIN ts[b].members = 1 .. Len(ts[b].members)
  BY <1>6
<1> QED BY <1>4, <1>5, <1>7 DEF MadeInterface

(* A member with its own index.                                            *)
Numbered(x, count) ==
  IF x.kind = "method" THEN [x EXCEPT !.idx = count]
  ELSE [x EXCEPT !.get = IF @ = NoMethod THEN @ ELSE [@ EXCEPT !.idx = count],
                 !.set = IF @ = NoMethod THEN @
                         ELSE [@ EXCEPT !.idx = IF x.get = NoMethod THEN count ELSE count + 1]]
NextIndex(x, count) ==
  IF x.kind = "method" THEN count + 1
  ELSE IF x.set = NoMethod THEN IF x.get = NoMethod THEN count ELSE count + 1
  ELSE (IF x.get = NoMethod THEN count ELSE count + 1) + 1

LEMMA NumberedIs ==
  ASSUME NEW m, NEW x \in CodeM(m), NEW count \in Int
  PROVE  Numbered(x, count) \in CodeM(m) /\ NextIndex(x, count) \in Int
<1>1. NextIndex(x, count) \in Int
  BY DEF NextIndex
<1>2. CASE x \in MethodM(m)
  <2>1. x.kind = "method" /\ x \in [kind : {"method"}, name : Word, proc : ProcT(m), idx : Int] /\ x.name = x.proc.name
    BY <1>2 DEF MethodM
  <2>2. /\ [x EXCEPT !.idx = count] \in [kind : {"method"}, name : Word, proc : ProcT(m), idx : Int]
        /\ [x EXCEPT !.idx = count].name = x.name /\ [x EXCEPT !.idx = count].proc = x.proc
    BY <2>1
  <2>3. [x EXCEPT !.idx = count] \in MethodM(m)
    BY <2>1, <2>2 DEF MethodM
  <2> QED BY <1>1, <2>1, <2>3 DEF Numbered, CodeM
<1>3. CASE x \in PropertyM(m)
  <2> DEFINE second == IF x.get = NoMethod THEN count ELSE count + 1
             get == IF x.get = NoMethod THEN x.get ELSE [x.get EXCEPT !.idx = count]
             set == IF x.set = NoMethod THEN x.set ELSE [x.set EXCEPT !.idx = second]
  <2>1. x.kind = "property" /\ x.get \in HalfT(m) /\ x.set \in HalfT(m) /\ second \in Int
    BY <1>3 DEF PropertyM
  <2> HIDE DEF second
  <2>2. get \in HalfT(m)
    BY <2>1 DEF HalfT, MethodT
  <2>3. set \in HalfT(m)
    BY <2>1 DEF HalfT, MethodT
  <2>4. Numbered(x, count) = [x EXCEPT !.get = get, !.set = set]
    <3>1. x.kind # "method"
      BY <2>1
    <3> QED BY <1>3, <3>1 DEF Numbered, second, PropertyM
  <2> HIDE DEF get, set
  <2>5. [x EXCEPT !.get = get, !.set = set] \in PropertyM(m)
    BY <1>3, <2>2, <2>3 DEF PropertyM
  <2> QED BY <1>1, <2>4, <2>5 DEF CodeM
<1> QED BY <1>2, <1>3 DEF CodeM

LEMMA MergeMemberStays ==
  ASSUME NEW ts, NEW m, Table(ts, m), m # 0, NEW us \in Change(ts, m), NEW x \in CodeM(m)
  PROVE  MergeMember(us, Names[m], x) \in Result(Change(ts, m))
<1> DEFINE n == Names[m]
           T == us[n]
           copy == Numbered(x, T.count)
           after == NextIndex(x, T.count)
           U == Counting(PlusMember(T, copy), after)
<1>1. T \in Goods(ts, m) /\ \A W \in Goods(ts, m) : [us EXCEPT ![n] = W] \in Change(ts, m)
  BY ChangeIs
<1>2. n \in DOMAIN us /\ Function(us)
  BY ChangeIs, TableIs DEF Table
<1>3. T \in TypeT(m) /\ T.count \in Int
  BY <1>1, GoodIs
<1>4. copy \in CodeM(m) /\ after \in Int
  BY <1>3, NumberedIs
<1>5. U \in Goods(ts, m)
  <2> HIDE DEF copy, after
  <2> QED BY <1>1, <1>4, GoodCode, GoodCount
<1>6. [Ty_addMember(us, n, copy) EXCEPT ![n].count = after] = [us EXCEPT ![n] = U]
  <2> HIDE DEF copy, after
  <2>1. Ty_addMember(us, n, copy) = [us EXCEPT ![n] = PlusMember(T, copy)]
    BY <1>2, <1>3 DEF Ty_addMember, PlusMember, Function
  <2>2. /\ n \in DOMAIN [us EXCEPT ![n] = PlusMember(T, copy)]
        /\ [us EXCEPT ![n] = PlusMember(T, copy)][n] = PlusMember(T, copy)
    BY <1>2
  <2> QED BY <1>2, <2>1, <2>2 DEF Counting, Function
<1>7. \/ MergeMember(us, n, x) = Fine([Ty_addMember(us, n, copy) EXCEPT ![n].count = after])
      \/ MergeMember(us, n, x) = Fine(us)
      \/ \E why \in {"assert", "signature"} : MergeMember(us, n, x) = Refused(us, why)
  BY DEF MergeMember, Numbered, NextIndex
<1> HIDE DEF U, copy, after, n
<1>8. [us EXCEPT ![n] = U] \in Change(ts, m)
  BY <1>1, <1>5
<1>9. Fine([us EXCEPT ![n] = U]) \in Result(Change(ts, m)) /\ Fine(us) \in Result(Change(ts, m))
  BY <1>8, FineIs
<1>10. \A why \in {"assert", "signature"} : Refused(us, why) \in Result(Change(ts, m))
  <2>1. \A why \in {"assert", "signature"} : why \in Why
    BY DEF Why
  <2> QED BY <2>1, RefusedIs
<1> QED BY <1>6, <1>7, <1>9, <1>10 DEF n

(* The members of one base interface.                                      *)
RawMergeStep(acc, c, x) ==
  With(acc, LAMBDA r : IF r.refusal # NoError THEN r ELSE MergeMember(r.ts, c, x))
MergeStep(r, c, x) == IF r.refusal # NoError THEN r ELSE MergeMember(r.ts, c, x)
MergeLoop(ts, c, members) ==
  FoldLeft(LAMBDA acc, i : With(acc, LAMBDA r : IF r.refusal # NoError THEN r ELSE MergeMember(r.ts, c, i)),
           Fine(ts), members)

LEMMA MergeStepIs ==
  ASSUME NEW r, NEW c, NEW x PROVE RawMergeStep(r, c, x) = MergeStep(r, c, x)
BY DEF RawMergeStep, MergeStep, With

LEMMA MergeKeeps ==
  ASSUME NEW ts, NEW c, NEW members, Len(members) \in Nat, DOMAIN members = 1 .. Len(members), NEW V, Fine(ts) \in V,
         \A k \in 1 .. Len(members) : \A v \in V : MergeStep(v, c, members[k]) \in V
  PROVE  MergeLoop(ts, c, members) \in V
<1> DEFINE seq == members
           n == Len(seq)
           base == Fine(ts)
           G == [k \in 1 .. n |-> [v \in V |-> MergeStep(v, c, seq[k])]]
           Body(it, s) == RawMergeStep(it[s \ {Max(s)}], c, seq[Max(s)])
           Eq(it) == it = [s \in SUBSET (DOMAIN seq) |-> IF s = {} THEN base ELSE Body(it, s)]
<1>1. n \in Nat /\ base \in V /\ DOMAIN seq = 1 .. n
  OBVIOUS
<1>2. G \in [1 .. n -> [V -> V]]
  OBVIOUS
<1>3. \A s \in SUBSET (1 .. n) : s # {} => Max(s) \in s /\ Max(s) \in 1 .. n /\ s \ {Max(s)} \in SUBSET (1 .. n)
  BY ONLY <1>1, MaxIn
<1>4. \E it : Eq(it)
  <2>1. PICK it \in [SUBSET (1 .. n) -> V] : FoldFcn(it, n, base, G)
    <3> HIDE DEF n, G, base
    <3> QED BY <1>1, <1>2, FoldExists
  <2>2. \A s \in SUBSET (1 .. n) : s # {} => G[Max(s)][it[s \ {Max(s)}]] = Body(it, s)
    <3> HIDE DEF seq, n, base
    <3> QED BY <1>3, <2>1, MergeStepIs
  <2>3. \A s \in SUBSET (1 .. n) : it[s] = IF s = {} THEN base ELSE Body(it, s)
    <3> HIDE DEF Body, G, base, n, seq
    <3> QED BY <2>1, <2>2 DEF FoldFcn
  <2>4. it = [s \in SUBSET (DOMAIN seq) |-> it[s]]
    BY <2>1, <1>1
  <2>5. Eq(it)
    <3> HIDE DEF Body, base, n, seq
    <3> QED BY <2>3, <2>4, <1>1
  <2> HIDE DEF Eq
  <2> QED BY <2>5
<1> DEFINE it == CHOOSE it : Eq(it)
<1>5. Eq(it)
  BY <1>4
<1>6. MergeLoop(ts, c, members) = it[DOMAIN seq]
  BY DEF MergeLoop, RawMergeStep, FoldLeft, MapThenFoldSet
<1>7. it[{}] = base
  BY <1>5
<1>8. \A s \in SUBSET (1 .. n) :
        s # {} /\ it[s \ {Max(s)}] \in V => it[s] = G[Max(s)][it[s \ {Max(s)}]]
  <2> TAKE s \in SUBSET (1 .. n)
  <2> HAVE s # {} /\ it[s \ {Max(s)}] \in V
  <2>1. it[s] = Body(it, s)
    <3> HIDE DEF it, Body
    <3> QED BY <1>5, <1>1
  <2> HIDE DEF it, seq, n, base
  <2> QED BY <2>1, <1>3, MergeStepIs
<1>9. it[1 .. n] \in V
  <2> HIDE DEF n, G, it, base
  <2>1. GoesOn(it, n, V, base, G)
    BY <1>7, <1>8 DEF GoesOn
  <2> QED BY <1>1, <1>2, <2>1, FoldStays
<1> HIDE DEF it, n
<1> QED BY <1>1, <1>6, <1>9

LEMMA MergeLoopIs ==
  ASSUME NEW ts, NEW n, NEW b
  PROVE  MergeBase(ts, n, b) = MergeLoop([ts EXCEPT ![n].impls = <<[intf |-> b, at |-> 0]>> \o @], n, ts[b].members)
BY DEF MergeBase, MergeLoop

LEMMA MergeLoopStays ==
  ASSUME NEW ts, NEW m, Table(ts, m), m # 0, ts[Names[m]].kind = "interface", NEW us \in Change(ts, m), NEW members,
         Len(members) \in Nat, DOMAIN members = 1 .. Len(members), \A k \in 1 .. Len(members) : members[k] \in CodeM(m)
  PROVE  MergeLoop(us, Names[m], members) \in Result(Change(ts, m))
<1> DEFINE V == Result(Change(ts, m))
           D == CodeM(m)
           c == Names[m]
<1>1. Fine(us) \in V
  BY FineIs
<1>2. \A x \in D : \A r \in V : MergeStep(r, c, x) \in V
  <2> TAKE x \in D
  <2> TAKE r \in V
  <2>1. r.ts \in Change(ts, m)
    BY DEF Result
  <2>2. MergeMember(r.ts, c, x) \in V
    BY <2>1, MergeMemberStays
  <2> QED BY <2>2 DEF MergeStep
<1> HIDE DEF V, D, c
<1>3. \A k \in 1 .. Len(members) : \A r \in V : MergeStep(r, c, members[k]) \in V
  BY <1>2 DEF D
<1>4. Len(members) \in Nat /\ DOMAIN members = 1 .. Len(members)
  OBVIOUS
<1> QED BY <1>1, <1>3, <1>4, MergeKeeps DEF V, c

LEMMA MergeBaseStays ==
  ASSUME NEW ts, NEW m, Table(ts, m), m # 0, ts[Names[m]].kind = "interface", NEW us \in Change(ts, m),
         NEW b \in Known(m - 1), ts[b].kind = "interface"
  PROVE  MergeBase(us, Names[m], b) \in Result(Change(ts, m))
<1> DEFINE n == Names[m]
           T == us[n]
           more == [us EXCEPT ![n].impls = <<[intf |-> b, at |-> 0]>> \o @]
<1>1. /\ Table(us, m) /\ T \in Goods(ts, m) /\ \A W \in Goods(ts, m) : [us EXCEPT ![n] = W] \in Change(ts, m)
      /\ \A d \in Known(m) \ {n} : us[d] = ts[d]
  BY ChangeIs
<1>2. n \in DOMAIN us /\ m \in 1 .. Len(Names)
  BY ChangeIs, TableIs DEF Table
<1>3. T.kind = "interface"
  BY <1>1 DEF Goods
<1>4. more \in Change(ts, m)
  <2>1. PlusImpl(T, b, 0) \in Goods(ts, m)
    BY <1>1, <1>3, GoodImpl
  <2>2. more = [us EXCEPT ![n] = PlusImpl(T, b, 0)]
    BY <1>2 DEF PlusImpl
  <2> QED BY <2>1, <2>2, <1>1
<1>5. b \in Known(m) /\ us[b].kind = "interface"
  <2>1. b \in Known(m) \ {n}
    BY <1>2, KnownNext
  <2> QED BY <2>1, <1>1
<1>6. /\ Len(us[b].members) \in Nat /\ DOMAIN us[b].members = 1 .. Len(us[b].members)
      /\ \A i \in 1 .. Len(us[b].members) : us[b].members[i] \in CodeM(m)
  BY <1>1, <1>5, InterfaceMembers
<1> HIDE DEF more
<1>7. MergeLoop(more, n, us[b].members) \in Result(Change(ts, m))
  BY <1>4, <1>6, MergeLoopStays
<1> QED BY <1>7, MergeLoopIs DEF more

(* The IMPLEMENTS list of an interface.                                    *)
RawInterfaceStep(acc, c, b) ==
  With(acc, LAMBDA r : IF r.refusal # NoError THEN r ELSE MergeBase(r.ts, c, b))
InterfaceStep(r, c, b) == IF r.refusal # NoError THEN r ELSE MergeBase(r.ts, c, b)
InterfaceLoop(ts, c, bases) ==
  FoldLeft(LAMBDA acc, i : With(acc, LAMBDA r : IF r.refusal # NoError THEN r ELSE MergeBase(r.ts, c, i)),
           Fine(ts), bases)

LEMMA InterfaceStepIs ==
  ASSUME NEW r, NEW c, NEW b PROVE RawInterfaceStep(r, c, b) = InterfaceStep(r, c, b)
BY DEF RawInterfaceStep, InterfaceStep, With

LEMMA InterfaceKeeps ==
  ASSUME NEW ts, NEW c, NEW bases, Len(bases) \in Nat, DOMAIN bases = 1 .. Len(bases), NEW V, Fine(ts) \in V,
         \A k \in 1 .. Len(bases) : \A v \in V : InterfaceStep(v, c, bases[k]) \in V
  PROVE  InterfaceLoop(ts, c, bases) \in V
<1> DEFINE seq == bases
           n == Len(seq)
           base == Fine(ts)
           G == [k \in 1 .. n |-> [v \in V |-> InterfaceStep(v, c, seq[k])]]
           Body(it, s) == RawInterfaceStep(it[s \ {Max(s)}], c, seq[Max(s)])
           Eq(it) == it = [s \in SUBSET (DOMAIN seq) |-> IF s = {} THEN base ELSE Body(it, s)]
<1>1. n \in Nat /\ base \in V /\ DOMAIN seq = 1 .. n
  OBVIOUS
<1>2. G \in [1 .. n -> [V -> V]]
  OBVIOUS
<1>3. \A s \in SUBSET (1 .. n) : s # {} => Max(s) \in s /\ Max(s) \in 1 .. n /\ s \ {Max(s)} \in SUBSET (1 .. n)
  BY ONLY <1>1, MaxIn
<1>4. \E it : Eq(it)
  <2>1. PICK it \in [SUBSET (1 .. n) -> V] : FoldFcn(it, n, base, G)
    <3> HIDE DEF n, G, base
    <3> QED BY <1>1, <1>2, FoldExists
  <2>2. \A s \in SUBSET (1 .. n) : s # {} => G[Max(s)][it[s \ {Max(s)}]] = Body(it, s)
    <3> HIDE DEF seq, n, base
    <3> QED BY <1>3, <2>1, InterfaceStepIs
  <2>3. \A s \in SUBSET (1 .. n) : it[s] = IF s = {} THEN base ELSE Body(it, s)
    <3> HIDE DEF Body, G, base, n, seq
    <3> QED BY <2>1, <2>2 DEF FoldFcn
  <2>4. it = [s \in SUBSET (DOMAIN seq) |-> it[s]]
    BY <2>1, <1>1
  <2>5. Eq(it)
    <3> HIDE DEF Body, base, n, seq
    <3> QED BY <2>3, <2>4, <1>1
  <2> HIDE DEF Eq
  <2> QED BY <2>5
<1> DEFINE it == CHOOSE it : Eq(it)
<1>5. Eq(it)
  BY <1>4
<1>6. InterfaceLoop(ts, c, bases) = it[DOMAIN seq]
  BY DEF InterfaceLoop, RawInterfaceStep, FoldLeft, MapThenFoldSet
<1>7. it[{}] = base
  BY <1>5
<1>8. \A s \in SUBSET (1 .. n) :
        s # {} /\ it[s \ {Max(s)}] \in V => it[s] = G[Max(s)][it[s \ {Max(s)}]]
  <2> TAKE s \in SUBSET (1 .. n)
  <2> HAVE s # {} /\ it[s \ {Max(s)}] \in V
  <2>1. it[s] = Body(it, s)
    <3> HIDE DEF it, Body
    <3> QED BY <1>5, <1>1
  <2> HIDE DEF it, seq, n, base
  <2> QED BY <2>1, <1>3, InterfaceStepIs
<1>9. it[1 .. n] \in V
  <2> HIDE DEF n, G, it, base
  <2>1. GoesOn(it, n, V, base, G)
    BY <1>7, <1>8 DEF GoesOn
  <2> QED BY <1>1, <1>2, <2>1, FoldStays
<1> HIDE DEF it, n
<1> QED BY <1>1, <1>6, <1>9

LEMMA InterfaceLoopIs ==
  ASSUME NEW ts, NEW n, NEW bases
  PROVE  Fold(LAMBDA us, b : MergeBase(us, n, b), ts, bases) = InterfaceLoop(ts, n, bases)
BY DEF Fold, InterfaceLoop

LEMMA InterfaceLoopStays ==
  ASSUME NEW ts, NEW m, Table(ts, m), m # 0, ts[Names[m]].kind = "interface", NEW us \in Change(ts, m), NEW bases,
         Len(bases) \in Nat, DOMAIN bases = 1 .. Len(bases), \A k \in 1 .. Len(bases) : bases[k] \in {d \in Known(m - 1) : ts[d].kind = "interface"}
  PROVE  InterfaceLoop(us, Names[m], bases) \in Result(Change(ts, m))
<1> DEFINE V == Result(Change(ts, m))
           D == {d \in Known(m - 1) : ts[d].kind = "interface"}
           c == Names[m]
<1>1. Fine(us) \in V
  BY FineIs
<1>2. \A b \in D : \A r \in V : InterfaceStep(r, c, b) \in V
  <2> TAKE b \in D
  <2> TAKE r \in V
  <2>1. r.ts \in Change(ts, m)
    BY DEF Result
  <2>2. MergeBase(r.ts, c, b) \in V
    BY <2>1, MergeBaseStays
  <2> QED BY <2>2 DEF InterfaceStep
<1> HIDE DEF V, D, c
<1>3. \A k \in 1 .. Len(bases) : \A r \in V : InterfaceStep(r, c, bases[k]) \in V
  BY <1>2 DEF D
<1>4. Len(bases) \in Nat /\ DOMAIN bases = 1 .. Len(bases)
  OBVIOUS
<1> QED BY <1>1, <1>3, <1>4, InterfaceKeeps DEF V, c

-----------------------------------------------------------------------------
(* The declarations of a type's members.                                   *)
LEMMA MembersKnown ==
  ASSUME NEW ts, NEW m, Table(ts, m), NEW d \in Known(m)
  PROVE  /\ Len(ts[d].members) \in Nat /\ DOMAIN ts[d].members = 1 .. Len(ts[d].members)
         /\ \A i \in 1 .. Len(ts[d].members) : ts[d].members[i] \in MemberT(m)
<1>1. m \in Nat /\ m \in 0 .. Len(Names)
  BY NamesApart DEF Table
<1>2. CASE d = Root
  <2>1. ts[d].members = << [kind |-> "field", name |-> "_vTablePtr", at |-> 0, size |-> 4],
                          [kind |-> "method", name |-> "ToString", proc |-> TextOfObject, idx |-> 0] >>
    BY <1>2 DEF Table, CObject
  <2>2. [kind |-> "field", name |-> "_vTablePtr", at |-> 0, size |-> 4] \in FieldM
    BY DEF FieldM, Word
  <2>3. TextOfObject \in ProcT(m) /\ TextOfObject.name = "ToString"
    BY DEF TextOfObject, Proc, ProcT, Known, Word, Sort
  <2>4. [kind |-> "method", name |-> "ToString", proc |-> TextOfObject, idx |-> 0] \in MethodM(m)
    BY <2>3 DEF MethodM, Word
  <2> QED BY <2>1, <2>2, <2>4 DEF MemberT, CodeM
<1>3. CASE d # Root
  <2>1. PICK k \in 1 .. m : d = Names[k]
    BY <1>3 DEF Known
  <2>2. ts[d] \in TypeT(k) /\ k \in Int /\ k <= m
    BY <2>1, <1>1 DEF Table, Made
  <2>3. CodeM(k) \subseteq CodeM(m)
    BY <2>2, <1>1, CodeGrows
  <2>4. MemberT(k) \subseteq MemberT(m)
    BY <2>3 DEF MemberT
  <2>5. ts[d].members \in Seq(MemberT(k))
    BY <2>2 DEF TypeT
  <2> QED BY <2>4, <2>5
<1> QED BY <1>2, <1>3

LEMMA FindIs ==
  ASSUME NEW ts, NEW m, Table(ts, m), NEW c \in Known(m), NEW name
  PROVE  Find(ts, c, name) \in MemberT(m) \cup {NoMember}
<1> DEFINE up == Chain(ts, c)
           I == {i \in 1 .. Len(up) : MemberOf(ts[up[i]], name) # NoMember}
<1>1. up \in Seq(Known(m))
  BY ChainType
<1>2. I # {} => Min(I) \in I
  <2>1. Len(up) \in Nat
    BY <1>1
  <2> HIDE DEF up
  <2> QED BY <2>1, MinIn
<1>3. Find(ts, c, name) = IF I = {} THEN NoMember ELSE MemberOf(ts[up[Min(I)]], name)
  <2>1. Find(ts, c, name) = IF (IF I # {} THEN Min(I) ELSE 0) = 0 THEN NoMember
                            ELSE MemberOf(ts[up[IF I # {} THEN Min(I) ELSE 0]], name)
    BY DEF Find, SelectInSeq
  <2> HIDE DEF up
  <2> QED BY <2>1, <1>2
<1>4. \A d \in Known(m) : MemberOf(ts[d], name) \in MemberT(m) \cup {NoMember}
  BY MembersKnown, MemberOfIs
<1>5. I # {} => up[Min(I)] \in Known(m)
  <2> HIDE DEF up
  <2> QED BY <1>1, <1>2
<1> HIDE DEF up, I
<1> QED BY <1>3, <1>4, <1>5

LEMMA InheritedIs ==
  ASSUME NEW ts, NEW m, Table(ts, m), NEW c \in Known(m), NEW name
  PROVE  Inherited(ts, c, name) \in MemberT(m) \cup {NoMember}
BY FindIs DEF Inherited

Replaced(T, name, x) == [T EXCEPT !.members = [k \in DOMAIN @ |-> IF @[k].name = name THEN x ELSE @[k]]]

LEMMA GoodReplace ==
  ASSUME NEW ts, NEW m, Table(ts, m), m # 0, NEW T \in Goods(ts, m), NEW name, NEW x \in CodeM(m)
  PROVE  Replaced(T, name, x) \in Goods(ts, m)
<1> DEFINE U == Replaced(T, name, x)
           low == Low(ts, ts[Names[m]])
           n == Len(T.members)
           new == [k \in 1 .. n |-> IF T.members[k].name = name THEN x ELSE T.members[k]]
<1>1. /\ T \in TypeT(m) /\ Made(m, T, low) /\ T.kind = ts[Names[m]].kind /\ T.base = ts[Names[m]].base
      /\ T.members \in Seq(MemberT(m)) /\ n \in Nat
      /\ \A k \in 1 .. n : T.members[k] \in MemberT(m)
  BY GoodIs
<1>2. x \in MemberT(m) /\ x.kind # "field"
  BY DEF MemberT, CodeM, MethodM, PropertyM
<1>3. new \in [1 .. n -> MemberT(m)] /\ \A k \in 1 .. n : new[k] = x \/ new[k] = T.members[k]
  BY <1>1, <1>2
<1>4. DOMAIN T.members = 1 .. n
  BY <1>1
<1>5. U = [T EXCEPT !.members = new]
  BY <1>1, <1>4 DEF Replaced
<1> HIDE DEF new
<1>6. new \in Seq(MemberT(m)) /\ Len(new) = n
  <2> HIDE DEF n
  <2> QED BY <1>1, <1>3, IsASequence
<1>7. /\ U \in TypeT(m) /\ U.kind = T.kind /\ U.base = T.base /\ U.size = T.size /\ U.members = new
      /\ U.impls = T.impls
  <2> HIDE DEF U
  <2> QED BY <1>1, <1>5, <1>6 DEF TypeT
<1> HIDE DEF U, low
<1>8. CASE MadeClass(m, T, low)
  <2>1. Laid(new, low, T.size)
    <3>1. Laid(T.members, low, T.size)
      BY <1>8 DEF MadeClass
    <3>2. \A k \in 1 .. n : new[k].kind = "field" => new[k] = T.members[k]
      BY <1>2, <1>3
    <3> HIDE DEF n
    <3> QED BY <3>1, <3>2, <1>6 DEF Laid, n
  <2>2. MadeClass(m, U, low)
    BY <2>1, <1>7, <1>8 DEF MadeClass
  <2> QED BY <2>2, <1>1, <1>7, MakeGood DEF Made, low, U
<1>9. CASE MadeInterface(m, T)
  <2>1. MadeInterface(m, U)
    BY <1>3, <1>6, <1>7, <1>9 DEF MadeInterface
  <2> QED BY <2>1, <1>1, <1>7, MakeGood DEF Made, low, U
<1> QED BY <1>1, <1>8, <1>9 DEF Made

LEMMA CountedIs ==
  ASSUME NEW ts, NEW m, Table(ts, m), m # 0, NEW us \in Change(ts, m), NEW e, NEW old
  PROVE  Counted(us, Names[m], e, old) \in Change(ts, m)
<1> DEFINE n == Names[m]
           T == us[n]
<1>1. T \in Goods(ts, m) /\ \A U \in Goods(ts, m) : [us EXCEPT ![n] = U] \in Change(ts, m)
  BY ChangeIs
<1>2. T.count + 1 \in Int
  BY <1>1, GoodIs
<1>3. Counting(T, T.count + 1) \in Goods(ts, m)
  BY <1>1, <1>2, GoodCount
<1>4. [us EXCEPT ![n].count = @ + 1] = [us EXCEPT ![n] = Counting(T, T.count + 1)]
  BY DEF Counting
<1> QED BY <1>1, <1>3, <1>4 DEF Counted

LEMMA AddMemberIs ==
  ASSUME NEW ts, NEW m, Table(ts, m), m # 0, NEW us \in Change(ts, m), NEW x \in CodeM(m)
  PROVE  Ty_addMember(us, Names[m], x) \in Change(ts, m)
<1> DEFINE n == Names[m]
           T == us[n]
<1>1. T \in Goods(ts, m) /\ \A U \in Goods(ts, m) : [us EXCEPT ![n] = U] \in Change(ts, m)
  BY ChangeIs
<1>2. PlusMember(T, x) \in Goods(ts, m)
  BY <1>1, GoodCode
<1>3. Ty_addMember(us, n, x) = [us EXCEPT ![n] = PlusMember(T, x)]
  BY DEF PlusMember, Ty_addMember
<1> QED BY <1>1, <1>2, <1>3

LEMMA FieldEntryStays ==
  ASSUME NEW ts, NEW m, Table(ts, m), m # 0, NEW us \in Change(ts, m), NEW e \in Declarations, e.kind = "field"
  PROVE  FieldEntry(us, Names[m], e) \in Result(Change(ts, m))
<1> DEFINE n == Names[m]
<1>1. us[n] \in Goods(ts, m)
  BY ChangeIs
<1>2. ts[n].kind \in {"class", "interface"} /\ us[n].kind = ts[n].kind
  BY <1>1, TableIs, GoodIs DEF TypeT
<1>3. e.name \in Word /\ e.of \in Nat
  BY ClassesAssumption DEF Word
<1>4. ts[n].kind = "class" => Fine(AddField(us, n, e.name, e.of)) \in Result(Change(ts, m))
  BY <1>3, AddFieldIs, FineIs
<1>5. \A why \in {"duplicate", "assert"} : Refused(us, why) \in Result(Change(ts, m))
  <2>1. \A why \in {"duplicate", "assert"} : why \in Why
    BY DEF Why
  <2> QED BY <2>1, RefusedIs
<1> QED BY <1>2, <1>4, <1>5 DEF FieldEntry

(* The index of a method or half is a number.                              *)
LEMMA IndexIs ==
  ASSUME NEW ts, NEW m, Table(ts, m), m # 0, NEW us \in Change(ts, m), NEW e, NEW old,
         old # NoMethod => old.idx \in Int
  PROVE  Index(us, Names[m], e, old) \in Int
<1>1. us[Names[m]].count \in Int
  BY ChangeIs, GoodIs
<1> QED BY <1>1 DEF Index

LEMMA MethodEntryStays ==
  ASSUME NEW ts, NEW m, Table(ts, m), m # 0, NEW us \in Change(ts, m), NEW e \in Declarations, e.kind = "method"
  PROVE  MethodEntry(us, Names[m], e) \in Result(Change(ts, m))
<1> DEFINE n == Names[m]
           old == Inherited(us, n, e.name)
           proc == Proc(n, e.name, "method", e.of)
           former == IF old.kind = "method" THEN [proc |-> old.proc, idx |-> old.idx] ELSE NoMethod
           made == [kind |-> "method", name |-> e.name, proc |-> proc, idx |-> Index(us, n, e, former)]
           counted == Counted(us, n, e, former)
<1>1. Table(us, m) /\ n \in Known(m)
  BY ChangeIs, TableIs
<1>2. e.name \in Word /\ e.of \in Sort
  BY DEF Word, Sort
<1>3. old \in MemberT(m) \cup {NoMember}
  BY <1>1, InheritedIs
<1>4. old.kind = "method" => old.idx \in Int
  BY <1>3 DEF MemberT, FieldM, CodeM, MethodM, PropertyM, NoMember
<1>5. former # NoMethod => former.idx \in Int
  BY <1>4
<1> HIDE DEF former, old
<1>6. Index(us, n, e, former) \in Int
  BY <1>5, IndexIs
<1>7. made \in CodeM(m)
  <2>1. proc \in ProcT(m) /\ proc.name = e.name
    BY <1>1, <1>2 DEF ProcT, Proc
  <2> HIDE DEF proc
  <2> QED BY <1>2, <1>6, <2>1 DEF CodeM, MethodM
<1> HIDE DEF made
<1>8. counted \in Change(ts, m)
  BY CountedIs
<1> HIDE DEF counted
<1>9. Fine(Ty_addMember(counted, n, made)) \in Result(Change(ts, m))
  BY <1>7, <1>8, AddMemberIs, FineIs
<1>10. \A why \in {"duplicate", "other kind", "not virtual", "signature"} : Refused(us, why) \in Result(Change(ts, m))
  <2>1. \A why \in {"duplicate", "other kind", "not virtual", "signature"} : why \in Why
    BY DEF Why
  <2> QED BY <2>1, RefusedIs
<1>11. \/ MethodEntry(us, n, e) = Fine(Ty_addMember(counted, n, made))
       \/ \E why \in {"duplicate", "other kind", "not virtual", "signature"} : MethodEntry(us, n, e) = Refused(us, why)
  BY DEF MethodEntry, made, former, old, counted
<1> QED BY <1>9, <1>10, <1>11

LEMMA WithHalfIs ==
  ASSUME NEW m, NEW p \in PropertyM(m), NEW role, NEW h \in MethodT(m), NEW of \in Sort
  PROVE  /\ WithHalf(p, role, h) \in PropertyM(m) /\ WithHalf([p EXCEPT !.of = of], role, h) \in PropertyM(m)
         /\ Half(p, role) \in HalfT(m)
<1>1. \A q \in PropertyM(m) : WithHalf(q, role, h) \in PropertyM(m)
  BY DEF WithHalf, PropertyM, HalfT
<1>2. [p EXCEPT !.of = of] \in PropertyM(m)
  BY DEF PropertyM
<1>3. Half(p, role) \in HalfT(m)
  BY DEF Half, PropertyM
<1> QED BY <1>1, <1>2, <1>3

LEMMA PropertyEntryStays ==
  ASSUME NEW ts, NEW m, Table(ts, m), m # 0, NEW us \in Change(ts, m), NEW e \in Declarations,
         e.kind \in {"getter", "setter"}
  PROVE  PropertyEntry(us, Names[m], e) \in Result(Change(ts, m))
<1> DEFINE n == Names[m]
           T == us[n]
           old == Inherited(us, n, e.name)
           own == MemberOf(T, e.name)
           former == IF old.kind = "property" THEN Half(old, e.kind) ELSE NoMethod
           made == [proc |-> Proc(n, e.name, e.kind, e.of), idx |-> Index(us, n, e, former)]
           kept == IF own # NoMember THEN own
                   ELSE IF old # NoMember THEN [old EXCEPT !.of = e.of] ELSE NoProperty(e.name, e.of)
           result == WithHalf(kept, e.kind, made)
           counted == Counted(us, n, e, former)
           sound == old.kind \in {"none", "property"} /\ own.kind \in {"none", "property"}
<1>1. Table(us, m) /\ n \in Known(m)
  BY ChangeIs, TableIs
<1>2. e.name \in Word /\ e.of \in Sort
  BY DEF Word, Sort
<1>3. old \in MemberT(m) \cup {NoMember}
  BY <1>1, InheritedIs
<1>4. own \in MemberT(m) \cup {NoMember}
  <2>1. Len(T.members) \in Nat /\ \A i \in 1 .. Len(T.members) : T.members[i] \in MemberT(m)
    BY <1>1, MembersKnown
  <2> QED BY <2>1, MemberOfIs
<1>5. \A x \in MemberT(m) \cup {NoMember} : x.kind = "property" => x \in PropertyM(m)
  BY DEF MemberT, FieldM, CodeM, MethodM, NoMember
<1>6. \A x \in MemberT(m) \cup {NoMember} : x.kind = "none" => x = NoMember
  BY DEF MemberT, FieldM, CodeM, MethodM, PropertyM
<1>7. former # NoMethod => former.idx \in Int
  <2>1. \A h \in HalfT(m) : h # NoMethod => h.idx \in Int
    BY DEF HalfT, MethodT
  <2>2. CASE old.kind = "property"
    <3>1. old \in PropertyM(m)
      BY <1>3, <1>5, <2>2
    <3>2. former \in HalfT(m)
      <4> HIDE DEF old
      <4> QED BY <3>1, <2>2 DEF Half, PropertyM
    <3> QED BY <2>1, <3>2
  <2> QED BY <2>2
<1> HIDE DEF former
<1>8. made \in MethodT(m)
  <2>1. Index(us, n, e, former) \in Int
    BY <1>7, IndexIs
  <2>2. Proc(n, e.name, e.kind, e.of) \in ProcT(m)
    BY <1>1, <1>2 DEF Proc, ProcT
  <2> QED BY <2>1, <2>2 DEF MethodT
<1> HIDE DEF made, old, own
<1>9. sound => result \in PropertyM(m)
  <2> HAVE sound
  <2>1. own = NoMember \/ own \in PropertyM(m)
    BY <1>4, <1>5, <1>6
  <2>2. old = NoMember \/ old \in PropertyM(m)
    BY <1>3, <1>5, <1>6
  <2>3. NoProperty(e.name, e.of) \in PropertyM(m)
    BY <1>2 DEF NoProperty, PropertyM, HalfT
  <2>4. \A p \in PropertyM(m) : WithHalf(p, e.kind, made) \in PropertyM(m) /\ WithHalf([p EXCEPT !.of = e.of], e.kind, made) \in PropertyM(m)
    BY <1>2, <1>8, WithHalfIs
  <2> QED BY <2>1, <2>2, <2>3, <2>4
<1>10. counted \in Change(ts, m)
  BY CountedIs
<1> HIDE DEF counted, result
<1>11. sound => Fine(Ty_addMember(counted, n, result)) \in Result(Change(ts, m))
  BY <1>9, <1>10, AddMemberIs, FineIs DEF CodeM
<1> DEFINE changed == [counted EXCEPT ![n].members = [k \in DOMAIN @ |-> IF @[k].name = e.name THEN result ELSE @[k]]]
<1>12. sound => Fine(changed) \in Result(Change(ts, m))
  <2> HAVE sound
  <2>1. counted[n] \in Goods(ts, m) /\ \A U \in Goods(ts, m) : [counted EXCEPT ![n] = U] \in Change(ts, m)
    BY <1>10, ChangeIs
  <2>2. Replaced(counted[n], e.name, result) \in Goods(ts, m)
    BY <1>9, <2>1, GoodReplace DEF CodeM
  <2>3. changed = [counted EXCEPT ![n] = Replaced(counted[n], e.name, result)]
    BY DEF Replaced
  <2> HIDE DEF changed
  <2> QED BY <2>1, <2>2, <2>3, FineIs
<1>13. \A why \in {"other kind", "type", "not virtual"} : Refused(us, why) \in Result(Change(ts, m))
  <2>1. \A why \in {"other kind", "type", "not virtual"} : why \in Why
    BY DEF Why
  <2> QED BY <2>1, RefusedIs
<1>14. \/ \E why \in {"other kind", "type", "not virtual"} : PropertyEntry(us, n, e) = Refused(us, why)
       \/ sound /\ PropertyEntry(us, n, e) = Fine(Ty_addMember(counted, n, result))
       \/ sound /\ PropertyEntry(us, n, e) = Fine(changed)
  <2>1. PropertyEntry(us, n, e) =
          IF ~sound THEN Refused(us, "other kind")
          ELSE IF old # NoMember /\ old.of # e.of THEN Refused(us, "type")
          ELSE IF e.virtual /\ former # NoMethod /\ former.idx < 0 THEN Refused(us, "not virtual")
          ELSE Fine(IF own = NoMember THEN Ty_addMember(counted, n, result) ELSE changed)
    BY DEF PropertyEntry, former, made, old, own, counted, result
  <2> HIDE DEF sound, changed
  <2> QED BY <2>1
<1> HIDE DEF sound, changed
<1> QED BY <1>11, <1>12, <1>13, <1>14

LEMMA EntryStays ==
  ASSUME NEW ts, NEW m, Table(ts, m), m # 0, NEW us \in Change(ts, m), NEW e \in Declarations
  PROVE  Entry(us, Names[m], e) \in Result(Change(ts, m))
<1>1. e.kind \in {"field", "method", "getter", "setter"}
  BY ClassesAssumption
<1>2. /\ e.kind = "field" => Entry(us, Names[m], e) = FieldEntry(us, Names[m], e)
      /\ e.kind = "method" => Entry(us, Names[m], e) = MethodEntry(us, Names[m], e)
      /\ e.kind \in {"getter", "setter"} => Entry(us, Names[m], e) = PropertyEntry(us, Names[m], e)
  BY DEF Entry
<1> QED BY <1>1, <1>2, FieldEntryStays, MethodEntryStays, PropertyEntryStays

(* The declarations, one after the other.                                  *)
RawEntryStep(acc, c, e) ==
  With(acc, LAMBDA r : IF r.refusal # NoError THEN r ELSE Entry(r.ts, c, e))
EntryStep(r, c, e) == IF r.refusal # NoError THEN r ELSE Entry(r.ts, c, e)
EntryLoop(ts, c, entries) ==
  FoldLeft(LAMBDA acc, i : With(acc, LAMBDA r : IF r.refusal # NoError THEN r ELSE Entry(r.ts, c, i)),
           Fine(ts), entries)

LEMMA EntryStepIs ==
  ASSUME NEW r, NEW c, NEW e PROVE RawEntryStep(r, c, e) = EntryStep(r, c, e)
BY DEF RawEntryStep, EntryStep, With

LEMMA EntryKeeps ==
  ASSUME NEW ts, NEW c, NEW entries, Len(entries) \in Nat, DOMAIN entries = 1 .. Len(entries), NEW V, Fine(ts) \in V,
         \A k \in 1 .. Len(entries) : \A v \in V : EntryStep(v, c, entries[k]) \in V
  PROVE  EntryLoop(ts, c, entries) \in V
<1> DEFINE seq == entries
           n == Len(seq)
           base == Fine(ts)
           G == [k \in 1 .. n |-> [v \in V |-> EntryStep(v, c, seq[k])]]
           Body(it, s) == RawEntryStep(it[s \ {Max(s)}], c, seq[Max(s)])
           Eq(it) == it = [s \in SUBSET (DOMAIN seq) |-> IF s = {} THEN base ELSE Body(it, s)]
<1>1. n \in Nat /\ base \in V /\ DOMAIN seq = 1 .. n
  OBVIOUS
<1>2. G \in [1 .. n -> [V -> V]]
  OBVIOUS
<1>3. \A s \in SUBSET (1 .. n) : s # {} => Max(s) \in s /\ Max(s) \in 1 .. n /\ s \ {Max(s)} \in SUBSET (1 .. n)
  BY ONLY <1>1, MaxIn
<1>4. \E it : Eq(it)
  <2>1. PICK it \in [SUBSET (1 .. n) -> V] : FoldFcn(it, n, base, G)
    <3> HIDE DEF n, G, base
    <3> QED BY <1>1, <1>2, FoldExists
  <2>2. \A s \in SUBSET (1 .. n) : s # {} => G[Max(s)][it[s \ {Max(s)}]] = Body(it, s)
    <3> HIDE DEF seq, n, base
    <3> QED BY <1>3, <2>1, EntryStepIs
  <2>3. \A s \in SUBSET (1 .. n) : it[s] = IF s = {} THEN base ELSE Body(it, s)
    <3> HIDE DEF Body, G, base, n, seq
    <3> QED BY <2>1, <2>2 DEF FoldFcn
  <2>4. it = [s \in SUBSET (DOMAIN seq) |-> it[s]]
    BY <2>1, <1>1
  <2>5. Eq(it)
    <3> HIDE DEF Body, base, n, seq
    <3> QED BY <2>3, <2>4, <1>1
  <2> HIDE DEF Eq
  <2> QED BY <2>5
<1> DEFINE it == CHOOSE it : Eq(it)
<1>5. Eq(it)
  BY <1>4
<1>6. EntryLoop(ts, c, entries) = it[DOMAIN seq]
  BY DEF EntryLoop, RawEntryStep, FoldLeft, MapThenFoldSet
<1>7. it[{}] = base
  BY <1>5
<1>8. \A s \in SUBSET (1 .. n) :
        s # {} /\ it[s \ {Max(s)}] \in V => it[s] = G[Max(s)][it[s \ {Max(s)}]]
  <2> TAKE s \in SUBSET (1 .. n)
  <2> HAVE s # {} /\ it[s \ {Max(s)}] \in V
  <2>1. it[s] = Body(it, s)
    <3> HIDE DEF it, Body
    <3> QED BY <1>5, <1>1
  <2> HIDE DEF it, seq, n, base
  <2> QED BY <2>1, <1>3, EntryStepIs
<1>9. it[1 .. n] \in V
  <2> HIDE DEF n, G, it, base
  <2>1. GoesOn(it, n, V, base, G)
    BY <1>7, <1>8 DEF GoesOn
  <2> QED BY <1>1, <1>2, <2>1, FoldStays
<1> HIDE DEF it, n
<1> QED BY <1>1, <1>6, <1>9

LEMMA MembersLoopIs == ASSUME NEW ts, NEW n, NEW entries PROVE Members(ts, n, entries) = EntryLoop(ts, n, entries)
BY DEF Members, EntryLoop

LEMMA EntryLoopStays ==
  ASSUME NEW ts, NEW m, Table(ts, m), m # 0, NEW us \in Change(ts, m), NEW entries,
         Len(entries) \in Nat, DOMAIN entries = 1 .. Len(entries), \A k \in 1 .. Len(entries) : entries[k] \in Declarations
  PROVE  EntryLoop(us, Names[m], entries) \in Result(Change(ts, m))
<1> DEFINE V == Result(Change(ts, m))
           D == Declarations
           c == Names[m]
<1>1. Fine(us) \in V
  BY FineIs
<1>2. \A e \in D : \A r \in V : EntryStep(r, c, e) \in V
  <2> TAKE e \in D
  <2> TAKE r \in V
  <2>1. r.ts \in Change(ts, m)
    BY DEF Result
  <2>2. Entry(r.ts, c, e) \in V
    BY <2>1, EntryStays
  <2> QED BY <2>2 DEF EntryStep
<1> HIDE DEF V, D, c
<1>3. \A k \in 1 .. Len(entries) : \A r \in V : EntryStep(r, c, entries[k]) \in V
  BY <1>2 DEF D
<1>4. Len(entries) \in Nat /\ DOMAIN entries = 1 .. Len(entries)
  OBVIOUS
<1> QED BY <1>1, <1>3, <1>4, EntryKeeps DEF V, c

-----------------------------------------------------------------------------
(* The module file: what is read from it is what was written.              *)

(* The items of a file from number i on.                                   *)
At(f, i, s) == \A k \in 1 .. Len(s) : f[i + k - 1] = s[k]

LEMMA AtConcat ==
  ASSUME NEW S, NEW a \in Seq(S), NEW b \in Seq(S), NEW f, NEW i \in Nat, At(f, i, a \o b)
  PROVE  /\ At(f, i, a) /\ At(f, i + Len(a), b)
         /\ a \o b \in Seq(S) /\ Len(a \o b) = Len(a) + Len(b) /\ Len(a) \in Nat /\ Len(b) \in Nat
<1>1. Len(a) \in Nat /\ Len(b) \in Nat
  OBVIOUS
<1>2. /\ a \o b \in Seq(S) /\ Len(a \o b) = Len(a) + Len(b)
      /\ \A k \in 1 .. Len(a) + Len(b) : (a \o b)[k] = IF k <= Len(a) THEN a[k] ELSE b[k - Len(a)]
  BY ConcatProperties
<1>3. At(f, i, a)
  <2> SUFFICES ASSUME NEW k \in 1 .. Len(a) PROVE f[i + k - 1] = a[k]
    BY DEF At
  <2>1. k \in 1 .. Len(a) + Len(b) /\ k <= Len(a)
    BY <1>1
  <2>2. (a \o b)[k] = a[k]
    BY <2>1, <1>2
  <2>3. f[i + k - 1] = (a \o b)[k]
    BY <2>1, <1>2 DEF At
  <2> QED BY <2>2, <2>3
<1>4. At(f, i + Len(a), b)
  <2> SUFFICES ASSUME NEW k \in 1 .. Len(b) PROVE f[(i + Len(a)) + k - 1] = b[k]
    BY DEF At
  <2>1. /\ Len(a) + k \in 1 .. Len(a) + Len(b) /\ ~(Len(a) + k <= Len(a)) /\ (Len(a) + k) - Len(a) = k
        /\ i + (Len(a) + k) - 1 = (i + Len(a)) + k - 1
    BY <1>1
  <2>2. (a \o b)[Len(a) + k] = b[k]
    BY ONLY <2>1, <1>2
  <2>3. f[i + (Len(a) + k) - 1] = (a \o b)[Len(a) + k]
    BY <2>1, <1>2 DEF At
  <2> QED BY ONLY <2>1, <2>2, <2>3
<1> QED BY <1>1, <1>2, <1>3, <1>4

(* Sections written one behind the other begin where the one before ends.  *)
LEMMA Sections ==
  ASSUME NEW S, NEW ss \in Seq(Seq(S)), NEW f, NEW i \in Nat, At(f, i, FlattenSeq(ss))
  PROVE  \E pos \in [0 .. Len(ss) -> Nat] :
            /\ pos[0] = i /\ pos[Len(ss)] = i + Len(FlattenSeq(ss))
            /\ \A k \in 1 .. Len(ss) : pos[k] = pos[k - 1] + Len(ss[k]) /\ At(f, pos[k - 1], ss[k])
<1> DEFINE n == Len(ss)
<1>1. PICK h : /\ h \in [0 .. n -> Seq(S)] /\ h[0] = <<>> /\ h[n] = FlattenSeq(ss)
               /\ \A k \in 1 .. n : h[k] = h[k - 1] \o ss[k]
  BY FlattenSeqSteps
<1>2. n \in Nat /\ \A k \in 1 .. n : ss[k] \in Seq(S) /\ k - 1 \in 0 .. n
  OBVIOUS
<1> HIDE DEF n
<1>3. \A k \in 0 .. n : h[k] \in Seq(S) /\ Len(h[k]) \in Nat
  BY <1>1
<1> DEFINE T == {j \in 0 .. n : At(f, i, h[n - j])}
           pos == [k \in 0 .. n |-> i + Len(h[k])]
<1>4. 0 \in T
  BY <1>1, <1>2
<1>5. \A k \in 1 .. n : At(f, i, h[k]) => At(f, i, h[k - 1]) /\ At(f, i + Len(h[k - 1]), ss[k])
                                          /\ Len(h[k]) = Len(h[k - 1]) + Len(ss[k])
  <2> TAKE k \in 1 .. n
  <2> HAVE At(f, i, h[k])
  <2>1. h[k - 1] \in Seq(S) /\ ss[k] \in Seq(S) /\ h[k] = h[k - 1] \o ss[k]
    BY <1>1, <1>2, <1>3
  <2>2. At(f, i, h[k - 1] \o ss[k])
    BY <2>1
  <2>3. /\ At(f, i, h[k - 1]) /\ At(f, i + Len(h[k - 1]), ss[k])
        /\ Len(h[k - 1] \o ss[k]) = Len(h[k - 1]) + Len(ss[k])
    BY ONLY <2>1, <2>2, i \in Nat, AtConcat
  <2> QED BY <2>1, <2>3
<1>6. \A j \in 0 .. n - 1 : j \in T => j + 1 \in T
  <2> TAKE j \in 0 .. n - 1
  <2> HAVE j \in T
  <2>1. n - j \in 1 .. n /\ (n - j) - 1 = n - (j + 1) /\ j + 1 \in 0 .. n
    BY <1>2
  <2>2. At(f, i, h[n - j])
    OBVIOUS
  <2>3. At(f, i, h[n - (j + 1)])
    BY <2>1, <2>2, <1>5
  <2> QED BY <2>1, <2>3
<1>7. 0 .. n \subseteq T
  <2> HIDE DEF T
  <2> QED BY ONLY <1>2, <1>4, <1>6, Induction
<1>8. \A k \in 0 .. n : At(f, i, h[k])
  <2> TAKE k \in 0 .. n
  <2>1. n - k \in 0 .. n /\ n - (n - k) = k
    BY <1>2
  <2> QED BY <2>1, <1>7
<1>9. pos \in [0 .. n -> Nat] /\ pos[0] = i /\ pos[n] = i + Len(FlattenSeq(ss))
  <2>1. 0 \in 0 .. n /\ n \in 0 .. n /\ Len(<<>>) = 0
    BY <1>2
  <2> QED BY <2>1, <1>1, <1>3
<1>10. \A k \in 1 .. n : pos[k] = pos[k - 1] + Len(ss[k]) /\ At(f, pos[k - 1], ss[k])
  <2> TAKE k \in 1 .. n
  <2>1. k \in 0 .. n /\ k - 1 \in 0 .. n /\ Len(h[k - 1]) \in Nat /\ Len(ss[k]) \in Nat
    BY <1>2, <1>3
  <2>2. At(f, i + Len(h[k - 1]), ss[k]) /\ Len(h[k]) = Len(h[k - 1]) + Len(ss[k])
    BY <2>1, <1>5, <1>8
  <2>3. pos[k] = i + Len(h[k]) /\ pos[k - 1] = i + Len(h[k - 1])
    BY <2>1
  <2> HIDE DEF pos
  <2>4. pos[k] = pos[k - 1] + Len(ss[k])
    <3> DEFINE a == Len(h[k - 1])
               b == Len(ss[k])
    <3>1. a \in Nat /\ b \in Nat
      BY <2>1
    <3>2. pos[k] = i + (a + b) /\ pos[k - 1] = i + a
      BY <2>2, <2>3
    <3> HIDE DEF a, b
    <3>3. i + (a + b) = (i + a) + b
      BY <3>1
    <3> QED BY <3>2, <3>3 DEF b
  <2>5. At(f, pos[k - 1], ss[k])
    BY ONLY <2>2, <2>3
  <2> QED BY <2>4, <2>5
<1> HIDE DEF pos
<1> QED BY <1>9, <1>10 DEF n
-----------------------------------------------------------------------------
(* References, procedures and halves of properties.                        *)
Item == Int \cup Word \cup Sort \cup Known(Len(Names))
          \cup {"class", "interface", "field", "method", "property", "getter", "setter"}
First(m) == [k \in 1 .. m |-> Names[k]]
Number(m, d) == SelectInSeq(First(m), LAMBDA t : t = d)
Ref(m, d) == E_serializeTyRef(First(m), d)

LEMMA NumberIs ==
  ASSUME NEW m \in 0 .. Len(Names), NEW j \in 1 .. m, NEW d, d = Names[j]
  PROVE  Number(m, d) = j
<1> DEFINE I == {i \in 1 .. Len(First(m)) : First(m)[i] = d}
<1>1. m \in Nat /\ Len(Names) \in Nat
  BY NamesApart
<1>2. Len(First(m)) = m
  BY <1>1 DEF First
<1>3. \A i \in 1 .. m : First(m)[i] = Names[i] /\ i \in 1 .. Len(Names)
  BY <1>1 DEF First
<1>4. \A i \in 1 .. m : First(m)[i] = d <=> i = j
  BY <1>3, NamesApart
<1>5. I = {j}
  BY <1>2, <1>4
<1>6. Min({j}) = j
  BY DEF Min
<1>7. Number(m, d) = IF I # {} THEN Min(I) ELSE 0
  BY DEF Number, SelectInSeq
<1> QED BY <1>5, <1>6, <1>7

LEMMA RefIs ==
  ASSUME NEW m \in 0 .. Len(Names), NEW d \in Known(m) \cup {NULL}
  PROVE  \/ d = NULL /\ Ref(m, d) = <<0>>
         \/ d = Root /\ Ref(m, d) = <<3, 1>>
         \/ \E j \in 1 .. m : d = Names[j] /\ Ref(m, d) = <<2, j>>
<1>1. CASE d = NULL
  BY <1>1 DEF Ref, E_serializeTyRef
<1>2. CASE d # NULL /\ d = Root
  BY <1>2 DEF Ref, E_serializeTyRef, BRT
<1>3. CASE d # NULL /\ d # Root
  <2>1. PICK j \in 1 .. m : d = Names[j]
    BY <1>3 DEF Known
  <2>2. Number(m, d) = j
    BY <2>1, NumberIs
  <2>3. Ref(m, d) = <<2, Number(m, d)>>
    BY <1>3 DEF Ref, E_serializeTyRef, Own, Number
  <2> QED BY <1>3, <2>1, <2>2, <2>3
<1> QED BY <1>1, <1>2, <1>3

LEMMA RefRead ==
  ASSUME NEW m \in 0 .. Len(Names), NEW d \in Known(m) \cup {NULL}
  PROVE  /\ Ref(m, d) \in Seq(Item)
         /\ \A f : \A i \in Nat : At(f, i, Ref(m, d)) => E_deserializeTyRef(f, i, First(m)) = Got(d, i + Len(Ref(m, d)))
<1>1. Ref(m, d) \in Seq(Item)
  <2>1. \A x \in Int : x \in Item
    BY DEF Item
  <2> HIDE DEF Item
  <2>2. <<0>> \in Seq(Item) /\ <<3, 1>> \in Seq(Item)
    BY <2>1
  <2>3. \A j \in 1 .. m : <<2, j>> \in Seq(Item)
    BY <2>1
  <2> QED BY <2>2, <2>3, RefIs
<1>2. ASSUME NEW f, NEW i \in Nat, At(f, i, Ref(m, d))
      PROVE  E_deserializeTyRef(f, i, First(m)) = Got(d, i + Len(Ref(m, d)))
  <2>1. CASE d = NULL /\ Ref(m, d) = <<0>>
    <3>1. f[i] = 0 /\ Len(Ref(m, d)) = 1
      BY <1>2, <2>1 DEF At
    <3> QED BY <3>1, <2>1 DEF E_deserializeTyRef, Got
  <2>2. ASSUME NEW x \in {2, 3}, NEW y, Ref(m, d) = <<x, y>>
        PROVE  f[i] = x /\ f[i + 1] = y /\ Len(Ref(m, d)) = 2
    <3>1. 1 \in 1 .. 2 /\ 2 \in 1 .. 2 /\ i + 1 - 1 = i /\ i + 2 - 1 = i + 1 /\ Len(<<x, y>>) = 2
      OBVIOUS
    <3> QED BY <1>2, <2>2, <3>1 DEF At
  <2>3. CASE d = Root /\ Ref(m, d) = <<3, 1>>
    BY <2>2, <2>3 DEF E_deserializeTyRef, BRT, Got
  <2>4. ASSUME NEW j \in 1 .. m, d = Names[j], Ref(m, d) = <<2, j>>
        PROVE  E_deserializeTyRef(f, i, First(m)) = Got(d, i + Len(Ref(m, d)))
    <3>1. f[i] = 2 /\ f[i + 1] = j /\ Len(Ref(m, d)) = 2
      BY <2>2, <2>4
    <3>2. First(m)[j] = d
      BY <2>4 DEF First
    <3> QED BY <3>1, <3>2 DEF E_deserializeTyRef, BRT
  <2> QED BY <2>1, <2>3, <2>4, RefIs
<1> QED BY <1>1, <1>2

LEMMA AtItems ==
  ASSUME NEW f, NEW i \in Nat
  PROVE  /\ \A a : Len(<<a>>) = 1 /\ (At(f, i, <<a>>) => f[i] = a)
         /\ \A a, b : Len(<<a, b>>) = 2 /\ (At(f, i, <<a, b>>) => f[i] = a /\ f[i + 1] = b)
         /\ \A a, b, c : Len(<<a, b, c>>) = 3 /\ (At(f, i, <<a, b, c>>) => f[i] = a /\ f[i + 1] = b /\ f[i + 2] = c)
         /\ \A a, b, c, d : Len(<<a, b, c, d>>) = 4 /\
              (At(f, i, <<a, b, c, d>>) => f[i] = a /\ f[i + 1] = b /\ f[i + 2] = c /\ f[i + 3] = d)
<1>1. i + 1 - 1 = i /\ i + 2 - 1 = i + 1 /\ i + 3 - 1 = i + 2 /\ i + 4 - 1 = i + 3
  OBVIOUS
<1>2. \A a : Len(<<a>>) = 1 /\ (At(f, i, <<a>>) => f[i] = a)
  BY <1>1 DEF At
<1>3. \A a, b : Len(<<a, b>>) = 2 /\ (At(f, i, <<a, b>>) => f[i] = a /\ f[i + 1] = b)
  BY <1>1 DEF At
<1>4. \A a, b, c : Len(<<a, b, c>>) = 3 /\ (At(f, i, <<a, b, c>>) => f[i] = a /\ f[i + 1] = b /\ f[i + 2] = c)
  BY <1>1 DEF At
<1>5. \A a, b, c, d : Len(<<a, b, c, d>>) = 4 /\
        (At(f, i, <<a, b, c, d>>) => f[i] = a /\ f[i + 1] = b /\ f[i + 2] = c /\ f[i + 3] = d)
  BY <1>1 DEF At
<1> QED BY <1>2, <1>3, <1>4, <1>5

LEMMA ItemsAre ==
  /\ \A x \in Int \cup Word \cup Sort \cup Known(Len(Names)) : x \in Item
  /\ \A x \in {"class", "interface", "field", "method", "property", "getter", "setter"} : x \in Item
  /\ \A x \in Item : <<x>> \in Seq(Item)
  /\ \A x, y \in Item : <<x, y>> \in Seq(Item)
  /\ \A x, y, z \in Item : <<x, y, z>> \in Seq(Item)
  /\ \A x, y, z, w \in Item : <<x, y, z, w>> \in Seq(Item)
<1>1. \A x \in Int \cup Word \cup Sort \cup Known(Len(Names)) : x \in Item
  BY DEF Item
<1>2. \A x \in {"class", "interface", "field", "method", "property", "getter", "setter"} : x \in Item
  BY DEF Item
<1> QED BY <1>1, <1>2

LEMMA AtJoin ==
  ASSUME NEW a \in Seq(Item), NEW b \in Seq(Item), NEW s, s = a \o b, NEW f, NEW i \in Nat, At(f, i, s)
  PROVE  /\ At(f, i, a) /\ At(f, i + Len(a), b)
         /\ Len(s) = Len(a) + Len(b) /\ Len(a) \in Nat /\ Len(b) \in Nat
<1>1. At(f, i, a \o b)
  OBVIOUS
<1> QED BY <1>1, AtConcat

ProcS(m, p) == E_serializeTyProc(First(m), p)
HalfS(m, h) == ProcS(m, h.proc) \o <<h.idx>>

LEMMA ProcRead ==
  ASSUME NEW m \in 0 .. Len(Names), NEW p \in ProcT(m) \cup {NoProc}
  PROVE  /\ ProcS(m, p) \in Seq(Item)
         /\ \A f : \A i \in Nat : At(f, i, ProcS(m, p)) =>
              E_deserializeTyProc(f, i, First(m)) = Got(p, i + Len(ProcS(m, p)))
<1>1. CASE p = NoProc
  <2>1. ProcS(m, p) = <<0>>
    BY <1>1 DEF ProcS, E_serializeTyProc
  <2>2. ProcS(m, p) \in Seq(Item)
    BY <2>1, ItemsAre
  <2> QED BY <2>1, <2>2, <1>1, AtItems DEF E_deserializeTyProc
<1>2. CASE p # NoProc
  <2> DEFINE a == <<1, p.role, p.name, p.of>>
             b == Ref(m, p.owner)
  <2>1. p \in ProcT(m) /\ p.owner \in Known(m) /\ p = [owner |-> p.owner, name |-> p.name, role |-> p.role, of |-> p.of]
    BY <1>2 DEF ProcT
  <2>2. ProcS(m, p) = a \o b
    BY <1>2 DEF ProcS, E_serializeTyProc, Ref
  <2>3. a \in Seq(Item) /\ Len(a) = 4
    <3>1. p.role \in {"method", "getter", "setter"} /\ p.name \in Word /\ p.of \in Sort /\ 1 \in Int
      BY <2>1 DEF ProcT
    <3>2. 1 \in Item /\ p.role \in Item /\ p.name \in Item /\ p.of \in Item
      BY <3>1 DEF Item
    <3> QED BY <3>2, ItemsAre
  <2>4. b \in Seq(Item)
    BY <2>1, RefRead
  <2>5. ProcS(m, p) \in Seq(Item)
    <3> HIDE DEF a, b
    <3> QED BY ONLY <2>2, <2>3, <2>4, ConcatProperties
  <2>6. ASSUME NEW f, NEW i \in Nat, At(f, i, ProcS(m, p))
        PROVE  E_deserializeTyProc(f, i, First(m)) = Got(p, i + Len(ProcS(m, p)))
    <3>1. At(f, i, a) /\ At(f, i + 4, b) /\ Len(ProcS(m, p)) = 4 + Len(b) /\ Len(b) \in Nat
      <4> HIDE DEF a, b
      <4>1. At(f, i, a \o b)
        BY <2>2, <2>6
      <4> QED BY ONLY <4>1, <2>2, <2>3, <2>4, i \in Nat, AtConcat
    <3>2. f[i] = 1 /\ f[i + 1] = p.role /\ f[i + 2] = p.name /\ f[i + 3] = p.of
      BY <3>1, AtItems
    <3>3. E_deserializeTyRef(f, i + 4, First(m)) = Got(p.owner, (i + 4) + Len(b))
      <4>1. i + 4 \in Nat
        OBVIOUS
      <4> QED BY <4>1, <3>1, <2>1, RefRead
    <3> DEFINE owner == E_deserializeTyRef(f, i + 4, First(m))
    <3>4. E_deserializeTyProc(f, i, First(m)) = Got(Proc(owner.v, f[i + 2], f[i + 1], f[i + 3]), owner.i)
      BY <3>2 DEF E_deserializeTyProc, With
    <3>5. owner.v = p.owner /\ owner.i = (i + 4) + Len(b)
      BY <3>3 DEF Got
    <3>6. Proc(owner.v, f[i + 2], f[i + 1], f[i + 3]) = p
      BY <3>2, <3>5, <2>1 DEF Proc
    <3>7. (i + 4) + Len(b) = i + (4 + Len(b))
      BY <3>1
    <3> HIDE DEF owner, b
    <3> QED BY <3>1, <3>4, <3>5, <3>6, <3>7
  <2> QED BY <2>5, <2>6
<1> QED BY <1>1, <1>2

LEMMA HalfRead ==
  ASSUME NEW m \in 0 .. Len(Names), NEW h \in HalfT(m)
  PROVE  /\ HalfS(m, h) \in Seq(Item)
         /\ \A f : \A i \in Nat : At(f, i, HalfS(m, h)) => MethodAt(f, i, First(m)) = Got(h, i + Len(HalfS(m, h)))
<1> DEFINE a == ProcS(m, h.proc)
           b == <<h.idx>>
<1>1. /\ h.proc \in ProcT(m) \cup {NoProc} /\ h.idx \in Int /\ (h.proc = NoProc => h = NoMethod)
      /\ h = [proc |-> h.proc, idx |-> h.idx]
  <2>1. NoProc \notin ProcT(m)
    <3>1. NULL \notin Known(m)
      BY KnownNames
    <3> QED BY <3>1 DEF NoProc, Proc, ProcT
  <2> QED BY <2>1 DEF HalfT, MethodT, NoMethod
<1>2. a \in Seq(Item) /\ b \in Seq(Item) /\ Len(b) = 1
  BY <1>1, ProcRead, ItemsAre
<1>3. HalfS(m, h) = a \o b
  BY DEF HalfS
<1>4. HalfS(m, h) \in Seq(Item)
  <2> HIDE DEF a, b
  <2> QED BY ONLY <1>2, <1>3, ConcatProperties
<1>5. ASSUME NEW f, NEW i \in Nat, At(f, i, HalfS(m, h))
      PROVE  MethodAt(f, i, First(m)) = Got(h, i + Len(HalfS(m, h)))
  <2>1. At(f, i, a) /\ At(f, i + Len(a), b) /\ Len(HalfS(m, h)) = Len(a) + 1 /\ Len(a) \in Nat
    <3> HIDE DEF a, b
    <3>1. At(f, i, a \o b)
      BY <1>3, <1>5
    <3> QED BY ONLY <3>1, <1>2, <1>3, i \in Nat, AtConcat
  <2>2. f[i + Len(a)] = h.idx
    <3>1. i + Len(a) \in Nat
      BY <2>1
    <3> HIDE DEF a
    <3> QED BY <3>1, <2>1, AtItems
  <2> DEFINE p == E_deserializeTyProc(f, i, First(m))
  <2>3. p = Got(h.proc, i + Len(a))
    BY <1>1, <2>1, ProcRead
  <2>4. p.v = h.proc /\ p.i = i + Len(a)
    BY <2>3 DEF Got
  <2>5. MethodAt(f, i, First(m)) = Got(IF p.v = NoProc THEN NoMethod ELSE [proc |-> p.v, idx |-> f[p.i]], p.i + 1)
    BY DEF MethodAt, With
  <2>6. (i + Len(a)) + 1 = i + (Len(a) + 1)
    BY <2>1
  <2> HIDE DEF p, a
  <2> QED BY <1>1, <2>1, <2>2, <2>4, <2>5, <2>6
<1> QED BY <1>4, <1>5

MemberS(m, x) == E_serializeMember(First(m), x)

LEMMA FieldRead ==
  ASSUME NEW m \in 0 .. Len(Names), NEW x \in FieldM
  PROVE  /\ MemberS(m, x) \in Seq(Item)
         /\ \A f : \A i \in Nat : At(f, i, MemberS(m, x)) =>
              E_deserializeMember(f, i, First(m)) = Got(x, i + Len(MemberS(m, x)))
<1> DEFINE a == <<1, x.kind>>
           b == <<x.name, x.at, x.size>>
<1>1. x.kind = "field" /\ x.name \in Word /\ x.at \in Nat /\ x.size \in Nat
      /\ x = [kind |-> "field", name |-> x.name, at |-> x.at, size |-> x.size]
  BY DEF FieldM
<1>2. MemberS(m, x) = a \o b
  BY <1>1 DEF MemberS, E_serializeMember
<1>3. a \in Seq(Item) /\ b \in Seq(Item) /\ Len(a) = 2 /\ Len(b) = 3
  <2>1. 1 \in Item /\ x.kind \in Item /\ x.name \in Item /\ x.at \in Item /\ x.size \in Item
    BY <1>1 DEF Item
  <2> QED BY <2>1, ItemsAre
<1>4. MemberS(m, x) \in Seq(Item)
  <2> HIDE DEF a, b
  <2> QED BY ONLY <1>2, <1>3, ConcatProperties
<1>5. ASSUME NEW f, NEW i \in Nat, At(f, i, MemberS(m, x))
      PROVE  E_deserializeMember(f, i, First(m)) = Got(x, i + Len(MemberS(m, x)))
  <2>1. At(f, i, a) /\ At(f, i + 2, b) /\ Len(MemberS(m, x)) = 5
    <3> HIDE DEF a, b
    <3>1. /\ At(f, i, a) /\ At(f, i + Len(a), b) /\ Len(MemberS(m, x)) = Len(a) + Len(b)
      BY ONLY <1>2, <1>3, <1>5, i \in Nat, AtJoin
    <3> QED BY <3>1, <1>3
  <2>2. i + 2 \in Nat /\ (i + 2) + 1 = i + 3 /\ (i + 2) + 2 = i + 4
    OBVIOUS
  <2>3. f[i + 1] = "field" /\ f[i + 2] = x.name /\ f[i + 3] = x.at /\ f[i + 4] = x.size
    BY <2>1, <2>2, <1>1, AtItems
  <2>4. E_deserializeMember(f, i, First(m)) = Got([kind |-> "field", name |-> f[i + 2], at |-> f[i + 3], size |-> f[i + 4]], i + 5)
    BY <2>3 DEF E_deserializeMember
  <2> QED BY <2>1, <2>3, <2>4, <1>1
<1> QED BY <1>4, <1>5

LEMMA MethodRead ==
  ASSUME NEW m \in 0 .. Len(Names), NEW x \in MethodM(m)
  PROVE  /\ MemberS(m, x) \in Seq(Item)
         /\ \A f : \A i \in Nat : At(f, i, MemberS(m, x)) =>
              E_deserializeMember(f, i, First(m)) = Got(x, i + Len(MemberS(m, x)))
<1> DEFINE a == <<1, x.kind>>
           h == [proc |-> x.proc, idx |-> x.idx]
           b == HalfS(m, h)
<1>1. x.kind = "method" /\ x.name = x.proc.name /\ x.proc \in ProcT(m) /\ x.idx \in Int
      /\ x = [kind |-> "method", name |-> x.name, proc |-> x.proc, idx |-> x.idx]
  BY DEF MethodM
<1>2. MemberS(m, x) = a \o b
  BY <1>1 DEF MemberS, E_serializeMember, HalfS, ProcS
<1>3. h \in HalfT(m) /\ h.proc = x.proc /\ h.idx = x.idx
  BY <1>1 DEF HalfT, MethodT
<1> HIDE DEF h
<1>4. a \in Seq(Item) /\ b \in Seq(Item) /\ Len(a) = 2
  <2>1. 1 \in Item /\ x.kind \in Item
    BY <1>1 DEF Item
  <2> QED BY <1>3, <2>1, ItemsAre, HalfRead
<1>5. MemberS(m, x) \in Seq(Item)
  <2> HIDE DEF a, b
  <2> QED BY ONLY <1>2, <1>4, ConcatProperties
<1>6. ASSUME NEW f, NEW i \in Nat, At(f, i, MemberS(m, x))
      PROVE  E_deserializeMember(f, i, First(m)) = Got(x, i + Len(MemberS(m, x)))
  <2>1. At(f, i, a) /\ At(f, i + 2, b) /\ Len(MemberS(m, x)) = 2 + Len(b) /\ Len(b) \in Nat
    <3> HIDE DEF a, b
    <3>1. At(f, i, a \o b)
      BY <1>2, <1>6
    <3> QED BY ONLY <3>1, <1>2, <1>4, i \in Nat, AtConcat
  <2>2. i + 2 \in Nat /\ (i + 2) + Len(b) = i + (2 + Len(b))
    BY <2>1
  <2>3. f[i + 1] = "method"
    BY <2>1, <1>1, AtItems
  <2> DEFINE g == MethodAt(f, i + 2, First(m))
  <2>4. g = Got(h, (i + 2) + Len(b))
    BY <2>1, <2>2, <1>3, HalfRead
  <2>5. g.v = h /\ g.i = i + (2 + Len(b))
    BY <2>2, <2>4 DEF Got
  <2>6. E_deserializeMember(f, i, First(m)) =
          Got([kind |-> "method", name |-> g.v.proc.name, proc |-> g.v.proc, idx |-> g.v.idx], g.i)
    BY <2>3 DEF E_deserializeMember, With
  <2> HIDE DEF g, b
  <2> QED BY <2>1, <2>5, <2>6, <1>1, <1>3
<1> QED BY <1>5, <1>6

LEMMA PropertyRead ==
  ASSUME NEW m \in 0 .. Len(Names), NEW x \in PropertyM(m)
  PROVE  /\ MemberS(m, x) \in Seq(Item)
         /\ \A f : \A i \in Nat : At(f, i, MemberS(m, x)) =>
              E_deserializeMember(f, i, First(m)) = Got(x, i + Len(MemberS(m, x)))
<1> DEFINE a == <<1, x.kind>>
           n == <<x.name, x.of>>
           g == HalfS(m, x.get)
           s == HalfS(m, x.set)
           gp == ProcS(m, x.get.proc)
           gi == <<x.get.idx>>
           sp == ProcS(m, x.set.proc)
           si == <<x.set.idx>>
<1>1. /\ x.kind = "property" /\ x.name \in Word /\ x.of \in Sort /\ x.get \in HalfT(m) /\ x.set \in HalfT(m)
      /\ x = [kind |-> "property", name |-> x.name, of |-> x.of, get |-> x.get, set |-> x.set]
  BY DEF PropertyM
<1>2. /\ x.get.idx \in Int /\ x.set.idx \in Int
      /\ x.get.proc \in ProcT(m) \cup {NoProc} /\ x.set.proc \in ProcT(m) \cup {NoProc}
  BY <1>1 DEF HalfT, MethodT, NoMethod
<1>3. /\ a \in Seq(Item) /\ n \in Seq(Item) /\ Len(a) = 2 /\ Len(n) = 2
      /\ gp \in Seq(Item) /\ sp \in Seq(Item) /\ gi \in Seq(Item) /\ si \in Seq(Item)
      /\ g \in Seq(Item) /\ s \in Seq(Item) /\ g = gp \o gi /\ s = sp \o si
  <2>1. 1 \in Item /\ x.kind \in Item /\ x.name \in Item /\ x.of \in Item /\ x.get.idx \in Item /\ x.set.idx \in Item
    BY <1>1, <1>2 DEF Item
  <2>2. g = gp \o gi /\ s = sp \o si
    BY DEF HalfS
  <2> QED BY <1>1, <1>2, <2>1, <2>2, ItemsAre, ProcRead, HalfRead
<1>4. MemberS(m, x) = a \o ((((n \o gp) \o gi) \o sp) \o si)
  BY <1>1 DEF MemberS, E_serializeMember, ProcS
<1> HIDE DEF a, n, g, s, gp, gi, sp, si
<1>5. (((n \o gp) \o gi) \o sp) \o si = (n \o g) \o s
  <2>1. n \o gp \in Seq(Item)
    BY ONLY <1>3, ConcatProperties
  <2>2. (n \o gp) \o gi = n \o g
    <3>1. (n \o gp) \o gi = n \o (gp \o gi)
      <4>1. n \in Seq(Item) /\ gp \in Seq(Item) /\ gi \in Seq(Item)
        BY <1>3
      <4> QED BY ONLY <4>1, ConcatAssociative
    <3> QED BY <3>1, <1>3
  <2>3. n \o g \in Seq(Item)
    BY ONLY <1>3, ConcatProperties
  <2>4. ((n \o g) \o sp) \o si = (n \o g) \o s
    <3>1. ((n \o g) \o sp) \o si = (n \o g) \o (sp \o si)
      <4> DEFINE w == n \o g
      <4>1. w \in Seq(Item) /\ sp \in Seq(Item) /\ si \in Seq(Item)
        BY <1>3, <2>3
      <4> HIDE DEF w
      <4>2. (w \o sp) \o si = w \o (sp \o si)
        BY ONLY SMTT(30), <4>1, ConcatAssociative
      <4> QED BY <4>2 DEF w
    <3> QED BY <3>1, <1>3
  <2> QED BY <2>2, <2>4
<1>6. n \o g \in Seq(Item) /\ (n \o g) \o s \in Seq(Item) /\ MemberS(m, x) = a \o ((n \o g) \o s)
  <2>1. n \o g \in Seq(Item)
    BY ONLY <1>3, ConcatProperties
  <2>2. (n \o g) \o s \in Seq(Item)
    BY ONLY <2>1, <1>3, ConcatProperties
  <2> QED BY <2>1, <2>2, <1>4, <1>5
<1>7. MemberS(m, x) \in Seq(Item)
  BY ONLY <1>3, <1>6, ConcatProperties
<1>8. ASSUME NEW f, NEW i \in Nat, At(f, i, MemberS(m, x))
      PROVE  E_deserializeMember(f, i, First(m)) = Got(x, i + Len(MemberS(m, x)))
  <2> DEFINE w == n \o g
             r == w \o s
  <2>0. w \in Seq(Item) /\ r \in Seq(Item) /\ MemberS(m, x) = a \o r /\ i + 2 \in Nat
    BY <1>6
  <2> HIDE DEF r
  <2>1. At(f, i, a) /\ At(f, i + 2, r) /\ Len(MemberS(m, x)) = 2 + Len(r)
    <3>1. At(f, i, a) /\ At(f, i + Len(a), r) /\ Len(MemberS(m, x)) = Len(a) + Len(r)
      <4>1. a \in Seq(Item) /\ r \in Seq(Item) /\ MemberS(m, x) = a \o r /\ At(f, i, MemberS(m, x))
        BY <2>0, <1>3, <1>8
      <4> QED BY ONLY <4>1, i \in Nat, AtJoin
    <3> QED BY <3>1, <1>3
  <2> HIDE DEF w
  <2>2. At(f, i + 2, w) /\ At(f, (i + 2) + Len(w), s) /\ Len(r) = Len(w) + Len(s) /\ Len(s) \in Nat
    <3>1. r = w \o s /\ w \in Seq(Item) /\ s \in Seq(Item) /\ At(f, i + 2, r) /\ i + 2 \in Nat
      BY <2>0, <2>1, <1>3 DEF r
    <3> DEFINE j == i + 2
    <3> HIDE DEF j
    <3>2. At(f, j, w) /\ At(f, j + Len(w), s) /\ Len(r) = Len(w) + Len(s) /\ Len(s) \in Nat
      <4>1. r = w \o s /\ w \in Seq(Item) /\ s \in Seq(Item) /\ At(f, j, r) /\ j \in Nat
        BY <3>1 DEF j
      <4> QED BY ONLY <4>1, AtJoin
    <3> QED BY <3>2 DEF j
  <2>3. At(f, i + 2, n) /\ At(f, (i + 2) + 2, g) /\ Len(w) = 2 + Len(g) /\ Len(g) \in Nat
    <3>1. w = n \o g /\ n \in Seq(Item) /\ g \in Seq(Item) /\ At(f, i + 2, w) /\ i + 2 \in Nat
      BY <2>0, <2>2, <1>3 DEF w
    <3> DEFINE j == i + 2
    <3> HIDE DEF j
    <3>2. At(f, j, n) /\ At(f, j + Len(n), g) /\ Len(w) = Len(n) + Len(g) /\ Len(g) \in Nat
      <4>1. w = n \o g /\ n \in Seq(Item) /\ g \in Seq(Item) /\ At(f, j, w) /\ j \in Nat
        BY <3>1 DEF j
      <4> QED BY ONLY <4>1, AtJoin
    <3> QED BY <3>2, <1>3 DEF j
  <2>4. /\ (i + 2) + 2 = i + 4 /\ (i + 2) + (2 + Len(g)) = (i + 4) + Len(g) /\ (i + 2) + 1 = i + 3
        /\ i + 2 \in Nat /\ i + 4 \in Nat /\ (i + 4) + Len(g) \in Nat
        /\ ((i + 4) + Len(g)) + Len(s) = i + (2 + ((2 + Len(g)) + Len(s)))
    BY <2>2, <2>3
  <2>5. f[i + 1] = "property" /\ f[i + 2] = x.name /\ f[i + 3] = x.of
    <3>1. f[i + 1] = x.kind
      BY <2>1, AtItems DEF a
    <3>2. f[i + 2] = x.name /\ f[(i + 2) + 1] = x.of
      <4>1. At(f, i + 2, <<x.name, x.of>>) /\ i + 2 \in Nat
        BY <2>0, <2>3 DEF n
      <4> QED BY ONLY <4>1, AtItems
    <3> QED BY <3>1, <3>2, <2>4, <1>1
  <2> DEFINE get == MethodAt(f, i + 4, First(m))
             set == MethodAt(f, get.i, First(m))
  <2>6. get.v = x.get /\ get.i = (i + 4) + Len(g)
    <3>1. get = Got(x.get, (i + 4) + Len(g))
      BY <2>3, <2>4, <1>1, HalfRead DEF g
    <3> QED BY <3>1 DEF Got
  <2> HIDE DEF get
  <2>7. set.v = x.set /\ set.i = ((i + 4) + Len(g)) + Len(s)
    <3>1. At(f, get.i, s) /\ get.i \in Nat
      BY <2>2, <2>3, <2>4, <2>6
    <3>2. set = Got(x.set, get.i + Len(s))
      BY <3>1, <1>1, HalfRead DEF s
    <3> QED BY <3>2, <2>6 DEF Got
  <2>8. E_deserializeMember(f, i, First(m)) =
          Got([kind |-> "property", name |-> f[i + 2], of |-> f[i + 3], get |-> get.v, set |-> set.v], set.i)
    BY <2>5 DEF E_deserializeMember, With, get
  <2>9. Len(MemberS(m, x)) = 2 + ((2 + Len(g)) + Len(s))
    BY <2>1, <2>2, <2>3
  <2> HIDE DEF set
  <2> QED BY <1>1, <2>4, <2>5, <2>6, <2>7, <2>8, <2>9
<1> QED BY <1>7, <1>8

LEMMA MemberRead ==
  ASSUME NEW m \in 0 .. Len(Names), NEW x \in MemberT(m)
  PROVE  /\ MemberS(m, x) \in Seq(Item)
         /\ \A f : \A i \in Nat : At(f, i, MemberS(m, x)) =>
              E_deserializeMember(f, i, First(m)) = Got(x, i + Len(MemberS(m, x)))
<1>1. x \in FieldM \/ x \in MethodM(m) \/ x \in PropertyM(m)
  BY DEF MemberT, CodeM
<1> QED BY <1>1, FieldRead, MethodRead, PropertyRead
-----------------------------------------------------------------------------
(* The members of a type.                                                  *)
RawMembersStep(acc, f, names) ==
  With(acc, LAMBDA r :
    With(E_deserializeMember(f, r.i, names), LAMBDA m : Got(Append(r.v, m.v), m.i)))
MembersStep(r, f, names) ==
  LET m == E_deserializeMember(f, r.i, names) IN Got(Append(r.v, m.v), m.i)
MembersLoop(f, names, at, list) ==
  FoldLeft(LAMBDA acc, k :
             With(acc, LAMBDA r :
               With(E_deserializeMember(f, r.i, names), LAMBDA m : Got(Append(r.v, m.v), m.i))),
           Got(<<>>, at), list)

LEMMA MembersStepIs ==
  ASSUME NEW r, NEW f, NEW names PROVE RawMembersStep(r, f, names) = MembersStep(r, f, names)
BY DEF RawMembersStep, MembersStep, With

LEMMA MembersStepOf ==
  ASSUME NEW f, NEW names, NEW r, NEW v, NEW p, NEW x, NEW q,
         r = Got(v, p), E_deserializeMember(f, p, names) = Got(x, q)
  PROVE  MembersStep(r, f, names) = Got(Append(v, x), q)
BY DEF MembersStep, Got

LEMMA MembersLoopOf ==
  ASSUME NEW f, NEW i, NEW names
  PROVE  E_deserializeMembers(f, i, names) = MembersLoop(f, names, i + 1, [k \in 1 .. f[i] |-> k])
BY DEF E_deserializeMembers, MembersLoop

MembersRun(st, n, f, names) == \A k \in 1 .. n : st[k] = MembersStep(st[k - 1], f, names)

LEMMA MembersReads ==
  ASSUME NEW f, NEW names, NEW at, NEW list, NEW n \in Nat, DOMAIN list = 1 .. n, NEW st, st[0] = Got(<<>>, at),
         MembersRun(st, n, f, names)
  PROVE  MembersLoop(f, names, at, list) = st[n]
<1> DEFINE seq == list
           base == Got(<<>>, at)
           Step(v, k) == MembersStep(v, f, names)
           Body(it, s) == RawMembersStep(it[s \ {Max(s)}], f, names)
           Good(m, it) == it = [s \in SUBSET (1 .. m) |-> IF s = {} THEN base ELSE Step(it[s \ {Max(s)}], Max(s))]
           Eq(it) == it = [s \in SUBSET (DOMAIN seq) |-> IF s = {} THEN base ELSE Body(it, s)]
           T == {m \in 0 .. n : \E it : Good(m, it)}
<1>1. \A it : \A s : Body(it, s) = Step(it[s \ {Max(s)}], Max(s))
  BY MembersStepIs
<1>2. DOMAIN seq = 1 .. n /\ st[0] = base /\ \A k \in 1 .. n : st[k] = Step(st[k - 1], k)
  BY DEF MembersRun
<1> HIDE DEF seq, base, Step, Body
<1>3. 0 \in T
  <2>1. Good(0, [s \in SUBSET (1 .. 0) |-> base])
    BY DEF Good
  <2> HIDE DEF Good
  <2> QED BY <2>1
<1>4. \A m \in 0 .. n - 1 : m \in T => m + 1 \in T
  <2> SUFFICES ASSUME NEW m \in 0 .. n - 1, NEW a, Good(m, a) PROVE \E it : Good(m + 1, it)
    <3> HIDE DEF Good
    <3>1. \A m \in 0 .. n - 1 : m + 1 \in 0 .. n
      OBVIOUS
    <3> QED BY <3>1
  <2> DEFINE b == [s \in SUBSET (1 .. m + 1) |->
                     IF m + 1 \in s THEN Step(a[s \ {m + 1}], m + 1) ELSE a[s]]
  <2>1. \A s \in SUBSET (1 .. m + 1) :
          /\ m + 1 \in s => Max(s) = m + 1 /\ s \ {m + 1} \in SUBSET (1 .. m)
          /\ m + 1 \notin s => s \in SUBSET (1 .. m)
          /\ m + 1 \notin s /\ s # {} => Max(s) \in 1 .. m /\ s \ {Max(s)} \in SUBSET (1 .. m)
    <3> TAKE s \in SUBSET (1 .. m + 1)
    <3>1. m + 1 \in s => Max(s) = m + 1 /\ s \ {m + 1} \in SUBSET (1 .. m)
      <4>1. m + 1 \in Nat
        OBVIOUS
      <4> QED BY <4>1, MaxTop
    <3>2. m + 1 \notin s => s \in SUBSET (1 .. m)
      OBVIOUS
    <3>3. m \in Nat
      OBVIOUS
    <3> QED BY <3>1, <3>2, <3>3, MaxIn
  <2>2. \A s \in SUBSET (1 .. m) : s \in SUBSET (1 .. m + 1) /\ m + 1 \notin s
    OBVIOUS
  <2>3. \A s \in SUBSET (1 .. m) : b[s] = a[s]
    BY <2>2
  <2>4. \A s \in SUBSET (1 .. m) : a[s] = IF s = {} THEN base ELSE Step(a[s \ {Max(s)}], Max(s))
    OBVIOUS
  <2>5. \A s \in SUBSET (1 .. m + 1) : b[s] = IF s = {} THEN base ELSE Step(b[s \ {Max(s)}], Max(s))
    <3> TAKE s \in SUBSET (1 .. m + 1)
    <3>1. CASE m + 1 \in s
      <4>1. b[s] = Step(a[s \ {m + 1}], m + 1)
        BY <3>1
      <4> HIDE DEF b
      <4> QED BY <4>1, <3>1, <2>1, <2>3
    <3>2. CASE m + 1 \notin s
      <4> HIDE DEF b, Good
      <4>1. s \in SUBSET (1 .. m) /\ b[s] = a[s]
        BY <3>2, <2>1, <2>3
      <4>2. s # {} => b[s \ {Max(s)}] = a[s \ {Max(s)}]
        BY <3>2, <2>1, <2>3
      <4> QED BY <4>1, <4>2, <2>4
    <3> QED BY <3>1, <3>2
  <2>6. b = [s \in SUBSET (1 .. m + 1) |-> b[s]]
    OBVIOUS
  <2>7. Good(m + 1, b)
    <3> HIDE DEF b
    <3> QED BY <2>5, <2>6
  <2> HIDE DEF Good
  <2> QED BY <2>7
<1>5. \E it : Good(n, it)
  <2> HIDE DEF T
  <2>1. 0 .. n \subseteq T
    BY ONLY <1>3, <1>4, n \in Nat, Induction
  <2>2. n \in T
    BY <2>1
  <2> HIDE DEF Good
  <2> QED BY <2>2 DEF T
<1>6. \E it : Eq(it)
  <2>1. PICK it : Good(n, it)
    <3> HIDE DEF Good
    <3> QED BY <1>5
  <2>2. Eq(it)
    BY <2>1, <1>1, <1>2
  <2> HIDE DEF Eq
  <2> QED BY <2>2
<1> DEFINE it == CHOOSE it : Eq(it)
<1>7. Eq(it)
  BY <1>6
<1>8. MembersLoop(f, names, at, list) = it[1 .. n]
  <2>1. MembersLoop(f, names, at, list) = it[DOMAIN seq]
    BY DEF MembersLoop, RawMembersStep, FoldLeft, MapThenFoldSet, seq, base, Body
  <2> QED BY <2>1, <1>2
<1> DEFINE U == {k \in 0 .. n : it[1 .. k] = st[k]}
<1>9. \A s \in SUBSET (1 .. n) : it[s] = IF s = {} THEN base ELSE Step(it[s \ {Max(s)}], Max(s))
  <2> HIDE DEF it
  <2> QED BY <1>1, <1>2, <1>7
<1> HIDE DEF it
<1>10. 0 \in U
  <2>1. 1 .. 0 = {} /\ {} \in SUBSET (1 .. n)
    OBVIOUS
  <2>2. it[{}] = base
    BY <2>1, <1>9
  <2> QED BY <2>1, <2>2, <1>2
<1>11. \A k \in 0 .. n - 1 : k \in U => k + 1 \in U
  <2> TAKE k \in 0 .. n - 1
  <2> HAVE k \in U
  <2>1. /\ 1 .. k + 1 \in SUBSET (1 .. n) /\ k + 1 \in 1 .. k + 1 /\ (1 .. k + 1) \ {k + 1} = 1 .. k
        /\ k + 1 \in 1 .. n /\ (k + 1) - 1 = k /\ k + 1 \in 0 .. n /\ k + 1 \in Nat
    OBVIOUS
  <2>2. Max(1 .. k + 1) = k + 1
    BY ONLY <2>1, MaxTop
  <2>3. it[1 .. k + 1] = Step(it[1 .. k], k + 1)
    BY <2>1, <2>2, <1>9
  <2>4. st[k + 1] = Step(st[k], k + 1)
    BY <2>1, <1>2
  <2> QED BY <2>1, <2>3, <2>4
<1>12. 0 .. n \subseteq U
  <2> HIDE DEF U
  <2> QED BY ONLY <1>10, <1>11, n \in Nat, Induction
<1> QED BY <1>8, <1>12

Prefix(s, k) == [j \in 1 .. k |-> s[j]]

LEMMA PrefixIs ==
  ASSUME NEW S, NEW s \in Seq(S)
  PROVE  /\ Prefix(s, 0) = <<>> /\ Prefix(s, Len(s)) = s
         /\ \A k \in 1 .. Len(s) : Prefix(s, k - 1) \in Seq(S) /\ Append(Prefix(s, k - 1), s[k]) = Prefix(s, k)
<1>1. Prefix(s, 0) = <<>> /\ Prefix(s, Len(s)) = s
  BY DEF Prefix
<1>2. ASSUME NEW k \in 1 .. Len(s)
      PROVE  Prefix(s, k - 1) \in Seq(S) /\ Append(Prefix(s, k - 1), s[k]) = Prefix(s, k)
  <2>1. Prefix(s, k - 1) \in [1 .. k - 1 -> S] /\ k - 1 \in Nat /\ Len(s) \in Nat
    BY DEF Prefix
  <2>2. Prefix(s, k - 1) \in Seq(S) /\ Len(Prefix(s, k - 1)) = k - 1
    BY <2>1, IsASequence
  <2>3. Append(Prefix(s, k - 1), s[k]) = Prefix(s, k)
    BY <2>2 DEF Prefix
  <2> QED BY <2>2, <2>3
<1> QED BY <1>1, <1>2

MembersS(m, members) == E_serializeMembers(First(m), members)

LEMMA MembersRead ==
  ASSUME NEW m \in 0 .. Len(Names), NEW members \in Seq(MemberT(m))
  PROVE  /\ MembersS(m, members) \in Seq(Item)
         /\ \A f : \A i \in Nat : At(f, i, MembersS(m, members)) =>
              E_deserializeMembers(f, i, First(m)) = Got(members, i + Len(MembersS(m, members)))
<1> DEFINE n == Len(members)
           ss == [k \in DOMAIN members |-> MemberS(m, members[k])]
           a == <<n>>
           b == FlattenSeq(ss)
<1>1. n \in Nat /\ DOMAIN members = 1 .. n /\ \A k \in 1 .. n : members[k] \in MemberT(m)
  OBVIOUS
<1>2. ss \in Seq(Seq(Item)) /\ Len(ss) = n /\ \A k \in 1 .. n : ss[k] = MemberS(m, members[k])
  <2>1. \A k \in 1 .. n : MemberS(m, members[k]) \in Seq(Item)
    BY <1>1, MemberRead
  <2>2. ss \in [1 .. n -> Seq(Item)] /\ \A k \in 1 .. n : ss[k] = MemberS(m, members[k])
    BY <1>1, <2>1
  <2> HIDE DEF n, ss
  <2> QED BY <1>1, <2>2, IsASequence
<1>3. MembersS(m, members) = a \o b
  BY DEF MembersS, E_serializeMembers, MemberS
<1> HIDE DEF ss
<1>4. a \in Seq(Item) /\ Len(a) = 1 /\ b \in Seq(Item)
  <2>1. n \in Item
    BY <1>1 DEF Item
  <2> QED BY <2>1, <1>2, ItemsAre, FlattenSeqType
<1> HIDE DEF a, b, n
<1>5. MembersS(m, members) \in Seq(Item)
  BY ONLY <1>3, <1>4, ConcatProperties
<1>6. ASSUME NEW f, NEW i \in Nat, At(f, i, MembersS(m, members))
      PROVE  E_deserializeMembers(f, i, First(m)) = Got(members, i + Len(MembersS(m, members)))
  <2>1. At(f, i, a) /\ At(f, i + 1, b) /\ Len(MembersS(m, members)) = 1 + Len(b) /\ Len(b) \in Nat
    <3>1. At(f, i, a) /\ At(f, i + Len(a), b) /\ Len(MembersS(m, members)) = Len(a) + Len(b) /\ Len(b) \in Nat
      BY ONLY <1>3, <1>4, <1>6, i \in Nat, AtJoin
    <3> QED BY <3>1, <1>4
  <2>2. f[i] = n
    BY <2>1, AtItems DEF a
  <2>3. PICK pos \in [0 .. n -> Nat] :
           /\ pos[0] = i + 1 /\ pos[n] = (i + 1) + Len(b)
           /\ \A k \in 1 .. n : pos[k] = pos[k - 1] + Len(ss[k]) /\ At(f, pos[k - 1], ss[k])
    <3>1. i + 1 \in Nat /\ At(f, i + 1, FlattenSeq(ss))
      BY <2>1 DEF b
    <3>2. \E pos \in [0 .. Len(ss) -> Nat] :
             /\ pos[0] = i + 1 /\ pos[Len(ss)] = (i + 1) + Len(FlattenSeq(ss))
             /\ \A k \in 1 .. Len(ss) : pos[k] = pos[k - 1] + Len(ss[k]) /\ At(f, pos[k - 1], ss[k])
      BY ONLY <3>1, <1>2, Sections
    <3> QED BY <3>2, <1>2 DEF b
  <2> DEFINE st == [k \in 0 .. n |-> Got(Prefix(members, k), pos[k])]
             list == [k \in 1 .. n |-> k]
  <2>4. st[0] = Got(<<>>, i + 1) /\ st[n] = Got(members, (i + 1) + Len(b))
    <3>1. Prefix(members, 0) = <<>> /\ Prefix(members, n) = members /\ 0 \in 0 .. n /\ n \in 0 .. n
      BY <1>1, PrefixIs DEF n
    <3> QED BY <3>1, <2>3
  <2>5. ASSUME NEW k \in 1 .. n PROVE st[k] = MembersStep(st[k - 1], f, First(m))
    <3>1. k - 1 \in 0 .. n /\ k \in 0 .. n /\ pos[k - 1] \in Nat
      BY <1>1
    <3>2. E_deserializeMember(f, pos[k - 1], First(m)) = Got(members[k], pos[k])
      <4>1. At(f, pos[k - 1], MemberS(m, members[k])) /\ pos[k] = pos[k - 1] + Len(MemberS(m, members[k]))
        BY <2>3, <1>2
      <4> QED BY <4>1, <3>1, <1>1, MemberRead
    <3>3. Append(Prefix(members, k - 1), members[k]) = Prefix(members, k)
      BY PrefixIs DEF n
    <3>4. st[k - 1] = Got(Prefix(members, k - 1), pos[k - 1]) /\ st[k] = Got(Prefix(members, k), pos[k])
      BY <3>1
    <3> HIDE DEF st
    <3>5. MembersStep(st[k - 1], f, First(m)) = Got(Append(Prefix(members, k - 1), members[k]), pos[k])
      BY ONLY <3>2, <3>4, MembersStepOf
    <3> QED BY <3>3, <3>4, <3>5
  <2>6. MembersLoop(f, First(m), i + 1, list) = st[n]
    <3> DEFINE names == First(m)
               at == i + 1
    <3>1. DOMAIN list = 1 .. n
      OBVIOUS
    <3>2. st[0] = Got(<<>>, at) /\ MembersRun(st, n, f, names)
      BY <2>4, <2>5 DEF MembersRun
    <3>3. n \in Nat
      BY <1>1
    <3> HIDE DEF st, list, names, at
    <3>4. MembersLoop(f, names, at, list) = st[n]
      BY ONLY <3>1, <3>2, <3>3, MembersReads
    <3> QED BY <3>4 DEF names, at
  <2>7. E_deserializeMembers(f, i, First(m)) = MembersLoop(f, First(m), i + 1, list)
    BY <2>2, MembersLoopOf
  <2>8. (i + 1) + Len(b) = i + (1 + Len(b))
    BY <2>1
  <2> HIDE DEF st, list
  <2> QED BY <2>1, <2>4, <2>6, <2>7, <2>8
<1> QED BY <1>5, <1>6

-----------------------------------------------------------------------------
(* The interfaces of a type: those read come out in the reverse order.     *)
RawImplsStep(acc, f, names) ==
  With(acc, LAMBDA r :
    With(E_deserializeTyRef(f, r.i, names), LAMBDA t :
      Got(<<[intf |-> t.v, at |-> f[t.i]]>> \o r.v, t.i + 1)))
ImplsStep(r, f, names) ==
  LET t == E_deserializeTyRef(f, r.i, names) IN Got(<<[intf |-> t.v, at |-> f[t.i]]>> \o r.v, t.i + 1)
ImplsLoop(f, names, at, list) ==
  FoldLeft(LAMBDA acc, k :
             With(acc, LAMBDA r :
               With(E_deserializeTyRef(f, r.i, names), LAMBDA t :
                 Got(<<[intf |-> t.v, at |-> f[t.i]]>> \o r.v, t.i + 1))),
           Got(<<>>, at), list)

LEMMA ImplsStepIs ==
  ASSUME NEW r, NEW f, NEW names PROVE RawImplsStep(r, f, names) = ImplsStep(r, f, names)
BY DEF RawImplsStep, ImplsStep, With

LEMMA ImplsLoopOf ==
  ASSUME NEW f, NEW i, NEW names
  PROVE  E_deserializeImplements(f, i, names) = ImplsLoop(f, names, i + 1, [k \in 1 .. f[i] |-> k])
BY DEF E_deserializeImplements, ImplsLoop

ImplsRun(st, n, f, names) == \A k \in 1 .. n : st[k] = ImplsStep(st[k - 1], f, names)

LEMMA ImplsReads ==
  ASSUME NEW f, NEW names, NEW at, NEW list, NEW n \in Nat, DOMAIN list = 1 .. n, NEW st, st[0] = Got(<<>>, at),
         ImplsRun(st, n, f, names)
  PROVE  ImplsLoop(f, names, at, list) = st[n]
<1> DEFINE seq == list
           base == Got(<<>>, at)
           Step(v, k) == ImplsStep(v, f, names)
           Body(it, s) == RawImplsStep(it[s \ {Max(s)}], f, names)
           Good(m, it) == it = [s \in SUBSET (1 .. m) |-> IF s = {} THEN base ELSE Step(it[s \ {Max(s)}], Max(s))]
           Eq(it) == it = [s \in SUBSET (DOMAIN seq) |-> IF s = {} THEN base ELSE Body(it, s)]
           T == {m \in 0 .. n : \E it : Good(m, it)}
<1>1. \A it : \A s : Body(it, s) = Step(it[s \ {Max(s)}], Max(s))
  BY ImplsStepIs
<1>2. DOMAIN seq = 1 .. n /\ st[0] = base /\ \A k \in 1 .. n : st[k] = Step(st[k - 1], k)
  BY DEF ImplsRun
<1> HIDE DEF seq, base, Step, Body
<1>3. 0 \in T
  <2>1. Good(0, [s \in SUBSET (1 .. 0) |-> base])
    BY DEF Good
  <2> HIDE DEF Good
  <2> QED BY <2>1
<1>4. \A m \in 0 .. n - 1 : m \in T => m + 1 \in T
  <2> SUFFICES ASSUME NEW m \in 0 .. n - 1, NEW a, Good(m, a) PROVE \E it : Good(m + 1, it)
    <3> HIDE DEF Good
    <3>1. \A m \in 0 .. n - 1 : m + 1 \in 0 .. n
      OBVIOUS
    <3> QED BY <3>1
  <2> DEFINE b == [s \in SUBSET (1 .. m + 1) |->
                     IF m + 1 \in s THEN Step(a[s \ {m + 1}], m + 1) ELSE a[s]]
  <2>1. \A s \in SUBSET (1 .. m + 1) :
          /\ m + 1 \in s => Max(s) = m + 1 /\ s \ {m + 1} \in SUBSET (1 .. m)
          /\ m + 1 \notin s => s \in SUBSET (1 .. m)
          /\ m + 1 \notin s /\ s # {} => Max(s) \in 1 .. m /\ s \ {Max(s)} \in SUBSET (1 .. m)
    <3> TAKE s \in SUBSET (1 .. m + 1)
    <3>1. m + 1 \in s => Max(s) = m + 1 /\ s \ {m + 1} \in SUBSET (1 .. m)
      <4>1. m + 1 \in Nat
        OBVIOUS
      <4> QED BY <4>1, MaxTop
    <3>2. m + 1 \notin s => s \in SUBSET (1 .. m)
      OBVIOUS
    <3>3. m \in Nat
      OBVIOUS
    <3> QED BY <3>1, <3>2, <3>3, MaxIn
  <2>2. \A s \in SUBSET (1 .. m) : s \in SUBSET (1 .. m + 1) /\ m + 1 \notin s
    OBVIOUS
  <2>3. \A s \in SUBSET (1 .. m) : b[s] = a[s]
    BY <2>2
  <2>4. \A s \in SUBSET (1 .. m) : a[s] = IF s = {} THEN base ELSE Step(a[s \ {Max(s)}], Max(s))
    OBVIOUS
  <2>5. \A s \in SUBSET (1 .. m + 1) : b[s] = IF s = {} THEN base ELSE Step(b[s \ {Max(s)}], Max(s))
    <3> TAKE s \in SUBSET (1 .. m + 1)
    <3>1. CASE m + 1 \in s
      <4>1. b[s] = Step(a[s \ {m + 1}], m + 1)
        BY <3>1
      <4> HIDE DEF b
      <4> QED BY <4>1, <3>1, <2>1, <2>3
    <3>2. CASE m + 1 \notin s
      <4> HIDE DEF b, Good
      <4>1. s \in SUBSET (1 .. m) /\ b[s] = a[s]
        BY <3>2, <2>1, <2>3
      <4>2. s # {} => b[s \ {Max(s)}] = a[s \ {Max(s)}]
        BY <3>2, <2>1, <2>3
      <4> QED BY <4>1, <4>2, <2>4
    <3> QED BY <3>1, <3>2
  <2>6. b = [s \in SUBSET (1 .. m + 1) |-> b[s]]
    OBVIOUS
  <2>7. Good(m + 1, b)
    <3> HIDE DEF b
    <3> QED BY <2>5, <2>6
  <2> HIDE DEF Good
  <2> QED BY <2>7
<1>5. \E it : Good(n, it)
  <2> HIDE DEF T
  <2>1. 0 .. n \subseteq T
    BY ONLY <1>3, <1>4, n \in Nat, Induction
  <2>2. n \in T
    BY <2>1
  <2> HIDE DEF Good
  <2> QED BY <2>2 DEF T
<1>6. \E it : Eq(it)
  <2>1. PICK it : Good(n, it)
    <3> HIDE DEF Good
    <3> QED BY <1>5
  <2>2. Eq(it)
    BY <2>1, <1>1, <1>2
  <2> HIDE DEF Eq
  <2> QED BY <2>2
<1> DEFINE it == CHOOSE it : Eq(it)
<1>7. Eq(it)
  BY <1>6
<1>8. ImplsLoop(f, names, at, list) = it[1 .. n]
  <2>1. ImplsLoop(f, names, at, list) = it[DOMAIN seq]
    BY DEF ImplsLoop, RawImplsStep, FoldLeft, MapThenFoldSet, seq, base, Body
  <2> QED BY <2>1, <1>2
<1> DEFINE U == {k \in 0 .. n : it[1 .. k] = st[k]}
<1>9. \A s \in SUBSET (1 .. n) : it[s] = IF s = {} THEN base ELSE Step(it[s \ {Max(s)}], Max(s))
  <2> HIDE DEF it
  <2> QED BY <1>1, <1>2, <1>7
<1> HIDE DEF it
<1>10. 0 \in U
  <2>1. 1 .. 0 = {} /\ {} \in SUBSET (1 .. n)
    OBVIOUS
  <2>2. it[{}] = base
    BY <2>1, <1>9
  <2> QED BY <2>1, <2>2, <1>2
<1>11. \A k \in 0 .. n - 1 : k \in U => k + 1 \in U
  <2> TAKE k \in 0 .. n - 1
  <2> HAVE k \in U
  <2>1. /\ 1 .. k + 1 \in SUBSET (1 .. n) /\ k + 1 \in 1 .. k + 1 /\ (1 .. k + 1) \ {k + 1} = 1 .. k
        /\ k + 1 \in 1 .. n /\ (k + 1) - 1 = k /\ k + 1 \in 0 .. n /\ k + 1 \in Nat
    OBVIOUS
  <2>2. Max(1 .. k + 1) = k + 1
    BY ONLY <2>1, MaxTop
  <2>3. it[1 .. k + 1] = Step(it[1 .. k], k + 1)
    BY <2>1, <2>2, <1>9
  <2>4. st[k + 1] = Step(st[k], k + 1)
    BY <2>1, <1>2
  <2> QED BY <2>1, <2>3, <2>4
<1>12. 0 .. n \subseteq U
  <2> HIDE DEF U
  <2> QED BY ONLY <1>10, <1>11, n \in Nat, Induction
<1> QED BY <1>8, <1>12

Flipped(s, k) == [j \in 1 .. k |-> s[k + 1 - j]]

LEMMA FlippedIs ==
  ASSUME NEW S, NEW s \in Seq(S)
  PROVE  /\ Flipped(s, 0) = <<>> /\ Flipped(s, Len(s)) \in Seq(S) /\ Len(Flipped(s, Len(s))) = Len(s)
         /\ \A k \in 1 .. Len(s) : <<s[k]>> \o Flipped(s, k - 1) = Flipped(s, k)
<1>1. Flipped(s, 0) = <<>>
  BY DEF Flipped
<1>2. ASSUME NEW k \in 0 .. Len(s)
      PROVE  Flipped(s, k) \in Seq(S) /\ Len(Flipped(s, k)) = k
  <2>1. k \in Nat /\ \A j \in 1 .. k : k + 1 - j \in 1 .. Len(s)
    OBVIOUS
  <2>2. Flipped(s, k) \in [1 .. k -> S]
    BY <2>1 DEF Flipped
  <2> QED BY <2>1, <2>2, IsASequence
<1>3. ASSUME NEW k \in 1 .. Len(s)
      PROVE  <<s[k]>> \o Flipped(s, k - 1) = Flipped(s, k)
  <2>1. /\ k - 1 \in 0 .. Len(s) /\ k \in 0 .. Len(s) /\ k \in Nat /\ s[k] \in S
        /\ \A j \in 1 .. k : j = 1 \/ j - 1 \in 1 .. k - 1
    OBVIOUS
  <2> DEFINE a == <<s[k]>>
             b == Flipped(s, k - 1)
  <2>2. a \in Seq(S) /\ Len(a) = 1 /\ a[1] = s[k] /\ b \in Seq(S) /\ Len(b) = k - 1
    BY <1>2, <2>1
  <2>3. \A j \in 1 .. k - 1 : b[j] = s[k - j]
    BY <2>1 DEF Flipped
  <2>4. \A j \in 1 .. k : Flipped(s, k)[j] = s[k + 1 - j]
    BY DEF Flipped
  <2>5. Flipped(s, k) \in Seq(S) /\ Len(Flipped(s, k)) = k
    BY <1>2, <2>1
  <2> HIDE DEF a, b
  <2>6. /\ a \o b \in Seq(S) /\ Len(a \o b) = k
        /\ \A j \in 1 .. k : (a \o b)[j] = IF j <= 1 THEN a[j] ELSE b[j - 1]
    <3>1. Len(a) + Len(b) = k
      BY <2>1, <2>2
    <3>2. /\ a \o b \in Seq(S) /\ Len(a \o b) = Len(a) + Len(b)
          /\ \A j \in 1 .. Len(a) + Len(b) : (a \o b)[j] = IF j <= Len(a) THEN a[j] ELSE b[j - Len(a)]
      BY ONLY <2>2, ConcatProperties
    <3> QED BY ONLY <2>2, <3>1, <3>2
  <2>7. ASSUME NEW j \in 1 .. k PROVE (a \o b)[j] = s[k + 1 - j]
    <3>1. CASE j = 1
      <4>1. (a \o b)[j] = a[1] /\ (k + 1) - j = k
        BY <3>1, <2>1, <2>6
      <4> QED BY ONLY <4>1, <2>2
    <3>2. CASE j # 1
      <4>1. (a \o b)[j] = b[j - 1]
        BY ONLY <3>2, <2>6, j \in 1 .. k, k \in 1 .. Len(s)
      <4>2. j - 1 \in 1 .. k - 1 /\ k - (j - 1) = k + 1 - j
        BY <3>2, <2>1
      <4> QED BY <4>1, <4>2, <2>3
    <3> QED BY <3>1, <3>2
  <2>8. \A j \in 1 .. k : (a \o b)[j] = Flipped(s, k)[j]
    BY <2>4, <2>7
  <2> QED BY ONLY <2>1, <2>5, <2>6, <2>8, SeqEqual DEF a, b
<1>4. Len(s) \in 0 .. Len(s) /\ 0 \in 0 .. Len(s)
  OBVIOUS
<1> QED BY <1>1, <1>2, <1>3, <1>4

ImplS(m, x) == Ref(m, x.intf) \o <<x.at>>
ImplsS(m, impls) == E_serializeImplements(First(m), impls)

LEMMA ImplRead ==
  ASSUME NEW m \in 0 .. Len(Names), NEW x \in ImplT(m)
  PROVE  /\ ImplS(m, x) \in Seq(Item)
         /\ \A f : \A i \in Nat : At(f, i, ImplS(m, x)) =>
              \E q \in Nat : /\ E_deserializeTyRef(f, i, First(m)) = Got(x.intf, q)
                            /\ f[q] = x.at /\ q + 1 = i + Len(ImplS(m, x))
<1> DEFINE a == Ref(m, x.intf)
           b == <<x.at>>
           s == ImplS(m, x)
<1>1. x.intf \in Known(m) \cup {NULL} /\ x.at \in Nat
  <2>1. m \in Int /\ m - 1 \in Int /\ m - 1 <= m
    OBVIOUS
  <2> QED BY <2>1, KnownGrows DEF ImplT
<1>2. a \in Seq(Item)
  BY <1>1, RefRead
<1>3. b \in Seq(Item)
  BY <1>1, ItemsAre
<1>4. s = a \o b
  BY DEF ImplS
<1> HIDE DEF a, b, s
<1>5. s \in Seq(Item)
  BY ONLY <1>2, <1>3, <1>4, ConcatProperties
<1>6. ASSUME NEW f, NEW i \in Nat, At(f, i, s)
      PROVE  \E q \in Nat : /\ E_deserializeTyRef(f, i, First(m)) = Got(x.intf, q)
                            /\ f[q] = x.at /\ q + 1 = i + Len(s)
  <2>1. At(f, i, a) /\ At(f, i + Len(a), b) /\ Len(s) = Len(a) + Len(b) /\ Len(a) \in Nat
    BY ONLY <1>2, <1>3, <1>4, <1>6, i \in Nat, AtJoin
  <2> DEFINE q == i + Len(a)
  <2>2. q \in Nat
    BY <2>1
  <2>3. E_deserializeTyRef(f, i, First(m)) = Got(x.intf, q)
    BY <2>1, <1>1, RefRead DEF a
  <2>4. f[q] = x.at /\ Len(b) = 1
    <3> HIDE DEF q
    <3>1. At(f, q, <<x.at>>)
      BY <2>1 DEF b, q
    <3> QED BY <3>1, <2>2, AtItems DEF b
  <2>5. q + 1 = i + Len(s)
    BY <2>1, <2>4
  <2> HIDE DEF q
  <2> QED BY <2>2, <2>3, <2>4, <2>5
<1> QED BY <1>5, <1>6 DEF s

LEMMA ImplsRead ==
  ASSUME NEW m \in 0 .. Len(Names), NEW impls \in Seq(ImplT(m))
  PROVE  /\ ImplsS(m, impls) \in Seq(Item)
         /\ \A f : \A i \in Nat : At(f, i, ImplsS(m, impls)) =>
              E_deserializeImplements(f, i, First(m)) = Got(Flipped(impls, Len(impls)), i + Len(ImplsS(m, impls)))
<1> DEFINE n == Len(impls)
           ss == [k \in DOMAIN impls |-> ImplS(m, impls[k])]
           a == <<n>>
           b == FlattenSeq(ss)
<1>1. n \in Nat /\ DOMAIN impls = 1 .. n /\ \A k \in 1 .. n : impls[k] \in ImplT(m)
  OBVIOUS
<1>2. ss \in Seq(Seq(Item)) /\ Len(ss) = n /\ \A k \in 1 .. n : ss[k] = ImplS(m, impls[k])
  <2>1. \A k \in 1 .. n : ImplS(m, impls[k]) \in Seq(Item)
    BY <1>1, ImplRead
  <2>2. ss \in [1 .. n -> Seq(Item)] /\ \A k \in 1 .. n : ss[k] = ImplS(m, impls[k])
    BY <1>1, <2>1
  <2> HIDE DEF n, ss
  <2> QED BY <1>1, <2>2, IsASequence
<1>3. ImplsS(m, impls) = a \o b
  BY DEF ImplsS, E_serializeImplements, ImplS, Ref
<1> HIDE DEF ss
<1>4. a \in Seq(Item) /\ Len(a) = 1 /\ b \in Seq(Item)
  <2>1. n \in Item
    BY <1>1 DEF Item
  <2> QED BY <2>1, <1>2, ItemsAre, FlattenSeqType
<1> HIDE DEF a, b, n
<1>5. ImplsS(m, impls) \in Seq(Item)
  BY ONLY <1>3, <1>4, ConcatProperties
<1>6. ASSUME NEW f, NEW i \in Nat, At(f, i, ImplsS(m, impls))
      PROVE  E_deserializeImplements(f, i, First(m)) = Got(Flipped(impls, n), i + Len(ImplsS(m, impls)))
  <2>1. At(f, i, a) /\ At(f, i + 1, b) /\ Len(ImplsS(m, impls)) = 1 + Len(b) /\ Len(b) \in Nat
    <3>1. At(f, i, a) /\ At(f, i + Len(a), b) /\ Len(ImplsS(m, impls)) = Len(a) + Len(b) /\ Len(b) \in Nat
      BY ONLY <1>3, <1>4, <1>6, i \in Nat, AtJoin
    <3> QED BY <3>1, <1>4
  <2>2. f[i] = n
    BY <2>1, AtItems DEF a
  <2>3. PICK pos \in [0 .. n -> Nat] :
           /\ pos[0] = i + 1 /\ pos[n] = (i + 1) + Len(b)
           /\ \A k \in 1 .. n : pos[k] = pos[k - 1] + Len(ss[k]) /\ At(f, pos[k - 1], ss[k])
    <3>1. i + 1 \in Nat /\ At(f, i + 1, FlattenSeq(ss))
      BY <2>1 DEF b
    <3>2. \E pos \in [0 .. Len(ss) -> Nat] :
             /\ pos[0] = i + 1 /\ pos[Len(ss)] = (i + 1) + Len(FlattenSeq(ss))
             /\ \A k \in 1 .. Len(ss) : pos[k] = pos[k - 1] + Len(ss[k]) /\ At(f, pos[k - 1], ss[k])
      BY ONLY <3>1, <1>2, Sections
    <3> QED BY <3>2, <1>2 DEF b
  <2> DEFINE st == [k \in 0 .. n |-> Got(Flipped(impls, k), pos[k])]
             list == [k \in 1 .. n |-> k]
  <2>4. st[0] = Got(<<>>, i + 1) /\ st[n] = Got(Flipped(impls, n), (i + 1) + Len(b))
    <3>1. Flipped(impls, 0) = <<>> /\ 0 \in 0 .. n /\ n \in 0 .. n
      BY <1>1, FlippedIs DEF n
    <3> QED BY <3>1, <2>3
  <2>5. ASSUME NEW k \in 1 .. n PROVE st[k] = ImplsStep(st[k - 1], f, First(m))
    <3>1. k - 1 \in 0 .. n /\ k \in 0 .. n /\ pos[k - 1] \in Nat
      BY <1>1
    <3>2. PICK q \in Nat : /\ E_deserializeTyRef(f, pos[k - 1], First(m)) = Got(impls[k].intf, q)
                           /\ f[q] = impls[k].at /\ q + 1 = pos[k]
      <4>1. At(f, pos[k - 1], ImplS(m, impls[k])) /\ pos[k] = pos[k - 1] + Len(ImplS(m, impls[k]))
        BY <2>3, <1>2
      <4> QED BY <4>1, <3>1, <1>1, ImplRead
    <3>3. <<impls[k]>> \o Flipped(impls, k - 1) = Flipped(impls, k)
      BY FlippedIs DEF n
    <3>4. [intf |-> impls[k].intf, at |-> impls[k].at] = impls[k]
      BY <1>1 DEF ImplT
    <3>5. st[k - 1] = Got(Flipped(impls, k - 1), pos[k - 1]) /\ st[k] = Got(Flipped(impls, k), pos[k])
      BY <3>1
    <3> HIDE DEF st
    <3>6. ImplsStep(st[k - 1], f, First(m))
            = Got(<<[intf |-> impls[k].intf, at |-> impls[k].at]>> \o Flipped(impls, k - 1), q + 1)
      <4> DEFINE r == st[k - 1]
                 v == Flipped(impls, k - 1)
                 p == pos[k - 1]
                 names == First(m)
                 d == impls[k].intf
                 x == impls[k].at
      <4>1. r = Got(v, p) /\ E_deserializeTyRef(f, p, names) = Got(d, q) /\ f[q] = x
        BY <3>2, <3>5
      <4> HIDE DEF r, v, p, names, d, x
      <4>2. ImplsStep(r, f, names) = Got(<<[intf |-> d, at |-> x]>> \o v, q + 1)
        BY ONLY <4>1, q \in Nat DEF ImplsStep, Got
      <4> QED BY <4>2 DEF r, v, names, d, x
    <3> QED BY <3>2, <3>3, <3>4, <3>5, <3>6
  <2>6. ImplsLoop(f, First(m), i + 1, list) = st[n]
    <3> DEFINE names == First(m)
               at == i + 1
    <3>1. DOMAIN list = 1 .. n
      OBVIOUS
    <3>2. st[0] = Got(<<>>, at) /\ ImplsRun(st, n, f, names)
      BY <2>4, <2>5 DEF ImplsRun
    <3>3. n \in Nat
      BY <1>1
    <3> HIDE DEF st, list, names, at
    <3>4. ImplsLoop(f, names, at, list) = st[n]
      BY ONLY <3>1, <3>2, <3>3, ImplsReads
    <3> QED BY <3>4 DEF names, at
  <2>7. E_deserializeImplements(f, i, First(m)) = ImplsLoop(f, First(m), i + 1, list)
    BY <2>2, ImplsLoopOf
  <2>8. (i + 1) + Len(b) = i + (1 + Len(b))
    BY <2>1
  <2> HIDE DEF st, list
  <2> QED BY <2>1, <2>4, <2>6, <2>7, <2>8
<1> QED BY <1>5, <1>6 DEF n

-----------------------------------------------------------------------------
(* A type, its interfaces in the reverse order.                            *)
Flip(T) == [T EXCEPT !.impls = Flipped(@, Len(@))]

(* A type that can be written in a file of m types.                        *)
Written(m, T) ==
  /\ T = [kind |-> T.kind, base |-> T.base, impls |-> T.impls, members |-> T.members,
          size |-> T.size, count |-> T.count]
  /\ T.kind = "class" \/ (T.kind = "interface" /\ T.base = NULL /\ T.size = 0)
  /\ T.base \in Known(m) \cup {NULL} /\ T.impls \in Seq(ImplT(m)) /\ T.members \in Seq(MemberT(m))
  /\ T.size \in Nat /\ T.count \in Int

HeadS(m, n, T) ==
  <<Number(m, n), T.kind, n>> \o (IF T.kind = "class" THEN <<T.size>> \o Ref(m, T.base) ELSE <<>>)
TypeS(m, n, T) == E_serializeType(First(m), n, T)
BaseAt(f, i, names) == IF f[i + 1] = "class" THEN E_deserializeTyRef(f, i + 4, names) ELSE Got(NULL, i + 3)

LEMMA HeadRead ==
  ASSUME NEW m \in 0 .. Len(Names), NEW j \in 1 .. m, NEW n, n = Names[j], NEW T, Written(m, T)
  PROVE  /\ HeadS(m, n, T) \in Seq(Item)
         /\ \A f : \A i \in Nat : At(f, i, HeadS(m, n, T)) =>
              /\ f[i] = j /\ f[i + 1] = T.kind /\ f[i + 2] = n /\ (T.kind = "class" => f[i + 3] = T.size)
              /\ BaseAt(f, i, First(m)) = Got(T.base, i + Len(HeadS(m, n, T)))
<1> DEFINE a == <<j, T.kind, n>>
           s == HeadS(m, n, T)
<1>1. Number(m, n) = j /\ n \in Known(Len(Names)) /\ j \in Int
  <2>1. j \in 1 .. Len(Names)
    BY NamesApart
  <2> QED BY <2>1, NumberIs DEF Known
<1>2. a \in Seq(Item) /\ Len(a) = 3
  <2>1. j \in Item /\ n \in Item /\ T.kind \in Item
    BY <1>1 DEF Written, Item
  <2> QED BY <2>1, ItemsAre
<1>3. CASE T.kind = "class"
  <2> DEFINE b == <<T.size>>
             c == Ref(m, T.base)
             bc == b \o c
  <2>1. b \in Seq(Item) /\ Len(b) = 1
    <3>1. T.size \in Item
      BY DEF Written, Item
    <3> QED BY <3>1, ItemsAre
  <2>2. c \in Seq(Item)
    BY RefRead DEF Written
  <2>3. s = a \o bc
    BY <1>1, <1>3 DEF HeadS
  <2> HIDE DEF a, b, c, s
  <2>4. bc \in Seq(Item)
    BY ONLY <2>1, <2>2, ConcatProperties
  <2>5. bc = b \o c
    OBVIOUS
  <2> HIDE DEF bc
  <2>6. s \in Seq(Item)
    BY ONLY <1>2, <2>3, <2>4, ConcatProperties
  <2>7. ASSUME NEW f, NEW i \in Nat, At(f, i, s)
        PROVE  /\ f[i] = j /\ f[i + 1] = T.kind /\ f[i + 2] = n /\ (T.kind = "class" => f[i + 3] = T.size)
               /\ BaseAt(f, i, First(m)) = Got(T.base, i + Len(s))
    <3>1. At(f, i, a) /\ At(f, i + Len(a), bc) /\ Len(s) = Len(a) + Len(bc) /\ Len(bc) \in Nat
      BY ONLY <1>2, <2>3, <2>4, <2>7, i \in Nat, AtJoin
    <3>2. At(f, i + 3, bc) /\ Len(s) = 3 + Len(bc) /\ i + 3 \in Nat
      BY <3>1, <1>2
    <3>3. At(f, i + 3, b) /\ At(f, (i + 3) + Len(b), c) /\ Len(bc) = Len(b) + Len(c) /\ Len(c) \in Nat
      <4> DEFINE k == i + 3
      <4>1. k \in Nat /\ At(f, k, bc)
        BY <3>2
      <4> HIDE DEF k
      <4>2. b \in Seq(Item)
        BY <2>1
      <4>3. At(f, k, b) /\ At(f, k + Len(b), c) /\ Len(bc) = Len(b) + Len(c) /\ Len(c) \in Nat
        BY ONLY <2>2, <2>5, <4>1, <4>2, AtJoin
      <4> QED BY <4>3 DEF k
    <3>4. At(f, i + 4, c) /\ Len(bc) = 1 + Len(c) /\ i + 4 \in Nat /\ (i + 3) + 1 = i + 4
      BY <3>3, <2>1
    <3>5. f[i] = j /\ f[i + 1] = T.kind /\ f[i + 2] = n
      <4>1. At(f, i, <<j, T.kind, n>>)
        BY <3>1 DEF a
      <4> QED BY ONLY SMTT(30), <4>1, i \in Nat, AtItems
    <3>6. f[i + 3] = T.size
      <4> DEFINE k == i + 3
      <4>1. k \in Nat /\ At(f, k, <<T.size>>)
        BY <3>2, <3>3 DEF b
      <4> HIDE DEF k
      <4>2. f[k] = T.size
        BY <4>1, AtItems
      <4> QED BY <4>2 DEF k
    <3>7. E_deserializeTyRef(f, i + 4, First(m)) = Got(T.base, (i + 4) + Len(c))
      <4> DEFINE k == i + 4
      <4>1. k \in Nat /\ At(f, k, Ref(m, T.base)) /\ T.base \in Known(m) \cup {NULL}
        BY <3>4 DEF c, Written
      <4> HIDE DEF k
      <4>2. E_deserializeTyRef(f, k, First(m)) = Got(T.base, k + Len(Ref(m, T.base)))
        BY ONLY <4>1, RefRead, m \in 0 .. Len(Names)
      <4> QED BY <4>2 DEF k, c
    <3>8. (i + 4) + Len(c) = i + Len(s)
      BY <3>2, <3>3, <3>4
    <3> QED BY <3>5, <3>6, <3>7, <3>8, <1>3 DEF BaseAt
  <2> QED BY <2>6, <2>7 DEF s
<1>4. CASE T.kind = "interface"
  <2>1. s = a
    <3>1. s = a \o <<>>
      BY <1>1, <1>4 DEF HeadS
    <3> QED BY <3>1, <1>2, ConcatEmptySeq
  <2> HIDE DEF a, s
  <2>2. ASSUME NEW f, NEW i \in Nat, At(f, i, s)
        PROVE  /\ f[i] = j /\ f[i + 1] = T.kind /\ f[i + 2] = n /\ (T.kind = "class" => f[i + 3] = T.size)
               /\ BaseAt(f, i, First(m)) = Got(T.base, i + Len(s))
    <3>1. f[i] = j /\ f[i + 1] = T.kind /\ f[i + 2] = n
      BY <2>1, <2>2, AtItems DEF a
    <3>2. T.base = NULL /\ Len(s) = 3
      BY <1>4, <2>1, <1>2 DEF Written
    <3> QED BY <3>1, <3>2, <1>4 DEF BaseAt
  <2> QED BY <1>2, <2>1, <2>2 DEF s
<1> QED BY <1>3, <1>4 DEF Written

TypeOf(f, i, base, impls, members) ==
  Got([name |-> f[i + 2],
       ty   |-> [kind |-> f[i + 1], base |-> base.v, impls |-> impls.v, members |-> members.v,
                 size |-> IF f[i + 1] = "class" THEN f[i + 3] ELSE 0, count |-> f[members.i]]],
      members.i + 1)
TypeWith(f, i, names, base, impls) ==
  With(E_deserializeMembers(f, impls.i, names), LAMBDA members : TypeOf(f, i, base, impls, members))
TypeFrom(f, i, names, base) ==
  With(E_deserializeImplements(f, base.i, names), LAMBDA impls : TypeWith(f, i, names, base, impls))

LEMMA TypeAtIs ==
  ASSUME NEW f, NEW i, NEW names, NEW base, NEW p, NEW impls, NEW q, NEW members, NEW r,
         BaseAt(f, i, names) = Got(base, p), E_deserializeImplements(f, p, names) = Got(impls, q),
         E_deserializeMembers(f, q, names) = Got(members, r)
  PROVE  TypeAt(f, i, names) = TypeOf(f, i, Got(base, p), Got(impls, q), Got(members, r))
<1>1. TypeAt(f, i, names) = With(BaseAt(f, i, names), LAMBDA x : TypeFrom(f, i, names, x))
  BY DEF TypeAt, BaseAt, TypeFrom, TypeWith, TypeOf
<1>2. TypeAt(f, i, names) = TypeFrom(f, i, names, Got(base, p))
  BY <1>1 DEF With
<1>3. TypeFrom(f, i, names, Got(base, p)) = TypeWith(f, i, names, Got(base, p), Got(impls, q))
  <2>1. Got(base, p).i = p
    BY DEF Got
  <2> QED BY <2>1 DEF TypeFrom, With
<1>4. TypeWith(f, i, names, Got(base, p), Got(impls, q))
        = TypeOf(f, i, Got(base, p), Got(impls, q), Got(members, r))
  <2>1. Got(impls, q).i = q
    BY DEF Got
  <2> QED BY <2>1 DEF TypeWith, With
<1> QED BY <1>2, <1>3, <1>4

LEMMA TypeRead ==
  ASSUME NEW m \in 0 .. Len(Names), NEW j \in 1 .. m, NEW n, n = Names[j], NEW T, Written(m, T)
  PROVE  /\ TypeS(m, n, T) \in Seq(Item)
         /\ \A f : \A i \in Nat : At(f, i, TypeS(m, n, T)) =>
              /\ f[i] = j
              /\ TypeAt(f, i, First(m)) = Got([name |-> n, ty |-> Flip(T)], i + Len(TypeS(m, n, T)))
<1> DEFINE h == HeadS(m, n, T)
           a == ImplsS(m, T.impls)
           b == MembersS(m, T.members)
           c == <<T.count>>
           ha == h \o a
           hb == ha \o b
           s == TypeS(m, n, T)
           names == First(m)
<1>1. h \in Seq(Item)
  BY HeadRead
<1>2. a \in Seq(Item)
  BY ImplsRead DEF Written
<1>3. b \in Seq(Item)
  BY MembersRead DEF Written
<1>4. c \in Seq(Item) /\ Len(c) = 1
  <2>1. T.count \in Item
    BY DEF Written, Item
  <2> QED BY <2>1, ItemsAre
<1>5. s = hb \o c
  BY DEF TypeS, E_serializeType, HeadS, Number, Ref, ImplsS, MembersS
<1>6. \A f : \A i \in Nat : At(f, i, h) =>
              /\ f[i] = j /\ f[i + 1] = T.kind /\ f[i + 2] = n /\ (T.kind = "class" => f[i + 3] = T.size)
              /\ BaseAt(f, i, names) = Got(T.base, i + Len(h))
  BY HeadRead
<1>7. \A f : \A i \in Nat : At(f, i, a) =>
              E_deserializeImplements(f, i, names) = Got(Flipped(T.impls, Len(T.impls)), i + Len(a))
  BY ImplsRead DEF Written
<1>8. \A f : \A i \in Nat : At(f, i, b) => E_deserializeMembers(f, i, names) = Got(T.members, i + Len(b))
  BY MembersRead DEF Written
<1> HIDE DEF h, a, b, c, s, names
<1>9. ha \in Seq(Item) /\ ha = h \o a
  BY ONLY <1>1, <1>2, ConcatProperties
<1> HIDE DEF ha
<1>10. hb \in Seq(Item) /\ hb = ha \o b
  BY ONLY <1>3, <1>9, ConcatProperties
<1> HIDE DEF hb
<1>11. s \in Seq(Item)
  BY ONLY <1>4, <1>5, <1>10, ConcatProperties
<1>12. ASSUME NEW f, NEW i \in Nat, At(f, i, s)
       PROVE  /\ f[i] = j
              /\ TypeAt(f, i, names) = Got([name |-> n, ty |-> Flip(T)], i + Len(s))
  <2>1. At(f, i, hb) /\ At(f, i + Len(hb), c) /\ Len(s) = Len(hb) + Len(c) /\ Len(hb) \in Nat
    BY ONLY <1>4, <1>5, <1>10, <1>12, i \in Nat, AtJoin
  <2>2. At(f, i, ha) /\ At(f, i + Len(ha), b) /\ Len(hb) = Len(ha) + Len(b) /\ Len(ha) \in Nat /\ Len(b) \in Nat
    <3>1. ha \in Seq(Item) /\ hb = ha \o b /\ At(f, i, hb)
      BY <1>9, <1>10, <2>1
    <3> QED BY ONLY <1>3, <3>1, i \in Nat, AtJoin
  <2>3. At(f, i, h) /\ At(f, i + Len(h), a) /\ Len(ha) = Len(h) + Len(a) /\ Len(h) \in Nat /\ Len(a) \in Nat
    <3>1. h \in Seq(Item) /\ a \in Seq(Item) /\ ha = h \o a /\ At(f, i, ha)
      BY ONLY <1>1, <1>2, <1>9, <2>2
    <3> QED BY ONLY <3>1, i \in Nat, AtJoin
  <2> DEFINE p == i + Len(h)
             q == i + Len(ha)
             r == i + Len(hb)
  <2>4. /\ p \in Nat /\ q \in Nat /\ r \in Nat /\ q = p + Len(a) /\ r = q + Len(b) /\ r + 1 = i + Len(s)
    BY <2>1, <2>2, <2>3, <1>4
  <2>5. At(f, p, a) /\ At(f, q, b) /\ At(f, r, c)
    BY <2>1, <2>2, <2>3
  <2>6. /\ f[i] = j /\ f[i + 1] = T.kind /\ f[i + 2] = n /\ (T.kind = "class" => f[i + 3] = T.size)
        /\ BaseAt(f, i, names) = Got(T.base, p)
    BY <2>3, <1>6
  <2> HIDE DEF p, q, r
  <2>7. E_deserializeImplements(f, p, names) = Got(Flipped(T.impls, Len(T.impls)), q)
    BY ONLY <2>4, <2>5, <1>7
  <2>8. E_deserializeMembers(f, q, names) = Got(T.members, r)
    BY ONLY <2>4, <2>5, <1>8
  <2>9. f[r] = T.count
    BY <2>4, <2>5, AtItems DEF c
  <2> DEFINE U == [kind |-> f[i + 1], base |-> T.base, impls |-> Flipped(T.impls, Len(T.impls)),
                   members |-> T.members, size |-> IF f[i + 1] = "class" THEN f[i + 3] ELSE 0, count |-> f[r]]
  <2>10. TypeAt(f, i, names) = Got([name |-> f[i + 2], ty |-> U], r + 1)
    <3> DEFINE base == T.base
               impls == Flipped(T.impls, Len(T.impls))
               members == T.members
    <3>1. BaseAt(f, i, names) = Got(base, p)
      BY <2>6
    <3> HIDE DEF base, impls, members
    <3>2. TypeAt(f, i, names) = TypeOf(f, i, Got(base, p), Got(impls, q), Got(members, r))
      BY ONLY <3>1, <2>7, <2>8, TypeAtIs DEF impls, members
    <3> QED BY <3>2 DEF TypeOf, Got, base, impls, members
  <2>11. U = Flip(T)
    <3>1. U = [kind |-> T.kind, base |-> T.base, impls |-> Flipped(T.impls, Len(T.impls)),
               members |-> T.members, size |-> T.size, count |-> T.count]
      BY <2>6, <2>9 DEF Written
    <3>2. T = [kind |-> T.kind, base |-> T.base, impls |-> T.impls, members |-> T.members,
               size |-> T.size, count |-> T.count]
      BY DEF Written
    <3> HIDE DEF U
    <3> QED BY <3>1, <3>2 DEF Flip
  <2> HIDE DEF U
  <2> QED BY <2>4, <2>6, <2>10, <2>11
<1> QED BY <1>11, <1>12 DEF s, names

-----------------------------------------------------------------------------
(* All types of the file.                                                  *)
RawLoadStep(acc, f, names) ==
  With(acc, LAMBDA r :
    IF f[r.i] = 0 THEN r
    ELSE With(TypeAt(f, r.i, names), LAMBDA t : Got(Entered(r.v, t.v.name, t.v.ty), t.i)))
LoadStep(r, f, names) ==
  IF f[r.i] = 0 THEN r
  ELSE LET t == TypeAt(f, r.i, names) IN Got(Entered(r.v, t.v.name, t.v.ty), t.i)
LoadLoop(f, names, list) ==
  FoldLeft(LAMBDA acc, k :
             With(acc, LAMBDA r :
               IF f[r.i] = 0 THEN r
               ELSE With(TypeAt(f, r.i, names), LAMBDA t : Got(Entered(r.v, t.v.name, t.v.ty), t.i))),
           Got(<<>>, 1), list)

LEMMA LoadStepIs ==
  ASSUME NEW r, NEW f, NEW names PROVE RawLoadStep(r, f, names) = LoadStep(r, f, names)
BY DEF RawLoadStep, LoadStep, With

LEMMA LoadLoopOf ==
  ASSUME NEW f, NEW names
  PROVE  E_loadModule(f, names) = LoadLoop(f, names, [k \in 1 .. Len(names) |-> k]).v
BY DEF E_loadModule, LoadLoop

LoadRun(st, n, f, names) == \A k \in 1 .. n : st[k] = LoadStep(st[k - 1], f, names)

LEMMA LoadReads ==
  ASSUME NEW f, NEW names, NEW list, NEW n \in Nat, DOMAIN list = 1 .. n, NEW st, st[0] = Got(<<>>, 1),
         LoadRun(st, n, f, names)
  PROVE  LoadLoop(f, names, list) = st[n]
<1> DEFINE seq == list
           base == Got(<<>>, 1)
           Step(v, k) == LoadStep(v, f, names)
           Body(it, s) == RawLoadStep(it[s \ {Max(s)}], f, names)
           Good(m, it) == it = [s \in SUBSET (1 .. m) |-> IF s = {} THEN base ELSE Step(it[s \ {Max(s)}], Max(s))]
           Eq(it) == it = [s \in SUBSET (DOMAIN seq) |-> IF s = {} THEN base ELSE Body(it, s)]
           T == {m \in 0 .. n : \E it : Good(m, it)}
<1>1. \A it : \A s : Body(it, s) = Step(it[s \ {Max(s)}], Max(s))
  BY LoadStepIs
<1>2. DOMAIN seq = 1 .. n /\ st[0] = base /\ \A k \in 1 .. n : st[k] = Step(st[k - 1], k)
  BY DEF LoadRun
<1> HIDE DEF seq, base, Step, Body
<1>3. 0 \in T
  <2>1. Good(0, [s \in SUBSET (1 .. 0) |-> base])
    BY DEF Good
  <2> HIDE DEF Good
  <2> QED BY <2>1
<1>4. \A m \in 0 .. n - 1 : m \in T => m + 1 \in T
  <2> SUFFICES ASSUME NEW m \in 0 .. n - 1, NEW a, Good(m, a) PROVE \E it : Good(m + 1, it)
    <3> HIDE DEF Good
    <3>1. \A m \in 0 .. n - 1 : m + 1 \in 0 .. n
      OBVIOUS
    <3> QED BY <3>1
  <2> DEFINE b == [s \in SUBSET (1 .. m + 1) |->
                     IF m + 1 \in s THEN Step(a[s \ {m + 1}], m + 1) ELSE a[s]]
  <2>1. \A s \in SUBSET (1 .. m + 1) :
          /\ m + 1 \in s => Max(s) = m + 1 /\ s \ {m + 1} \in SUBSET (1 .. m)
          /\ m + 1 \notin s => s \in SUBSET (1 .. m)
          /\ m + 1 \notin s /\ s # {} => Max(s) \in 1 .. m /\ s \ {Max(s)} \in SUBSET (1 .. m)
    <3> TAKE s \in SUBSET (1 .. m + 1)
    <3>1. m + 1 \in s => Max(s) = m + 1 /\ s \ {m + 1} \in SUBSET (1 .. m)
      <4>1. m + 1 \in Nat
        OBVIOUS
      <4> QED BY <4>1, MaxTop
    <3>2. m + 1 \notin s => s \in SUBSET (1 .. m)
      OBVIOUS
    <3>3. m \in Nat
      OBVIOUS
    <3> QED BY <3>1, <3>2, <3>3, MaxIn
  <2>2. \A s \in SUBSET (1 .. m) : s \in SUBSET (1 .. m + 1) /\ m + 1 \notin s
    OBVIOUS
  <2>3. \A s \in SUBSET (1 .. m) : b[s] = a[s]
    BY <2>2
  <2>4. \A s \in SUBSET (1 .. m) : a[s] = IF s = {} THEN base ELSE Step(a[s \ {Max(s)}], Max(s))
    OBVIOUS
  <2>5. \A s \in SUBSET (1 .. m + 1) : b[s] = IF s = {} THEN base ELSE Step(b[s \ {Max(s)}], Max(s))
    <3> TAKE s \in SUBSET (1 .. m + 1)
    <3>1. CASE m + 1 \in s
      <4>1. b[s] = Step(a[s \ {m + 1}], m + 1)
        BY <3>1
      <4> HIDE DEF b
      <4> QED BY <4>1, <3>1, <2>1, <2>3
    <3>2. CASE m + 1 \notin s
      <4> HIDE DEF b, Good
      <4>1. s \in SUBSET (1 .. m) /\ b[s] = a[s]
        BY <3>2, <2>1, <2>3
      <4>2. s # {} => b[s \ {Max(s)}] = a[s \ {Max(s)}]
        BY <3>2, <2>1, <2>3
      <4> QED BY <4>1, <4>2, <2>4
    <3> QED BY <3>1, <3>2
  <2>6. b = [s \in SUBSET (1 .. m + 1) |-> b[s]]
    OBVIOUS
  <2>7. Good(m + 1, b)
    <3> HIDE DEF b
    <3> QED BY <2>5, <2>6
  <2> HIDE DEF Good
  <2> QED BY <2>7
<1>5. \E it : Good(n, it)
  <2> HIDE DEF T
  <2>1. 0 .. n \subseteq T
    BY ONLY <1>3, <1>4, n \in Nat, Induction
  <2>2. n \in T
    BY <2>1
  <2> HIDE DEF Good
  <2> QED BY <2>2 DEF T
<1>6. \E it : Eq(it)
  <2>1. PICK it : Good(n, it)
    <3> HIDE DEF Good
    <3> QED BY <1>5
  <2>2. Eq(it)
    BY <2>1, <1>1, <1>2
  <2> HIDE DEF Eq
  <2> QED BY <2>2
<1> DEFINE it == CHOOSE it : Eq(it)
<1>7. Eq(it)
  BY <1>6
<1>8. LoadLoop(f, names, list) = it[1 .. n]
  <2>1. LoadLoop(f, names, list) = it[DOMAIN seq]
    BY DEF LoadLoop, RawLoadStep, FoldLeft, MapThenFoldSet, seq, base, Body
  <2> QED BY <2>1, <1>2
<1> DEFINE U == {k \in 0 .. n : it[1 .. k] = st[k]}
<1>9. \A s \in SUBSET (1 .. n) : it[s] = IF s = {} THEN base ELSE Step(it[s \ {Max(s)}], Max(s))
  <2> HIDE DEF it
  <2> QED BY <1>1, <1>2, <1>7
<1> HIDE DEF it
<1>10. 0 \in U
  <2>1. 1 .. 0 = {} /\ {} \in SUBSET (1 .. n)
    OBVIOUS
  <2>2. it[{}] = base
    BY <2>1, <1>9
  <2> QED BY <2>1, <2>2, <1>2
<1>11. \A k \in 0 .. n - 1 : k \in U => k + 1 \in U
  <2> TAKE k \in 0 .. n - 1
  <2> HAVE k \in U
  <2>1. /\ 1 .. k + 1 \in SUBSET (1 .. n) /\ k + 1 \in 1 .. k + 1 /\ (1 .. k + 1) \ {k + 1} = 1 .. k
        /\ k + 1 \in 1 .. n /\ (k + 1) - 1 = k /\ k + 1 \in 0 .. n /\ k + 1 \in Nat
    OBVIOUS
  <2>2. Max(1 .. k + 1) = k + 1
    BY ONLY <2>1, MaxTop
  <2>3. it[1 .. k + 1] = Step(it[1 .. k], k + 1)
    BY <2>1, <2>2, <1>9
  <2>4. st[k + 1] = Step(st[k], k + 1)
    BY <2>1, <1>2
  <2> QED BY <2>1, <2>3, <2>4
<1>12. 0 .. n \subseteq U
  <2> HIDE DEF U
  <2> QED BY ONLY <1>10, <1>11, n \in Nat, Induction
<1> QED BY <1>8, <1>12

(* The first k types of the table, each with its interfaces reversed.      *)
Loaded(ts, k) == [d \in {Names[j] : j \in 1 .. k} |-> Flip(ts[d])]

LEMMA LoadedIs ==
  ASSUME NEW ts
  PROVE  /\ Loaded(ts, 0) = <<>>
         /\ \A k \in 1 .. Len(Names) : Entered(Loaded(ts, k - 1), Names[k], Flip(ts[Names[k]])) = Loaded(ts, k)
<1>1. Loaded(ts, 0) = <<>>
  <2>1. {Names[j] : j \in 1 .. 0} = {}
    OBVIOUS
  <2> QED BY <2>1 DEF Loaded
<1>2. ASSUME NEW k \in 1 .. Len(Names)
      PROVE  Entered(Loaded(ts, k - 1), Names[k], Flip(ts[Names[k]])) = Loaded(ts, k)
  <2> DEFINE D == {Names[j] : j \in 1 .. k - 1}
             E == {Names[j] : j \in 1 .. k}
  <2>1. E = D \cup {Names[k]}
    <3>1. k \in Nat /\ k \in 1 .. k /\ \A j \in 1 .. k : j = k \/ j \in 1 .. k - 1
      OBVIOUS
    <3>2. \A j \in 1 .. k - 1 : j \in 1 .. k
      BY <3>1
    <3> QED BY <3>1, <3>2
  <2>2. Loaded(ts, k - 1) = [d \in D |-> Flip(ts[d])] /\ Loaded(ts, k) = [d \in E |-> Flip(ts[d])]
    BY DEF Loaded
  <2> HIDE DEF D, E
  <2> QED BY <2>1, <2>2 DEF Entered
<1> QED BY <1>1, <1>2

LEMMA LoadStepOf ==
  ASSUME NEW f, NEW names, NEW r, NEW v, NEW p, NEW n, NEW T, NEW q,
         r = Got(v, p), f[p] # 0, TypeAt(f, p, names) = Got([name |-> n, ty |-> T], q)
  PROVE  LoadStep(r, f, names) = Got(Entered(v, n, T), q)
BY DEF LoadStep, Got

LEMMA SavedIs ==
  ASSUME NEW m \in 0 .. Len(Names), NEW ts,
         \A j \in 1 .. m : Written(m, ts[Names[j]])
  PROVE  LET ss == [k \in 1 .. m |-> TypeS(m, Names[k], ts[Names[k]])]
         IN  /\ ss \in Seq(Seq(Item)) /\ Len(ss) = m
             /\ At(E_saveModule(ts, First(m)), 1, FlattenSeq(ss))
<1> DEFINE ss == [k \in 1 .. m |-> TypeS(m, Names[k], ts[Names[k]])]
           a == FlattenSeq(ss)
           b == <<0>>
           cs == [k \in 1 .. m |-> <<Names[k]>> \o Ref(m, Names[k])]
           c == FlattenSeq(cs)
           f == E_saveModule(ts, First(m))
<1>1. m \in Nat /\ DOMAIN First(m) = 1 .. m /\ \A k \in 1 .. m : First(m)[k] = Names[k]
  BY NamesApart DEF First
<1>2. ss \in Seq(Seq(Item)) /\ Len(ss) = m
  <2>1. \A k \in 1 .. m : TypeS(m, Names[k], ts[Names[k]]) \in Seq(Item)
    BY TypeRead
  <2>2. ss \in [1 .. m -> Seq(Item)]
    BY <2>1
  <2> HIDE DEF ss
  <2> QED BY <2>2, <1>1, IsASequence
<1>3. cs \in Seq(Seq(Item))
  <2>1. ASSUME NEW k \in 1 .. m PROVE <<Names[k]>> \o Ref(m, Names[k]) \in Seq(Item)
    <3>1. Names[k] \in Known(m) /\ Names[k] \in Known(Len(Names))
      <4>1. k \in 1 .. Len(Names)
        BY NamesApart
      <4> QED BY <4>1 DEF Known
    <3>2. <<Names[k]>> \in Seq(Item)
      BY <3>1, ItemsAre
    <3>3. Ref(m, Names[k]) \in Seq(Item)
      BY <3>1, RefRead
    <3> QED BY ONLY <3>2, <3>3, ConcatProperties
  <2>2. cs \in [1 .. m -> Seq(Item)]
    BY <2>1
  <2> HIDE DEF cs
  <2> QED BY <2>2, <1>1, IsASequence
<1>4. f = (a \o b) \o c
  <2>1. ss = [k \in DOMAIN First(m) |-> E_serializeType(First(m), First(m)[k], ts[First(m)[k]])]
    BY <1>1 DEF TypeS
  <2>2. cs = [k \in DOMAIN First(m) |-> <<First(m)[k]>> \o E_serializeTyRef(First(m), First(m)[k])]
    BY <1>1 DEF Ref
  <2> HIDE DEF ss, cs
  <2> QED BY <2>1, <2>2 DEF E_saveModule
<1> HIDE DEF ss, cs, f
<1>5. a \in Seq(Item) /\ b \in Seq(Item) /\ c \in Seq(Item)
  BY <1>2, <1>3, ItemsAre, FlattenSeqType
<1> DEFINE ab == a \o b
<1> HIDE DEF a, b, c
<1>6. ab \in Seq(Item) /\ ab = a \o b
  BY ONLY <1>5, ConcatProperties
<1> HIDE DEF ab
<1>7. f = ab \o c
  BY <1>4 DEF ab
<1>8. At(f, 1, f)
  BY DEF At
<1>9. At(f, 1, ab)
  BY ONLY <1>5, <1>6, <1>7, <1>8, AtJoin
<1>10. At(f, 1, a)
  BY ONLY <1>5, <1>6, <1>9, AtJoin
<1> QED BY <1>2, <1>10 DEF ss, a, f

(* What E_loadModule reads from what E_saveModule has written are the      *)
(* types that were written, under the same names and numbers, each with    *)
(* its interfaces in the reverse order (env.c).                            *)
THEOREM LoadReadsSaved ==
  ASSUME NEW m \in 0 .. Len(Names), NEW ts,
         \A j \in 1 .. m : Written(m, ts[Names[j]])
  PROVE  E_loadModule(E_saveModule(ts, First(m)), First(m)) = Loaded(ts, m)
<1> DEFINE ss == [k \in 1 .. m |-> TypeS(m, Names[k], ts[Names[k]])]
           f == E_saveModule(ts, First(m))
           names == First(m)
           list == [k \in 1 .. Len(names) |-> k]
<1>1. m \in Nat /\ Len(names) = m /\ \A k \in 1 .. m : ss[k] = TypeS(m, Names[k], ts[Names[k]])
  BY NamesApart DEF First
<1>2. ss \in Seq(Seq(Item)) /\ Len(ss) = m /\ At(f, 1, FlattenSeq(ss))
  BY SavedIs
<1>3. \A k \in 1 .. m : \A i \in Nat : At(f, i, ss[k]) =>
        /\ f[i] = k
        /\ TypeAt(f, i, names) = Got([name |-> Names[k], ty |-> Flip(ts[Names[k]])], i + Len(ss[k]))
  <2> TAKE k \in 1 .. m
  <2> TAKE i \in Nat
  <2> HIDE DEF f
  <2> QED BY TypeRead
<1> HIDE DEF ss, f, names
<1>4. PICK pos \in [0 .. m -> Nat] :
         /\ pos[0] = 1
         /\ \A k \in 1 .. m : pos[k] = pos[k - 1] + Len(ss[k]) /\ At(f, pos[k - 1], ss[k])
  <2>1. \E pos \in [0 .. Len(ss) -> Nat] :
           /\ pos[0] = 1 /\ pos[Len(ss)] = 1 + Len(FlattenSeq(ss))
           /\ \A k \in 1 .. Len(ss) : pos[k] = pos[k - 1] + Len(ss[k]) /\ At(f, pos[k - 1], ss[k])
    BY ONLY <1>2, Sections
  <2> QED BY <2>1, <1>2
<1> DEFINE st == [k \in 0 .. m |-> Got(Loaded(ts, k), pos[k])]
<1>5. st[0] = Got(<<>>, 1) /\ st[m] = Got(Loaded(ts, m), pos[m])
  BY <1>1, <1>4, LoadedIs
<1>6. ASSUME NEW k \in 1 .. m PROVE st[k] = LoadStep(st[k - 1], f, names)
  <2>1. k - 1 \in 0 .. m /\ k \in 0 .. m /\ k # 0 /\ pos[k - 1] \in Nat /\ k \in 1 .. Len(Names)
    BY <1>1, NamesApart
  <2>2. /\ f[pos[k - 1]] = k
        /\ TypeAt(f, pos[k - 1], names) = Got([name |-> Names[k], ty |-> Flip(ts[Names[k]])], pos[k])
    <3> DEFINE i == pos[k - 1]
    <3>1. i \in Nat /\ At(f, i, ss[k]) /\ pos[k] = i + Len(ss[k])
      BY <2>1, <1>4
    <3> HIDE DEF i
    <3>2. /\ f[i] = k
          /\ TypeAt(f, i, names) = Got([name |-> Names[k], ty |-> Flip(ts[Names[k]])], i + Len(ss[k]))
      BY ONLY <3>1, <1>3, k \in 1 .. m
    <3> QED BY ONLY <3>1, <3>2 DEF i
  <2>3. Entered(Loaded(ts, k - 1), Names[k], Flip(ts[Names[k]])) = Loaded(ts, k)
    BY <2>1, LoadedIs
  <2>4. st[k - 1] = Got(Loaded(ts, k - 1), pos[k - 1]) /\ st[k] = Got(Loaded(ts, k), pos[k])
    BY <2>1
  <2> HIDE DEF st
  <2> DEFINE r == st[k - 1]
             v == Loaded(ts, k - 1)
             p == pos[k - 1]
             q == pos[k]
             n == Names[k]
             T == Flip(ts[Names[k]])
  <2>5. r = Got(v, p) /\ f[p] # 0 /\ TypeAt(f, p, names) = Got([name |-> n, ty |-> T], q)
    BY <2>1, <2>2, <2>4
  <2> HIDE DEF r, v, p, q, n, T
  <2>6. LoadStep(r, f, names) = Got(Entered(v, n, T), q)
    BY ONLY <2>5, LoadStepOf
  <2> QED BY <2>3, <2>4, <2>6 DEF r, v, q, n, T
<1>7. LoadLoop(f, names, list) = st[m]
  <2>1. DOMAIN list = 1 .. m
    BY <1>1
  <2>2. st[0] = Got(<<>>, 1) /\ LoadRun(st, m, f, names)
    BY <1>5, <1>6 DEF LoadRun
  <2>3. m \in Nat
    BY <1>1
  <2> HIDE DEF st, list
  <2> QED BY ONLY <2>1, <2>2, <2>3, LoadReads
<1>8. E_loadModule(f, names) = LoadLoop(f, names, list).v
  BY LoadLoopOf
<1>9. E_loadModule(f, names) = Loaded(ts, m)
  <2> HIDE DEF st, list
  <2> QED BY <1>5, <1>7, <1>8 DEF Got
<1> QED BY <1>9 DEF f, names

-----------------------------------------------------------------------------
(* What an imported type has in common with the declared one.              *)
LEMMA FlipIs ==
  ASSUME NEW k, NEW T \in TypeT(k)
  PROVE  /\ Flip(T) \in TypeT(k) /\ Alike(T, Flip(T))
         /\ Flip(T).kind = T.kind /\ Flip(T).base = T.base /\ Flip(T).members = T.members
         /\ Flip(T).size = T.size /\ Len(Flip(T).impls) = Len(T.impls) /\ Len(T.impls) \in Nat
         /\ \A j \in 1 .. Len(T.impls) : \E i \in 1 .. Len(T.impls) : Flip(T).impls[j] = T.impls[i]
<1> DEFINE s == T.impls
           n == Len(s)
           g == Flipped(s, n)
<1>1. /\ s \in Seq(ImplT(k)) /\ T.kind \in {"class", "interface"} /\ T.base \in Known(k - 1) \cup {NULL}
      /\ T.members \in Seq(MemberT(k)) /\ T.size \in Nat /\ T.count \in Int
      /\ T = [kind |-> T.kind, base |-> T.base, impls |-> T.impls, members |-> T.members,
              size |-> T.size, count |-> T.count]
  BY DEF TypeT
<1>2. Flip(T) = [kind |-> T.kind, base |-> T.base, impls |-> g, members |-> T.members,
                 size |-> T.size, count |-> T.count]
  BY <1>1 DEF Flip
<1>3. n \in Nat /\ DOMAIN s = 1 .. n /\ g \in Seq(ImplT(k)) /\ Len(g) = n /\ DOMAIN g = 1 .. n
  <2>1. g \in Seq(ImplT(k)) /\ Len(g) = n
    BY <1>1, FlippedIs
  <2> HIDE DEF g
  <2> QED BY <1>1, <2>1
<1>4. \A j \in 1 .. n : g[j] = s[n + 1 - j] /\ n + 1 - j \in 1 .. n /\ n + 1 - (n + 1 - j) = j
  BY <1>3 DEF Flipped
<1> HIDE DEF g, n
<1>5. ToSet(g) = ToSet(s)
  <2>1. ASSUME NEW x \in ToSet(g) PROVE x \in ToSet(s)
    <3>1. PICK j \in 1 .. n : x = g[j]
      BY <2>1, <1>3 DEF ToSet
    <3> QED BY <3>1, <1>3, <1>4 DEF ToSet
  <2>2. ASSUME NEW x \in ToSet(s) PROVE x \in ToSet(g)
    <3>1. PICK j \in 1 .. n : x = s[j]
      BY <2>2, <1>3 DEF ToSet
    <3>2. n + 1 - j \in 1 .. n /\ g[n + 1 - j] = s[j]
      BY <1>3, <1>4
    <3> QED BY <3>1, <3>2, <1>3 DEF ToSet
  <2> QED BY <2>1, <2>2
<1>6. Flip(T) \in TypeT(k)
  BY <1>1, <1>2, <1>3 DEF TypeT
<1>7. Alike(T, Flip(T))
  <2>1. [T EXCEPT !.impls = ToSet(s)] = [kind |-> T.kind, base |-> T.base, impls |-> ToSet(s),
                                         members |-> T.members, size |-> T.size, count |-> T.count]
    BY <1>1
  <2>2. [Flip(T) EXCEPT !.impls = ToSet(g)] = [kind |-> T.kind, base |-> T.base, impls |-> ToSet(g),
                                               members |-> T.members, size |-> T.size, count |-> T.count]
    BY <1>2
  <2>3. Flip(T).impls = g
    BY <1>2
  <2> QED BY <2>1, <2>2, <2>3, <1>5 DEF Alike
<1>8. \A j \in 1 .. n : \E i \in 1 .. n : Flip(T).impls[j] = s[i]
  BY <1>2, <1>4
<1>9. /\ Flip(T).kind = T.kind /\ Flip(T).base = T.base /\ Flip(T).members = T.members
      /\ Flip(T).size = T.size /\ Len(Flip(T).impls) = n
  BY <1>2, <1>3
<1> QED BY <1>3, <1>6, <1>7, <1>8, <1>9 DEF n

LEMMA FlipMade ==
  ASSUME NEW k, NEW T, NEW low, Made(k, T, low)
  PROVE  Made(k, Flip(T), low)
<1> DEFINE U == Flip(T)
           n == Len(T.impls)
<1>1. T \in TypeT(k)
  BY DEF Made
<1>2. /\ U \in TypeT(k) /\ U.kind = T.kind /\ U.base = T.base /\ U.members = T.members
      /\ U.size = T.size /\ Len(U.impls) = n
      /\ \A j \in 1 .. n : \E i \in 1 .. n : U.impls[j] = T.impls[i]
  BY <1>1, FlipIs
<1> HIDE DEF U
<1>3. CASE MadeClass(k, T, low)
  <2>1. \A i \in 1 .. n : T.impls[i].at + 4 <= T.size
    BY <1>3 DEF MadeClass
  <2> HIDE DEF n
  <2>2. \A j \in 1 .. n : U.impls[j].at + 4 <= U.size
    BY <1>2, <2>1
  <2>3. MadeClass(k, U, low)
    BY <1>2, <1>3, <2>2 DEF MadeClass
  <2> QED BY <1>2, <2>3 DEF Made, U
<1>4. CASE MadeInterface(k, T)
  <2>1. MadeInterface(k, U)
    BY <1>2, <1>4 DEF MadeInterface
  <2> QED BY <1>2, <2>1 DEF Made, U
<1> QED BY <1>3, <1>4 DEF Made

LEMMA MemberGrows ==
  ASSUME NEW j \in Int, NEW k \in Int, j <= k
  PROVE  Seq(MemberT(j)) \subseteq Seq(MemberT(k)) /\ Seq(ImplT(j)) \subseteq Seq(ImplT(k))
<1>1. MemberT(j) \subseteq MemberT(k)
  BY CodeGrows DEF MemberT
<1>2. ImplT(j) \subseteq ImplT(k)
  <2>1. Known(j - 1) \subseteq Known(k - 1)
    BY KnownGrows
  <2> QED BY <2>1 DEF ImplT
<1> HIDE DEF MemberT, ImplT
<1> QED BY <1>1, <1>2

LEMMA TableWritten ==
  ASSUME NEW ts, NEW m, Table(ts, m), NEW j \in 1 .. m
  PROVE  Written(m, ts[Names[j]])
<1> DEFINE T == ts[Names[j]]
<1>1. Made(j, T, Low(ts, T)) /\ j \in Int /\ m \in Int /\ j <= m /\ j - 1 <= m
  BY NamesApart DEF Table
<1>2. T \in TypeT(j) /\ (MadeClass(j, T, Low(ts, T)) \/ MadeInterface(j, T))
  BY <1>1 DEF Made
<1> HIDE DEF T
<1>3. /\ T = [kind |-> T.kind, base |-> T.base, impls |-> T.impls, members |-> T.members,
              size |-> T.size, count |-> T.count]
      /\ T.base \in Known(j - 1) \cup {NULL} /\ T.impls \in Seq(ImplT(j)) /\ T.members \in Seq(MemberT(j))
      /\ T.size \in Nat /\ T.count \in Int
  BY <1>2 DEF TypeT
<1>4. T.impls \in Seq(ImplT(m)) /\ T.members \in Seq(MemberT(m))
  BY <1>1, <1>3, MemberGrows
<1>5. T.base \in Known(m) \cup {NULL}
  BY <1>1, <1>3, KnownGrows
<1>6. T.kind = "class" \/ (T.kind = "interface" /\ T.base = NULL /\ T.size = 0)
  BY <1>2 DEF MadeClass, MadeInterface
<1> QED BY <1>3, <1>4, <1>5, <1>6 DEF Written, T

(* The types of a program that imports the module.                         *)
LEMMA ImportStays ==
  ASSUME NEW ts, NEW m, Table(ts, m), NEW us, us = Entered(Loaded(ts, m), Root, CObject)
  PROVE  /\ Table(us, m)
         /\ \A d \in Known(m) : /\ Alike(ts[d], us[d]) /\ us[d].kind = ts[d].kind
                                /\ us[d].base = ts[d].base /\ us[d].size = ts[d].size
<1>1. /\ m \in Nat /\ \A k \in 1 .. m : k \in 1 .. Len(Names)
      /\ DOMAIN ts = Known(m) /\ ts[Root] = CObject /\ Root \in Known(m)
  BY NamesApart DEF Table, Known
<1>2. /\ us = [d \in DOMAIN us |-> us[d]] /\ DOMAIN us = Known(m) /\ us[Root] = CObject
      /\ \A k \in 1 .. m : us[Names[k]] = Flip(ts[Names[k]])
  <2>1. \A k \in 1 .. m : Names[k] # Root
    BY <1>1, NamesApart
  <2> QED BY <2>1 DEF Entered, Loaded, Known
<1>3. ASSUME NEW k \in 1 .. m
      PROVE  /\ Made(k, us[Names[k]], Low(ts, ts[Names[k]]))
             /\ Alike(ts[Names[k]], us[Names[k]]) /\ us[Names[k]].kind = ts[Names[k]].kind
             /\ us[Names[k]].base = ts[Names[k]].base /\ us[Names[k]].size = ts[Names[k]].size
  <2> DEFINE T == ts[Names[k]]
  <2>1. Made(k, T, Low(ts, T)) /\ us[Names[k]] = Flip(T)
    BY <1>2 DEF Table
  <2>2. T \in TypeT(k)
    BY <2>1 DEF Made
  <2> HIDE DEF T
  <2>3. Made(k, Flip(T), Low(ts, T))
    BY <2>1, FlipMade
  <2>4. Alike(T, Flip(T)) /\ Flip(T).kind = T.kind /\ Flip(T).base = T.base /\ Flip(T).size = T.size
    BY <2>2, FlipIs
  <2> QED BY <2>1, <2>3, <2>4 DEF T
<1>4. \A d \in Known(m) : /\ Alike(ts[d], us[d]) /\ us[d].kind = ts[d].kind
                          /\ us[d].base = ts[d].base /\ us[d].size = ts[d].size
  <2>1. Alike(CObject, CObject)
    BY DEF Alike
  <2>2. \A d \in Known(m) : d = Root \/ \E k \in 1 .. m : d = Names[k]
    BY DEF Known
  <2> QED BY <2>1, <2>2, <1>1, <1>2, <1>3
<1>5. ASSUME NEW k \in 1 .. m
      PROVE  /\ Made(k, us[Names[k]], Low(us, us[Names[k]]))
             /\ us[Names[k]].base # NULL => us[us[Names[k]].base].kind = "class"
  <2> DEFINE d == Names[k]
             b == ts[d].base
  <2>1. us[d].base = b /\ d \in Known(m)
    BY <1>3 DEF Known
  <2>2. b # NULL => b \in Known(m) /\ ts[b].kind = "class"
    BY <2>1, BaseIs DEF Table
  <2>3. b # NULL => us[b].size = ts[b].size /\ us[b].kind = "class"
    BY <2>2, <1>4
  <2>4. Low(us, us[d]) = Low(ts, ts[d])
    BY <2>1, <2>3 DEF Low
  <2> QED BY <2>1, <2>3, <2>4, <1>3
<1>6. Table(us, m)
  BY <1>1, <1>2, <1>5 DEF Table, Function
<1> QED BY <1>4, <1>6

-----------------------------------------------------------------------------
(* The fields of a class and its base classes.                             *)
OwnFields(ts, d) == {<<d, m>> : m \in {x \in ToSet(ts[d].members) : x.kind = "field"}}
Fields(ts, c) == UNION {OwnFields(ts, d) : d \in ToSet(Chain(ts, c))}

(* They lie below `high' and do not overlap.                               *)
Below(F, high) ==
  \A f \in F : /\ f[2].at \in Nat /\ f[2].size \in Nat /\ f[2].at + f[2].size <= high
               /\ f[2].size > 1 => f[2].at % 2 = 0
Disjoint(F) ==
  \A f, g \in F : f = g \/ f[2].at + f[2].size <= g[2].at \/ g[2].at + g[2].size <= f[2].at

LEMMA OwnIs ==
  ASSUME NEW ts, NEW d, NEW k, ts[d].members \in Seq(MemberT(k)), NEW low \in Nat, NEW high \in Nat,
         Laid(ts[d].members, low, high)
  PROVE  /\ Below(OwnFields(ts, d), high) /\ Disjoint(OwnFields(ts, d))
         /\ \A f \in OwnFields(ts, d) : low <= f[2].at
<1> DEFINE s == ts[d].members
<1>1. Len(s) \in Nat /\ DOMAIN s = 1 .. Len(s) /\ \A i \in 1 .. Len(s) : s[i] \in MemberT(k)
  OBVIOUS
<1>2. \A i \in 1 .. Len(s) : s[i].kind = "field" => s[i].at \in Nat /\ s[i].size \in Nat
  <2>1. \A x \in MemberT(k) : x.kind = "field" => x.at \in Nat /\ x.size \in Nat
    BY DEF MemberT, FieldM, CodeM, MethodM, PropertyM
  <2> QED BY <1>1, <2>1
<1>3. \A f \in OwnFields(ts, d) : \E i \in 1 .. Len(s) : s[i].kind = "field" /\ f = <<d, s[i]>> /\ f[2] = s[i]
  BY <1>1 DEF OwnFields, ToSet
<1>4. /\ \A i \in 1 .. Len(s) : s[i].kind = "field" =>
           /\ low <= s[i].at /\ s[i].at + s[i].size <= high
           /\ s[i].size > 1 => s[i].at % 2 = 0
      /\ \A i, j \in 1 .. Len(s) :
           i < j /\ s[i].kind = "field" /\ s[j].kind = "field" => s[i].at + s[i].size <= s[j].at
  BY DEF Laid
<1> HIDE DEF s
<1>5. Below(OwnFields(ts, d), high) /\ \A f \in OwnFields(ts, d) : low <= f[2].at
  BY ONLY <1>2, <1>3, <1>4 DEF Below
<1>6. Disjoint(OwnFields(ts, d))
  <2> SUFFICES ASSUME NEW f \in OwnFields(ts, d), NEW g \in OwnFields(ts, d), f # g
               PROVE  f[2].at + f[2].size <= g[2].at \/ g[2].at + g[2].size <= f[2].at
    BY DEF Disjoint
  <2>1. PICK i \in 1 .. Len(s) : s[i].kind = "field" /\ f = <<d, s[i]>> /\ f[2] = s[i]
    BY <1>3
  <2>2. PICK j \in 1 .. Len(s) : s[j].kind = "field" /\ g = <<d, s[j]>> /\ g[2] = s[j]
    BY <1>3
  <2>3. i < j \/ j < i
    <3>1. i # j
      BY <2>1, <2>2
    <3> QED BY <3>1, <1>1
  <2> QED BY <2>1, <2>2, <2>3, <1>4
<1> QED BY <1>5, <1>6

LEMMA FieldsGrow ==
  ASSUME NEW F, NEW G, NEW low \in Nat, NEW high \in Nat, low <= high,
         Below(F, low), Disjoint(F), Below(G, high), Disjoint(G), \A g \in G : low <= g[2].at
  PROVE  Below(F \cup G, high) /\ Disjoint(F \cup G)
<1>1. Below(F, high)
  BY DEF Below
<1>2. \A f \in F : \A g \in G : f[2].at + f[2].size <= g[2].at
  BY DEF Below
<1>3. Below(F \cup G, high)
  BY <1>1 DEF Below
<1>4. Disjoint(F \cup G)
  BY <1>2 DEF Disjoint
<1> QED BY <1>3, <1>4

LEMMA FieldsStep ==
  ASSUME NEW ts, NEW m, Table(ts, m), NEW c \in Known(m)
  PROVE  Fields(ts, c) = IF ts[c].base = NULL THEN OwnFields(ts, c) ELSE Fields(ts, ts[c].base) \cup OwnFields(ts, c)
<1>1. CASE ts[c].base = NULL
  <2>1. Chain(ts, c) = <<c>>
    BY <1>1, ChainIs
  <2>2. ToSet(<<c>>) = {c}
    BY DEF ToSet
  <2> QED BY <1>1, <2>1, <2>2 DEF Fields
<1>2. CASE ts[c].base # NULL
  <2> DEFINE b == ts[c].base
             s == Chain(ts, b)
  <2>1. b \in Known(m)
    BY <1>2, BaseIs
  <2>2. s \in Seq(Known(m)) /\ Chain(ts, c) = <<c>> \o s
    BY <1>2, <2>1, ChainIs, ChainType
  <2> HIDE DEF s
  <2>3. ToSet(<<c>> \o s) = ToSet(s) \cup {c}
    <3>1. <<c>> \in Seq(Known(m)) /\ Len(<<c>>) = 1 /\ <<c>>[1] = c
      OBVIOUS
    <3> DEFINE a == <<c>>
               t == a \o s
    <3> HIDE DEF a
    <3>2. a \in Seq(Known(m)) /\ Len(a) = 1 /\ a[1] = c
      BY <3>1 DEF a
    <3>3. /\ t \in Seq(Known(m)) /\ Len(t) = Len(a) + Len(s)
          /\ \A i \in 1 .. Len(a) + Len(s) : t[i] = IF i <= Len(a) THEN a[i] ELSE s[i - Len(a)]
      BY ONLY <3>2, <2>2, ConcatProperties
    <3>4. /\ Len(s) \in Nat /\ DOMAIN s = 1 .. Len(s) /\ DOMAIN t = 1 .. 1 + Len(s) /\ t[1] = c
          /\ \A i \in 1 .. Len(s) : i + 1 \in 1 .. 1 + Len(s) /\ t[i + 1] = s[i]
          /\ \A i \in 1 .. 1 + Len(s) : i = 1 \/ (i - 1 \in 1 .. Len(s) /\ t[i] = s[i - 1])
      <4>1. Len(s) \in Nat /\ DOMAIN s = 1 .. Len(s)
        BY <2>2
      <4> HIDE DEF t
      <4>2. Len(t) = 1 + Len(s) /\ \A i \in 1 .. 1 + Len(s) : t[i] = IF i <= 1 THEN a[i] ELSE s[i - 1]
        BY ONLY <3>2, <3>3
      <4>3. DOMAIN t = 1 .. 1 + Len(s)
        BY <3>3, <4>2
      <4>4. t[1] = c
        BY ONLY <3>2, <4>1, <4>2
      <4>5. \A i \in 1 .. Len(s) : i + 1 \in 1 .. 1 + Len(s) /\ t[i + 1] = s[i]
        <5> TAKE i \in 1 .. Len(s)
        <5>1. i + 1 \in 1 .. 1 + Len(s) /\ ~(i + 1 <= 1) /\ (i + 1) - 1 = i
          BY <4>1
        <5>2. t[i + 1] = s[(i + 1) - 1]
          BY ONLY <5>1, <4>2
        <5> QED BY ONLY <5>1, <5>2
      <4>6. \A i \in 1 .. 1 + Len(s) : i = 1 \/ (i - 1 \in 1 .. Len(s) /\ t[i] = s[i - 1])
        BY ONLY <4>1, <4>2
      <4> QED BY <4>1, <4>3, <4>4, <4>5, <4>6
    <3> HIDE DEF t
    <3>5. \A x : x \in ToSet(t) <=> \E i \in 1 .. 1 + Len(s) : x = t[i]
      BY <3>4 DEF ToSet
    <3>6. \A x : x \in ToSet(s) <=> \E i \in 1 .. Len(s) : x = s[i]
      BY <3>4 DEF ToSet
    <3>7. 1 \in 1 .. 1 + Len(s)
      BY <3>4
    <3>8. \A x \in ToSet(t) : x \in ToSet(s) \cup {c}
      BY ONLY <3>4, <3>5, <3>6
    <3>9. \A x \in ToSet(s) \cup {c} : x \in ToSet(t)
      BY ONLY <3>4, <3>5, <3>6, <3>7
    <3>10. ToSet(t) = ToSet(s) \cup {c}
      BY ONLY <3>8, <3>9
    <3> QED BY <3>10 DEF t, a
  <2>4. Fields(ts, c) = UNION {OwnFields(ts, d) : d \in ToSet(s) \cup {c}}
    BY <2>2, <2>3 DEF Fields
  <2>5. Fields(ts, b) = UNION {OwnFields(ts, d) : d \in ToSet(s)}
    BY DEF Fields, s
  <2> QED BY <2>4, <2>5, <1>2
<1> QED BY <1>1, <1>2

LEMMA FieldsLaid ==
  ASSUME NEW ts, NEW m, Table(ts, m), NEW c \in Known(m), ts[c].kind = "class"
  PROVE  Below(Fields(ts, c), ts[c].size) /\ Disjoint(Fields(ts, c))
<1> DEFINE P(d) == ts[d].kind = "class" =>
                     ts[d].size \in Nat /\ Below(Fields(ts, d), ts[d].size) /\ Disjoint(Fields(ts, d))
           T == {k \in 0 .. m : \A d \in Known(k) : P(d)}
<1>1. m \in Nat /\ \A k \in 0 .. m : Known(k) \subseteq Known(m)
  BY NamesApart, KnownGrows DEF Table
<1>2. 0 \in T
  <2>1. \A d \in Known(0) : d = Root
    BY DEF Known
  <2>2. ts[Root] = CObject /\ Root \in Known(m)
    BY DEF Table, Known
  <2>3. Fields(ts, Root) = OwnFields(ts, Root)
    BY <2>2, FieldsStep DEF CObject
  <2> DEFINE v == [kind |-> "field", name |-> "_vTablePtr", at |-> 0, size |-> 4]
  <2>4. OwnFields(ts, Root) = {<<Root, v>>}
    <3> DEFINE s == ts[Root].members
    <3>1. Len(s) = 2 /\ DOMAIN s = {1, 2} /\ s[1] = v /\ s[2].kind = "method"
      BY <2>2 DEF CObject
    <3>2. ToSet(s) = {s[1], s[2]}
      BY <3>1 DEF ToSet
    <3>3. {x \in ToSet(s) : x.kind = "field"} = {v}
      BY <3>1, <3>2
    <3> HIDE DEF s, v
    <3> QED BY <3>3 DEF OwnFields, s
  <2>5. P(Root)
    <3>1. <<Root, v>>[2].at = 0 /\ <<Root, v>>[2].size = 4
      OBVIOUS
    <3>2. ts[Root].size = 4
      BY <2>2 DEF CObject
    <3> HIDE DEF v
    <3>3. Below({<<Root, v>>}, 4)
      BY <3>1 DEF Below
    <3>4. Disjoint({<<Root, v>>})
      BY DEF Disjoint
    <3> QED BY <2>3, <2>4, <3>2, <3>3, <3>4
  <2> HIDE DEF P
  <2> QED BY <2>1, <2>5, <1>1
<1>3. \A k \in 0 .. m - 1 : k \in T => k + 1 \in T
  <2> SUFFICES ASSUME NEW k \in 0 .. m - 1, k \in T, NEW d \in Known(k + 1), d \notin Known(k),
                      ts[d].kind = "class"
               PROVE  ts[d].size \in Nat /\ Below(Fields(ts, d), ts[d].size) /\ Disjoint(Fields(ts, d))
    <3> DEFINE Q(d) == ts[d].size \in Nat /\ Below(Fields(ts, d), ts[d].size) /\ Disjoint(Fields(ts, d))
    <3>1. \A d : P(d) <=> (ts[d].kind = "class" => Q(d))
      OBVIOUS
    <3> HIDE DEF P, Q
    <3>2. \A k \in 0 .. m - 1 : k + 1 \in 0 .. m
      BY <1>1
    <3> QED BY <3>1, <3>2 DEF Q
  <2>1. k + 1 \in 1 .. m /\ (k + 1) - 1 = k
    BY <1>1
  <2>2. d = Names[k + 1] /\ d \in Known(m) /\ ts[d].base \in Known(k) \cup {NULL}
    BY <2>1, RefersBack
  <2> DEFINE b == ts[d].base
             low == ts[b].size
             high == ts[d].size
  <2>3. Made(k + 1, ts[d], Low(ts, ts[d])) /\ (b # NULL => ts[b].kind = "class")
    BY <2>1, <2>2 DEF Table
  <2>4. MadeClass(k + 1, ts[d], Low(ts, ts[d])) /\ ts[d] \in TypeT(k + 1)
    BY <2>3 DEF Made, MadeInterface
  <2>5. b # NULL /\ low <= high /\ Laid(ts[d].members, low, high) /\ high \in Nat /\ ts[d].members \in Seq(MemberT(k + 1))
    BY <2>4 DEF MadeClass, Low, TypeT
  <2>6. b \in Known(k) /\ ts[b].kind = "class"
    BY <2>2, <2>3, <2>5
  <2>7. low \in Nat /\ Below(Fields(ts, b), low) /\ Disjoint(Fields(ts, b))
    BY <2>6
  <2> HIDE DEF T, P
  <2>8. Fields(ts, d) = Fields(ts, b) \cup OwnFields(ts, d)
    BY <2>2, <2>5, FieldsStep
  <2> HIDE DEF low, high
  <2>9. Below(OwnFields(ts, d), high) /\ Disjoint(OwnFields(ts, d)) /\ \A f \in OwnFields(ts, d) : low <= f[2].at
    BY <2>5, <2>7, OwnIs
  <2>10. Below(Fields(ts, b) \cup OwnFields(ts, d), high) /\ Disjoint(Fields(ts, b) \cup OwnFields(ts, d))
    BY ONLY <2>5, <2>7, <2>9, FieldsGrow
  <2> QED BY <2>5, <2>8, <2>10 DEF high
<1>4. 0 .. m \subseteq T
  <2> HIDE DEF T
  <2> QED BY ONLY <1>1, <1>2, <1>3, Induction
<1> QED BY <1>4, <1>1

-----------------------------------------------------------------------------
(* The invariant holds initially, and every action preserves it.           *)
LEMMA InvInit == Init => Inv
<1> SUFFICES ASSUME Init PROVE Inv
  OBVIOUS
<1>1. Len(order) = 0 /\ order = <<>> /\ 1 .. 0 = {} /\ Len(Names) \in Nat
  BY NamesApart DEF Init
<1>2. Ordered
  BY <1>1 DEF Ordered
<1>3. types = [d \in {Root} |-> CObject] /\ Known(0) = {Root}
  BY DEF Init, Known
<1>4. Table(types, 0)
  BY <1>1, <1>3 DEF Table, Function
<1>5. Sources
  BY <1>3 DEF Init, Sources
<1>6. Opened
  BY DEF Init, Opened
<1>7. Stored
  <2>1. DOMAIN inits = {Root} /\ types[Root] = CObject /\ DOMAIN types = {Root}
    BY <1>3 DEF Init
  <2>2. DOMAIN inits[Root] = {0} /\ inits[Root][0] = <<Root, Root>> /\ DOMAIN vtables = {<<Root, Root>>}
    BY DEF Init
  <2>3. CObject.kind = "class" /\ CObject.size = 4
    BY DEF CObject
  <2> QED BY <2>1, <2>2, <2>3 DEF Stored
<1>8. Pointers
  BY DEF Init, Pointers, NoObject, NoPtr
<1> QED BY <1>1, <1>2, <1>4, <1>5, <1>6, <1>7, <1>8 DEF Inv

LEMMA InvIs ==
  ASSUME Inv
  PROVE  /\ Len(order) \in 0 .. Len(Names) /\ Len(order) \in Nat /\ order = First(Len(order))
         /\ Table(types, Len(order)) /\ DOMAIN types = Known(Len(order))
         /\ order # <<>> => Len(order) # 0 /\ order[Len(order)] = Names[Len(order)]
<1>1. Len(order) \in 0 .. Len(Names) /\ order = [k \in 1 .. Len(order) |-> Names[k]]
  BY DEF Inv, Ordered
<1>2. Len(order) \in Nat
  BY <1>1, NamesApart
<1>3. order = First(Len(order))
  BY <1>1 DEF First
<1>4. order # <<>> => Len(order) # 0
  <2>1. First(0) = <<>>
    BY DEF First
  <2> QED BY <2>1, <1>3
<1>5. Len(order) # 0 => order[Len(order)] = Names[Len(order)]
  BY <1>1, <1>2
<1> QED BY <1>1, <1>2, <1>3, <1>4, <1>5 DEF Inv, Table

(* What a declaration that begins needs.                                   *)
LEMMA BeginKeeps ==
  ASSUME Inv, Len(order) < Len(Names), NEW us, Table(us, Len(order) + 1),
         \A d \in Known(Len(order)) : us[d] = types[d],
         NEW made, made.ts \in Change(us, Len(order) + 1), NEW text,
         "entries" \in DOMAIN text, text.entries = <<>>,
         Begin(Names[Len(order) + 1], made, text)
  PROVE  Inv'
<1> DEFINE m == Len(order)
           n == Names[m + 1]
<1>1. /\ m \in Nat /\ m + 1 \in 1 .. Len(Names) /\ m + 1 # 0 /\ (m + 1) - 1 = m
      /\ Table(types, m) /\ DOMAIN types = Known(m) /\ order = [k \in 1 .. m |-> Names[k]]
  BY InvIs, NamesApart DEF First
<1>2. /\ types' = made.ts /\ order' = Append(order, n) /\ source' = Entered(source, n, text)
      /\ open' = n /\ inits' = inits /\ vtables' = vtables /\ object' = object /\ ptr' = ptr
  BY DEF Begin, program
<1>3. n \notin Known(m) /\ Known(m + 1) = Known(m) \cup {n} /\ n # Root /\ n # NULL
  BY <1>1, NamesApart, KnownNext
<1>4. Table(types', m + 1) /\ DOMAIN types' = Known(m + 1) /\ \A d \in Known(m) : types'[d] = types[d]
  <2>1. Table(types', m + 1) /\ \A d \in Known(m + 1) \ {n} : types'[d] = us[d]
    BY <1>1, <1>2, ChangeIs
  <2>2. DOMAIN types' = Known(m + 1)
    BY <2>1 DEF Table
  <2> QED BY <2>1, <2>2, <1>3
<1>5. Len(order') = m + 1 /\ order' = [k \in 1 .. m + 1 |-> Names[k]] /\ order'[m + 1] = n
  <2>1. order \in Seq(Known(m))
    <3>1. \A k \in 1 .. m : Names[k] \in Known(m)
      BY DEF Known
    <3>2. order \in [1 .. m -> Known(m)]
      BY <1>1, <3>1
    <3> QED BY <3>2, <1>1, IsASequence
  <2>2. \A k \in 1 .. m : order[k] = Names[k]
    BY <1>1
  <2> QED BY <2>1, <2>2, <1>1, <1>2
<1>6. Ordered'
  <2>1. m + 1 \in 0 .. Len(Names)
    BY <1>1
  <2> QED BY <1>5, <2>1 DEF Ordered
<1>7. Sources'
  <2>1. DOMAIN source = Known(m) /\ \A d \in Known(m) \ {Root} :
                "entries" \in DOMAIN source[d] /\ source[d].entries \in Seq(Declarations)
    BY <1>1 DEF Inv, Sources
  <2>2. <<>> \in Seq(Declarations)
    OBVIOUS
  <2>3. DOMAIN source' = Known(m + 1)
    BY <2>1, <1>2, <1>3 DEF Entered
  <2>4. source'[n] = text /\ \A d \in Known(m) : source'[d] = source[d]
    BY <2>1, <1>2, <1>3 DEF Entered
  <2> HIDE DEF n, m
  <2>5. \A d \in Known(m + 1) \ {Root} :
          "entries" \in DOMAIN source'[d] /\ source'[d].entries \in Seq(Declarations)
    BY <2>1, <2>2, <2>4, <1>3
  <2> QED BY <2>3, <2>5, <1>4 DEF Sources
<1>8. Stored'
  <2>1. /\ DOMAIN inits \subseteq Known(m)
        /\ \A c \in DOMAIN inits :
             /\ types[c].kind = "class"
             /\ \A at \in DOMAIN inits[c] : inits[c][at] \in DOMAIN vtables /\ at + 4 <= types[c].size
    BY <1>1 DEF Inv, Stored
  <2> HIDE DEF m, n
  <2> QED BY <2>1, <1>2, <1>3, <1>4 DEF Stored
<1>9. Opened'
  <2>1. order' # <<>> /\ n \notin DOMAIN inits
    <3>1. Len(<<>>) = 0
      OBVIOUS
    <3>2. DOMAIN inits \subseteq Known(m)
      BY <1>1 DEF Inv, Stored
    <3> QED BY <3>1, <3>2, <1>1, <1>3, <1>5
  <2> HIDE DEF m, n
  <2> QED BY <2>1, <1>2, <1>5 DEF Opened
<1>10. Pointers'
  <2>1. object.cls \in DOMAIN inits \cup {NULL} /\ ptr.ty \in Known(m) \cup {NULL}
    BY <1>1 DEF Inv, Pointers
  <2> HIDE DEF m, n
  <2> QED BY <2>1, <1>2, <1>3, <1>4 DEF Pointers
<1> HIDE DEF m, n
<1> QED BY <1>4, <1>5, <1>6, <1>7, <1>8, <1>9, <1>10 DEF Inv

(* The interfaces an IMPLEMENTS list names.                                *)
LEMMA ListsAre ==
  ASSUME NEW bases \in Lists
  PROVE  /\ Len(bases) \in Nat /\ DOMAIN bases = 1 .. Len(bases)
         /\ \A k \in 1 .. Len(bases) : bases[k] \in {d \in DOMAIN types : types[d].kind = "interface"}
<1>1. PICK k \in 0 .. MaxBases : bases \in [1 .. k -> OfKind("interface")]
  BY DEF Lists
<1>2. k \in Nat
  BY ClassesAssumption
<1>3. bases \in Seq(OfKind("interface")) /\ Len(bases) = k
  <2> HIDE DEF OfKind
  <2> QED BY <1>1, <1>2, IsASequence
<1> QED BY <1>1, <1>2, <1>3 DEF OfKind

LEMMA InterfaceKeepsInv ==
  ASSUME Inv, stmtInterfaceDeclBegin PROVE Inv'
<1> DEFINE m == Len(order)
           n == Names[m + 1]
           us == Entered(types, n, Ty_Interface)
           text(bases) == [kind |-> "interface", base |-> NULL, bases |-> bases, entries |-> <<>>]
<1>1. /\ m \in Nat /\ m < Len(Names) /\ m + 1 \in 1 .. Len(Names) /\ m + 1 # 0 /\ (m + 1) - 1 = m
      /\ Table(types, m) /\ DOMAIN types = Known(m)
  <2>1. Len(order) < Len(Names)
    BY Zenon DEF stmtInterfaceDeclBegin
  <2> QED BY <2>1, InvIs, NamesApart
<1>2. Table(us, m + 1) /\ us[n].kind = "interface" /\ \A d \in Known(m) : us[d] = types[d]
  BY <1>1, InterfaceBegins
<1>3. PICK bases \in Lists :
         Begin(n, Fold(LAMBDA ts, b : MergeBase(ts, n, b), us, bases), text(bases))
  BY DEF stmtInterfaceDeclBegin, NextName
<1>4. Begin(n, InterfaceLoop(us, n, bases), text(bases))
  BY <1>3, InterfaceLoopIs
<1>5. /\ Len(bases) \in Nat /\ DOMAIN bases = 1 .. Len(bases)
      /\ \A k \in 1 .. Len(bases) : bases[k] \in {d \in Known(m) : us[d].kind = "interface"}
  BY <1>1, <1>2, ListsAre
<1>6. us \in Change(us, m + 1)
  <2> HIDE DEF us
  <2> QED BY <1>1, <1>2, TableIs
<1> HIDE DEF us
<1>7. InterfaceLoop(us, n, bases) \in Result(Change(us, m + 1))
  BY <1>1, <1>2, <1>5, <1>6, InterfaceLoopStays
<1> DEFINE made == InterfaceLoop(us, n, bases)
<1>8. made.ts \in Change(us, m + 1)
  BY <1>7 DEF Result
<1>9. "entries" \in DOMAIN text(bases) /\ text(bases).entries = <<>>
  OBVIOUS
<1> HIDE DEF made, text
<1> QED BY <1>1, <1>2, <1>4, <1>8, <1>9, BeginKeeps DEF made

LEMMA ClassKeepsInv ==
  ASSUME Inv, stmtClassDeclBegin PROVE Inv'
<1> DEFINE m == Len(order)
           n == Names[m + 1]
           text(base, bases) == [kind |-> "class", base |-> base, bases |-> bases, entries |-> <<>>]
<1>1. /\ m \in Nat /\ m < Len(Names) /\ m + 1 \in 1 .. Len(Names) /\ m + 1 # 0 /\ (m + 1) - 1 = m
      /\ Table(types, m) /\ DOMAIN types = Known(m)
  <2>1. Len(order) < Len(Names)
    BY Zenon DEF stmtClassDeclBegin
  <2> QED BY <2>1, InvIs, NamesApart
<1>2. PICK base \in OfKind("class"), bases \in Lists :
         Begin(n, Fold(LAMBDA ts, b : Fine(_clsAddIntfImplRecursive(ts, n, b)),
                       Entered(types, n, Ty_Class(types, base)), bases), text(base, bases))
  BY DEF stmtClassDeclBegin, NextName
<1> DEFINE us == Entered(types, n, Ty_Class(types, base))
<1>3. base \in Known(m) /\ types[base].kind = "class"
  BY <1>1 DEF OfKind
<1>4. Table(us, m + 1) /\ us[n].kind = "class" /\ \A d \in Known(m) : us[d] = types[d]
  BY <1>1, <1>3, ClassBegins
<1>5. Begin(n, ClassLoop(us, n, bases), text(base, bases))
  BY <1>2, ClassLoopIs
<1> HIDE DEF us
<1>6. bases \in Seq(Known(m))
  <2>1. /\ Len(bases) \in Nat /\ DOMAIN bases = 1 .. Len(bases)
        /\ \A k \in 1 .. Len(bases) : bases[k] \in Known(m)
    BY <1>1, ListsAre
  <2>2. PICK k \in 0 .. MaxBases : bases \in [1 .. k -> OfKind("interface")]
    BY DEF Lists
  <2>3. k \in Nat /\ OfKind("interface") \subseteq Known(m)
    BY <1>1, ClassesAssumption DEF OfKind
  <2>4. bases \in [1 .. k -> Known(m)]
    BY <2>2, <2>3
  <2> QED BY <2>3, <2>4, IsASequence
<1>7. ClassLoop(us, n, bases) \in Result(Change(us, m + 1))
  BY <1>1, <1>4, <1>6, ClassLoopStays
<1> DEFINE made == ClassLoop(us, n, bases)
<1>8. made.ts \in Change(us, m + 1)
  BY <1>7 DEF Result
<1>9. "entries" \in DOMAIN text(base, bases) /\ text(base, bases).entries = <<>>
  OBVIOUS
<1> HIDE DEF made, text
<1> QED BY <1>1, <1>4, <1>5, <1>8, <1>9, BeginKeeps DEF made

(* A member is declared.                                                   *)
LEMMA FieldKeepsInv ==
  ASSUME Inv, NEW e \in Declarations, stmtTypeDeclField(e) PROVE Inv'
<1> DEFINE m == Len(order)
<1>1. /\ open # NULL /\ source' \in {source, [source EXCEPT ![open].entries = Append(@, e)]}
      /\ types' = types /\ order' = order /\ open' = open /\ inits' = inits /\ vtables' = vtables
      /\ object' = object /\ ptr' = ptr
  BY DEF stmtTypeDeclField, program
<1>2. Sources'
  <2>1. /\ DOMAIN source = DOMAIN types
        /\ \A n \in DOMAIN source \ {Root} :
             "entries" \in DOMAIN source[n] /\ source[n].entries \in Seq(Declarations)
    BY DEF Inv, Sources
  <2>2. CASE source' = source
    BY <1>1, <2>2, <2>1 DEF Sources
  <2>3. CASE source' = [source EXCEPT ![open].entries = Append(@, e)]
    <3>1. open \in DOMAIN source \ {Root}
      <4>1. open = Names[m] /\ m \in 1 .. Len(Names) /\ m \in 1 .. m /\ DOMAIN types = Known(m)
        BY <1>1, InvIs DEF Inv, Opened
      <4> HIDE DEF m
      <4>2. Names[m] \in Known(m)
        BY <4>1 DEF Known
      <4> QED BY <4>1, <4>2, <2>1, NamesApart
    <3>2. Append(source[open].entries, e) \in Seq(Declarations)
      <4>1. source[open].entries \in Seq(Declarations)
        BY <3>1, <2>1
      <4> QED BY <4>1
    <3>3. DOMAIN source' = DOMAIN source
      BY <2>3
    <3>4. ASSUME NEW n \in DOMAIN source \ {Root}
          PROVE  "entries" \in DOMAIN source'[n] /\ source'[n].entries \in Seq(Declarations)
      <4>1. CASE n = open
        <5>1. source'[n] = [source[n] EXCEPT !.entries = Append(@, e)]
          BY <2>3, <4>1
        <5> QED BY <5>1, <4>1, <3>2, <2>1
      <4>2. CASE n # open
        BY <2>3, <4>2, <2>1
      <4> QED BY <4>1, <4>2
    <3> QED BY <3>3, <3>4, <1>1, <2>1 DEF Sources
  <2> QED BY <1>1, <2>2, <2>3
<1>3. Ordered' /\ Table(types', Len(order'))
  BY <1>1 DEF Inv, Ordered
<1>4. Opened' /\ Stored' /\ Pointers'
  BY <1>1 DEF Inv, Opened, Stored, Pointers
<1> QED BY <1>2, <1>3, <1>4 DEF Inv

(* What __init stores when the declaration of class c ends: its tables.    *)
LEMMA InitStoresIs ==
  ASSUME NEW c, NEW k, NEW low, MadeClass(k, types'[c], low), types'[c] \in TypeT(k)
  PROVE  \A at \in DOMAIN InitStores(c) :
            /\ \E i \in {c} \cup {x.intf : x \in ToSet(types'[c].impls)} : InitStores(c)[at] = <<c, i>>
            /\ at + 4 <= types'[c].size
<1> DEFINE T == types'[c]
           S == ToSet(T.impls)
           g == InitStores(c)
<1>1. /\ DOMAIN g = {0} \cup {x.at : x \in S}
      /\ \A at \in DOMAIN g : g[at] = IF at = 0 THEN <<c, c>> ELSE <<c, (CHOOSE x \in S : x.at = at).intf>>
  BY DEF InitStores
<1>2. T.size \in Nat /\ 4 <= T.size /\ \A x \in S : x.at + 4 <= T.size
  <2>1. T.size \in Nat /\ T.impls \in Seq(ImplT(k))
    BY DEF TypeT
  <2>2. 4 <= T.size /\ \A i \in 1 .. Len(T.impls) : T.impls[i].at + 4 <= T.size
    BY DEF MadeClass
  <2>3. DOMAIN T.impls = 1 .. Len(T.impls)
    BY <2>1
  <2> QED BY <2>1, <2>2, <2>3 DEF ToSet
<1> HIDE DEF T, S, g
<1>3. ASSUME NEW at \in DOMAIN g
      PROVE  (\E i \in {c} \cup {x.intf : x \in S} : g[at] = <<c, i>>) /\ at + 4 <= T.size
  <2>1. CASE at = 0
    <3>1. g[at] = <<c, c>> /\ c \in {c} \cup {x.intf : x \in S}
      BY <2>1, <1>1
    <3>2. at + 4 = 4
      BY <2>1
    <3> QED BY <3>1, <3>2, <1>2
  <2>2. CASE at # 0
    <3>1. \E x \in S : x.at = at
      BY <2>2, <1>1
    <3> DEFINE y == CHOOSE x \in S : x.at = at
    <3>2. y \in S /\ y.at = at
      BY <3>1
    <3>3. g[at] = <<c, y.intf>>
      BY <2>2, <1>1
    <3> HIDE DEF y
    <3> QED BY <3>2, <3>3, <1>2
  <2> QED BY <2>1, <2>2
<1> QED BY <1>3 DEF T, S, g

(* The tables of the class whose declaration ends.                         *)
LEMMA AssembleIs ==
  ASSUME NEW c, _assembleVTables(c)
  PROVE  \/ inits' = inits /\ vtables' = vtables
         \/ /\ inits' = Entered(inits, c, InitStores(c))
            /\ DOMAIN vtables' = DOMAIN vtables
                 \cup {<<c, i>> : i \in {c} \cup {x.intf : x \in ToSet(types'[c].impls)}}
<1> DEFINE faults == {Unimplemented(types', c, i.intf) : i \in ToSet(types'[c].impls)} \ {NoError}
<1>1. /\ inits' = IF faults = {} THEN Entered(inits, c, InitStores(c)) ELSE inits
      /\ faults # {} => vtables' = vtables
      /\ faults = {} => DOMAIN vtables' = DOMAIN vtables
                          \cup {<<c, i>> : i \in {c} \cup {x.intf : x \in ToSet(types'[c].impls)}}
  BY DEF _assembleVTables
<1> HIDE DEF faults
<1> QED BY <1>1

(* The declaration ends.                                                   *)
LEMMA EndKeepsInv ==
  ASSUME Inv, stmtTypeDeclEnd PROVE Inv'
<1> DEFINE m == Len(order)
           n == Names[m]
           made == Members(types, open, source[open].entries)
<1>1. /\ open # NULL /\ open' = NULL /\ types' = made.ts /\ order' = order /\ source' = source
      /\ object' = object /\ ptr' = ptr
      /\ \/ inits' = inits /\ vtables' = vtables
         \/ types[open].kind = "class" /\ _assembleVTables(open)
  BY DEF stmtTypeDeclEnd, program
<1>2. /\ m \in Nat /\ m \in 1 .. Len(Names) /\ m # 0 /\ open = n /\ n \notin DOMAIN inits
      /\ Table(types, m) /\ DOMAIN types = Known(m) /\ n \in Known(m) /\ n # Root
  <2>1. m \in Nat /\ m \in 0 .. Len(Names) /\ m # 0 /\ open = n /\ n \notin DOMAIN inits
        /\ Table(types, m) /\ DOMAIN types = Known(m)
    BY <1>1, InvIs DEF Inv, Opened
  <2>2. m \in 1 .. Len(Names) /\ m \in 1 .. m
    BY <2>1
  <2> HIDE DEF m
  <2> QED BY <2>1, <2>2, NamesApart DEF Known
<1>3. made.ts \in Change(types, m)
  <2> DEFINE es == source[open].entries
  <2>1. es \in Seq(Declarations)
    <3>1. open \in DOMAIN source \ {Root}
      BY <1>2 DEF Inv, Sources
    <3> QED BY <3>1 DEF Inv, Sources
  <2>2. Len(es) \in Nat /\ DOMAIN es = 1 .. Len(es) /\ \A k \in 1 .. Len(es) : es[k] \in Declarations
    BY <2>1
  <2>3. types \in Change(types, m)
    BY <1>2, TableIs
  <2> HIDE DEF es, m
  <2>4. EntryLoop(types, n, es) \in Result(Change(types, m))
    BY <1>2, <2>2, <2>3, EntryLoopStays
  <2>5. made = EntryLoop(types, n, es)
    BY <1>2, MembersLoopIs DEF es
  <2> HIDE DEF made
  <2> QED BY <2>4, <2>5 DEF Result
<1> HIDE DEF made
<1>4. /\ Table(types', m) /\ DOMAIN types' = Known(m) /\ \A d \in Known(m) \ {n} : types'[d] = types[d]
      /\ types'[n] \in Goods(types, m)
  <2>1. /\ Table(types', m) /\ \A d \in Known(m) \ {n} : types'[d] = types[d]
        /\ types'[n] \in Goods(types, m)
    BY <1>1, <1>2, <1>3, ChangeIs
  <2> QED BY <2>1 DEF Table
<1>5. Ordered' /\ Sources' /\ Opened'
  BY <1>1, <1>2, <1>4 DEF Inv, Ordered, Sources, Opened
<1>6. /\ DOMAIN inits \subseteq Known(m) \ {n}
      /\ \A c \in DOMAIN inits :
           /\ types[c].kind = "class"
           /\ \A at \in DOMAIN inits[c] : inits[c][at] \in DOMAIN vtables /\ at + 4 <= types[c].size
  BY <1>2 DEF Inv, Stored
<1>7. Stored' /\ DOMAIN inits \subseteq DOMAIN inits'
  <2>1. CASE inits' = inits /\ vtables' = vtables
    <3> HIDE DEF m, n
    <3> QED BY <2>1, <1>4, <1>6 DEF Stored
  <2>2. CASE types[open].kind = "class" /\ _assembleVTables(open) /\ ~(inits' = inits /\ vtables' = vtables)
    <3> DEFINE V == {<<n, i>> : i \in {n} \cup {x.intf : x \in ToSet(types'[n].impls)}}
               low == Low(types, types[n])
    <3>1. /\ inits' = Entered(inits, n, InitStores(n))
          /\ DOMAIN vtables' = DOMAIN vtables \cup V
      <4> HIDE DEF n
      <4> QED BY <2>2, <1>2, AssembleIs
    <3>2. types'[n].kind = "class" /\ MadeClass(m, types'[n], low) /\ types'[n] \in TypeT(m)
      <4>1. Made(m, types'[n], low) /\ types'[n].kind = "class" /\ types'[n] \in TypeT(m)
        BY <1>2, <1>4, <2>2 DEF Goods
      <4> QED BY <4>1 DEF Made, MadeInterface
    <3> HIDE DEF low, n, m
    <3>3. \A at \in DOMAIN InitStores(n) : InitStores(n)[at] \in V /\ at + 4 <= types'[n].size
      BY <3>2, InitStoresIs
    <3> HIDE DEF V
    <3> DEFINE g == InitStores(n)
    <3> HIDE DEF g
    <3>4. \A at \in DOMAIN g : g[at] \in DOMAIN vtables' /\ at + 4 <= types'[n].size
      BY <3>1, <3>3 DEF g
    <3>5. DOMAIN inits' = DOMAIN inits \cup {n} /\ inits'[n] = g /\ \A c \in DOMAIN inits : inits'[c] = inits[c]
      BY <3>1, <1>6 DEF Entered, g
    <3>6. ASSUME NEW c \in DOMAIN inits'
          PROVE  /\ types'[c].kind = "class"
                 /\ \A at \in DOMAIN inits'[c] : inits'[c][at] \in DOMAIN vtables' /\ at + 4 <= types'[c].size
      <4>1. CASE c = n
        BY <4>1, <3>2, <3>4, <3>5
      <4>2. CASE c # n
        <5>1. c \in DOMAIN inits /\ inits'[c] = inits[c] /\ types'[c] = types[c]
          BY <4>2, <3>5, <1>4, <1>6
        <5> QED BY <5>1, <1>6, <3>1
      <4> QED BY <4>1, <4>2
    <3>7. DOMAIN inits' \subseteq DOMAIN types'
      BY <3>5, <1>2, <1>4, <1>6
    <3> QED BY <3>5, <3>6, <3>7 DEF Stored
  <2> QED BY <1>1, <2>1, <2>2
<1>8. Pointers'
  <2>1. object.cls \in DOMAIN inits \cup {NULL} /\ ptr.ty \in DOMAIN types \cup {NULL}
    BY DEF Inv, Pointers
  <2> HIDE DEF m, n
  <2> QED BY <2>1, <1>1, <1>2, <1>4, <1>7 DEF Pointers
<1> QED BY <1>1, <1>4, <1>5, <1>7, <1>8 DEF Inv

(* A program imports the module: it sees the types as they were declared.  *)
LEMMA ImportIs ==
  ASSUME Inv, IMPORT
  PROVE  /\ Table(types', Len(order))
         /\ \A d \in DOMAIN types : /\ Alike(types[d], types'[d]) /\ types'[d].kind = types[d].kind
                                    /\ types'[d].base = types[d].base /\ types'[d].size = types[d].size
<1> DEFINE m == Len(order)
           file == E_saveModule(types, order)
<1>1. m \in 0 .. Len(Names) /\ Table(types, m) /\ DOMAIN types = Known(m) /\ order = First(m)
  BY InvIs
<1>2. types' = Entered(E_loadModule(file, order), Root, CObject)
  BY DEF IMPORT
<1> HIDE DEF m
<1>3. \A j \in 1 .. m : Written(m, types[Names[j]])
  BY <1>1, TableWritten
<1>4. E_loadModule(E_saveModule(types, First(m)), First(m)) = Loaded(types, m)
  BY <1>1, <1>3, LoadReadsSaved
<1>5. types' = Entered(Loaded(types, m), Root, CObject)
  BY <1>1, <1>2, <1>4
<1> QED BY <1>1, <1>5, ImportStays DEF m

LEMMA ImportKeepsInv ==
  ASSUME Inv, IMPORT PROVE Inv'
<1>1. /\ order' = order /\ source' = source /\ open' = open /\ inits' = inits /\ vtables' = vtables
      /\ object' = object /\ ptr' = ptr
  BY DEF IMPORT, program
<1>2. /\ Table(types', Len(order)) /\ DOMAIN types' = DOMAIN types
      /\ \A d \in DOMAIN types : types'[d].kind = types[d].kind /\ types'[d].size = types[d].size
  <2>1. DOMAIN types = Known(Len(order))
    BY InvIs
  <2> QED BY <2>1, ImportIs DEF Table
<1>3. Ordered' /\ Sources' /\ Opened' /\ Pointers'
  BY <1>1, <1>2 DEF Inv, Ordered, Sources, Opened, Pointers
<1>4. Stored'
  <2>1. /\ DOMAIN inits \subseteq DOMAIN types
        /\ \A c \in DOMAIN inits :
             /\ types[c].kind = "class"
             /\ \A at \in DOMAIN inits[c] : inits[c][at] \in DOMAIN vtables /\ at + 4 <= types[c].size
    BY DEF Inv, Stored
  <2> QED BY <2>1, <1>1, <1>2 DEF Stored
<1> QED BY <1>1, <1>2, <1>3, <1>4 DEF Inv

(* The program runs.                                                       *)
LEMMA RunKeepsInv ==
  ASSUME Inv, UNCHANGED declarations, Pointers' PROVE Inv'
<1>1. /\ types' = types /\ order' = order /\ source' = source /\ open' = open /\ inits' = inits
      /\ vtables' = vtables
  BY DEF declarations
<1>2. Ordered' /\ Sources' /\ Opened' /\ Stored' /\ Table(types', Len(order'))
  BY <1>1 DEF Inv, Ordered, Sources, Opened, Stored
<1> QED BY <1>2 DEF Inv

LEMMA StepKeepsInv ==
  ASSUME Inv, [Next]_vars PROVE Inv'
<1>1. ASSUME NEW c \in DOMAIN inits, creatorExpression(c) PROVE Inv'
  <2>1. object'.cls = c /\ ptr'.ty = c /\ UNCHANGED declarations /\ inits' = inits /\ types' = types
    BY <1>1 DEF creatorExpression, declarations
  <2>2. c \in DOMAIN types
    BY DEF Inv, Stored
  <2>3. Pointers'
    BY <2>1, <2>2 DEF Pointers
  <2> QED BY <2>1, <2>3, RunKeepsInv
<1>2. ASSUME NEW n \in DOMAIN types, convert_ty(n) PROVE Inv'
  <2>1. object' = object /\ ptr'.ty = n /\ UNCHANGED declarations /\ inits' = inits /\ types' = types
    BY <1>2 DEF convert_ty, declarations
  <2>2. Pointers'
    BY <2>1 DEF Inv, Pointers
  <2> QED BY <2>1, <2>2, RunKeepsInv
<1>3. ASSUME UNCHANGED <<declarations, object, ptr>> PROVE Inv'
  <2>1. object' = object /\ ptr' = ptr /\ UNCHANGED declarations /\ inits' = inits /\ types' = types
    BY <1>3 DEF declarations
  <2>2. Pointers'
    BY <2>1 DEF Inv, Pointers
  <2> QED BY <2>1, <2>2, RunKeepsInv
<1>4. ASSUME NEW e \in Used, transSelRecord(e) PROVE Inv'
  BY <1>3, <1>4 DEF transSelRecord
<1>5. ASSUME NEW e \in Used, BASE(e) PROVE Inv'
  BY <1>3, <1>5 DEF BASE
<1>6. CASE UNCHANGED vars
  <2>1. UNCHANGED <<declarations, object, ptr>>
    BY <1>6 DEF vars, declarations
  <2> QED BY <2>1, <1>3
<1> QED BY <1>1, <1>2, <1>4, <1>5, <1>6, InterfaceKeepsInv, ClassKeepsInv, FieldKeepsInv, EndKeepsInv,
           ImportKeepsInv DEF Next

-----------------------------------------------------------------------------
(* The invariant that everything below follows from: every type only       *)
(* refers to types declared before it, the fields of a class lie behind    *)
(* each other above those of its base class, an interface has no fields,   *)
(* and what __init stores are tables, at places inside the object.         *)
THEOREM Inductive == Spec => []Inv
<1>1. Inv /\ [Next]_vars => Inv'
  BY StepKeepsInv
<1> QED BY <1>1, InvInit, PTL DEF Spec

LEMMA InvConsistent == Inv => Consistent
<1> SUFFICES ASSUME Inv PROVE Consistent
  OBVIOUS
<1> DEFINE m == Len(order)
<1>1. /\ m \in 0 .. Len(Names) /\ m \in Nat /\ order = First(m) /\ Table(types, m) /\ DOMAIN types = Known(m)
      /\ order # <<>> => m # 0 /\ order[m] = Names[m]
  BY InvIs
<1>2. TypeOK
  <2>1. open \in DOMAIN types \cup {NULL}
    <3>1. open # NULL => m \in 1 .. m /\ open = Names[m]
      BY <1>1 DEF Inv, Opened
    <3> HIDE DEF m
    <3> QED BY <3>1, <1>1 DEF Known
  <2>2. DOMAIN types = DOMAIN source
    BY DEF Inv, Sources
  <2>3. ToSet(order) \cup {Root} = DOMAIN types
    <3>1. ToSet(First(m)) = {Names[k] : k \in 1 .. m}
      <4> HIDE DEF m
      <4> QED BY <1>1 DEF First, ToSet
    <3> QED BY <3>1, <1>1 DEF Known
  <2>4. \A n \in DOMAIN types : types[n].base \in DOMAIN types \cup {NULL}
    <3> HIDE DEF m
    <3> QED BY <1>1, BaseIs
  <2>5. \A c \in DOMAIN inits : \A at \in DOMAIN inits[c] :
          inits[c][at] \in DOMAIN vtables /\ at + 4 <= types[c].size
    BY DEF Inv, Stored
  <2>6. object.cls \in DOMAIN inits \cup {NULL} /\ ptr.ty \in DOMAIN types \cup {NULL}
    BY DEF Inv, Pointers
  <2> QED BY <2>1, <2>2, <2>3, <2>4, <2>5, <2>6 DEF TypeOK
<1>3. FieldsApart
  <2>1. ASSUME NEW c \in DOMAIN inits
        PROVE  /\ Below(Fields(types, c), types[c].size) /\ Disjoint(Fields(types, c))
    <3>1. c \in Known(m) /\ types[c].kind = "class"
      BY <1>1 DEF Inv, Stored
    <3> HIDE DEF m
    <3> QED BY <3>1, <1>1, FieldsLaid
  <2>2. ASSUME NEW c \in DOMAIN inits, NEW f \in Fields(types, c)
        PROVE  /\ f[2].at + f[2].size <= types[c].size
               /\ f[2].size > 1 => f[2].at % 2 = 0
               /\ \A g \in Fields(types, c) \ {f} :
                    f[2].at + f[2].size <= g[2].at \/ g[2].at + g[2].size <= f[2].at
    BY <2>1 DEF Below, Disjoint
  <2> QED BY <2>2 DEF FieldsApart, Fields, OwnFields
<1> QED BY <1>2, <1>3 DEF Consistent

(* Whatever a program declares, the types, tables and pointers refer to    *)
(* what is declared, and the fields of an object, those of its base        *)
(* classes and the pointers to its tables included, do not overlap, lie    *)
(* inside the memory NEW allocates and, unless they are bytes, at even     *)
(* addresses (types.c: Ty_fieldCalcOffset; frontend.c:                     *)
(* _clsAddIntfImplRecursive, stmtTypeDeclField).                           *)
THEOREM ConsistentHolds == Spec => []Consistent
<1>1. Inv => Consistent
  BY InvConsistent
<1> QED BY <1>1, Inductive, PTL

(* Whatever a module declares, a program that imports it sees its types as *)
(* the module's own compilation left them: the same offsets, indices and   *)
(* procedures, in lists of interfaces that differ in their order only      *)
(* (env.c: E_saveModule, E_loadModule).                                    *)
THEOREM ImportedAsDeclaredHolds == Spec => ImportedAsDeclared
<1> DEFINE A == imported' # imported => \A n \in DOMAIN types : Alike(types[n], types'[n])
<1>1. Inv /\ [Next]_vars => [A]_vars
  <2> SUFFICES ASSUME Inv, Next, imported' # imported
               PROVE  \A n \in DOMAIN types : Alike(types[n], types'[n])
    OBVIOUS
  <2>1. IMPORT
    <3>1. ~stmtInterfaceDeclBegin
      BY Zenon DEF stmtInterfaceDeclBegin, Begin
    <3>2. ~stmtClassDeclBegin
      BY Zenon DEF stmtClassDeclBegin, Begin
    <3>3. \A e \in Declarations : ~stmtTypeDeclField(e)
      BY DEF stmtTypeDeclField
    <3>4. ~stmtTypeDeclEnd
      BY DEF stmtTypeDeclEnd
    <3>5. ~(\E c \in DOMAIN inits : creatorExpression(c)) /\ ~(\E n \in DOMAIN types : convert_ty(n))
      BY DEF creatorExpression, convert_ty, declarations
    <3>6. ~(\E e \in Used : transSelRecord(e)) /\ ~(\E e \in Used : BASE(e))
      BY DEF transSelRecord, BASE, declarations
    <3> QED BY <3>1, <3>2, <3>3, <3>4, <3>5, <3>6 DEF Next
  <2> QED BY <2>1, ImportIs
<1> QED BY <1>1, Inductive, PTL DEF Spec, ImportedAsDeclared

=============================================================================
