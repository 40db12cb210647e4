-------------------------------- MODULE Types -------------------------------
(***************************************************************************)
(* Class and interface types of the compiler (types.c) and the rules by    *)
(* which the frontend relates them (compatible_ty, matchProcSignatures)    *)
(* and turns the member declarations of a type into fields, methods with   *)
(* an index into the vtable, and properties (stmtTypeDeclField).           *)
(*                                                                         *)
(* `ts' is the table of the types declared so far, by name.  Everything    *)
(* about a procedure's parameters and result except "this" is one value,   *)
(* `of'; NULL stands where a name is expected.                             *)
(***************************************************************************)
EXTENDS Integers, Sequences, SequencesExt, TLC

With(v, Op(_)) == CHOOSE r \in {Op(x) : x \in {v}} : TRUE

(* The table f with v entered for x.                                       *)
Entered(f, x, v) == [y \in DOMAIN f \cup {x} |-> IF y = x THEN v ELSE f[y]]

NULL    == "<null>"    (* no name                                           *)
NoError == "no error"
Root == "CObject"      (* the class every other one inherits from            *)

Proc(owner, name, role, of) == [owner |-> owner, name |-> name, role |-> role, of |-> of]
NoProc   == Proc(NULL, NULL, NULL, NULL)
NoMethod == [proc |-> NoProc, idx |-> -1]
NoMember == [kind |-> "none", name |-> NULL]

(* The types of the declarations [PUBLIC] CLASS and [PUBLIC] INTERFACE     *)
(* before their members are known.                                         *)
Ty_Class(ts, base) ==
  [kind |-> "class", base |-> base, impls |-> <<>>, members |-> <<>>,
   size |-> ts[base].size, count |-> ts[base].count]
Ty_Interface ==
  [kind |-> "interface", base |-> NULL, impls |-> <<>>, members |-> <<>>, size |-> 0, count |-> 0]

MemberOf(T, n) ==
  LET i == SelectInSeq(T.members, LAMBDA m : m.name = n)
  IN IF i = 0 THEN NoMember ELSE T.members[i]

(* A class and its base classes, up to CObject.                            *)
Chain(ts, c) ==
  LET up[d \in DOMAIN ts] == IF ts[d].base = NULL THEN <<d>> ELSE <<d>> \o up[ts[d].base]
  IN up[c]

(* Ty_findEntry with the base classes.                                     *)
Find(ts, n, name) ==
  LET up == Chain(ts, n)
      i  == SelectInSeq(up, LAMBDA c : MemberOf(ts[c], name) # NoMember)
  IN IF i = 0 THEN NoMember ELSE MemberOf(ts[up[i]], name)

Ty_checkInherits(ts, c, b) == Contains(Chain(ts, c), b)

(* The interfaces a class itself names, never those of its base class.     *)
Ty_checkImplements(ts, n, i) ==
  LET does[t \in DOMAIN ts] == t = i \/ \E k \in DOMAIN ts[t].impls : does[ts[t].impls[k].intf]
  IN does[n]

compatible_ty(ts, from, to) ==
  IF ts[to].kind = "class"
  THEN ts[from].kind = "class" /\ Ty_checkInherits(ts, from, to)
  ELSE Ty_checkImplements(ts, from, to)

(* The same for pointers: a pointer to an interface is also taken for one  *)
(* to a class that implements it.                                          *)
compatiblePtr(ts, from, to) ==
  \/ compatible_ty(ts, from, to)
  \/ ts[to].kind = "class" /\ ts[from].kind = "interface" /\ Ty_checkImplements(ts, to, from)

(* "this" is the first of the parameters that are compared.                *)
matchProcSignatures(ts, p, q) == p.of = q.of /\ compatible_ty(ts, p.owner, q.owner)
-----------------------------------------------------------------------------
(* Mutant: fields are packed without regard to even addresses.             *)
AlignedByte(size, s) == size

(* 68k alignment.                                                          *)
Aligned(size, s) == IF s > 1 THEN size + (size % 2) ELSE size

Ty_addMember(ts, n, m) == [ts EXCEPT ![n].members = Append(@, m)]

(* Ty_fieldCalcOffset and Ty_addMember.                                    *)
AddField(ts, n, name, s) ==
  LET at == Aligned(ts[n].size, s)
  IN [Ty_addMember(ts, n, [kind |-> "field", name |-> name, at |-> at, size |-> s])
        EXCEPT ![n].size = at + s]

(* An interface and those it is derived from, in the order in which        *)
(* _clsAddIntfImplRecursive visits them.                                   *)
Visited(ts, i) ==
  LET from[j \in DOMAIN ts] ==
        <<j>> \o FlattenSeq([k \in DOMAIN ts[j].impls |-> from[ts[j].impls[k].intf]])
  IN from[i]

(* One interface of a class's IMPLEMENTS list: every interface visited     *)
(* that the class does not have yet gets a vtable pointer in the object.   *)
_clsAddIntfImplRecursive(ts, c, i) ==
  FoldLeft(LAMBDA acc, j :
             With(acc, LAMBDA t :
               IF \E k \in DOMAIN t[c].impls : t[c].impls[k].intf = j THEN t
               ELSE LET at == Aligned(t[c].size, 4)
                    IN [AddField(t, c, "__intf_vtable_" \o j, 4)
                          EXCEPT ![c].impls = <<[intf |-> j, at |-> at]>> \o @]),
           ts, Visited(ts, i))

Fine(ts) == [ts |-> ts, refusal |-> NoError]
Refused(ts, why) == [ts |-> ts, refusal |-> why]

(* A member of a base interface becomes one of the interface i, with an    *)
(* index of its own.  The same property twice ends the compiler.           *)
MergeMember(ts, i, m) ==
  LET mine   == MemberOf(ts[i], m.name)
      count  == ts[i].count
      setIdx == IF m.get = NoMethod THEN count ELSE count + 1
      copy   == IF m.kind = "method" THEN [m EXCEPT !.idx = count]
                ELSE [m EXCEPT !.get = IF @ = NoMethod THEN @ ELSE [@ EXCEPT !.idx = count],
                               !.set = IF @ = NoMethod THEN @ ELSE [@ EXCEPT !.idx = setIdx]]
      after  == IF m.kind = "method" THEN count + 1
                ELSE IF m.set = NoMethod THEN setIdx ELSE setIdx + 1
  IN IF mine = NoMember THEN Fine([Ty_addMember(ts, i, copy) EXCEPT ![i].count = after])
     ELSE IF m.kind = "property" THEN Refused(ts, "assert")
     ELSE IF mine.kind = "method" /\ matchProcSignatures(ts, m.proc, mine.proc) THEN Fine(ts)
     ELSE Refused(ts, "signature")

(* One interface of an interface's IMPLEMENTS list.                        *)
MergeBase(ts, i, b) ==
  FoldLeft(LAMBDA acc, m :
             With(acc, LAMBDA r : IF r.refusal # NoError THEN r ELSE MergeMember(r.ts, i, m)),
           Fine([ts EXCEPT ![i].impls = <<[intf |-> b, at |-> 0]>> \o @]), ts[b].members)
-----------------------------------------------------------------------------
(* The members of a type are made of its declarations at the END.          *)
FieldEntry(ts, n, e) ==
  IF MemberOf(ts[n], e.name) # NoMember THEN Refused(ts, "duplicate")
  ELSE IF ts[n].kind = "interface" THEN Refused(ts, "assert")     (* Ty_fieldCalcOffset *)
  ELSE Fine(AddField(ts, n, e.name, e.of))

(* What the base classes of a class have under that name.                  *)
Inherited(ts, n, name) == IF ts[n].kind = "class" THEN Find(ts, n, name) ELSE NoMember

(* The index of a method or half of a property: that of the virtual one it *)
(* overrides, the next one, or none.                                       *)
Index(ts, n, e, old) ==
  IF ~e.virtual THEN -1 ELSE IF old # NoMethod THEN old.idx ELSE ts[n].count

(* A virtual method or half of a property that overrides nothing uses up   *)
(* an index.                                                               *)
Counted(ts, n, e, old) ==
  IF e.virtual /\ old = NoMethod THEN [ts EXCEPT ![n].count = @ + 1] ELSE ts

MethodEntry(ts, n, e) ==
  LET old    == Inherited(ts, n, e.name)
      proc   == Proc(n, e.name, "method", e.of)
      former == IF old.kind = "method" THEN [proc |-> old.proc, idx |-> old.idx] ELSE NoMethod
      made   == [kind |-> "method", name |-> e.name, proc |-> proc, idx |-> Index(ts, n, e, former)]
  IN IF MemberOf(ts[n], e.name) # NoMember THEN Refused(ts, "duplicate")
     ELSE IF old.kind \notin {"none", "method"} THEN Refused(ts, "other kind")
     ELSE IF e.virtual /\ former # NoMethod /\ former.idx < 0 THEN Refused(ts, "not virtual")
     ELSE IF e.virtual /\ former # NoMethod /\ ~matchProcSignatures(ts, proc, former.proc)
          THEN Refused(ts, "signature")
     ELSE Fine(Ty_addMember(Counted(ts, n, e, former), n, made))

Half(p, role) == IF role = "setter" THEN p.set ELSE p.get
WithHalf(p, role, m) == IF role = "setter" THEN [p EXCEPT !.set = m] ELSE [p EXCEPT !.get = m]
NoProperty(name, of) ==
  [kind |-> "property", name |-> name, of |-> of, get |-> NoMethod, set |-> NoMethod]

(* Getter and setter are declared apart; the half that a class does not    *)
(* declare itself it takes over from its base class.                       *)
PropertyEntry(ts, n, e) ==
  LET old    == Inherited(ts, n, e.name)
      own    == MemberOf(ts[n], e.name)
      former == IF old.kind = "property" THEN Half(old, e.kind) ELSE NoMethod
      made   == [proc |-> Proc(n, e.name, e.kind, e.of), idx |-> Index(ts, n, e, former)]
      kept   == IF own # NoMember THEN own
                ELSE IF old # NoMember THEN [old EXCEPT !.of = e.of]
                ELSE NoProperty(e.name, e.of)
      result == WithHalf(kept, e.kind, made)
      counted == Counted(ts, n, e, former)
  IN IF old.kind \notin {"none", "property"} \/ own.kind \notin {"none", "property"}
     THEN Refused(ts, "other kind")
     ELSE IF old # NoMember /\ old.of # e.of THEN Refused(ts, "type")
     ELSE IF e.virtual /\ former # NoMethod /\ former.idx < 0 THEN Refused(ts, "not virtual")
     ELSE Fine(IF own = NoMember THEN Ty_addMember(counted, n, result)
               ELSE [counted EXCEPT ![n].members =
                       [k \in DOMAIN @ |-> IF @[k].name = e.name THEN result ELSE @[k]]])

Entry(ts, n, e) ==
  CASE e.kind = "field"  -> FieldEntry(ts, n, e)
    [] e.kind = "method" -> MethodEntry(ts, n, e)
    [] OTHER             -> PropertyEntry(ts, n, e)

Members(ts, n, entries) ==
  FoldLeft(LAMBDA acc, e :
             With(acc, LAMBDA r : IF r.refusal # NoError THEN r ELSE Entry(r.ts, n, e)),
           Fine(ts), entries)
-----------------------------------------------------------------------------
(* The methods of a type, those that make up its properties included.      *)
Methods(T) ==
  UNION {CASE m.kind = "method"   -> {[proc |-> m.proc, idx |-> m.idx]}
           [] m.kind = "property" -> {m.get, m.set} \ {NoMethod}
           [] OTHER               -> {} : m \in ToSet(T.members)}

(* Mutant: the base class's methods are written over the class's own.      *)
_assembleClassVTableBaseLast(ts, c) ==
  LET up == Reverse(Chain(ts, c))
      at(i) == {k \in DOMAIN up : \E m \in Methods(ts[up[k]]) : m.idx = i}
      First(i) == CHOOSE k \in at(i) : \A l \in at(i) : k <= l
  IN [i \in {m.idx : m \in UNION {Methods(ts[up[k]]) : k \in DOMAIN up}} \ {-1} |->
        (CHOOSE m \in Methods(ts[up[First(i)]]) : m.idx = i).proc]

(* The methods of the base classes first, each overwritten by those of     *)
(* the classes derived from it that have the same index.                   *)
_assembleClassVTable(ts, c) ==
  LET up == Chain(ts, c)
      at(i) == {k \in DOMAIN up : \E m \in Methods(ts[up[k]]) : m.idx = i}
      First(i) == CHOOSE k \in at(i) : \A l \in at(i) : k <= l
  IN [i \in {m.idx : m \in UNION {Methods(ts[up[k]]) : k \in DOMAIN up}} \ {-1} |->
        (CHOOSE m \in Methods(ts[up[First(i)]]) : m.idx = i).proc]

(* The method of the class that stands for an interface's, if it has one.  *)
Supplied(ts, c, m) ==
  LET found == Find(ts, c, m.proc.name)
  IN IF m.proc.role = "method"
     THEN IF found.kind = "method" THEN [proc |-> found.proc, idx |-> found.idx] ELSE NoMethod
     ELSE IF found.kind = "property" THEN Half(found, m.proc.role) ELSE NoMethod

(* Why the class does not implement the interface, or NoError.             *)
Unimplemented(ts, c, i) ==
  LET wants == Methods(ts[i])
      s(m)  == Supplied(ts, c, m)
  IN IF \E m \in wants : m.idx < 0 THEN "assert"
     ELSE IF \E m \in wants : s(m) = NoMethod THEN "missing"
     ELSE IF \E m \in wants : s(m).idx < 0 THEN "not virtual"
     ELSE IF \E m \in wants : ~matchProcSignatures(ts, s(m).proc, m.proc) THEN "signature"
     ELSE NoError

(* The vtable a class has for an interface.  Its first entry is the        *)
(* distance of the pointer to it from the start of the object.             *)
InterfaceVTable(ts, c, impl) ==
  LET wants == Methods(ts[impl.intf])
  IN [k \in {0} \cup {m.idx + 1 : m \in wants} |->
        IF k = 0 THEN impl.at
        ELSE Supplied(ts, c, CHOOSE m \in wants : m.idx + 1 = k).proc]
=============================================================================
