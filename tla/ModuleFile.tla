----------------------------- MODULE ModuleFile -----------------------------
(***************************************************************************)
(* The symbol file of a module (env.c): E_saveModule writes the classes    *)
(* and interfaces a module declares, E_loadModule rebuilds them in the     *)
(* compilation of a program that imports it.  A file is a sequence of      *)
(* items read in the order they were written; a type is referred to by its *)
(* module's number in the file and by its own number in that module.       *)
(***************************************************************************)
EXTENDS Types

Own == 2       (* the number of the module itself in its file                *)
BRT == 3       (* of the module _brt, which declares CObject                 *)

(* `order' lists the module's types by number.                             *)
E_serializeTyRef(order, n) ==
  IF n = NULL THEN <<0>>
  ELSE IF n = Root THEN <<BRT, 1>>
  ELSE <<Own, SelectInSeq(order, LAMBDA t : t = n)>>

E_serializeTyProc(order, p) ==
  IF p = NoProc THEN <<0>>
  ELSE <<1, p.role, p.name, p.of>> \o E_serializeTyRef(order, p.owner)

E_serializeMember(order, m) ==
  <<1, m.kind>> \o
  CASE m.kind = "method" -> E_serializeTyProc(order, m.proc) \o <<m.idx>>
    [] m.kind = "field"  -> <<m.name, m.at, m.size>>
    [] OTHER             -> <<m.name, m.of>>
                              \o E_serializeTyProc(order, m.get.proc) \o <<m.get.idx>>
                              \o E_serializeTyProc(order, m.set.proc) \o <<m.set.idx>>

E_serializeMembers(order, members) ==
  <<Len(members)>> \o FlattenSeq([k \in DOMAIN members |-> E_serializeMember(order, members[k])])

E_serializeImplements(order, impls) ==
  <<Len(impls)>> \o
  FlattenSeq([k \in DOMAIN impls |-> E_serializeTyRef(order, impls[k].intf) \o <<impls[k].at>>])

E_serializeType(order, n, T) ==
  <<SelectInSeq(order, LAMBDA t : t = n), T.kind, n>> \o
  (IF T.kind = "class" THEN <<T.size>> \o E_serializeTyRef(order, T.base) ELSE <<>>) \o
  E_serializeImplements(order, T.impls) \o E_serializeMembers(order, T.members) \o <<T.count>>

(* All types of the module, an end marker, then the names of the types.    *)
E_saveModule(ts, order) ==
  FlattenSeq([k \in DOMAIN order |-> E_serializeType(order, order[k], ts[order[k]])]) \o <<0>>
    \o FlattenSeq([k \in DOMAIN order |-> <<order[k]>> \o E_serializeTyRef(order, order[k])])
-----------------------------------------------------------------------------
(* Reading.  Every operator returns what it has read from item i of the    *)
(* file on, and the item that follows.  A reference stands for the type    *)
(* with that number, whether or not it has been read already (Ty_ToLoad).  *)
Got(v, i) == [v |-> v, i |-> i]

E_deserializeTyRef(f, i, names) ==
  IF f[i] = 0 THEN Got(NULL, i + 1)
  ELSE Got(IF f[i] = BRT THEN Root ELSE names[f[i + 1]], i + 2)

E_deserializeTyProc(f, i, names) ==
  IF f[i] = 0 THEN Got(NoProc, i + 1)
  ELSE With(E_deserializeTyRef(f, i + 4, names), LAMBDA owner :
         Got(Proc(owner.v, f[i + 2], f[i + 1], f[i + 3]), owner.i))

MethodAt(f, i, names) ==
  With(E_deserializeTyProc(f, i, names), LAMBDA p :
    Got(IF p.v = NoProc THEN NoMethod ELSE [proc |-> p.v, idx |-> f[p.i]], p.i + 1))

(* Mutant: the setter of a property is read where its getter was written.  *)
MemberSetterFirst(f, i, names) ==
  CASE f[i + 1] = "method" ->
         With(MethodAt(f, i + 2, names), LAMBDA m :
           Got([kind |-> "method", name |-> m.v.proc.name, proc |-> m.v.proc, idx |-> m.v.idx], m.i))
    [] f[i + 1] = "field" ->
         Got([kind |-> "field", name |-> f[i + 2], at |-> f[i + 3], size |-> f[i + 4]], i + 5)
    [] OTHER ->
         With(MethodAt(f, i + 4, names), LAMBDA set :
           With(MethodAt(f, set.i, names), LAMBDA get :
             Got([kind |-> "property", name |-> f[i + 2], of |-> f[i + 3],
                  get |-> get.v, set |-> set.v], get.i)))

E_deserializeMember(f, i, names) ==
  CASE f[i + 1] = "method" ->
         With(MethodAt(f, i + 2, names), LAMBDA m :
           Got([kind |-> "method", name |-> m.v.proc.name, proc |-> m.v.proc, idx |-> m.v.idx], m.i))
    [] f[i + 1] = "field" ->
         Got([kind |-> "field", name |-> f[i + 2], at |-> f[i + 3], size |-> f[i + 4]], i + 5)
    [] OTHER ->
         With(MethodAt(f, i + 4, names), LAMBDA get :
           With(MethodAt(f, get.i, names), LAMBDA set :
             Got([kind |-> "property", name |-> f[i + 2], of |-> f[i + 3],
                  get |-> get.v, set |-> set.v], set.i)))

E_deserializeMembers(f, i, names) ==
  FoldLeft(LAMBDA acc, k :
             With(acc, LAMBDA r :
               With(E_deserializeMember(f, r.i, names), LAMBDA m : Got(Append(r.v, m.v), m.i))),
           Got(<<>>, i + 1), [k \in 1..f[i] |-> k])

(* Every interface read is put in front of those read before it.           *)
E_deserializeImplements(f, i, names) ==
  FoldLeft(LAMBDA acc, k :
             With(acc, LAMBDA r :
               With(E_deserializeTyRef(f, r.i, names), LAMBDA t :
                 Got(<<[intf |-> t.v, at |-> f[t.i]]>> \o r.v, t.i + 1))),
           Got(<<>>, i + 1), [k \in 1..f[i] |-> k])

TypeAt(f, i, names) ==
  LET cls == f[i + 1] = "class"
  IN With(IF cls THEN E_deserializeTyRef(f, i + 4, names) ELSE Got(NULL, i + 3), LAMBDA base :
     With(E_deserializeImplements(f, base.i, names), LAMBDA impls :
     With(E_deserializeMembers(f, impls.i, names), LAMBDA members :
       Got([name |-> f[i + 2],
            ty   |-> [kind |-> f[i + 1], base |-> base.v, impls |-> impls.v,
                      members |-> members.v, size |-> IF cls THEN f[i + 3] ELSE 0,
                      count |-> f[members.i]]],
           members.i + 1))))

(* The types of the file, by the names the file gives them.                *)
E_loadModule(f, names) ==
  FoldLeft(LAMBDA acc, k :
             With(acc, LAMBDA r :
               IF f[r.i] = 0 THEN r
               ELSE With(TypeAt(f, r.i, names), LAMBDA t : Got(Entered(r.v, t.v.name, t.v.ty), t.i))),
           Got(<<>>, 1), [k \in 1..Len(names) |-> k]).v
=============================================================================
