------------------------------- MODULE Classes ------------------------------
(***************************************************************************)
(* Classes and interfaces of a BASIC program.  The frontend lays out the   *)
(* fields of a class, numbers its virtual methods and writes one vtable    *)
(* for the class and one for each interface it implements (Types); the     *)
(* __init procedure it generates stores the addresses of these tables in a *)
(* new object; a virtual call reads one of them back at run time           *)
(* (codegen.c).  A module file carries the types to the programs that      *)
(* import the module (ModuleFile).                                         *)
(*                                                                         *)
(* The program is not known in advance: every step declares another part   *)
(* of it or, once the declarations are complete, executes a statement.     *)
(***************************************************************************)
EXTENDS ModuleFile, FiniteSets

CONSTANTS
  Names,          (* the types' names, in the order they are declared        *)
  Declarations,   (* member declarations: [kind, name, virtual, of]          *)
  MaxInterfaces,  (* bound: interfaces declared                              *)
  MaxMembers,     (* bound: member declarations in the program               *)
  MaxBases,       (* bound: interfaces in one IMPLEMENTS list                *)
  MaxConversions  (* bound: conversions of the program's pointer             *)

ASSUME ClassesAssumption ==
  /\ Names \in Seq(STRING) /\ IsInjective(Names)
  /\ \A k \in DOMAIN Names : Names[k] \notin {Root, NULL}
  /\ \A e \in Declarations :
        /\ DOMAIN e = {"kind", "name", "virtual", "of"}
        /\ e.kind \in {"field", "method", "getter", "setter"}
        /\ e.kind = "field" => e.of \in Nat
  /\ {MaxInterfaces, MaxMembers, MaxBases, MaxConversions} \subseteq Nat

VARIABLES
  types,    (* the type of every declared name                               *)
  order,    (* the names in the order of their declaration: their numbers    *)
  source,   (* what the program declares: [kind, base, bases, entries]       *)
  open,     (* the name whose declaration is being read, or NULL             *)
  vtables,  (* data fragments: a class's vtable, a class's one per interface *)
  inits,    (* the __init of a class: the stores it makes                    *)
  refusal,  (* the error that ends the compilation, or NoError               *)
  imported, (* whether the types come from a module file                     *)
  object,   (* the object the program has created: its class, its pointers   *)
  ptr,      (* the program's pointer: address, static type and earlier ones  *)
  called    (* the procedure the last call has entered, with its "this"      *)

declarations == <<types, order, source, open, vtables, inits, refusal, imported>>
program == <<object, ptr, called>>
vars == <<types, order, source, open, vtables, inits, refusal, imported, object, ptr, called>>

NoObject == [cls |-> NULL, cells |-> <<>>]
NoPtr    == [at |-> 0, ty |-> NULL, trail |-> <<>>]
NoCall   == [entered |-> NoProc, this |-> 0, name |-> NULL, role |-> NULL, base |-> FALSE]

(* A jump through memory in which nobody has stored a table.               *)
Wild == Proc("?", NULL, NULL, NULL)

(* CObject, as _brt declares it.                                           *)
TextOfObject == Proc(Root, "ToString", "method", "string")
CObject ==
  [kind |-> "class", base |-> NULL, impls |-> <<>>, size |-> 4, count |-> 1,
   members |-> << [kind |-> "field", name |-> "_vTablePtr", at |-> 0, size |-> 4],
                  [kind |-> "method", name |-> "ToString", proc |-> TextOfObject, idx |-> 0] >>]

Init ==
  /\ types = [n \in {Root} |-> CObject]
  /\ order = <<>>
  /\ source = [n \in {Root} |->
                 [kind |-> "class", base |-> NULL, bases |-> <<>>,
                  entries |-> << [kind |-> "method", name |-> "ToString",
                                  virtual |-> TRUE, of |-> "string"] >>]]
  /\ open = NULL
  /\ vtables = [t \in {<<Root, Root>>} |-> [i \in {0} |-> TextOfObject]]
  /\ inits = [n \in {Root} |-> [at \in {0} |-> <<Root, Root>>]]
  /\ refusal = NoError /\ imported = FALSE
  /\ object = NoObject /\ ptr = NoPtr /\ called = NoCall
-----------------------------------------------------------------------------
(* Declarations.                                                           *)
OfKind(k) == {n \in DOMAIN types : types[n].kind = k}
Lists == UNION {{s \in [1..k -> OfKind("interface")] : IsInjective(s)} : k \in 0..MaxBases}

Compiling == refusal = NoError /\ object = NoObject
NextName == Names[Len(order) + 1]

(* The declaration of `n' begins; `made' is its type so far or a refusal.  *)
Begin(n, made, text) ==
  /\ types' = made.ts /\ refusal' = made.refusal
  /\ order' = Append(order, n)
  /\ source' = Entered(source, n, text)
  /\ open' = n
  /\ UNCHANGED <<vtables, inits, imported, program>>

Fold(Op(_, _), ts, list) ==
  FoldLeft(LAMBDA acc, i : With(acc, LAMBDA r : IF r.refusal # NoError THEN r ELSE Op(r.ts, i)),
           Fine(ts), list)

(* [PUBLIC] INTERFACE n [IMPLEMENTS bases]                                 *)
stmtInterfaceDeclBegin ==
  /\ Compiling /\ open = NULL /\ Len(order) < Len(Names)
  /\ Cardinality(OfKind("interface")) < MaxInterfaces
  /\ \E bases \in Lists :
       LET n == NextName
       IN Begin(n, Fold(LAMBDA ts, b : MergeBase(ts, n, b), Entered(types, n, Ty_Interface), bases),
                [kind |-> "interface", base |-> NULL, bases |-> bases, entries |-> <<>>])

(* [PUBLIC] CLASS n [EXTENDS base] [IMPLEMENTS bases]                      *)
stmtClassDeclBegin ==
  /\ Compiling /\ open = NULL /\ Len(order) < Len(Names)
  /\ \E base \in OfKind("class"), bases \in Lists :
       LET n == NextName
       IN Begin(n, Fold(LAMBDA ts, b : Fine(_clsAddIntfImplRecursive(ts, n, b)),
                        Entered(types, n, Ty_Class(types, base)), bases),
                [kind |-> "class", base |-> base, bases |-> bases, entries |-> <<>>])

Declared == FoldSet(LAMBDA n, sum : sum + Len(source[n].entries), 0, DOMAIN source \ {Root})

(* A field, or DECLARE [VIRTUAL] ...: an interface has virtual methods     *)
(* only.                                                                   *)
stmtTypeDeclField(e) ==
  /\ Compiling /\ open # NULL /\ Declared < MaxMembers
  /\ IF types[open].kind = "interface" /\ e.kind = "method" /\ ~e.virtual
     THEN refusal' = "not virtual" /\ UNCHANGED source
     ELSE source' = [source EXCEPT ![open].entries = Append(@, e)] /\ UNCHANGED refusal
  /\ UNCHANGED <<types, order, open, vtables, inits, imported, program>>

(* The procedure __init of class c and the tables it refers to, as a       *)
(* function from offsets in the object to tables.                          *)
InitStores(c) ==
  [at \in {0} \cup {i.at : i \in ToSet(types'[c].impls)} |->
     IF at = 0 THEN <<c, c>>
     ELSE <<c, (CHOOSE i \in ToSet(types'[c].impls) : i.at = at).intf>>]

_assembleVTables(c) ==
  LET T == types'[c]
      faults == {Unimplemented(types', c, i.intf) : i \in ToSet(T.impls)} \ {NoError}
  IN /\ refusal' = IF faults = {} THEN NoError ELSE CHOOSE f \in faults : TRUE
     /\ inits' = IF faults = {} THEN Entered(inits, c, InitStores(c)) ELSE inits
     /\ vtables' = IF faults # {} THEN vtables
                   ELSE [t \in DOMAIN vtables \cup {<<c, i>> : i \in {c} \cup {i.intf : i \in ToSet(T.impls)}} |->
                           IF t = <<c, c>> THEN _assembleClassVTable(types', c)
                           ELSE IF t[1] = c
                           THEN InterfaceVTable(types', c, CHOOSE i \in ToSet(T.impls) : i.intf = t[2])
                           ELSE vtables[t]]

(* END CLASS, END INTERFACE                                                *)
stmtTypeDeclEnd ==
  /\ Compiling /\ open # NULL
  /\ open' = NULL
  /\ \E made \in {Members(types, open, source[open].entries)} :
       /\ types' = made.ts
       /\ IF made.refusal = NoError /\ types[open].kind = "class"
          THEN _assembleVTables(open)
          ELSE refusal' = made.refusal /\ UNCHANGED <<vtables, inits>>
  /\ UNCHANGED <<order, source, imported, program>>

(* The declarations so far are a module, and the program that follows      *)
(* imports it: its types are those the module file holds.                  *)
IMPORT ==
  /\ Compiling /\ open = NULL /\ ~imported /\ order # <<>>
  /\ imported' = TRUE
  /\ types' = Entered(E_loadModule(E_saveModule(types, order), order), Root, CObject)
  /\ UNCHANGED <<order, source, open, vtables, inits, refusal, program>>
-----------------------------------------------------------------------------
(* The program's statements.                                               *)
Pointed == ptr.ty # NULL

(* ptr = NEW c: memory is allocated and __init of c alone is called.       *)
creatorExpression(c) ==
  /\ Compiling /\ open = NULL
  /\ object' = [cls |-> c, cells |-> inits[c]]
  /\ ptr' = [at |-> 0, ty |-> c, trail |-> <<c>>]
  /\ UNCHANGED <<declarations, called>>

(* What is added to the address when a pointer is converted: only that of  *)
(* a class to one of the interfaces in its own list moves.                 *)
Moved(from, to) ==
  IF types[from].kind = "class" /\ types[to].kind = "interface"
  THEN (CHOOSE i \in ToSet(types[from].impls) : i.intf = to).at
  ELSE 0

(* DIM q AS to PTR = ptr                                                   *)
convert_ty(to) ==
  /\ Pointed /\ Len(ptr.trail) <= MaxConversions
  /\ to # ptr.ty /\ compatiblePtr(types, ptr.ty, to)
  /\ ptr' = [at |-> ptr.at + Moved(ptr.ty, to), ty |-> to, trail |-> Append(ptr.trail, to)]
  /\ called' = NoCall
  /\ UNCHANGED <<declarations, object>>

(* Entry i of the table whose address is stored at offset `at'.            *)
Fetched(at, i) ==
  IF at \in DOMAIN object.cells /\ i \in DOMAIN vtables[object.cells[at]]
  THEN vtables[object.cells[at]][i] ELSE Wild

(* The table's first entry is subtracted from the address of an            *)
(* interface's pointer.                                                    *)
ThisOffset(at) == IF at \in DOMAIN object.cells /\ object.cells[at][1] # object.cells[at][2]
                  THEN Fetched(at, 0) ELSE 0

(* A call of method m on an object at address `at' of static type t.       *)
CG_transMethodCall(t, at, m, e, base) ==
  called' =
    [name |-> e.name, role |-> e.kind, base |-> base,
     entered |-> IF m.idx < 0 THEN m.proc
                 ELSE IF types[t].kind = "class" THEN Fetched(at, m.idx)
                 ELSE Fetched(at, m.idx + 1),
     this |-> IF m.idx >= 0 /\ types[t].kind = "interface" THEN at - ThisOffset(at) ELSE at]

(* The method or the half of a property that `e' names in type t.          *)
Selected(t, e) ==
  LET found == Find(types, t, e.name)
  IN IF found.kind = "method" /\ e.kind = "method" THEN [proc |-> found.proc, idx |-> found.idx]
     ELSE IF found.kind = "property" /\ e.kind \in {"getter", "setter"} THEN Half(found, e.kind)
     ELSE NoMethod

(* ptr->m(), ptr->p, ptr->p = x                                            *)
transSelRecord(e) ==
  /\ Pointed /\ Selected(ptr.ty, e) # NoMethod
  /\ CG_transMethodCall(ptr.ty, ptr.at, Selected(ptr.ty, e), e, FALSE)
  /\ UNCHANGED <<declarations, object, ptr>>

(* BASE.m() in a method of the pointer's class that is called with ptr:    *)
(* "this" is taken for an object of the base class.                        *)
BASE(e) ==
  /\ Pointed /\ types[ptr.ty].kind = "class" /\ types[ptr.ty].base # NULL
  /\ LET b == types[ptr.ty].base
     IN /\ Selected(b, e) # NoMethod
        /\ CG_transMethodCall(b, ptr.at, Selected(b, e), e, TRUE)
  /\ UNCHANGED <<declarations, object, ptr>>

Used == {[kind |-> e.kind, name |-> e.name] : e \in {d \in Declarations : d.kind # "field"}}

Next ==
  \/ stmtInterfaceDeclBegin
  \/ stmtClassDeclBegin
  \/ \E e \in Declarations : stmtTypeDeclField(e)
  \/ stmtTypeDeclEnd
  \/ IMPORT
  \/ \E c \in DOMAIN inits : creatorExpression(c)
  \/ \E n \in DOMAIN types : convert_ty(n)
  \/ \E e \in Used : transSelRecord(e)
  \/ \E e \in Used : BASE(e)

Spec == Init /\ [][Next]_vars
-----------------------------------------------------------------------------
(* What the language promises, in terms of the program's text alone.       *)

(* A class and its base classes as the text names them, the class first.   *)
TextChain(c) ==
  LET up[d \in DOMAIN source] ==
        IF source[d].base = NULL THEN <<d>> ELSE <<d>> \o up[source[d].base]
  IN up[c]

Has(c, name, role, virtual) ==
  \E e \in ToSet(source[c].entries) :
     e.name = name /\ e.kind = role /\ (virtual => e.virtual)

(* The class nearest to the front of the list that declares the procedure. *)
Nearest(list, name, role, virtual) ==
  LET i == SelectInSeq(list, LAMBDA c : Has(c, name, role, virtual))
  IN IF i = 0 THEN NULL ELSE list[i]

(* The class whose procedure a call by way of static type t reaches in an  *)
(* object of class c: that of c, or of the base class nearest to it, which *)
(* overrides the procedure; the static type's own if it is not virtual.    *)
Reached(t, c, name, role) ==
  IF source[t].kind = "interface" THEN Nearest(TextChain(c), name, role, TRUE)
  ELSE LET o == Nearest(TextChain(t), name, role, FALSE)
       IN IF Has(o, name, role, TRUE) THEN Nearest(TextChain(c), name, role, TRUE) ELSE o

(* Conversions the compiler accepts although it cannot carry them out:     *)
(* from a base class of the object's class to an interface (its __init     *)
(* does not store that table), from an interface to a class, and from an   *)
(* interface to one of its bases whose members it has numbered otherwise.  *)
Unsupported(trail) ==
  \E k \in 1..Len(trail)-1 :
     LET from == source[trail[k]]  to == source[trail[k + 1]]
     IN \/ from.kind = "class" /\ to.kind = "interface" /\ trail[k] # object.cls
        \/ from.kind = "interface" /\ to.kind = "class"
        \/ from.kind = "interface" /\ \E m \in Methods(types[trail[k + 1]]) :
                                        Supplied(types, trail[k], m).idx # m.idx

(* Types, tables and pointers refer to what is declared.                   *)
TypeOK ==
  /\ open \in DOMAIN types \cup {NULL}
  /\ DOMAIN types = DOMAIN source /\ ToSet(order) \cup {Root} = DOMAIN types
  /\ \A n \in DOMAIN types : types[n].base \in DOMAIN types \cup {NULL}
  /\ \A c \in DOMAIN inits : \A at \in DOMAIN inits[c] :
        inits[c][at] \in DOMAIN vtables /\ at + 4 <= types[c].size
  /\ object.cls \in DOMAIN inits \cup {NULL} /\ ptr.ty \in DOMAIN types \cup {NULL}

(* A call by way of a pointer enters the procedure that the class of the   *)
(* object, or the base class nearest to it, declares for the one named,    *)
(* with "this" at the start of the object, however the pointer was         *)
(* converted to base classes and interfaces on its way (frontend.c:        *)
(* stmtTypeDeclField, _assembleVTables, convert_ty; codegen.c:             *)
(* CG_transMethodCall); the conversions of Unsupported are excepted.       *)
CallsReachOverrider ==
  called # NoCall /\ ~called.base /\ ~Unsupported(ptr.trail) =>
    /\ called.entered.owner = Reached(ptr.ty, object.cls, called.name, called.role)
    /\ called.entered.name = called.name /\ called.entered.role = called.role
    /\ called.this = 0

(* The fields of an object, those of its base classes and the pointers to  *)
(* its tables, do not overlap, lie inside the memory NEW allocates and,    *)
(* unless they are bytes, at even addresses (types.c: Ty_fieldCalcOffset). *)
FieldsApart ==
  \A c \in DOMAIN inits :
    LET fields == UNION {{<<d, m>> : m \in {x \in ToSet(types[d].members) : x.kind = "field"}} :
                           d \in ToSet(Chain(types, c))}
    IN \A f \in fields :
         /\ f[2].at + f[2].size <= types[c].size
         /\ f[2].size > 1 => f[2].at % 2 = 0
         /\ \A g \in fields \ {f} : f[2].at + f[2].size <= g[2].at \/ g[2].at + g[2].size <= f[2].at

(* Classes as they are laid out: types, and fields that do not overlap.    *)
Consistent == TypeOK /\ FieldsApart

(* A program that imports a module sees its types as the module's own      *)
(* compilation left them: the same offsets, indices and procedures, so     *)
(* that both agree on tables and objects (env.c: E_saveModule,             *)
(* E_loadModule).  Only the order of a list of interfaces may differ.      *)
Alike(T, U) ==
  [T EXCEPT !.impls = ToSet(@)] = [U EXCEPT !.impls = ToSet(@)]
ImportedAsDeclared ==
  [][imported' # imported => \A n \in DOMAIN types : Alike(types[n], types'[n])]_vars
=============================================================================
