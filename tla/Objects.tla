------------------------------ MODULE Objects ------------------------------
(* Classes and objects as the compiler lays them out (types.cpp, parser.cpp *)
(* and expr.cpp): a ClassDecl has the member functions of its base with its *)
(* own put over those of the same name, numbers of its own for fields and   *)
(* virtual functions, and an LLVM structure. An object is such a structure, *)
(* every slot of it one word here, the first the pointer to the vtable if   *)
(* the class has one.                                                       *)
EXTENDS Hierarchies

CONSTANTS Declarations, Objects, Values, Zero,
          MaxClasses, MaxSize,   \* bounds: the classes, and classes and objects together
          Careful   \* TRUE: only the programs that the layout is right for

(* What ParseClassDecl reads: ParseFields refuses the same field twice.     *)
(* "variant" stands for the fields of the variant part and names no other.  *)
ASSUME ObjectsAssumption ==
    /\ \A d \in Declarations :
          /\ d \in [fields : Seq([name : STRING, static : BOOLEAN]),
                    methods : Seq([name : STRING, kind : {"plain", "virtual", "override"}]),
                    variant : BOOLEAN]
          /\ ~Named(d.fields, "variant")
          /\ \A i, j \in DOMAIN d.fields : d.fields[i].name = d.fields[j].name => i = j
    /\ Careful \in BOOLEAN

VARIABLES classes,  \* what the program declares
          decls,    \* a ClassDecl for each
          memory,   \* the objects
          globals,  \* the variables of the static fields
          crashed   \* whether the compiler or the program has stopped

vars == <<classes, decls, memory, globals, crashed>>

None == [membfuncs |-> <<>>, virtIndex |-> <<>>, virtuals |-> 0, fieldCount |-> 0,
         element |-> <<>>, elementOf |-> <<>>, structure |-> <<>>, vtable |-> <<>>, emitted |-> FALSE]

HasVTable(cd) == cd.virtuals > 0

Offset(cd) == IF HasVTable(cd) THEN 1 ELSE 0

IsVirtual(f) == f.kind # "plain"

(* Mutant: a class has the functions that it declares. *)
MembFuncsFromNothing(base, k, methods) == [i \in DOMAIN methods |-> [class |-> k] @@ methods[i]]

(* ClassDecl's constructor: its own functions over those of the base. *)
PutOver(fs, f) == IF Named(fs, f.name)
                  THEN [fs EXCEPT ![SelectInSeq(fs, LAMBDA g : g.name = f.name)] = f]
                  ELSE Append(fs, f)

MembFuncs(base, k, methods) ==
    LET after[n \in 0 .. Len(methods)] ==
            IF n = 0 THEN base.membfuncs
            ELSE PutOver(after[n - 1], [class |-> k, name |-> methods[n].name, kind |-> methods[n].kind])
    IN  after[Len(methods)]

(* Mutant: the virtual functions of a class come after those of its base. *)
IndexAfterTheBase(base, f, n) ==
    LET up == Of(base.membfuncs, f.name)
    IN  IF f.kind = "virtual" THEN base.virtuals + n
        ELSE IF IsVirtual(up) THEN base.virtIndex[<<up.class, up.name>>] ELSE -1

(* The index of the virtual function f that comes after n others.          *)
VirtIndex(base, f, n) ==
    LET up == Of(base.membfuncs, f.name)
    IN  IF f.kind = "virtual" THEN n
        ELSE IF IsVirtual(up) THEN base.virtIndex[<<up.class, up.name>>] ELSE -1

(* ClassDecl::VTableType: a virtual function gets the count of those before *)
(* it, an override the index of what it overrides, -1 if that has none.     *)
Indexed(base, fs) ==
    LET after[n \in 0 .. Len(fs)] ==
            IF n = 0 THEN [virtIndex |-> base.virtIndex, virtuals |-> 0]
            ELSE LET v  == after[n - 1]
                     id == <<fs[n].class, fs[n].name>>
                 IN  IF ~IsVirtual(fs[n]) THEN v
                     ELSE [virtIndex |-> IF id \in DOMAIN v.virtIndex THEN v.virtIndex
                                         ELSE Over([i \in {id} |-> VirtIndex(base, fs[n], v.virtuals)], v.virtIndex),
                           virtuals |-> v.virtuals + 1]
    IN  after[Len(fs)]

(* Reading before the first field of a class. *)
Undefined == [class |-> 0, name |-> "", static |-> FALSE]

(* ClassDecl::GetElement, for every number. *)
Elements(base, cd, k, fields) ==
    [n \in 0 .. cd.fieldCount + Offset(cd) - 1 |->
        LET own == n - (base.fieldCount + Offset(cd))
        IN  IF n < base.fieldCount + Offset(base) THEN base.element[n]
            ELSE IF own >= 0
            THEN [class |-> k, name |-> fields[own + 1].name, static |-> fields[own + 1].static]
            ELSE Undefined]

(* Mutant: the pointer to the vtable is not counted. *)
ElementsOfTheFieldsOnly(base, cd, fields) ==
    [f \in NamesOf(fields) |->
        SelectInSeq(fields, LAMBDA d : d.name = f) - 1 + base.fieldCount] @@ base.elementOf

(* Mutant: a field of the base hides that of the class. *)
ElementsOfTheBaseFirst(base, cd, fields) ==
    base.elementOf @@ [f \in NamesOf(fields) |->
        SelectInSeq(fields, LAMBDA d : d.name = f) - 1 + base.fieldCount + Offset(cd)]

(* ClassDecl::Element, for every name. *)
ElementsOf(base, cd, fields) ==
    Over([f \in NamesOf(fields) |->
             SelectInSeq(fields, LAMBDA d : d.name = f) - 1 + base.fieldCount + Offset(cd)],
         base.elementOf)

(* ClassDecl::GetLlvmType: what is in each slot. *)
Structure(cd, element, k, variant) ==
    LET kept[n \in 0 .. cd.fieldCount] ==
            IF n = 0 THEN IF HasVTable(cd) THEN <<<<0, "vtable">>>> ELSE <<>>
            ELSE LET f == element[n - 1 + Offset(cd)]
                 IN  IF f.static THEN kept[n - 1] ELSE Append(kept[n - 1], <<f.class, f.name>>)
    IN  IF variant THEN Append(kept[cd.fieldCount], <<k, "variant">>) ELSE kept[cd.fieldCount]

(* VTableAST::GetInitializer: the functions by their indexes, 0 where there *)
(* is none.                                                                 *)
VTable(cd) ==
    LET fs == {i \in DOMAIN cd.membfuncs : IsVirtual(cd.membfuncs[i])}
        At(n) == {i \in fs : cd.virtIndex[<<cd.membfuncs[i].class, cd.membfuncs[i].name>>] = n}
    IN  [n \in 0 .. cd.virtuals - 1 |->
            IF At(n) = {} THEN 0 ELSE cd.membfuncs[Max(At(n))].class]

ClassDecl(base, k, d) ==
    LET fs == MembFuncs(base, k, d.methods)
        v  == Indexed(base, fs)
        cd == [membfuncs |-> fs, fieldCount |-> base.fieldCount + Len(d.fields),
               virtIndex |-> v.virtIndex, virtuals |-> v.virtuals]
        at == Elements(base, cd, k, d.fields)
    IN  [membfuncs  |-> fs,
         fieldCount |-> cd.fieldCount,
         virtIndex  |-> v.virtIndex,
         virtuals   |-> v.virtuals,
         element    |-> at,
         elementOf  |-> ElementsOf(base, cd, d.fields),
         structure  |-> Structure(cd, at, k, d.variant),
         vtable     |-> VTable(cd),
         emitted    |-> \E i \in DOMAIN d.methods : IsVirtual(d.methods[i])]
-----------------------------------------------------------------------------
Absent == [class |-> 0, slots |-> <<>>]

Init == /\ classes = <<>>
        /\ decls = <<>>
        /\ memory = [o \in Objects |-> Absent]
        /\ globals = <<>>
        /\ crashed = FALSE

Base(base) == IF base = 0 THEN None ELSE decls[base]

(* The classes that the layout is right for: a method stays virtual or not, *)
(* a class with a vtable has a virtual method of its own and a base with a  *)
(* vtable or without fields, nothing comes after a static field or a        *)
(* variant part, and a variant part comes after no vtable.                  *)
LaidOut(base, d) ==
    LET b == Base(base)
        cd == ClassDecl(b, Len(classes) + 1, d)
        fields == Offset(cd) .. cd.fieldCount + Offset(cd) - 1
    IN  /\ \A i \in DOMAIN d.methods :
              Named(b.membfuncs, d.methods[i].name) =>
                  IsVirtual(Of(b.membfuncs, d.methods[i].name)) = IsVirtual(d.methods[i])
        /\ HasVTable(cd) => cd.emitted /\ (HasVTable(b) \/ b.fieldCount = 0)
        /\ \A i, j \in fields : i < j /\ cd.element[i].static => cd.element[j].static
        /\ d.variant => ~HasVTable(cd) /\ \A i \in fields : ~cd.element[i].static
        /\ base # 0 => ~classes[base].variant

(* ParseClassDecl. *)
Declare(base, d) ==
    /\ memory = [o \in Objects |-> Absent]
    /\ Len(classes) < MaxClasses
    /\ \A i \in DOMAIN d.methods :
          d.methods[i].kind = "override" => Named(Base(base).membfuncs, d.methods[i].name)
    /\ Careful => LaidOut(base, d)
    /\ classes' = Append(classes, [base |-> base, fields |-> d.fields, methods |-> d.methods,
                                 variant |-> d.variant])
    /\ decls' = Append(decls, ClassDecl(Base(base), Len(classes) + 1, d))
    /\ globals' = Over([f \in {<<Len(classes'), e.name>> : e \in {g \in ToSet(d.fields) : g.static}}
                        |-> Zero], globals)
    /\ UNCHANGED <<memory, crashed>>

Crash == crashed' = TRUE /\ UNCHANGED <<memory, globals>>

(* VarDeclAST and FunctionNew store the address of the class's vtable if it *)
(* has one; ParseClassDecl makes one for a class with a virtual function or *)
(* an override of its own.                                                  *)
Create(o, k) ==
    /\ memory[o].class = 0
    /\ Len(classes) + Cardinality({p \in Objects : memory[p].class # 0}) < MaxSize
    /\ IF HasVTable(decls[k]) /\ ~decls[k].emitted THEN Crash
       ELSE /\ memory' = [memory EXCEPT ![o] =
                 [class |-> k,
                  slots |-> [i \in 0 .. Len(decls[k].structure) - 1 |->
                                IF i = 0 /\ HasVTable(decls[k]) THEN k ELSE Zero]]]
            /\ UNCHANGED <<globals, crashed>>
    /\ UNCHANGED <<classes, decls>>

(* A pointer or a parameter of the class s may be given the object. *)
Sees(o, s) == memory[o].class # 0 /\ DerivedFrom(classes, memory[o].class, s)

(* ExpandWithNames: inside a method the fields are names in a scope, which  *)
(* keeps the first of two.                                                  *)
Inside(k, f) == CHOOSE n \in DOMAIN decls[k].element :
                    /\ n >= Offset(decls[k]) /\ decls[k].element[n].name = f
                    /\ \A i \in Offset(decls[k]) .. n - 1 : decls[k].element[i].name # f

(* ParseFieldExpr after a period, and the scope of a method or of with. *)
Slot(s, f, inside) == IF f = "variant" THEN decls[s].fieldCount
                      ELSE IF inside THEN Inside(s, f) ELSE decls[s].elementOf[f]

IsGlobal(s, f, inside) == ~inside /\ f # "variant" /\ decls[s].element[Slot(s, f, FALSE)].static

Global(s, f) == LET e == decls[s].element[decls[s].elementOf[f]] IN <<e.class, e.name>>

(* FieldExprAST::Address needs a slot of the structure of s. *)
InBounds(o, s, slot) == slot < Len(decls[s].structure) /\ slot \in DOMAIN memory[o].slots

(* What a careful program names: no static field inside a method, and no    *)
(* field there that hides another.                                          *)
MayName(s, f, inside) ==
    Careful /\ inside => /\ ~decls[s].element[Slot(s, f, FALSE)].static
                         /\ Inside(s, f) = Slot(s, f, FALSE)

Accessible(o, s, f, inside) == /\ Sees(o, s)
                               /\ f = "variant" => ~inside
                               /\ MayName(s, f, inside)

Put(o, s, f, inside, v) ==
    /\ Accessible(o, s, f, inside)
    /\ IF IsGlobal(s, f, inside)
       THEN globals' = [globals EXCEPT ![Global(s, f)] = v] /\ UNCHANGED <<memory, crashed>>
       ELSE IF InBounds(o, s, Slot(s, f, inside))
       THEN /\ memory' = [memory EXCEPT ![o].slots[Slot(s, f, inside)] = v]
            /\ UNCHANGED <<globals, crashed>>
       ELSE Crash
    /\ UNCHANGED <<classes, decls>>

Read(o, s, f, inside) ==
    IF IsGlobal(s, f, inside) THEN globals[Global(s, f)]
    ELSE IF InBounds(o, s, Slot(s, f, inside)) THEN memory[o].slots[Slot(s, f, inside)]
    ELSE <<"crash">>

(* MakeSelfCall and VirtFunctionAST: through the object's vtable. The class *)
(* whose function runs.                                                     *)
Runs(o, s, m) ==
    LET f     == Of(decls[s].membfuncs, m)
        index == decls[s].virtIndex[<<f.class, f.name>>]
        table == memory[o].slots[0]
    IN  IF ~IsVirtual(f) THEN f.class
        ELSE IF table \in DOMAIN classes /\ index \in DOMAIN decls[table].vtable
        THEN decls[table].vtable[index] ELSE <<"crash">>

(* Mutant: an object is assigned as a derived one is. *)
CopiedAsAPointer(a, b) ==
    [i \in DOMAIN memory[a].slots |->
        IF i = 0 /\ 0 \in DOMAIN memory[b].slots THEN memory[b].slots[0] ELSE memory[a].slots[i]]

(* AssignExprAST: an object of a derived class is cast to the base, and the *)
(* cast (TypeCastAST::CodeGen) loads a pointer from it: one slot.           *)
Copied(a, b) ==
    IF memory[a].class = memory[b].class THEN memory[b].slots
    ELSE [i \in DOMAIN memory[a].slots |->
             IF i = 0 /\ 0 \in DOMAIN memory[b].slots THEN memory[b].slots[0] ELSE memory[a].slots[i]]

Assign(a, b) ==
    /\ memory[a].class # 0
    /\ Sees(b, memory[a].class)
    /\ Careful => memory[a].class = memory[b].class
    /\ memory' = [memory EXCEPT ![a].slots = Copied(a, b)]
    /\ UNCHANGED <<classes, decls, globals, crashed>>

Next ==
    /\ ~crashed
    /\ \/ \E base \in 0 .. Len(classes), d \in Declarations : Declare(base, d)
       \/ \E o \in Objects, k \in DOMAIN classes : Create(o, k)
       \/ \E o \in Objects, s \in DOMAIN classes :
             \E f \in FieldsSeen(classes, s), inside \in BOOLEAN, v \in Values :
                 Put(o, s, f, inside, v)
       \/ \E a, b \in Objects : Assign(a, b)

Spec == Init /\ [][Next]_vars
-----------------------------------------------------------------------------
(* The memory is made of values, but for the first slot of an object whose  *)
(* class has a vtable: that one is never written by an access to a field.   *)
TypeOK == /\ Len(decls) = Len(classes)
          /\ \A o \in Objects : memory[o].class \in 0 .. Len(classes)
          /\ \A o \in Objects : \A i \in DOMAIN memory[o].slots :
                memory[o].slots[i] \in IF i = 0 /\ HasVTable(decls[memory[o].class])
                                       THEN {memory[o].class} ELSE Values \cup {Zero}
          /\ \A f \in DOMAIN globals : globals[f] \in Values \cup {Zero}

(* Where in an object of the class k its fields are, ...                    *)
Places(k) == {i \in DOMAIN decls[k].structure : decls[k].structure[i][1] # 0}

Place(k, f) == CHOOSE i \in Places(k) : decls[k].structure[i] = f

(* ... and what an object is to the program: the values of its fields.      *)
Shown == [o \in Objects |->
    LET k == memory[o].class
    IN  IF k = 0 THEN [class |-> 0, values |-> <<>>]
        ELSE [class |-> k,
              values |-> [f \in {decls[k].structure[i] : i \in Places(k)} |->
                            memory[o].slots[Place(k, f) - 1]]]]

(* A program declares, creates, writes and assigns as its text says,        *)
(* whichever class it names a field through: slots and offsets show nowhere.*)
Pascal == INSTANCE PascalObjects WITH objects <- Shown, statics <- globals
ImplementsPascalObjects == Pascal!Spec

(* What is read and which method runs is what the text says, from inside a  *)
(* method and from outside, through every class that the object is of.      *)
ReadsAndCallsAsWritten ==
    \A o \in Objects, s \in DOMAIN classes : Sees(o, s) =>
        /\ \A f \in FieldsSeen(classes, s), inside \in BOOLEAN :
              Accessible(o, s, f, inside) => Read(o, s, f, inside) = Pascal!Read(o, s, f)
        /\ \A m \in MethodsSeen(classes, s) : Runs(o, s, m) = Pascal!Runs(o, s, m)

(* A field has one slot in its class and in every class that derives from   *)
(* it, and no other field has it there.                                     *)
SlotsAreInherited ==
    \A k \in DOMAIN classes : \A j \in ToSet(Chain(classes, k)) :
        IsPrefix(decls[j].structure, decls[k].structure)

(* The vtable of a class has a function at every index, and a class and the *)
(* classes that derive from it agree on what the index stands for.          *)
VTablesAreFilled ==
    \A k \in DOMAIN classes : HasVTable(decls[k]) =>
        \A i \in DOMAIN decls[k].vtable : decls[k].vtable[i] # 0
=============================================================================
