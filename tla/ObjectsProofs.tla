--------------------------- MODULE ObjectsProofs ---------------------------
(***************************************************************************)
(* That the layout of classes is right for every program that Careful      *)
(* admits, however many classes it has: the virtual functions of a class   *)
(* have the indexes 0, 1, 2, ... in the order of its member functions, so  *)
(* that the vtable has no gap and a derived class keeps the indexes of its *)
(* base; the slots of the base come first; and no field has the slot of    *)
(* the pointer to the vtable.  And that a program with classes does what   *)
(* its text says, whatever memory looks like: Objects implements           *)
(* PascalObjects, and what a field reads and which function a call runs    *)
(* are what they are there.                                                *)
(***************************************************************************)
EXTENDS Objects, FiniteSetTheorems, SequenceTheorems, WellFoundedInduction, TLAPS

-----------------------------------------------------------------------------
(* Induction, and the functions that the loops are.                        *)

LEMMA Induction ==
  ASSUME NEW N \in Nat, NEW S, 0 \in S, \A n \in 0 .. N : n + 1 \in 0 .. N /\ n \in S => n + 1 \in S
  PROVE  0 .. N \subseteq S
  <1> DEFINE Bad == 0 .. N \ S
  <1>1. CASE Bad = {}
    BY <1>1
  <1>2. CASE Bad # {}
    <2>1. PICK k \in Bad : \A n \in Bad : <<n, k>> \notin OpToRel(<, Nat)
      <3>1. Bad \subseteq Nat
        OBVIOUS
      <3> HIDE DEF Bad
      <3>2. QED  BY <1>2, <3>1, WFMin, NatLessThanWellFounded, Zenon
    <2>2. k \in 0 .. N /\ k # 0 /\ k \notin S
      OBVIOUS
    <2>3. PICK m \in Nat : m = k - 1
      BY <2>2
    <2>4. m \in 0 .. N /\ k \in Nat /\ m < k /\ m + 1 = k
      BY <2>2, <2>3
    <2>5. m \notin Bad
      BY <2>1, <2>4 DEF OpToRel
    <2>6. QED  BY <2>2, <2>4, <2>5
  <1>3. QED  BY <1>1, <1>2

(* The loop of ClassDecl's constructor.                                    *)
Own(k, m) == [class |-> k, name |-> m.name, kind |-> m.kind]

IsPuts(base, k, methods, N, f) ==
  f = [n \in 0 .. N |-> IF n = 0 THEN base.membfuncs ELSE PutOver(f[n - 1], Own(k, methods[n]))]

LEMMA PutsExist ==
  ASSUME NEW base, NEW k, NEW methods, NEW N \in Nat
  PROVE  \E f : IsPuts(base, k, methods, N, f)
  <1> DEFINE S == {n \in 0 .. N : \E f : IsPuts(base, k, methods, n, f)}
  <1>1. 0 \in S
    <2>1. PICK f : f = [n \in 0 .. 0 |-> base.membfuncs]
      OBVIOUS
    <2>2. IsPuts(base, k, methods, 0, f)
      BY <2>1 DEF IsPuts
    <2>3. QED  BY <2>2
  <1>2. ASSUME NEW n \in 0 .. N, n + 1 \in 0 .. N, n \in S
        PROVE  n + 1 \in S
    <2>1. PICK g : IsPuts(base, k, methods, n, g)
      BY <1>2
    <2>2. PICK f : f = [i \in 0 .. n + 1 |->
                          IF i = 0 THEN base.membfuncs ELSE PutOver(g[i - 1], Own(k, methods[i]))]
      OBVIOUS
    <2>3. ASSUME NEW i \in 0 .. n
          PROVE  f[i] = g[i]
      <3>1. i \in 0 .. n + 1
        OBVIOUS
      <3>2. QED  BY <2>1, <2>2, <3>1 DEF IsPuts
    <2>4. ASSUME NEW i \in 0 .. n + 1, i # 0
          PROVE  f[i - 1] = g[i - 1]
      <3>1. i - 1 \in 0 .. n
        BY <2>4
      <3>2. QED  BY <2>3, <3>1
    <2>5. IsPuts(base, k, methods, n + 1, f)
      BY <2>2, <2>4 DEF IsPuts
    <2>6. QED  BY <1>2, <2>5
  <1>3. 0 .. N \subseteq S
    <2> HIDE DEF S
    <2>1. QED  BY <1>1, <1>2, Induction
  <1>4. QED  BY <1>3

LEMMA MembFuncsIs ==
  ASSUME NEW base, NEW k, NEW methods, Len(methods) \in Nat
  PROVE  \E f : /\ IsPuts(base, k, methods, Len(methods), f)
                /\ MembFuncs(base, k, methods) = f[Len(methods)]
  <1>1. PICK f : f = CHOOSE g : IsPuts(base, k, methods, Len(methods), g)
    OBVIOUS
  <1>2. IsPuts(base, k, methods, Len(methods), f)
    BY <1>1, PutsExist
  <1>3. MembFuncs(base, k, methods) = f[Len(methods)]
    BY <1>1 DEF MembFuncs, IsPuts, Own
  <1>4. QED  BY <1>2, <1>3

(* The loop of ClassDecl::VTableType.                                      *)
Id(f) == <<f.class, f.name>>

Counted(base, f, v) ==
  IF ~IsVirtual(f) THEN v
  ELSE [virtIndex |-> IF Id(f) \in DOMAIN v.virtIndex THEN v.virtIndex
                      ELSE Over([i \in {Id(f)} |-> VirtIndex(base, f, v.virtuals)], v.virtIndex),
        virtuals |-> v.virtuals + 1]

IsCounts(base, fs, N, f) ==
  f = [n \in 0 .. N |-> IF n = 0 THEN [virtIndex |-> base.virtIndex, virtuals |-> 0]
                        ELSE Counted(base, fs[n], f[n - 1])]

LEMMA CountsExist ==
  ASSUME NEW base, NEW fs, NEW N \in Nat
  PROVE  \E f : IsCounts(base, fs, N, f)
  <1> DEFINE S == {n \in 0 .. N : \E f : IsCounts(base, fs, n, f)}
  <1>1. 0 \in S
    <2>1. PICK f : f = [n \in 0 .. 0 |-> [virtIndex |-> base.virtIndex, virtuals |-> 0]]
      OBVIOUS
    <2>2. IsCounts(base, fs, 0, f)
      BY <2>1 DEF IsCounts
    <2>3. QED  BY <2>2
  <1>2. ASSUME NEW n \in 0 .. N, n + 1 \in 0 .. N, n \in S
        PROVE  n + 1 \in S
    <2>1. PICK g : IsCounts(base, fs, n, g)
      BY <1>2
    <2>2. PICK f : f = [i \in 0 .. n + 1 |->
                          IF i = 0 THEN [virtIndex |-> base.virtIndex, virtuals |-> 0]
                          ELSE Counted(base, fs[i], g[i - 1])]
      OBVIOUS
    <2>3. ASSUME NEW i \in 0 .. n
          PROVE  f[i] = g[i]
      <3>1. i \in 0 .. n + 1
        OBVIOUS
      <3>2. QED  BY <2>1, <2>2, <3>1 DEF IsCounts
    <2>4. ASSUME NEW i \in 0 .. n + 1, i # 0
          PROVE  f[i - 1] = g[i - 1]
      <3>1. i - 1 \in 0 .. n
        BY <2>4
      <3>2. QED  BY <2>3, <3>1
    <2>5. IsCounts(base, fs, n + 1, f)
      BY <2>2, <2>4 DEF IsCounts
    <2>6. QED  BY <1>2, <2>5
  <1>3. 0 .. N \subseteq S
    <2> HIDE DEF S
    <2>1. QED  BY <1>1, <1>2, Induction
  <1>4. QED  BY <1>3

LEMMA IndexedIs ==
  ASSUME NEW base, NEW fs, Len(fs) \in Nat
  PROVE  \E f : IsCounts(base, fs, Len(fs), f) /\ Indexed(base, fs) = f[Len(fs)]
  <1>1. PICK f : f = CHOOSE g : IsCounts(base, fs, Len(fs), g)
    OBVIOUS
  <1>2. IsCounts(base, fs, Len(fs), f)
    BY <1>1, CountsExist
  <1>3. Indexed(base, fs) = f[Len(fs)]
    BY <1>1 DEF Indexed, IsCounts, Counted, Id
  <1>4. QED  BY <1>2, <1>3

(* The loop of ClassDecl::GetLlvmType.                                     *)
First(cd) == IF HasVTable(cd) THEN <<<<0, "vtable">>>> ELSE <<>>

Kept(e, slots) == IF e.static THEN slots ELSE Append(slots, <<e.class, e.name>>)

IsSlots(cd, at, N, f) ==
  f = [n \in 0 .. N |-> IF n = 0 THEN First(cd) ELSE Kept(at[n - 1 + Offset(cd)], f[n - 1])]

LEMMA SlotsExist ==
  ASSUME NEW cd, NEW at, NEW N \in Nat
  PROVE  \E f : IsSlots(cd, at, N, f)
  <1> DEFINE S == {n \in 0 .. N : \E f : IsSlots(cd, at, n, f)}
  <1>1. 0 \in S
    <2>1. PICK f : f = [n \in 0 .. 0 |-> First(cd)]
      OBVIOUS
    <2>2. IsSlots(cd, at, 0, f)
      BY <2>1 DEF IsSlots
    <2>3. QED  BY <2>2
  <1>2. ASSUME NEW n \in 0 .. N, n + 1 \in 0 .. N, n \in S
        PROVE  n + 1 \in S
    <2>1. PICK g : IsSlots(cd, at, n, g)
      BY <1>2
    <2>2. PICK f : f = [i \in 0 .. n + 1 |->
                          IF i = 0 THEN First(cd)
                          ELSE Kept(at[i - 1 + Offset(cd)], g[i - 1])]
      OBVIOUS
    <2>3. ASSUME NEW i \in 0 .. n
          PROVE  f[i] = g[i]
      <3>1. i \in 0 .. n + 1
        OBVIOUS
      <3>2. QED  BY <2>1, <2>2, <3>1 DEF IsSlots
    <2>4. ASSUME NEW i \in 0 .. n + 1, i # 0
          PROVE  f[i - 1] = g[i - 1]
      <3>1. i - 1 \in 0 .. n
        BY <2>4
      <3>2. QED  BY <2>3, <3>1
    <2>5. IsSlots(cd, at, n + 1, f)
      BY <2>2, <2>4 DEF IsSlots
    <2>6. QED  BY <1>2, <2>5
  <1>3. 0 .. N \subseteq S
    <2> HIDE DEF S
    <2>1. QED  BY <1>1, <1>2, Induction
  <1>4. QED  BY <1>3

IsStructure(cd, at, k, variant, s) ==
  \E f : /\ IsSlots(cd, at, cd.fieldCount, f)
         /\ s = IF variant THEN Append(f[cd.fieldCount], <<k, "variant">>) ELSE f[cd.fieldCount]

LEMMA StructureIs ==
  ASSUME NEW cd, NEW at, NEW k, NEW variant, cd.fieldCount \in Nat
  PROVE  IsStructure(cd, at, k, variant, Structure(cd, at, k, variant))
  <1>1. PICK f : f = CHOOSE g : IsSlots(cd, at, cd.fieldCount, g)
    OBVIOUS
  <1>2. IsSlots(cd, at, cd.fieldCount, f)
    BY <1>1, SlotsExist
  <1>3. Structure(cd, at, k, variant) = IF variant THEN Append(f[cd.fieldCount], <<k, "variant">>)
                                    ELSE f[cd.fieldCount]
    BY <1>1 DEF Structure, IsSlots, Kept, First
  <1>4. QED  BY <1>2, <1>3 DEF IsStructure

(* A class and those it derives from.                                      *)
Bases(cs) == /\ Len(cs) \in Nat
             /\ \A j \in 1 .. Len(cs) : cs[j].base \in 0 .. j - 1

IsUp(cs, N, f) == f = [j \in 0 .. N |-> IF j = 0 THEN <<>> ELSE <<j>> \o f[cs[j].base]]

LEMMA UpExists ==
  ASSUME NEW cs, Bases(cs)
  PROVE  \E f : IsUp(cs, Len(cs), f)
  <1> DEFINE N == Len(cs)
             S == {n \in 0 .. N : \E f : IsUp(cs, n, f)}
  <1>1. N \in Nat
    BY DEF Bases
  <1>2. 0 \in S
    <2>1. PICK f : f = [j \in 0 .. 0 |-> <<>>]
      OBVIOUS
    <2>2. IsUp(cs, 0, f)
      BY <2>1 DEF IsUp
    <2>3. QED  BY <1>1, <2>2
  <1>3. ASSUME NEW n \in 0 .. N, n + 1 \in 0 .. N, n \in S
        PROVE  n + 1 \in S
    <2>1. PICK g : IsUp(cs, n, g)
      BY <1>3
    <2>2. PICK f : f = [j \in 0 .. n + 1 |-> IF j = 0 THEN <<>> ELSE <<j>> \o g[cs[j].base]]
      OBVIOUS
    <2>3. ASSUME NEW j \in 0 .. n
          PROVE  f[j] = g[j]
      <3>1. j \in 0 .. n + 1
        BY <1>1
      <3>2. QED  BY <2>1, <2>2, <3>1 DEF IsUp
    <2>4. ASSUME NEW j \in 0 .. n + 1, j # 0
          PROVE  f[cs[j].base] = g[cs[j].base]
      <3>1. cs[j].base \in 0 .. n
        BY <1>1, <1>3, <2>4 DEF Bases
      <3>2. QED  BY <2>3, <3>1
    <2>5. IsUp(cs, n + 1, f)
      BY <2>2, <2>4 DEF IsUp
    <2>6. QED  BY <1>3, <2>5
  <1>4. 0 .. N \subseteq S
    <2> HIDE DEF S
    <2>1. QED  BY <1>1, <1>2, <1>3, Induction
  <1>5. QED  BY <1>1, <1>4

LEMMA ChainIs ==
  ASSUME NEW cs, Bases(cs)
  PROVE  /\ Chain(cs, 0) = <<>>
         /\ \A k \in 1 .. Len(cs) : Chain(cs, k) = <<k>> \o Chain(cs, cs[k].base)
  <1>1. PICK f : f = CHOOSE g : IsUp(cs, Len(cs), g)
    OBVIOUS
  <1>2. IsUp(cs, Len(cs), f)
    BY <1>1, UpExists
  <1>3. \A k : Chain(cs, k) = f[k]
    BY <1>1 DEF Chain, IsUp
  <1>4. Len(cs) \in Nat
    BY DEF Bases
  <1>5. f[0] = <<>> /\ \A k \in 1 .. Len(cs) : f[k] = <<k>> \o f[cs[k].base]
    <2>1. 0 \in 0 .. Len(cs)
      BY <1>4
    <2>2. f[0] = <<>>
      BY <1>2, <2>1 DEF IsUp
    <2>3. ASSUME NEW k \in 1 .. Len(cs)
          PROVE  f[k] = <<k>> \o f[cs[k].base]
      <3>1. k \in 0 .. Len(cs) /\ k # 0
        BY <1>4
      <3>2. QED  BY <1>2, <3>1, Zenon DEF IsUp
    <2>4. QED  BY <2>2, <2>3
  <1>6. QED  BY <1>3, <1>5

LEMMA ChainType ==
  ASSUME NEW cs, Bases(cs)
  PROVE  \A k \in 0 .. Len(cs) : Chain(cs, k) \in Seq(1 .. Len(cs))
  <1> DEFINE N == Len(cs)
             S == {n \in 0 .. N : \A k \in 0 .. n : Chain(cs, k) \in Seq(1 .. N)}
  <1>1. N \in Nat
    BY DEF Bases
  <1>2. 0 \in S
    <2>1. Chain(cs, 0) \in Seq(1 .. N)
      BY ChainIs, EmptySeq
    <2>2. \A k \in 0 .. 0 : k = 0
      OBVIOUS
    <2>3. QED  BY <1>1, <2>1, <2>2
  <1>3. ASSUME NEW n \in 0 .. N, n + 1 \in 0 .. N, n \in S
        PROVE  n + 1 \in S
    <2>1. n + 1 \in 1 .. N /\ cs[n + 1].base \in 0 .. n
      BY <1>1, <1>3 DEF Bases
    <2>2. PICK c : c = Chain(cs, cs[n + 1].base)
      OBVIOUS
    <2>3. c \in Seq(1 .. N) /\ Chain(cs, n + 1) = <<n + 1>> \o c
      BY <1>3, <2>1, <2>2, ChainIs
    <2>4. Chain(cs, n + 1) \in Seq(1 .. N)
      <3>1. <<n + 1>> \in Seq(1 .. N)
        BY <2>1
      <3>2. <<n + 1>> \o c \in Seq(1 .. N)
        BY <2>3, <3>1, ConcatProperties
      <3>3. QED  BY <2>3, <3>2
    <2>5. ASSUME NEW k \in 0 .. n + 1
          PROVE  k = n + 1 \/ k \in 0 .. n
      BY <1>1
    <2>6. QED  BY <1>3, <2>4, <2>5
  <1>4. 0 .. N \subseteq S
    <2> HIDE DEF S
    <2>1. QED  BY <1>1, <1>2, <1>3, Induction
  <1>5. QED  BY <1>1, <1>4

LEMMA ChainMembers ==
  ASSUME NEW cs, Bases(cs)
  PROVE  /\ ToSet(Chain(cs, 0)) = {}
         /\ \A k \in 1 .. Len(cs) :
              ToSet(Chain(cs, k)) = {k} \cup ToSet(Chain(cs, cs[k].base))
  <1>1. ToSet(Chain(cs, 0)) = {}
    BY ChainIs DEF ToSet
  <1>2. ASSUME NEW k \in 1 .. Len(cs)
        PROVE  ToSet(Chain(cs, k)) = {k} \cup ToSet(Chain(cs, cs[k].base))
    <2>1. PICK c : c = Chain(cs, cs[k].base)
      OBVIOUS
    <2>2. cs[k].base \in 0 .. Len(cs)
      BY DEF Bases
    <2>3. c \in Seq(1 .. Len(cs)) /\ Chain(cs, k) = <<k>> \o c
      BY <2>1, <2>2, ChainType, ChainIs
    <2>4. PICK d : d = <<k>> \o c
      OBVIOUS
    <2>5. /\ DOMAIN d = 1 .. Len(c) + 1 /\ DOMAIN c = 1 .. Len(c) /\ Len(c) \in Nat
          /\ d[1] = k /\ \A i \in 1 .. Len(c) : d[i + 1] = c[i]
      BY <2>3, <2>4
    <2>6. ToSet(d) \subseteq {k} \cup ToSet(c)
      <3>1. ASSUME NEW i \in DOMAIN d
            PROVE  d[i] = k \/ d[i] \in ToSet(c)
        <4>1. CASE i = 1
          BY <2>5, <4>1
        <4>2. CASE i # 1
          <5>1. PICK m \in 1 .. Len(c) : i = m + 1
            <6>1. i - 1 \in 1 .. Len(c) /\ i = (i - 1) + 1
              BY <2>5, <4>2
            <6>2. QED  BY <6>1
          <5>2. QED  BY <2>5, <5>1 DEF ToSet
        <4>3. QED  BY <4>1, <4>2
      <3>2. QED  BY <3>1 DEF ToSet
    <2>7. {k} \cup ToSet(c) \subseteq ToSet(d)
      <3>1. k \in ToSet(d)
        BY <2>5 DEF ToSet
      <3>2. ASSUME NEW i \in DOMAIN c
            PROVE  c[i] \in ToSet(d)
        <4>1. i + 1 \in DOMAIN d /\ d[i + 1] = c[i]
          BY <2>5
        <4>2. QED  BY <4>1 DEF ToSet
      <3>3. QED  BY <3>1, <3>2 DEF ToSet
    <2>8. QED  BY <2>1, <2>3, <2>4, <2>6, <2>7
  <1>3. QED  BY <1>1, <1>2

-----------------------------------------------------------------------------
(* Member functions.                                                       *)

MethodKinds == {"plain", "virtual", "override"}
Entries(k)  == [class : 1 .. k, name : STRING, kind : MethodKinds]

(* No name stands for two functions.                                       *)
Distinct(fs) == \A i, j \in DOMAIN fs : fs[i].name = fs[j].name => i = j

LEMMA OnlyOne ==
  ASSUME NEW i \in Int
  PROVE  Max({i}) = i /\ Min({i}) = i
  <1>1. Max({i}) \in {i} /\ Min({i}) \in {i}
    <2>1. i \in {i} /\ \A y \in {i} : i >= y /\ i <= y
      OBVIOUS
    <2>2. QED  BY <2>1, Zenon DEF Max, Min
  <1>2. QED  BY <1>1

LEMMA OfIs ==
  ASSUME NEW S, NEW fs \in Seq(S), Distinct(fs), NEW i \in DOMAIN fs
  PROVE  Of(fs, fs[i].name) = fs[i] /\ Named(fs, fs[i].name)
  <1>1. i \in Int /\ DOMAIN fs = 1 .. Len(fs)
    OBVIOUS
  <1>2. {j \in DOMAIN fs : fs[j].name = fs[i].name} = {i}
    BY DEF Distinct
  <1>3. Max({i}) = i
    BY <1>1, OnlyOne
  <1>4. Of(fs, fs[i].name) = fs[i]
    BY <1>2, <1>3 DEF Of
  <1>5. Named(fs, fs[i].name)
    BY DEF Named, NamesOf
  <1>6. QED  BY <1>4, <1>5

LEMMA PutOverIs ==
  ASSUME NEW S, NEW fs \in Seq(S), Distinct(fs), NEW f
  PROVE  /\ \A i \in DOMAIN fs : fs[i].name = f.name => PutOver(fs, f) = [fs EXCEPT ![i] = f]
         /\ ~Named(fs, f.name) => PutOver(fs, f) = Append(fs, f)
  <1>1. ASSUME NEW i \in DOMAIN fs, fs[i].name = f.name
        PROVE  PutOver(fs, f) = [fs EXCEPT ![i] = f]
    <2>1. Named(fs, f.name)
      BY <1>1 DEF Named, NamesOf
    <2>2. SelectInSeq(fs, LAMBDA g : g.name = f.name) = i
      <3>1. i \in Int /\ DOMAIN fs = 1 .. Len(fs)
        OBVIOUS
      <3>2. {j \in 1 .. Len(fs) : fs[j].name = f.name} = {i}
        BY <1>1, <3>1 DEF Distinct
      <3>3. Min({i}) = i
        BY <3>1, OnlyOne
      <3>4. QED  BY <3>2, <3>3 DEF SelectInSeq
    <2>3. QED  BY <2>1, <2>2 DEF PutOver
  <1>2. ~Named(fs, f.name) => PutOver(fs, f) = Append(fs, f)
    BY DEF PutOver
  <1>3. QED  BY <1>1, <1>2

(* The functions g of the class k are those of its base, some of them      *)
(* replaced by others of the name that are as virtual, and new ones, none  *)
(* of which overrides.                                                     *)
Overlaid(b, k, g) ==
  /\ g \in Seq(Entries(k)) /\ Distinct(g)
  /\ Len(b) <= Len(g)
  /\ \A i \in 1 .. Len(b) : /\ g[i].name = b[i].name
                            /\ IsVirtual(g[i]) = IsVirtual(b[i])
                            /\ g[i] = b[i] \/ g[i].class = k
  /\ \A i \in Len(b) + 1 .. Len(g) : /\ g[i].class = k
                                     /\ g[i].kind # "override"

LEMMA PutKeeps ==
  ASSUME NEW k \in Nat \ {0}, NEW b \in Seq(Entries(k - 1)), Distinct(b),
         NEW g, Overlaid(b, k, g), NEW m \in [name : STRING, kind : MethodKinds],
         Named(b, m.name) => IsVirtual(Of(b, m.name)) = IsVirtual(m),
         m.kind = "override" => Named(b, m.name)
  PROVE  Overlaid(b, k, PutOver(g, Own(k, m)))
  <1>1. PICK f : f = Own(k, m)
    OBVIOUS
  <1>2. /\ f \in Entries(k) /\ f.class = k /\ f.name = m.name /\ f.kind = m.kind
        /\ IsVirtual(f) = IsVirtual(m)
    BY <1>1 DEF Own, Entries, IsVirtual
  <1>3. /\ g \in Seq(Entries(k)) /\ Distinct(g) /\ DOMAIN g = 1 .. Len(g) /\ Len(g) \in Nat
        /\ Len(b) \in Nat /\ DOMAIN b = 1 .. Len(b) /\ Len(b) <= Len(g)
    BY DEF Overlaid
  <1>4. CASE Named(g, m.name)
    <2>1. PICK i \in DOMAIN g : g[i].name = f.name
      BY <1>2, <1>4 DEF Named, NamesOf
    <2>2. PICK h : h = [g EXCEPT ![i] = f]
      OBVIOUS
    <2>3. PutOver(g, f) = h
      BY <1>3, <2>1, <2>2, PutOverIs
    <2>4. h \in Seq(Entries(k)) /\ Len(h) = Len(g)
      BY <1>2, <1>3, <2>2, ExceptSeq
    <2>5. DOMAIN h = DOMAIN g /\ \A j \in DOMAIN g : h[j] = IF j = i THEN f ELSE g[j]
      BY <2>2
    <2>6. \A j \in DOMAIN g : h[j].name = g[j].name
      BY <2>1, <2>5
    <2>7. Distinct(h)
      BY <1>3, <2>5, <2>6 DEF Distinct
    <2>8. ASSUME NEW j \in 1 .. Len(b)
          PROVE  /\ h[j].name = b[j].name
                 /\ IsVirtual(h[j]) = IsVirtual(b[j])
                 /\ h[j] = b[j] \/ h[j].class = k
      <3>1. /\ j \in DOMAIN g /\ g[j].name = b[j].name
            /\ IsVirtual(g[j]) = IsVirtual(b[j]) /\ (g[j] = b[j] \/ g[j].class = k)
        BY <1>3 DEF Overlaid
      <3>2. CASE j = i
        <4>1. Of(b, b[j].name) = b[j] /\ Named(b, b[j].name)
          BY <1>3, OfIs
        <4>2. b[j].name = m.name
          BY <1>2, <2>1, <3>1, <3>2
        <4>3. IsVirtual(b[j]) = IsVirtual(m)
          BY <4>1, <4>2
        <4>4. QED  BY <1>2, <2>5, <2>6, <3>1, <3>2, <4>3
      <3>3. CASE j # i
        BY <2>5, <3>1, <3>3
      <3>4. QED  BY <3>2, <3>3
    <2>9. ASSUME NEW j \in Len(b) + 1 .. Len(h)
          PROVE  h[j].class = k /\ h[j].kind # "override"
      <3>1. j \in DOMAIN g /\ g[j].class = k /\ g[j].kind # "override"
        BY <1>3, <2>4 DEF Overlaid
      <3>2. CASE j = i
        <4>1. ~Named(b, m.name)
          <5>1. SUFFICES ASSUME NEW n \in DOMAIN b, b[n].name = m.name PROVE FALSE
            BY DEF Named, NamesOf
          <5>2. n \in 1 .. Len(b) /\ n \in DOMAIN g
            BY <1>3
          <5>3. g[n].name = b[n].name
            BY <5>2 DEF Overlaid
          <5>4. n = i
            BY <1>2, <1>3, <2>1, <5>1, <5>2, <5>3 DEF Distinct
          <5>5. QED  BY <1>3, <2>4, <3>2, <5>2, <5>4
        <4>2. QED  BY <1>2, <2>5, <3>1, <3>2, <4>1
      <3>3. CASE j # i
        BY <2>5, <3>1, <3>3
      <3>4. QED  BY <3>2, <3>3
    <2>10. QED  BY <1>1, <1>3, <2>3, <2>4, <2>7, <2>8, <2>9 DEF Overlaid
  <1>5. CASE ~Named(g, m.name)
    <2>1. PICK h : h = Append(g, f)
      OBVIOUS
    <2>2. PutOver(g, f) = h
      BY <1>2, <1>3, <1>5, <2>1, PutOverIs
    <2>3. /\ h \in Seq(Entries(k)) /\ Len(h) = Len(g) + 1 /\ DOMAIN h = 1 .. Len(g) + 1
          /\ h[Len(g) + 1] = f /\ \A j \in 1 .. Len(g) : h[j] = g[j]
      BY <1>2, <1>3, <2>1
    <2>4. \A j \in 1 .. Len(g) : g[j].name # f.name
      BY <1>2, <1>3, <1>5 DEF Named, NamesOf
    <2>5. Distinct(h)
      <3>1. SUFFICES ASSUME NEW i \in DOMAIN h, NEW j \in DOMAIN h, h[i].name = h[j].name
                     PROVE  i = j
        BY DEF Distinct
      <3>2. i \in 1 .. Len(g) \/ i = Len(g) + 1
        BY <1>3, <2>3
      <3>3. j \in 1 .. Len(g) \/ j = Len(g) + 1
        BY <1>3, <2>3
      <3>4. CASE i \in 1 .. Len(g) /\ j \in 1 .. Len(g)
        BY <1>3, <2>3, <3>1, <3>4 DEF Distinct
      <3>5. CASE ~(i \in 1 .. Len(g) /\ j \in 1 .. Len(g))
        BY <2>3, <2>4, <3>1, <3>2, <3>3, <3>5
      <3>6. QED  BY <3>4, <3>5
    <2>6. ~Named(b, m.name)
      <3>1. SUFFICES ASSUME NEW n \in DOMAIN b, b[n].name = m.name PROVE FALSE
        BY DEF Named, NamesOf
      <3>2. n \in 1 .. Len(b) /\ n \in 1 .. Len(g)
        BY <1>3
      <3>3. g[n].name = b[n].name
        BY <3>2 DEF Overlaid
      <3>4. QED  BY <1>2, <2>4, <3>1, <3>2, <3>3
    <2>7. ASSUME NEW j \in 1 .. Len(b)
          PROVE  h[j].name = b[j].name /\ IsVirtual(h[j]) = IsVirtual(b[j])
                 /\ (h[j] = b[j] \/ h[j].class = k)
      <3>1. j \in 1 .. Len(g)
        BY <1>3
      <3>2. QED  BY <2>3, <3>1 DEF Overlaid
    <2>8. ASSUME NEW j \in Len(b) + 1 .. Len(h)
          PROVE  h[j].class = k /\ h[j].kind # "override"
      <3>1. CASE j = Len(g) + 1
        BY <1>2, <2>3, <2>6, <3>1
      <3>2. CASE j # Len(g) + 1
        <4>1. j \in 1 .. Len(g) /\ j \in Len(b) + 1 .. Len(g)
          BY <1>3, <2>3, <3>2
        <4>2. QED  BY <2>3, <4>1 DEF Overlaid
      <3>3. QED  BY <3>1, <3>2
    <2>9. Len(b) <= Len(h)
      BY <1>3, <2>3
    <2>10. QED  BY <1>1, <2>2, <2>3, <2>5, <2>7, <2>8, <2>9 DEF Overlaid
  <1>6. QED  BY <1>4, <1>5

(* What Declare and LaidOut ask of the methods of a class.                 *)
Overlay(b, methods) ==
  \A i \in DOMAIN methods :
    /\ Named(b, methods[i].name) => IsVirtual(Of(b, methods[i].name)) = IsVirtual(methods[i])
    /\ methods[i].kind = "override" => Named(b, methods[i].name)

LEMMA PutsOverlaid ==
  ASSUME NEW k \in Nat \ {0}, NEW base, base.membfuncs \in Seq(Entries(k - 1)),
         Distinct(base.membfuncs), NEW methods \in Seq([name : STRING, kind : MethodKinds]),
         Overlay(base.membfuncs, methods),
         NEW f, IsPuts(base, k, methods, Len(methods), f)
  PROVE  \A n \in 0 .. Len(methods) : Overlaid(base.membfuncs, k, f[n])
  <1>1. Len(methods) \in Nat /\ DOMAIN methods = 1 .. Len(methods)
    OBVIOUS
  <1>2. PICK b : b = base.membfuncs
    OBVIOUS
  <1>3. PICK N \in Nat : N = Len(methods)
    BY <1>1
  <1>4. IsPuts(base, k, methods, N, f)
    BY <1>3
  <1> DEFINE S == {n \in 0 .. N : Overlaid(b, k, f[n])}
  <1>5. 0 \in S
    <2>1. f[0] = b
      BY <1>2, <1>4 DEF IsPuts
    <2>2. Entries(k - 1) \subseteq Entries(k)
      BY DEF Entries
    <2>3. b \in Seq(Entries(k))
      BY <1>2, <2>2, SeqMonotonic
    <2>4. Len(b) \in Nat
      BY <1>2
    <2>5. Overlaid(b, k, b)
      BY <1>2, <2>3, <2>4 DEF Overlaid
    <2>6. QED  BY <2>1, <2>5
  <1>6. ASSUME NEW n \in 0 .. N, n + 1 \in 0 .. N, n \in S
        PROVE  n + 1 \in S
    <2>1. f[n + 1] = PutOver(f[n], Own(k, methods[n + 1]))
      <3>1. n + 1 # 0 /\ (n + 1) - 1 = n
        OBVIOUS
      <3>2. f[n + 1] = PutOver(f[(n + 1) - 1], Own(k, methods[n + 1]))
        BY <1>4, <1>6, <3>1, Zenon DEF IsPuts
      <3>3. QED  BY <3>1, <3>2
    <2>2. PICK g : g = f[n]
      OBVIOUS
    <2>3. PICK m : m = methods[n + 1]
      OBVIOUS
    <2>4. n + 1 \in DOMAIN methods
      BY <1>1, <1>3, <1>6
    <2>5. /\ m \in [name : STRING, kind : MethodKinds]
          /\ Named(b, m.name) => IsVirtual(Of(b, m.name)) = IsVirtual(m)
          /\ m.kind = "override" => Named(b, m.name)
      <3>1. m \in [name : STRING, kind : MethodKinds]
        BY <1>1, <2>3, <2>4, ElementOfSeq
      <3>2. Overlay(b, methods)
        BY <1>2
      <3>3. QED  BY <2>3, <2>4, <3>1, <3>2 DEF Overlay
    <2>6. Overlaid(b, k, g)
      BY <1>6, <2>2
    <2>7. Overlaid(b, k, PutOver(g, Own(k, m)))
      BY <1>2, <2>5, <2>6, PutKeeps
    <2>8. QED  BY <1>6, <2>1, <2>2, <2>3, <2>7
  <1>7. 0 .. N \subseteq S
    <2> HIDE DEF S
    <2>1. QED  BY <1>5, <1>6, Induction
  <1>8. QED  BY <1>2, <1>3, <1>7

LEMMA MembFuncsOverlaid ==
  ASSUME NEW k \in Nat \ {0}, NEW base, base.membfuncs \in Seq(Entries(k - 1)),
         Distinct(base.membfuncs), NEW methods \in Seq([name : STRING, kind : MethodKinds]),
         Overlay(base.membfuncs, methods)
  PROVE  Overlaid(base.membfuncs, k, MembFuncs(base, k, methods))
  <1>1. PICK N \in Nat : N = Len(methods)
    OBVIOUS
  <1>2. PICK f : IsPuts(base, k, methods, N, f) /\ MembFuncs(base, k, methods) = f[N]
    BY <1>1, MembFuncsIs
  <1>3. \A n \in 0 .. N : Overlaid(base.membfuncs, k, f[n])
    BY <1>1, <1>2, PutsOverlaid
  <1>4. QED  BY <1>2, <1>3

-----------------------------------------------------------------------------
(* The indexes of virtual functions.                                       *)

(* How many of the first n functions are virtual.                          *)
Before(fs, n) == Cardinality({j \in 1 .. n : IsVirtual(fs[j])})

LEMMA BeforeStep ==
  ASSUME NEW fs, NEW n \in Nat
  PROVE  /\ Before(fs, 0) = 0 /\ Before(fs, n) \in Nat
         /\ Before(fs, n + 1) = IF IsVirtual(fs[n + 1]) THEN Before(fs, n) + 1 ELSE Before(fs, n)
  <1> DEFINE V(m) == {j \in 1 .. m : IsVirtual(fs[j])}
  <1>1. IsFiniteSet(1 .. n)
    BY FS_Interval
  <1>2. IsFiniteSet(V(n))
    <2>1. V(n) \subseteq 1 .. n
      OBVIOUS
    <2> HIDE DEF V
    <2>2. QED  BY <1>1, <2>1, FS_Subset
  <1>3. V(0) = {}
    OBVIOUS
  <1>4. \A j \in 1 .. n + 1 : j \in 1 .. n \/ j = n + 1
    OBVIOUS
  <1>5. CASE IsVirtual(fs[n + 1])
    <2>1. V(n + 1) = V(n) \cup {n + 1} /\ n + 1 \notin V(n)
      BY <1>4, <1>5
    <2>2. Cardinality(V(n + 1)) = Cardinality(V(n)) + 1
      <3> HIDE DEF V
      <3>1. QED  BY <1>2, <2>1, FS_AddElement
    <2>3. QED  BY <1>2, <1>3, <1>5, <2>2, FS_EmptySet, FS_CardinalityType DEF Before
  <1>6. CASE ~IsVirtual(fs[n + 1])
    <2>1. V(n + 1) = V(n)
      BY <1>4, <1>6
    <2>2. QED  BY <1>2, <1>3, <1>6, <2>1, FS_EmptySet, FS_CardinalityType DEF Before
  <1>7. QED  BY <1>5, <1>6

LEMMA BeforeGrows ==
  ASSUME NEW fs, NEW m \in Nat, NEW n \in Nat, m <= n
  PROVE  Before(fs, m) <= Before(fs, n)
  <1> DEFINE V(x) == {j \in 1 .. x : IsVirtual(fs[j])}
  <1>1. V(n) \subseteq 1 .. n /\ V(m) \subseteq V(n)
    OBVIOUS
  <1>2. IsFiniteSet(V(n))
    <2> HIDE DEF V
    <2>1. QED  BY <1>1, FS_Interval, FS_Subset
  <1>3. Cardinality(V(m)) <= Cardinality(V(n))
    <2> HIDE DEF V
    <2>1. QED  BY <1>1, <1>2, FS_Subset
  <1>4. QED  BY <1>3 DEF Before

LEMMA BeforeSame ==
  ASSUME NEW fs, NEW gs, NEW n \in Nat, \A j \in 1 .. n : IsVirtual(fs[j]) = IsVirtual(gs[j])
  PROVE  Before(fs, n) = Before(gs, n)
  <1>1. {j \in 1 .. n : IsVirtual(fs[j])} = {j \in 1 .. n : IsVirtual(gs[j])}
    <2>1. \A j \in 1 .. n : IsVirtual(fs[j]) <=> IsVirtual(gs[j])
      OBVIOUS
    <2>2. QED  BY <2>1
  <1>2. QED  BY <1>1 DEF Before

(* Two virtual functions have different indexes, ...                       *)
LEMMA BeforeOnce ==
  ASSUME NEW fs, NEW i \in Nat \ {0}, NEW j \in Nat \ {0}, i < j, IsVirtual(fs[i])
  PROVE  Before(fs, i - 1) < Before(fs, j - 1)
  <1>1. PICK m \in Nat, n \in Nat : i = m + 1 /\ j = n + 1 /\ m + 1 <= n
    <2>1. /\ i - 1 \in Nat /\ j - 1 \in Nat /\ i = (i - 1) + 1 /\ j = (j - 1) + 1
          /\ (i - 1) + 1 <= j - 1
      OBVIOUS
    <2>2. QED  BY <2>1
  <1>2. Before(fs, m + 1) = Before(fs, m) + 1 /\ Before(fs, m) \in Nat
    BY <1>1, BeforeStep
  <1>3. Before(fs, m + 1) <= Before(fs, n) /\ Before(fs, n) \in Nat
    BY <1>1, BeforeStep, BeforeGrows
  <1>4. i - 1 = m /\ j - 1 = n
    BY <1>1
  <1>5. QED  BY <1>2, <1>3, <1>4

(* ... and every index below the count is that of one.                     *)
LEMMA BeforeHits ==
  ASSUME NEW fs, NEW L \in Nat, NEW x \in Nat, x < Before(fs, L)
  PROVE  \E i \in 1 .. L : IsVirtual(fs[i]) /\ Before(fs, i - 1) = x
  <1> DEFINE S == {n \in 0 .. L : x < Before(fs, n) =>
                      \E i \in 1 .. n : IsVirtual(fs[i]) /\ Before(fs, i - 1) = x}
  <1>1. 0 \in S
    BY BeforeStep
  <1>2. ASSUME NEW n \in 0 .. L, n + 1 \in 0 .. L, n \in S
        PROVE  n + 1 \in S
    <2>1. SUFFICES ASSUME x < Before(fs, n + 1)
                   PROVE  \E i \in 1 .. n + 1 : IsVirtual(fs[i]) /\ Before(fs, i - 1) = x
      BY <1>2
    <2>2. CASE x < Before(fs, n)
      <3>1. PICK i \in 1 .. n : IsVirtual(fs[i]) /\ Before(fs, i - 1) = x
        BY <1>2, <2>2
      <3>2. i \in 1 .. n + 1
        OBVIOUS
      <3>3. QED  BY <3>1, <3>2
    <2>3. CASE ~(x < Before(fs, n))
      <3>1. /\ Before(fs, n) \in Nat
            /\ Before(fs, n + 1) = IF IsVirtual(fs[n + 1]) THEN Before(fs, n) + 1
                                   ELSE Before(fs, n)
        BY BeforeStep
      <3>2. IsVirtual(fs[n + 1]) /\ Before(fs, n) = x
        BY <2>1, <2>3, <3>1
      <3>3. n + 1 \in 1 .. n + 1 /\ (n + 1) - 1 = n
        OBVIOUS
      <3>4. QED  BY <3>2, <3>3
    <2>4. QED  BY <2>2, <2>3
  <1>3. 0 .. L \subseteq S
    <2> HIDE DEF S
    <2>1. QED  BY <1>1, <1>2, Induction
  <1>4. L \in 0 .. L
    OBVIOUS
  <1>5. QED  BY <1>3, <1>4

(* The virtual functions of a class have the indexes 0, 1, 2, ...          *)
Numbered(k, fs, v) ==
  /\ v.virtuals = Before(fs, Len(fs))
  /\ \A i \in DOMAIN fs : IsVirtual(fs[i]) =>
       Id(fs[i]) \in DOMAIN v.virtIndex /\ v.virtIndex[Id(fs[i])] = Before(fs, i - 1)
  /\ \A id \in DOMAIN v.virtIndex : id[1] \in 1 .. k

(* After n of the functions of the class have been looked at.              *)
Counting(base, fs, n, v) ==
  /\ v.virtuals = Before(fs, n)
  /\ \A id \in DOMAIN base.virtIndex :
       id \in DOMAIN v.virtIndex /\ v.virtIndex[id] = base.virtIndex[id]
  /\ \A id \in DOMAIN v.virtIndex :
       id \in DOMAIN base.virtIndex \/ \E i \in 1 .. n : id = Id(fs[i])
  /\ \A i \in 1 .. n : IsVirtual(fs[i]) =>
       Id(fs[i]) \in DOMAIN v.virtIndex /\ v.virtIndex[Id(fs[i])] = Before(fs, i - 1)

LEMMA CountStep ==
  ASSUME NEW k \in Nat \ {0}, NEW base, base.membfuncs \in Seq(Entries(k - 1)),
         Distinct(base.membfuncs), Numbered(k - 1, base.membfuncs, base),
         NEW fs, Overlaid(base.membfuncs, k, fs),
         NEW n \in Nat, n + 1 \in 1 .. Len(fs), NEW v, Counting(base, fs, n, v)
  PROVE  Counting(base, fs, n + 1, Counted(base, fs[n + 1], v))
  <1>1. PICK b : b = base.membfuncs
    OBVIOUS
  <1>2. PICK f : f = fs[n + 1]
    OBVIOUS
  <1>3. /\ Overlaid(b, k, fs) /\ Distinct(b) /\ b \in Seq(Entries(k - 1)) /\ Len(b) \in Nat
        /\ Distinct(fs) /\ DOMAIN fs = 1 .. Len(fs) /\ DOMAIN b = 1 .. Len(b)
        /\ fs \in Seq(Entries(k)) /\ Len(fs) \in Nat
    BY <1>1 DEF Overlaid
  <1>4. f \in Entries(k) /\ n + 1 \in DOMAIN fs
    BY <1>2, <1>3, ElementOfSeq
  <1>5. Before(fs, n) \in Nat
    BY BeforeStep
  <1>6. ASSUME NEW i \in 1 .. n + 1
        PROVE  i \in 1 .. n \/ i = n + 1
    OBVIOUS
  <1>7. CASE ~IsVirtual(f)
    <2>1. Counted(base, f, v) = v /\ Before(fs, n + 1) = Before(fs, n)
      BY <1>2, <1>7, BeforeStep DEF Counted
    <2>2. \A id \in DOMAIN v.virtIndex :
            id \in DOMAIN base.virtIndex \/ \E i \in 1 .. n + 1 : id = Id(fs[i])
      <3>1. 1 .. n \subseteq 1 .. n + 1
        OBVIOUS
      <3>2. QED  BY <3>1 DEF Counting
    <2>3. \A i \in 1 .. n + 1 : IsVirtual(fs[i]) =>
            Id(fs[i]) \in DOMAIN v.virtIndex /\ v.virtIndex[Id(fs[i])] = Before(fs, i - 1)
      BY <1>2, <1>6, <1>7 DEF Counting
    <2>4. QED  BY <1>2, <2>1, <2>2, <2>3 DEF Counting
  <1>8. CASE IsVirtual(f)
    <2>1. Before(fs, n + 1) = Before(fs, n) + 1 /\ v.virtuals = Before(fs, n)
      BY <1>2, <1>8, BeforeStep DEF Counting
    <2>2. PICK w : w = Counted(base, f, v)
      OBVIOUS
    <2>3. w.virtuals = Before(fs, n + 1)
      BY <1>8, <2>1, <2>2 DEF Counted
    <2>4. ASSUME n + 1 <= Len(b)
          PROVE  b[n + 1].name = f.name /\ IsVirtual(b[n + 1]) /\ Before(b, n) = Before(fs, n)
                 /\ (f = b[n + 1] \/ f.class = k)
      <3>1. n + 1 \in 1 .. Len(b)
        BY <2>4
      <3>2. \A j \in 1 .. n : j \in 1 .. Len(b)
        BY <1>3, <2>4
      <3>3. Before(b, n) = Before(fs, n)
        <4>1. \A j \in 1 .. n : IsVirtual(b[j]) = IsVirtual(fs[j])
          BY <1>3, <3>2 DEF Overlaid
        <4>2. QED  BY <4>1, BeforeSame
      <3>4. b[n + 1].name = f.name /\ IsVirtual(f) = IsVirtual(b[n + 1])
            /\ (f = b[n + 1] \/ f.class = k)
        BY <1>2, <1>3, <3>1 DEF Overlaid
      <3>5. QED  BY <1>8, <3>3, <3>4
    <2>5. ASSUME n + 1 <= Len(b)
          PROVE  /\ Id(b[n + 1]) \in DOMAIN base.virtIndex
                 /\ base.virtIndex[Id(b[n + 1])] = Before(fs, n)
      <3>1. n + 1 \in DOMAIN b /\ (n + 1) - 1 = n
        BY <1>3, <2>5
      <3>2. Id(b[n + 1]) \in DOMAIN base.virtIndex
            /\ base.virtIndex[Id(b[n + 1])] = Before(b, (n + 1) - 1)
        BY <1>1, <2>4, <2>5, <3>1 DEF Numbered
      <3>3. QED  BY <2>4, <2>5, <3>1, <3>2
    <2>6. ASSUME ~(n + 1 <= Len(b))
          PROVE  f.class = k /\ f.kind = "virtual"
      <3>1. n + 1 \in Len(b) + 1 .. Len(fs)
        BY <1>3, <2>6
      <3>2. f.class = k /\ f.kind # "override"
        BY <1>2, <1>3, <3>1 DEF Overlaid
      <3>3. f.kind \in MethodKinds /\ f.kind # "plain"
        BY <1>4, <1>8 DEF Entries, IsVirtual
      <3>4. QED  BY <3>2, <3>3 DEF MethodKinds
    <2>7. CASE Id(f) \in DOMAIN v.virtIndex
      <3>1. w.virtIndex = v.virtIndex
        BY <1>8, <2>2, <2>7 DEF Counted
      <3>2. ~\E i \in 1 .. n : Id(f) = Id(fs[i])
        <4>1. SUFFICES ASSUME NEW i \in 1 .. n, Id(f) = Id(fs[i]) PROVE FALSE
          OBVIOUS
        <4>2. f.name = fs[i].name /\ i \in DOMAIN fs /\ i # n + 1
          BY <1>3, <4>1 DEF Id
        <4>3. QED  BY <1>2, <1>3, <1>4, <4>2 DEF Distinct
      <3>3. Id(f) \in DOMAIN base.virtIndex /\ v.virtIndex[Id(f)] = base.virtIndex[Id(f)]
        BY <2>7, <3>2 DEF Counting
      <3>4. f.class # k
        <4>1. Id(f)[1] = f.class
          BY DEF Id
        <4>2. f.class \in 1 .. k - 1
          BY <3>3, <4>1 DEF Numbered
        <4>3. QED  BY <4>2
      <3>5. v.virtIndex[Id(f)] = Before(fs, n)
        BY <2>4, <2>5, <2>6, <3>3, <3>4
      <3>6. \A i \in 1 .. n + 1 : IsVirtual(fs[i]) =>
              Id(fs[i]) \in DOMAIN v.virtIndex /\ v.virtIndex[Id(fs[i])] = Before(fs, i - 1)
        <4>1. (n + 1) - 1 = n
          OBVIOUS
        <4>2. QED  BY <1>2, <1>6, <2>7, <3>5, <4>1 DEF Counting
      <3>7. \A id \in DOMAIN v.virtIndex :
              id \in DOMAIN base.virtIndex \/ \E i \in 1 .. n + 1 : id = Id(fs[i])
        <4>1. 1 .. n \subseteq 1 .. n + 1
          OBVIOUS
        <4>2. QED  BY <4>1 DEF Counting
      <3>8. QED  BY <1>2, <2>2, <2>3, <3>1, <3>6, <3>7 DEF Counting
    <2>8. CASE Id(f) \notin DOMAIN v.virtIndex
      <3>1. PICK x : x = VirtIndex(base, f, v.virtuals)
        OBVIOUS
      <3>2. x = Before(fs, n)
        <4>1. CASE f.kind = "virtual"
          BY <2>1, <3>1, <4>1 DEF VirtIndex
        <4>2. CASE f.kind # "virtual"
          <5>1. n + 1 <= Len(b)
            BY <2>6, <4>2
          <5>2. n + 1 \in DOMAIN b
            BY <1>3, <5>1
          <5>3. Of(b, f.name) = b[n + 1]
            <6>1. Of(b, b[n + 1].name) = b[n + 1]
              BY <1>3, <5>2, OfIs
            <6>2. QED  BY <2>4, <5>1, <6>1
          <5>4. x = base.virtIndex[Id(b[n + 1])]
            BY <1>1, <2>4, <3>1, <4>2, <5>1, <5>3 DEF VirtIndex, Id
          <5>5. QED  BY <2>5, <5>1, <5>4
        <4>3. QED  BY <4>1, <4>2
      <3>3. w.virtIndex = Over([i \in {Id(f)} |-> x], v.virtIndex)
        BY <1>8, <2>2, <2>8, <3>1 DEF Counted
      <3>4. /\ DOMAIN w.virtIndex = {Id(f)} \cup DOMAIN v.virtIndex
            /\ w.virtIndex[Id(f)] = x
            /\ \A id \in DOMAIN v.virtIndex : w.virtIndex[id] = v.virtIndex[id]
        BY <2>8, <3>3 DEF Over
      <3>5. \A i \in 1 .. n + 1 : IsVirtual(fs[i]) =>
              Id(fs[i]) \in DOMAIN w.virtIndex /\ w.virtIndex[Id(fs[i])] = Before(fs, i - 1)
        <4>1. (n + 1) - 1 = n
          OBVIOUS
        <4>2. QED  BY <1>2, <1>6, <3>2, <3>4, <4>1 DEF Counting
      <3>6. \A id \in DOMAIN w.virtIndex :
              id \in DOMAIN base.virtIndex \/ \E i \in 1 .. n + 1 : id = Id(fs[i])
        <4>1. 1 .. n \subseteq 1 .. n + 1 /\ n + 1 \in 1 .. n + 1
          OBVIOUS
        <4>2. QED  BY <1>2, <3>4, <4>1 DEF Counting
      <3>7. \A id \in DOMAIN base.virtIndex :
              id \in DOMAIN w.virtIndex /\ w.virtIndex[id] = base.virtIndex[id]
        BY <3>4 DEF Counting
      <3>8. QED  BY <1>2, <2>2, <2>3, <3>5, <3>6, <3>7 DEF Counting
    <2>9. QED  BY <2>7, <2>8
  <1>9. QED  BY <1>7, <1>8

LEMMA IndexedNumbers ==
  ASSUME NEW k \in Nat \ {0}, NEW base, base.membfuncs \in Seq(Entries(k - 1)),
         Distinct(base.membfuncs), Numbered(k - 1, base.membfuncs, base),
         NEW fs, Overlaid(base.membfuncs, k, fs)
  PROVE  Numbered(k, fs, Indexed(base, fs))
  <1>1. fs \in Seq(Entries(k)) /\ DOMAIN fs = 1 .. Len(fs) /\ Len(fs) \in Nat
    BY DEF Overlaid
  <1>2. PICK N \in Nat : N = Len(fs)
    BY <1>1
  <1>3. PICK f : IsCounts(base, fs, N, f) /\ Indexed(base, fs) = f[N]
    BY <1>2, IndexedIs
  <1> DEFINE S == {n \in 0 .. N : Counting(base, fs, n, f[n])}
  <1>4. 0 \in S
    <2>1. f[0] = [virtIndex |-> base.virtIndex, virtuals |-> 0]
      BY <1>3 DEF IsCounts
    <2>2. Before(fs, 0) = 0
      BY BeforeStep
    <2>3. QED  BY <2>1, <2>2 DEF Counting
  <1>5. ASSUME NEW n \in 0 .. N, n + 1 \in 0 .. N, n \in S
        PROVE  n + 1 \in S
    <2>1. n + 1 # 0 /\ (n + 1) - 1 = n /\ n + 1 \in 1 .. Len(fs) /\ n \in Nat
      BY <1>2, <1>5
    <2>2. f[n + 1] = Counted(base, fs[n + 1], f[(n + 1) - 1])
      BY <1>3, <1>5, <2>1, Zenon DEF IsCounts
    <2>3. Counting(base, fs, n, f[n])
      BY <1>5
    <2>4. Counting(base, fs, n + 1, Counted(base, fs[n + 1], f[n]))
      BY <2>1, <2>3, CountStep
    <2>5. QED  BY <1>5, <2>1, <2>2, <2>4
  <1>6. 0 .. N \subseteq S
    <2> HIDE DEF S
    <2>1. QED  BY <1>4, <1>5, Induction
  <1>7. Counting(base, fs, N, f[N])
    BY <1>6
  <1>8. PICK v : v = f[N]
    OBVIOUS
  <1>9. \A id \in DOMAIN v.virtIndex : id[1] \in 1 .. k
    <2>1. ASSUME NEW id \in DOMAIN v.virtIndex
          PROVE  id[1] \in 1 .. k
      <3>1. CASE id \in DOMAIN base.virtIndex
        BY <3>1 DEF Numbered
      <3>2. ASSUME NEW i \in 1 .. N, id = Id(fs[i])
            PROVE  id[1] \in 1 .. k
        <4>1. fs[i] \in Entries(k)
          BY <1>1, <1>2, ElementOfSeq
        <4>2. QED  BY <3>2, <4>1 DEF Id, Entries
      <3>3. QED  BY <1>7, <1>8, <3>1, <3>2 DEF Counting
    <2>2. QED  BY <2>1
  <1>10. QED  BY <1>1, <1>2, <1>3, <1>7, <1>8, <1>9 DEF Numbered, Counting

-----------------------------------------------------------------------------
(* Structures.                                                             *)

(* The provers do not know a literal to be a string. *)
Text  == STRING \cup {"", "vtable", "variant"}
Names == Nat \X Text
Field == [class : Nat, name : Text, static : BOOLEAN]

AreFields(cd, at, N) == \A n \in 0 .. N + Offset(cd) - 1 : at[n] \in Field

Starts(s, t) == Len(s) <= Len(t) /\ \A i \in 1 .. Len(s) : s[i] = t[i]

LEMMA StartsIsPrefix ==
  ASSUME NEW S, NEW s \in Seq(S), NEW t \in Seq(S), Starts(s, t)
  PROVE  IsPrefix(s, t)
  <1>1. PICK n \in Nat : n = Len(s) /\ n <= Len(t) /\ Len(t) \in Nat
    BY DEF Starts
  <1>2. \A i \in 1 .. n : s[i] \in S /\ t[i] \in S /\ s[i] = t[i]
    BY <1>1, ElementOfSeq DEF Starts
  <1>3. PICK u, v : u = SubSeq(s, 1, n) /\ v = SubSeq(t, 1, n)
    OBVIOUS
  <1>4. u \in Seq(S) /\ Len(u) = n /\ \A i \in 1 .. n : u[i] = s[i]
    <2>1. n - 1 + 1 = n /\ (IF 1 <= n THEN n - 1 + 1 ELSE 0) = n /\ n \in Int
      BY <1>1
    <2>2. \A i \in 1 .. n : 1 + i - 1 = i
      OBVIOUS
    <2>3. QED  BY <1>2, <1>3, <2>1, <2>2, SubSeqProperties
  <1>5. v \in Seq(S) /\ Len(v) = n /\ \A i \in 1 .. n : v[i] = t[i]
    <2>1. n - 1 + 1 = n /\ (IF 1 <= n THEN n - 1 + 1 ELSE 0) = n /\ n \in Int
      BY <1>1
    <2>2. \A i \in 1 .. n : 1 + i - 1 = i
      OBVIOUS
    <2>3. QED  BY <1>2, <1>3, <2>1, <2>2, SubSeqProperties
  <1>6. u = v
    BY <1>2, <1>4, <1>5, SeqEqual
  <1>7. QED  BY <1>1, <1>3, <1>6 DEF IsPrefix

LEMMA PrefixStarts ==
  ASSUME NEW S, NEW s \in Seq(S), NEW t \in Seq(S), IsPrefix(s, t)
  PROVE  Starts(s, t)
  <1>1. PICK n \in Nat : n = Len(s) /\ n <= Len(t) /\ Len(t) \in Nat
    BY DEF IsPrefix
  <1>2. \A i \in 1 .. n : s[i] \in S /\ t[i] \in S
    BY <1>1, ElementOfSeq
  <1>3. PICK u, v : u = SubSeq(s, 1, n) /\ v = SubSeq(t, 1, n)
    OBVIOUS
  <1>4. \A i \in 1 .. n : u[i] = s[i] /\ v[i] = t[i]
    <2>1. n - 1 + 1 = n /\ n \in Int
      BY <1>1
    <2>2. \A i \in 1 .. n : 1 + i - 1 = i
      OBVIOUS
    <2>3. QED  BY <1>2, <1>3, <2>1, <2>2, SubSeqProperties
  <1>5. u = v
    BY <1>1, <1>3 DEF IsPrefix
  <1>6. QED  BY <1>1, <1>4, <1>5 DEF Starts

LEMMA PrefixTransitive ==
  ASSUME NEW S, NEW s \in Seq(S), NEW t \in Seq(S), NEW u \in Seq(S),
         IsPrefix(s, t), IsPrefix(t, u)
  PROVE  IsPrefix(s, u)
  <1>1. Starts(s, t) /\ Starts(t, u)
    BY PrefixStarts
  <1>2. Len(s) \in Nat /\ Len(t) \in Nat /\ Len(u) \in Nat
    OBVIOUS
  <1>3. Starts(s, u)
    BY <1>1, <1>2 DEF Starts
  <1>4. QED  BY <1>3, StartsIsPrefix

LEMMA SlotsStep ==
  ASSUME NEW cd, NEW at, NEW N \in Nat, NEW f, IsSlots(cd, at, N, f)
  PROVE  /\ f[0] = First(cd)
         /\ \A n \in 0 .. N : n + 1 \in 0 .. N => f[n + 1] = Kept(at[n + Offset(cd)], f[n])
  <1>1. f[0] = First(cd)
    BY DEF IsSlots
  <1>2. ASSUME NEW n \in 0 .. N, n + 1 \in 0 .. N
        PROVE  f[n + 1] = Kept(at[n + Offset(cd)], f[n])
    <2>1. n + 1 # 0 /\ (n + 1) - 1 = n
      OBVIOUS
    <2>2. f[n + 1] = Kept(at[(n + 1) - 1 + Offset(cd)], f[(n + 1) - 1])
      BY <1>2, <2>1, Zenon DEF IsSlots
    <2>3. QED  BY <2>1, <2>2
  <1>3. QED  BY <1>1, <1>2

LEMMA SlotsType ==
  ASSUME NEW cd, NEW N \in Nat, NEW at, NEW f,
         IsSlots(cd, at, N, f), AreFields(cd, at, N)
  PROVE  \A n \in 0 .. N : f[n] \in Seq(Names)
  <1>1. \A n \in 0 .. N : n + 1 \in 0 .. N => f[n + 1] = Kept(at[n + Offset(cd)], f[n])
    <2>1. PICK a : a = at
      OBVIOUS
    <2>2. IsSlots(cd, a, N, f)
      BY <2>1
    <2>3. \A n \in 0 .. N : n + 1 \in 0 .. N => f[n + 1] = Kept(a[n + Offset(cd)], f[n])
      BY <2>2, SlotsStep
    <2>4. QED  BY <2>1, <2>3, Zenon
  <1> DEFINE S == {n \in 0 .. N : f[n] \in Seq(Names)}
  <1>2. 0 \in S
    <2>1. <<0, "vtable">> \in Names
      <3>1. 0 \in Nat /\ "vtable" \in Text
        BY DEF Text
      <3>2. QED  BY <3>1, Zenon DEF Names
    <2>2. <<<<0, "vtable">>>> \in Seq(Names) /\ <<>> \in Seq(Names)
      BY <2>1, EmptySeq
    <2>3. f[0] \in Seq(Names)
      BY <2>2, SlotsStep DEF First
    <2>4. QED  BY <2>3
  <1>3. ASSUME NEW n \in 0 .. N, n + 1 \in 0 .. N, n \in S
        PROVE  n + 1 \in S
    <2>1. PICK e : e = at[n + Offset(cd)]
      OBVIOUS
    <2>2. PICK s : s = f[n]
      OBVIOUS
    <2>3. Offset(cd) \in {0, 1}
      BY DEF Offset
    <2>4. n + Offset(cd) \in 0 .. N + Offset(cd) - 1
      BY <1>3, <2>3
    <2>5. e \in Field
      BY <2>1, <2>4 DEF AreFields
    <2>6. <<e.class, e.name>> \in Names
      BY <2>5 DEF Field, Names
    <2>7. Kept(e, s) \in Seq(Names)
      BY <1>3, <2>2, <2>6 DEF Kept
    <2>8. f[n + 1] = Kept(e, s)
      <3>1. f[n + 1] = Kept(at[n + Offset(cd)], f[n])
        BY <1>3, <1>1
      <3>2. QED  BY <2>1, <2>2, <3>1
    <2>9. QED  BY <1>3, <2>7, <2>8
  <1>4. 0 .. N \subseteq S
    <2> HIDE DEF S
    <2>1. QED  BY <1>2, <1>3, Induction
  <1>5. QED  BY <1>4

LEMMA SlotsGrow ==
  ASSUME NEW cd, NEW N \in Nat, NEW at, NEW f, NEW m \in 0 .. N,
         IsSlots(cd, at, N, f), AreFields(cd, at, N)
  PROVE  Starts(f[m], f[N])
  <1>1. \A n \in 0 .. N : n + 1 \in 0 .. N => f[n + 1] = Kept(at[n + Offset(cd)], f[n])
    <2>1. PICK a : a = at
      OBVIOUS
    <2>2. IsSlots(cd, a, N, f)
      BY <2>1
    <2>3. \A n \in 0 .. N : n + 1 \in 0 .. N => f[n + 1] = Kept(a[n + Offset(cd)], f[n])
      BY <2>2, SlotsStep
    <2>4. QED  BY <2>1, <2>3, Zenon
  <1> DEFINE S == {n \in 0 .. N : m <= n => Starts(f[m], f[n])}
  <1>2. \A n \in 0 .. N : f[n] \in Seq(Names) /\ Len(f[n]) \in Nat
    BY SlotsType
  <1>3. 0 \in S
    <2>1. m <= 0 => m = 0
      OBVIOUS
    <2>2. QED  BY <1>2, <2>1 DEF Starts
  <1>4. ASSUME NEW n \in 0 .. N, n + 1 \in 0 .. N, n \in S
        PROVE  n + 1 \in S
    <2>1. PICK s, t, u : s = f[m] /\ t = f[n] /\ u = f[n + 1]
      OBVIOUS
    <2>2. s \in Seq(Names) /\ t \in Seq(Names) /\ u \in Seq(Names)
      BY <1>2, <1>4, <2>1
    <2>3. CASE m <= n
      <3>1. Starts(s, t)
        BY <1>4, <2>1, <2>3
      <3>2. PICK x : u = t \/ u = Append(t, x)
        <4>1. f[n + 1] = Kept(at[n + Offset(cd)], f[n])
          BY <1>4, <1>1
        <4>2. u = Kept(at[n + Offset(cd)], t)
          BY <2>1, <4>1
        <4>3. QED  BY <4>2 DEF Kept
      <3>3. Starts(s, u)
        BY <2>2, <3>1, <3>2 DEF Starts
      <3>4. QED  BY <1>4, <2>1, <3>3
    <2>4. CASE ~(m <= n)
      <3>1. m <= n + 1 => m = n + 1
        BY <2>4
      <3>2. Starts(u, u)
        BY <2>2 DEF Starts
      <3>3. QED  BY <1>4, <2>1, <3>1, <3>2
    <2>5. QED  BY <2>3, <2>4
  <1>5. 0 .. N \subseteq S
    <2> HIDE DEF S
    <2>1. QED  BY <1>3, <1>4, Induction
  <1>6. N \in S /\ m <= N
    BY <1>5
  <1>7. QED  BY <1>6

(* The slots of the fields that a class has from its base.                 *)
LEMMA SlotsSame ==
  ASSUME NEW b, NEW cd, NEW M \in Nat, NEW N \in Nat, M <= N, NEW at, NEW bt,
         NEW f, NEW g, IsSlots(b, bt, M, f), IsSlots(cd, at, N, g),
         HasVTable(b) = HasVTable(cd),
         \A n \in 0 .. M + Offset(b) - 1 : at[n] = bt[n]
  PROVE  f[M] = g[M]
  <1> DEFINE S == {n \in 0 .. M : f[n] = g[n]}
  <1>1. Offset(b) = Offset(cd) /\ First(b) = First(cd) /\ Offset(b) \in {0, 1}
    BY DEF Offset, First
  <1>2. 0 \in S
    <2>1. f[0] = First(b) /\ g[0] = First(cd)
      BY SlotsStep
    <2>2. QED  BY <1>1, <2>1
  <1>3. ASSUME NEW n \in 0 .. M, n + 1 \in 0 .. M, n \in S
        PROVE  n + 1 \in S
    <2>1. n \in 0 .. N /\ n + 1 \in 0 .. N
      BY <1>3
    <2>2. PICK o : o = Offset(b)
      OBVIOUS
    <2>3. n + o \in 0 .. M + o - 1
      BY <1>1, <1>3, <2>2
    <2>4. at[n + o] = bt[n + o]
      BY <2>2, <2>3
    <2>5. f[n + 1] = Kept(bt[n + o], f[n]) /\ g[n + 1] = Kept(at[n + o], g[n])
      BY <1>1, <1>3, <2>1, <2>2, SlotsStep
    <2>6. QED  BY <1>3, <2>4, <2>5
  <1>4. 0 .. M \subseteq S
    <2> HIDE DEF S
    <2>1. QED  BY <1>2, <1>3, Induction
  <1>5. M \in 0 .. M
    OBVIOUS
  <1>6. QED  BY <1>4, <1>5

-----------------------------------------------------------------------------
(* One class over its base.                                                *)

LEMMA Least ==
  ASSUME NEW S \in SUBSET Nat, S # {}
  PROVE  Min(S) \in S
  <1>1. PICK x \in S : \A y \in S : <<y, x>> \notin OpToRel(<, Nat)
    BY WFMin, NatLessThanWellFounded, Zenon
  <1>2. \A y \in S : x <= y
    <2>1. ASSUME NEW y \in S
          PROVE  x <= y
      <3>1. x \in Nat /\ y \in Nat /\ ~(y < x)
        BY <1>1 DEF OpToRel
      <3>2. QED  BY <3>1
    <2>2. QED  BY <2>1
  <1>3. QED  BY <1>2, Zenon DEF Min

FieldDecls == [name : STRING, static : BOOLEAN]

LEMMA ElementsAre ==
  ASSUME NEW k \in Nat, NEW b, NEW cd, NEW fields \in Seq(FieldDecls),
         b.fieldCount \in Nat, AreFields(b, b.element, b.fieldCount),
         cd.fieldCount = b.fieldCount + Len(fields), HasVTable(b) => HasVTable(cd)
  PROVE  /\ AreFields(cd, Elements(b, cd, k, fields), cd.fieldCount)
         /\ \A n \in 0 .. b.fieldCount + Offset(b) - 1 :
              Elements(b, cd, k, fields)[n] = b.element[n]
  <1>1. PICK M \in Nat, L \in Nat, N \in Nat : /\ M = b.fieldCount /\ L = Len(fields)
                                               /\ N = cd.fieldCount /\ N = M + L
    OBVIOUS
  <1>2. PICK o \in {0, 1}, p \in {0, 1} : o = Offset(cd) /\ p = Offset(b) /\ p <= o
    BY DEF Offset
  <1>3. PICK at : at = Elements(b, cd, k, fields)
    OBVIOUS
  <1>4. ASSUME NEW n \in 0 .. N + o - 1, n < M + p
        PROVE  at[n] = b.element[n]
    BY <1>1, <1>2, <1>3, <1>4 DEF Elements
  <1>5. ASSUME NEW n \in 0 .. N + o - 1
        PROVE  at[n] \in Field
    <2>1. CASE n < M + p
      <3>1. n \in 0 .. M + p - 1
        BY <2>1
      <3>2. b.element[n] \in Field
        BY <1>1, <1>2, <3>1 DEF AreFields
      <3>3. QED  BY <1>4, <2>1, <3>2
    <2>2. CASE ~(n < M + p) /\ n - (M + o) >= 0
      <3>1. PICK i \in 1 .. L : i = n - (M + o) + 1
        <4>1. N = M + L
          BY <1>1
        <4>2. o \in Nat
          OBVIOUS
        <4>3. n \in Nat /\ n <= N + o - 1
          BY <4>2
        <4>4. n - (M + o) + 1 \in 1 .. L
          BY <2>2, <4>1, <4>2, <4>3
        <4>5. QED  BY <4>4
      <3>2. fields[i].name \in STRING /\ fields[i].static \in BOOLEAN
        <4>1. fields[i] \in FieldDecls
          BY <1>1, ElementOfSeq
        <4>2. QED  BY <4>1 DEF FieldDecls
      <3>3. at[n] = [class |-> k, name |-> fields[i].name, static |-> fields[i].static]
        BY <1>1, <1>2, <1>3, <2>2, <3>1 DEF Elements
      <3>4. PICK name, static : name = fields[i].name /\ static = fields[i].static
        OBVIOUS
      <3>5. k \in Nat /\ name \in Text /\ static \in BOOLEAN
        BY <3>2, <3>4, Zenon DEF Text
      <3>6. QED  BY <3>3, <3>4, <3>5 DEF Field
    <2>3. CASE ~(n < M + p) /\ ~(n - (M + o) >= 0)
      <3>1. at[n] = Undefined
        BY <1>1, <1>2, <1>3, <2>3 DEF Elements
      <3>2. 0 \in Nat /\ "" \in Text /\ FALSE \in BOOLEAN
        BY DEF Text
      <3>3. PICK zero, name, static : zero = 0 /\ name = "" /\ static = FALSE
        OBVIOUS
      <3>4. at[n] = [class |-> zero, name |-> name, static |-> static]
        BY <3>1, <3>3, Zenon DEF Undefined
      <3>5. zero \in Nat /\ name \in Text /\ static \in BOOLEAN
        BY <3>2, <3>3, Zenon
      <3>6. QED  BY <3>4, <3>5 DEF Field
    <2>4. QED  BY <2>1, <2>2, <2>3
  <1>6. AreFields(cd, at, N)
    BY <1>2, <1>5 DEF AreFields
  <1>7. ASSUME NEW n \in 0 .. M + p - 1
        PROVE  at[n] = b.element[n]
    <2>1. n \in 0 .. N + o - 1 /\ n < M + p
      BY <1>1, <1>2
    <2>2. QED  BY <1>4, <2>1
  <1>8. QED  BY <1>1, <1>2, <1>3, <1>6, <1>7

LEMMA ElementsOfAre ==
  ASSUME NEW b, NEW cd, NEW fields \in Seq(FieldDecls),
         b.fieldCount \in Nat, cd.fieldCount = b.fieldCount + Len(fields),
         HasVTable(b) => HasVTable(cd), HasVTable(cd) => HasVTable(b) \/ b.fieldCount = 0,
         \A f \in DOMAIN b.elementOf :
            b.elementOf[f] \in Offset(b) .. b.fieldCount + Offset(b) - 1
  PROVE  /\ DOMAIN ElementsOf(b, cd, fields) = NamesOf(fields) \cup DOMAIN b.elementOf
         /\ \A f \in DOMAIN ElementsOf(b, cd, fields) :
              ElementsOf(b, cd, fields)[f] \in Offset(cd) .. cd.fieldCount + Offset(cd) - 1
  <1>1. PICK M \in Nat, L \in Nat, N \in Nat : /\ M = b.fieldCount /\ L = Len(fields)
                                               /\ N = cd.fieldCount /\ N = M + L
    OBVIOUS
  <1>2. PICK o \in {0, 1}, p \in {0, 1} : o = Offset(cd) /\ p = Offset(b) /\ p <= o
    BY DEF Offset
  <1>3. p # o => M = 0
    BY <1>1, <1>2 DEF Offset
  <1>4. PICK own : own = [f \in NamesOf(fields) |->
                            SelectInSeq(fields, LAMBDA d : d.name = f) - 1 + b.fieldCount + Offset(cd)]
    OBVIOUS
  <1>5. PICK of : of = ElementsOf(b, cd, fields) /\ of = Over(own, b.elementOf)
    BY <1>4 DEF ElementsOf
  <1>6. /\ DOMAIN of = NamesOf(fields) \cup DOMAIN b.elementOf
        /\ \A f \in DOMAIN of : of[f] = IF f \in NamesOf(fields) THEN own[f] ELSE b.elementOf[f]
    BY <1>4, <1>5 DEF Over
  <1>7. ASSUME NEW f \in DOMAIN of
        PROVE  of[f] \in o .. N + o - 1
    <2>1. CASE f \in NamesOf(fields)
      <3>1. PICK I \in SUBSET Nat : I = {i \in 1 .. Len(fields) : fields[i].name = f}
        <4>1. {i \in 1 .. Len(fields) : fields[i].name = f} \subseteq Nat
          OBVIOUS
        <4>2. QED  BY <4>1, Zenon
      <3>2. I # {}
        BY <1>1, <2>1, <3>1 DEF NamesOf
      <3>3. PICK m \in I : m = Min(I)
        BY <3>1, <3>2, Least
      <3>4. SelectInSeq(fields, LAMBDA d : d.name = f) = m
        BY <3>1, <3>2, <3>3 DEF SelectInSeq
      <3>5. own[f] = m - 1 + M + o
        BY <1>1, <1>2, <1>4, <2>1, <3>4
      <3>6. m \in 1 .. L
        BY <1>1, <3>1, <3>3
      <3>7. m - 1 + M + o \in o .. N + o - 1
        BY <1>1, <3>6
      <3>8. QED  BY <1>6, <2>1, <3>5, <3>7
    <2>2. CASE f \notin NamesOf(fields)
      <3>1. of[f] = b.elementOf[f] /\ b.elementOf[f] \in p .. M + p - 1
        BY <1>1, <1>2, <1>6, <2>2
      <3>2. p = o
        BY <1>3, <3>1
      <3>3. p .. M + p - 1 \subseteq o .. N + o - 1
        BY <1>1, <3>2
      <3>4. QED  BY <3>1, <3>3
    <2>3. QED  BY <2>1, <2>2
  <1>8. QED  BY <1>1, <1>2, <1>5, <1>6, <1>7

(* The function at an index is the one that has the index.                 *)
LEMMA VTableIs ==
  ASSUME NEW k \in Nat, NEW cd, cd.membfuncs \in Seq(Entries(k)),
         Numbered(k, cd.membfuncs, cd)
  PROVE  /\ DOMAIN VTable(cd) = 0 .. Before(cd.membfuncs, Len(cd.membfuncs)) - 1
         /\ \A n \in DOMAIN VTable(cd) : VTable(cd)[n] \in 1 .. k
         /\ \A i \in DOMAIN cd.membfuncs : IsVirtual(cd.membfuncs[i]) =>
              VTable(cd)[Before(cd.membfuncs, i - 1)] = cd.membfuncs[i].class
  <1>1. PICK fs : fs = cd.membfuncs
    OBVIOUS
  <1>2. fs \in Seq(Entries(k)) /\ Len(fs) \in Nat /\ DOMAIN fs = 1 .. Len(fs)
    BY <1>1
  <1>3. PICK V \in Nat : V = cd.virtuals /\ V = Before(fs, Len(fs))
    BY <1>1, <1>2, BeforeStep DEF Numbered
  <1> DEFINE Virtuals == {i \in DOMAIN fs : IsVirtual(fs[i])}
             At(n) == {i \in Virtuals : cd.virtIndex[<<fs[i].class, fs[i].name>>] = n}
  <1>4. VTable(cd) = [n \in 0 .. V - 1 |-> IF At(n) = {} THEN 0 ELSE fs[Max(At(n))].class]
    BY <1>1, <1>3 DEF VTable
  <1>5. ASSUME NEW i \in DOMAIN fs, IsVirtual(fs[i])
        PROVE  /\ Before(fs, i - 1) \in 0 .. V - 1
               /\ At(Before(fs, i - 1)) = {i}
    <2>1. PICK m \in Nat : i = m + 1 /\ i - 1 = m /\ m < Len(fs)
      <3>1. i - 1 \in Nat /\ i = (i - 1) + 1 /\ i - 1 < Len(fs)
        BY <1>2
      <3>2. QED  BY <3>1
    <2>2. Before(fs, m) < V
      <3>1. Before(fs, m + 1) = Before(fs, m) + 1 /\ Before(fs, m) \in Nat
        BY <1>5, <2>1, BeforeStep
      <3>2. Before(fs, m + 1) <= V
        <4>1. m + 1 \in Nat /\ m + 1 <= Len(fs)
          BY <1>2, <2>1
        <4>2. QED  BY <1>2, <1>3, <4>1, BeforeGrows
      <3>3. QED  BY <3>1, <3>2
    <2>3. Before(fs, m) \in 0 .. V - 1
      BY <2>1, <2>2, BeforeStep
    <2>4. \A j \in Virtuals : cd.virtIndex[<<fs[j].class, fs[j].name>>] = Before(fs, j - 1)
      BY <1>1 DEF Numbered, Id
    <2>5. ASSUME NEW j \in Virtuals, Before(fs, j - 1) = Before(fs, i - 1)
          PROVE  j = i
      <3>1. i \in Nat \ {0} /\ j \in Nat \ {0}
        BY <1>2
      <3>2. \A x \in Nat : Before(fs, x) \in Nat
        BY BeforeStep
      <3>3. i - 1 \in Nat /\ j - 1 \in Nat
        BY <3>1
      <3>4. PICK x \in Nat, y \in Nat : x = Before(fs, i - 1) /\ y = Before(fs, j - 1) /\ x = y
        BY <2>5, <3>2, <3>3
      <3>5. ~(i < j)
        <4>1. i < j => x < y
          BY <1>5, <3>1, <3>4, BeforeOnce
        <4>2. QED  BY <3>4, <4>1
      <3>6. ~(j < i)
        <4>1. IsVirtual(fs[j])
          OBVIOUS
        <4>2. j < i => y < x
          BY <3>1, <3>4, <4>1, BeforeOnce
        <4>3. QED  BY <3>4, <4>2
      <3>7. QED  BY <3>1, <3>5, <3>6
    <2>6. At(Before(fs, i - 1)) = {i}
      <3>1. i \in Virtuals
        BY <1>5
      <3>2. QED  BY <2>4, <2>5, <3>1
    <2>7. QED  BY <2>1, <2>3, <2>6
  <1>6. ASSUME NEW i \in DOMAIN fs, IsVirtual(fs[i])
        PROVE  VTable(cd)[Before(fs, i - 1)] = fs[i].class
    <2>1. PICK n : n = Before(fs, i - 1)
      OBVIOUS
    <2>2. n \in 0 .. V - 1 /\ At(n) = {i}
      BY <1>5, <1>6, <2>1
    <2>3. Max({i}) = i
      BY <1>2, OnlyOne
    <2> HIDE DEF At
    <2>4. QED  BY <1>4, <2>1, <2>2, <2>3
  <1>7. ASSUME NEW n \in 0 .. V - 1
        PROVE  VTable(cd)[n] \in 1 .. k
    <2>1. PICK i \in 1 .. Len(fs) : IsVirtual(fs[i]) /\ Before(fs, i - 1) = n
      <3>1. n \in Nat /\ n < Before(fs, Len(fs))
        BY <1>3
      <3>2. QED  BY <1>2, <3>1, BeforeHits
    <2>2. fs[i] \in Entries(k)
      BY <1>2, ElementOfSeq
    <2>3. VTable(cd)[n] = fs[i].class
      BY <1>2, <1>6, <2>1
    <2>4. QED  BY <2>2, <2>3 DEF Entries
  <1>8. DOMAIN VTable(cd) = 0 .. V - 1
    BY <1>4
  <1>9. QED  BY <1>1, <1>3, <1>6, <1>7, <1>8

(* A ClassDecl of the k-th class at the most.                              *)
Good(k, cd) ==
  /\ cd.membfuncs \in Seq(Entries(k)) /\ Distinct(cd.membfuncs)
  /\ Numbered(k, cd.membfuncs, cd)
  /\ cd.fieldCount \in Nat /\ AreFields(cd, cd.element, cd.fieldCount)
  /\ \A f \in DOMAIN cd.elementOf :
       cd.elementOf[f] \in Offset(cd) .. cd.fieldCount + Offset(cd) - 1

(* The k-th class, laid out over its base.                                 *)
Laid(k, b, cd, fields, variant) ==
  /\ Len(fields) \in Nat /\ cd.fieldCount = b.fieldCount + Len(fields)
  /\ HasVTable(b) => HasVTable(cd)
  /\ HasVTable(cd) => HasVTable(b) \/ b.fieldCount = 0
  /\ \A n \in 0 .. b.fieldCount + Offset(b) - 1 : cd.element[n] = b.element[n]
  /\ DOMAIN cd.elementOf = NamesOf(fields) \cup DOMAIN b.elementOf
  /\ ~Named(fields, "variant")
  /\ variant => ~HasVTable(cd)
  /\ IsStructure(cd, cd.element, k, variant, cd.structure)
  /\ \A n \in DOMAIN cd.vtable : cd.vtable[n] \in 1 .. k

LEMMA NoneIsGood == Good(0, None)
  <1>1. /\ None.membfuncs = <<>> /\ None.virtIndex = <<>> /\ None.virtuals = 0
        /\ None.fieldCount = 0 /\ None.elementOf = <<>>
    BY DEF None
  <1>2. Len(<<>>) = 0 /\ DOMAIN <<>> = {}
    OBVIOUS
  <1>3. <<>> \in Seq(Entries(0)) /\ Distinct(<<>>)
    BY <1>2, EmptySeq DEF Distinct
  <1>4. Before(<<>>, 0) = 0
    BY BeforeStep
  <1>5. Numbered(0, <<>>, None)
    BY <1>1, <1>2, <1>4 DEF Numbered
  <1>6. Offset(None) = 0
    BY <1>1 DEF Offset, HasVTable
  <1>7. AreFields(None, None.element, 0)
    <2>1. 0 .. 0 + 0 - 1 = {}
      OBVIOUS
    <2>2. QED  BY <1>6, <2>1 DEF AreFields
  <1>8. QED  BY <1>1, <1>2, <1>3, <1>5, <1>7 DEF Good

LEMMA GoodForMore ==
  ASSUME NEW j \in Nat, NEW k \in Nat, j <= k, NEW cd, Good(j, cd)
  PROVE  Good(k, cd)
  <1>1. 1 .. j \subseteq 1 .. k
    OBVIOUS
  <1>2. Entries(j) \subseteq Entries(k)
    BY <1>1 DEF Entries
  <1>3. cd.membfuncs \in Seq(Entries(k))
    BY <1>2, SeqMonotonic DEF Good
  <1>4. Numbered(k, cd.membfuncs, cd)
    BY <1>1 DEF Good, Numbered
  <1>5. QED  BY <1>3, <1>4 DEF Good

LEMMA VTableBefore ==
  ASSUME NEW k \in Nat, NEW cd, Good(k, cd)
  PROVE  HasVTable(cd) <=> Before(cd.membfuncs, Len(cd.membfuncs)) > 0
  BY DEF Good, Numbered, HasVTable

LEMMA ClassIsLaid ==
  ASSUME NEW k \in Nat \ {0}, NEW b, Good(k - 1, b), NEW d \in Declarations,
         Overlay(b.membfuncs, d.methods), NEW cd, cd = ClassDecl(b, k, d),
         HasVTable(cd) => HasVTable(b) \/ b.fieldCount = 0, d.variant => ~HasVTable(cd)
  PROVE  Good(k, cd) /\ Laid(k, b, cd, d.fields, d.variant)
  <1>1. PICK fields, methods : /\ fields = d.fields /\ methods = d.methods
                               /\ fields \in Seq(FieldDecls)
                               /\ methods \in Seq([name : STRING, kind : MethodKinds])
                               /\ ~Named(fields, "variant")
    BY ObjectsAssumption DEF FieldDecls, MethodKinds
  <1>2. PICK fs, v : fs = MembFuncs(b, k, methods) /\ v = Indexed(b, fs)
    OBVIOUS
  <1>3. PICK part : part = [membfuncs |-> fs, fieldCount |-> b.fieldCount + Len(fields),
                            virtIndex |-> v.virtIndex, virtuals |-> v.virtuals]
    OBVIOUS
  <1>4. PICK at : at = Elements(b, part, k, fields)
    OBVIOUS
  <1>5. /\ cd.membfuncs = fs /\ cd.fieldCount = part.fieldCount
        /\ cd.virtIndex = v.virtIndex /\ cd.virtuals = v.virtuals /\ cd.element = at
        /\ cd.elementOf = ElementsOf(b, part, fields)
        /\ cd.structure = Structure(part, at, k, d.variant) /\ cd.vtable = VTable(part)
    BY <1>1, <1>2, <1>3, <1>4 DEF ClassDecl
  <1>6. /\ part.membfuncs = fs /\ part.fieldCount = b.fieldCount + Len(fields)
        /\ part.virtIndex = v.virtIndex /\ part.virtuals = v.virtuals
    BY <1>3
  <1>7. b.membfuncs \in Seq(Entries(k - 1)) /\ Distinct(b.membfuncs)
        /\ Numbered(k - 1, b.membfuncs, b) /\ b.fieldCount \in Nat
        /\ AreFields(b, b.element, b.fieldCount)
    BY DEF Good
  <1>8. Overlaid(b.membfuncs, k, fs)
    BY <1>1, <1>2, <1>7, MembFuncsOverlaid
  <1>9. Numbered(k, fs, v)
    BY <1>2, <1>7, <1>8, IndexedNumbers
  <1>10. fs \in Seq(Entries(k)) /\ Distinct(fs)
    BY <1>8 DEF Overlaid
  <1>11. Numbered(k, fs, cd) /\ Numbered(k, fs, part)
    BY <1>5, <1>6, <1>9 DEF Numbered
  <1>12. HasVTable(cd) = HasVTable(part) /\ Offset(cd) = Offset(part) /\ First(cd) = First(part)
    BY <1>5, <1>6 DEF HasVTable, Offset, First
  <1>13. HasVTable(b) => HasVTable(cd)
    <2>1. PICK bs : bs = b.membfuncs
      OBVIOUS
    <2>2. PICK l \in Nat, m \in Nat : l = Len(bs) /\ m = Len(fs) /\ l <= m
      BY <1>7, <1>8, <1>10, <2>1 DEF Overlaid
    <2>3. Before(bs, l) = Before(fs, l)
      <3>1. \A i \in 1 .. l : IsVirtual(bs[i]) = IsVirtual(fs[i])
        BY <1>8, <2>1, <2>2 DEF Overlaid
      <3>2. QED  BY <3>1, BeforeSame
    <2>4. Before(fs, l) <= Before(fs, m) /\ Before(fs, l) \in Nat /\ Before(fs, m) \in Nat
      BY <2>2, BeforeGrows, BeforeStep
    <2>5. b.virtuals = Before(bs, l) /\ cd.virtuals = Before(fs, m)
      BY <1>7, <1>11, <2>1, <2>2 DEF Numbered
    <2>6. QED  BY <2>3, <2>4, <2>5 DEF HasVTable
  <1>14. Len(fields) \in Nat /\ part.fieldCount \in Nat
    BY <1>1, <1>6, <1>7
  <1>15. /\ AreFields(part, at, part.fieldCount)
         /\ \A n \in 0 .. b.fieldCount + Offset(b) - 1 : at[n] = b.element[n]
    BY <1>1, <1>4, <1>6, <1>7, <1>12, <1>13, ElementsAre
  <1>16. AreFields(cd, at, part.fieldCount)
    BY <1>12, <1>15 DEF AreFields
  <1>17. /\ DOMAIN cd.elementOf = NamesOf(fields) \cup DOMAIN b.elementOf
         /\ \A f \in DOMAIN cd.elementOf :
              cd.elementOf[f] \in Offset(cd) .. cd.fieldCount + Offset(cd) - 1
    <2>1. \A f \in DOMAIN b.elementOf :
            b.elementOf[f] \in Offset(b) .. b.fieldCount + Offset(b) - 1
      BY DEF Good
    <2>2. /\ HasVTable(b) => HasVTable(part)
          /\ HasVTable(part) => HasVTable(b) \/ b.fieldCount = 0
      BY <1>12, <1>13
    <2>3. PICK of : of = ElementsOf(b, part, fields)
      OBVIOUS
    <2>4. /\ DOMAIN of = NamesOf(fields) \cup DOMAIN b.elementOf
          /\ \A f \in DOMAIN of : of[f] \in Offset(part) .. part.fieldCount + Offset(part) - 1
      BY <1>1, <1>6, <1>7, <2>1, <2>2, <2>3, ElementsOfAre
    <2>5. QED  BY <1>5, <1>12, <2>3, <2>4
  <1>18. Good(k, cd)
    BY <1>5, <1>10, <1>11, <1>14, <1>16, <1>17 DEF Good
  <1>19. IsStructure(cd, cd.element, k, d.variant, cd.structure)
    <2>1. PICK s : s = Structure(part, at, k, d.variant)
      OBVIOUS
    <2>2. IsStructure(part, at, k, d.variant, s)
      BY <1>14, <2>1, StructureIs
    <2>3. PICK f : /\ IsSlots(part, at, part.fieldCount, f)
                   /\ s = IF d.variant THEN Append(f[part.fieldCount], <<k, "variant">>)
                          ELSE f[part.fieldCount]
      BY <2>2 DEF IsStructure
    <2>4. IsSlots(cd, at, part.fieldCount, f)
      BY <1>12, <2>3 DEF IsSlots
    <2>5. QED  BY <1>5, <2>1, <2>3, <2>4 DEF IsStructure
  <1>20. \A n \in DOMAIN cd.vtable : cd.vtable[n] \in 1 .. k
    BY <1>5, <1>6, <1>10, <1>11, VTableIs
  <1>21. Laid(k, b, cd, fields, d.variant)
    BY <1>1, <1>5, <1>6, <1>13, <1>14, <1>15, <1>17, <1>19, <1>20 DEF Laid
  <1>22. QED  BY <1>1, <1>18, <1>21

LEMMA StructureType ==
  ASSUME NEW k \in Nat, NEW cd, Good(k, cd), NEW l \in Nat, NEW variant,
         NEW s, IsStructure(cd, cd.element, l, variant, s)
  PROVE  s \in Seq(Names)
  <1>1. PICK N \in Nat : N = cd.fieldCount /\ AreFields(cd, cd.element, N)
    BY DEF Good
  <1>2. PICK at : N = cd.fieldCount /\ at = cd.element /\ AreFields(cd, at, N)
    BY <1>1
  <1>3. PICK f : IsSlots(cd, at, N, f) /\ s = IF variant THEN Append(f[N], <<l, "variant">>) ELSE f[N]
    BY <1>2 DEF IsStructure
  <1>4. f[N] \in Seq(Names)
    <2>1. IsSlots(cd, at, N, f) /\ AreFields(cd, at, N)
      BY <1>2, <1>3
    <2>2. \A n \in 0 .. N : f[n] \in Seq(Names)
      BY <2>1, SlotsType
    <2>3. QED  BY <2>2
  <1>5. <<l, "variant">> \in Names
    <2>1. "variant" \in Text
      BY DEF Text
    <2>2. QED  BY <2>1, Zenon DEF Names
  <1>6. PICK t, x : t = f[N] /\ x = <<l, "variant">>
    OBVIOUS
  <1>7. t \in Seq(Names) /\ x \in Names
    BY <1>4, <1>5, <1>6
  <1>8. QED  BY <1>3, <1>6, <1>7

(* The slots of a base without a variant part come first.                  *)
LEMMA BaseSlotsFirst ==
  ASSUME NEW j \in Nat, NEW k \in Nat, NEW b, NEW cd, Good(j, b), Good(k, cd),
         NEW fields, NEW variant, Laid(k, b, cd, fields, variant),
         NEW l, IsStructure(b, b.element, l, FALSE, b.structure)
  PROVE  Starts(b.structure, cd.structure)
  <1>1. PICK M \in Nat : M = b.fieldCount /\ AreFields(b, b.element, M)
    BY DEF Good
  <1>2. PICK bt : M = b.fieldCount /\ bt = b.element /\ AreFields(b, bt, M)
    BY <1>1
  <1>3. PICK N \in Nat : N = cd.fieldCount /\ AreFields(cd, cd.element, N)
    BY DEF Good
  <1>4. PICK at : N = cd.fieldCount /\ at = cd.element /\ AreFields(cd, at, N)
    BY <1>3
  <1>5. M <= N
    <2>1. PICK L \in Nat : L = Len(fields)
      BY DEF Laid
    <2>2. N = M + L
      BY <1>2, <1>4, <2>1 DEF Laid
    <2>3. QED  BY <2>2
  <1>6. PICK f : IsSlots(b, bt, M, f) /\ b.structure = f[M]
    BY <1>2 DEF IsStructure
  <1>7. PICK g : /\ IsSlots(cd, at, N, g)
                 /\ cd.structure = IF variant THEN Append(g[N], <<k, "variant">>) ELSE g[N]
    BY <1>4 DEF IsStructure, Laid
  <1>8. f[M] \in Seq(Names) /\ g[M] \in Seq(Names) /\ g[N] \in Seq(Names)
    <2>1. \A n \in 0 .. M : f[n] \in Seq(Names)
      BY <1>2, <1>6, SlotsType
    <2>2. \A n \in 0 .. N : g[n] \in Seq(Names)
      BY <1>4, <1>7, SlotsType
    <2>3. M \in 0 .. M /\ M \in 0 .. N /\ N \in 0 .. N
      BY <1>5
    <2>4. QED  BY <2>1, <2>2, <2>3
  <1>9. Starts(f[M], g[N])
    <2>1. CASE HasVTable(b) = HasVTable(cd)
      <3>1. \A n \in 0 .. M + Offset(b) - 1 : at[n] = bt[n]
        BY <1>2, <1>4 DEF Laid
      <3>2. f[M] = g[M]
        BY <1>5, <1>6, <1>7, <2>1, <3>1, SlotsSame
      <3>3. Starts(g[M], g[N])
        <4>1. M \in 0 .. N
          BY <1>5
        <4>2. QED  BY <1>4, <1>7, <4>1, SlotsGrow
      <3>4. QED  BY <3>2, <3>3
    <2>2. CASE ~HasVTable(b) /\ HasVTable(cd)
      <3>1. M = 0
        BY <1>2, <2>2 DEF Laid
      <3>2. f[0] = First(b)
        BY <1>6, SlotsStep
      <3>3. f[M] = <<>>
        BY <2>2, <3>1, <3>2 DEF First
      <3>4. Starts(<<>>, g[N])
        BY <1>8 DEF Starts
      <3>5. QED  BY <3>3, <3>4
    <2>3. HasVTable(b) \in BOOLEAN /\ HasVTable(cd) \in BOOLEAN
      BY DEF HasVTable
    <2>4. QED  BY <2>1, <2>2, <2>3 DEF Laid
  <1>10. PICK s, t, x : s = f[M] /\ t = g[N] /\ x = <<k, "variant">>
    OBVIOUS
  <1>11. Starts(s, t) /\ s \in Seq(Names) /\ t \in Seq(Names) /\ Len(s) \in Nat /\ Len(t) \in Nat
    BY <1>8, <1>9, <1>10
  <1>12. Starts(s, Append(t, x))
    <2>1. /\ Len(Append(t, x)) = Len(t) + 1
          /\ \A i \in 1 .. Len(t) : Append(t, x)[i] = t[i]
      BY <1>11
    <2>2. \A i \in 1 .. Len(s) : i \in 1 .. Len(t)
      BY <1>11 DEF Starts
    <2>3. QED  BY <1>11, <2>1, <2>2 DEF Starts
  <1>13. cd.structure = IF variant THEN Append(t, x) ELSE t
    BY <1>7, <1>10
  <1>14. QED  BY <1>6, <1>10, <1>11, <1>12, <1>13

-----------------------------------------------------------------------------
(* The classes of a program.                                               *)

DeclOf(ds, j) == IF j = 0 THEN None ELSE ds[j]

Hierarchy(cs, ds) ==
  /\ Bases(cs) /\ Len(ds) = Len(cs)
  /\ \A k \in 1 .. Len(cs) :
       /\ Good(k, ds[k])
       /\ Laid(k, DeclOf(ds, cs[k].base), ds[k], cs[k].fields, cs[k].variant)
       /\ cs[k].base # 0 => ~cs[cs[k].base].variant

(* What a class has of one that it derives from.                           *)
Above(cs, ds, j, k) ==
  /\ Starts(ds[j].structure, ds[k].structure)
  /\ ds[j].fieldCount <= ds[k].fieldCount
  /\ HasVTable(ds[k]) => HasVTable(ds[j]) \/ ds[j].fieldCount = 0
  /\ cs[j].variant => j = k
  /\ NamesOf(cs[j].fields) \subseteq DOMAIN ds[k].elementOf

LEMMA StructuresOf ==
  ASSUME NEW cs, NEW ds, Hierarchy(cs, ds), NEW k \in 1 .. Len(cs)
  PROVE  /\ ds[k].structure \in Seq(Names) /\ Len(ds[k].structure) \in Nat
         /\ ds[k].fieldCount \in Nat
  <1>1. k \in Nat
    BY DEF Hierarchy, Bases
  <1>2. Good(k, ds[k])
    BY DEF Hierarchy
  <1>3. PICK variant : IsStructure(ds[k], ds[k].element, k, variant, ds[k].structure)
    BY DEF Hierarchy, Laid
  <1>4. ds[k].structure \in Seq(Names)
    BY <1>1, <1>2, <1>3, StructureType
  <1>5. QED  BY <1>2, <1>4 DEF Good

LEMMA AboveItself ==
  ASSUME NEW cs, NEW ds, Hierarchy(cs, ds), NEW k \in 1 .. Len(cs)
  PROVE  Above(cs, ds, k, k)
  <1>1. ds[k].structure \in Seq(Names) /\ Len(ds[k].structure) \in Nat /\ ds[k].fieldCount \in Nat
    BY StructuresOf
  <1>2. Starts(ds[k].structure, ds[k].structure)
    BY <1>1 DEF Starts
  <1>3. NamesOf(cs[k].fields) \subseteq DOMAIN ds[k].elementOf
    BY DEF Hierarchy, Laid
  <1>4. QED  BY <1>1, <1>2, <1>3 DEF Above

LEMMA AboveTheNext ==
  ASSUME NEW cs, NEW ds, Hierarchy(cs, ds), NEW k \in 1 .. Len(cs), NEW i,
         i = cs[k].base, NEW j \in 1 .. Len(cs), i \in 1 .. Len(cs), i < k,
         Above(cs, ds, j, i)
  PROVE  Above(cs, ds, j, k)
  <1>1. PICK b, cd, a : b = ds[i] /\ cd = ds[k] /\ a = ds[j]
    OBVIOUS
  <1>2. i # 0 /\ i \in Nat /\ k \in Nat
    BY DEF Hierarchy, Bases
  <1>3. Laid(k, b, cd, cs[k].fields, cs[k].variant) /\ ~cs[i].variant
    BY <1>1, <1>2 DEF Hierarchy, DeclOf
  <1>4. Good(i, b) /\ Good(k, cd)
    BY <1>1 DEF Hierarchy
  <1>5. IsStructure(b, b.element, i, FALSE, b.structure)
    <2>1. PICK variant : variant = cs[i].variant /\ IsStructure(b, b.element, i, variant, b.structure)
      BY <1>1 DEF Hierarchy, Laid
    <2>2. QED  BY <1>3, <2>1 DEF IsStructure
  <1>6. Starts(b.structure, cd.structure)
    BY <1>2, <1>3, <1>4, <1>5, BaseSlotsFirst
  <1>7. /\ a.structure \in Seq(Names) /\ b.structure \in Seq(Names) /\ cd.structure \in Seq(Names)
        /\ a.fieldCount \in Nat /\ b.fieldCount \in Nat /\ cd.fieldCount \in Nat
    BY <1>1, StructuresOf
  <1>8. Starts(a.structure, cd.structure)
    <2>1. PICK s, t, u : s = a.structure /\ t = b.structure /\ u = cd.structure
      OBVIOUS
    <2>2. Starts(s, t) /\ Starts(t, u) /\ Len(s) \in Nat /\ Len(t) \in Nat /\ Len(u) \in Nat
      BY <1>1, <1>6, <1>7, <2>1 DEF Above
    <2>3. Starts(s, u)
      BY <2>2 DEF Starts
    <2>4. QED  BY <2>1, <2>3
  <1>9. b.fieldCount <= cd.fieldCount
    <2>1. PICK L \in Nat : L = Len(cs[k].fields) /\ cd.fieldCount = b.fieldCount + L
      BY <1>3 DEF Laid
    <2>2. QED  BY <1>7, <2>1
  <1>10. a.fieldCount <= b.fieldCount
    BY <1>1 DEF Above
  <1>11. HasVTable(cd) => HasVTable(a) \/ a.fieldCount = 0
    <2>1. CASE HasVTable(b)
      BY <1>1, <2>1 DEF Above
    <2>2. CASE ~HasVTable(b)
      <3>1. HasVTable(cd) => b.fieldCount = 0
        BY <1>3, <2>2 DEF Laid
      <3>2. QED  BY <1>7, <1>10, <3>1
    <2>3. QED  BY <2>1, <2>2
  <1>12. ~cs[j].variant
    BY <1>3 DEF Above
  <1>13. NamesOf(cs[j].fields) \subseteq DOMAIN cd.elementOf
    <2>1. DOMAIN b.elementOf \subseteq DOMAIN cd.elementOf
      BY <1>3 DEF Laid
    <2>2. QED  BY <1>1, <2>1 DEF Above
  <1>14. a.fieldCount <= cd.fieldCount
    BY <1>7, <1>9, <1>10
  <1>15. QED  BY <1>1, <1>8, <1>11, <1>12, <1>13, <1>14 DEF Above

LEMMA ChainIsAbove ==
  ASSUME NEW cs, NEW ds, Hierarchy(cs, ds)
  PROVE  \A k \in 0 .. Len(cs) : \A j \in ToSet(Chain(cs, k)) :
            j \in 1 .. k /\ Above(cs, ds, j, k)
  <1> DEFINE N == Len(cs)
             P(j, k) == j \in 1 .. k /\ Above(cs, ds, j, k)
             S == {n \in 0 .. N : \A k \in 0 .. n : \A j \in ToSet(Chain(cs, k)) : P(j, k)}
  <1>1. N \in Nat /\ Bases(cs)
    BY DEF Hierarchy, Bases
  <1>2. 0 \in S
    <2>1. ToSet(Chain(cs, 0)) = {}
      BY <1>1, ChainMembers
    <2>2. \A k \in 0 .. 0 : k = 0
      OBVIOUS
    <2>3. QED  BY <1>1, <2>1, <2>2
  <1>3. ASSUME NEW n \in 0 .. N, n + 1 \in 0 .. N, n \in S
        PROVE  n + 1 \in S
    <2>1. PICK k : k = n + 1
      OBVIOUS
    <2>2. k \in 1 .. N /\ cs[k].base \in 0 .. n /\ n \in Nat
      <3>1. k \in 1 .. N /\ n \in Nat /\ k - 1 = n
        BY <1>1, <1>3, <2>1
      <3>2. QED  BY <1>1, <3>1 DEF Bases
    <2>3. PICK i \in 0 .. n : i = cs[k].base
      BY <2>2
    <2>4. ToSet(Chain(cs, k)) = {k} \cup ToSet(Chain(cs, i))
      BY <1>1, <2>2, <2>3, ChainMembers
    <2>5. P(k, k)
      <3>1. Above(cs, ds, k, k)
        BY <2>2, AboveItself
      <3>2. k \in 1 .. k
        BY <2>2
      <3>3. QED  BY <3>1, <3>2
    <2>6. ASSUME NEW j \in ToSet(Chain(cs, i))
          PROVE  P(j, k)
      <3>1. j \in 1 .. i /\ Above(cs, ds, j, i)
        BY <1>3, <2>3
      <3>2. j \in 1 .. N /\ i \in 1 .. N /\ i < k /\ j \in 1 .. k
        BY <1>1, <2>1, <2>2, <2>3, <3>1
      <3>3. Above(cs, ds, j, k)
        BY <2>2, <2>3, <3>1, <3>2, AboveTheNext
      <3>4. QED  BY <3>2, <3>3
    <2>7. \A j \in ToSet(Chain(cs, n + 1)) : P(j, n + 1)
      <3> HIDE DEF P
      <3>1. QED  BY <2>1, <2>4, <2>5, <2>6
    <2>8. ASSUME NEW m \in 0 .. n + 1
          PROVE  m = n + 1 \/ m \in 0 .. n
      BY <2>2
    <2>9. QED  BY <1>3, <2>7, <2>8
  <1>4. 0 .. N \subseteq S
    <2> HIDE DEF S
    <2>1. QED  BY <1>1, <1>2, <1>3, Induction
  <1>5. QED  BY <1>1, <1>4

LEMMA Appended ==
  ASSUME NEW S, NEW s \in Seq(S), NEW x
  PROVE  /\ Len(Append(s, x)) = Len(s) + 1 /\ Append(s, x)[Len(s) + 1] = x
         /\ \A j \in 1 .. Len(s) : Append(s, x)[j] = s[j]
  <1>1. PICK T : T = S \cup {x}
    OBVIOUS
  <1>2. s \in Seq(T) /\ x \in T
    <2>1. S \subseteq T
      BY <1>1
    <2>2. QED  BY <1>1, <2>1, SeqMonotonic
  <1>3. QED  BY <1>2, AppendProperties

(* A program declares one more class.                                      *)
LEMMA HierarchyGrows ==
  ASSUME NEW S, NEW T, NEW cs \in Seq(S), NEW ds \in Seq(T), Hierarchy(cs, ds),
         NEW k, k = Len(cs) + 1, NEW base \in 0 .. Len(cs), NEW c, NEW cd,
         Good(k, cd), Laid(k, DeclOf(ds, base), cd, c.fields, c.variant),
         base # 0 => ~cs[base].variant, c.base = base
  PROVE  Hierarchy(Append(cs, c), Append(ds, cd))
  <1>1. PICK n \in Nat : n = Len(cs) /\ n = Len(ds) /\ k = n + 1
    BY DEF Hierarchy
  <1>2. PICK cs2, ds2 : cs2 = Append(cs, c) /\ ds2 = Append(ds, cd)
    OBVIOUS
  <1>3. /\ Len(cs2) = n + 1 /\ Len(ds2) = n + 1 /\ cs2[k] = c /\ ds2[k] = cd
        /\ \A j \in 1 .. n : cs2[j] = cs[j] /\ ds2[j] = ds[j]
    <2>1. Len(cs2) = n + 1 /\ cs2[n + 1] = c /\ \A j \in 1 .. n : cs2[j] = cs[j]
      <3>1. PICK s : s = cs /\ s \in Seq(S)
        OBVIOUS
      <3>2. PICK t : t = Append(s, c)
        OBVIOUS
      <3>3. Len(t) = Len(s) + 1 /\ t[Len(s) + 1] = c /\ \A j \in 1 .. Len(s) : t[j] = s[j]
        BY <3>1, <3>2, Appended
      <3>4. QED  BY <1>1, <1>2, <3>1, <3>2, <3>3
    <2>2. Len(ds2) = n + 1 /\ ds2[n + 1] = cd /\ \A j \in 1 .. n : ds2[j] = ds[j]
      BY <1>1, <1>2, Appended
    <2>3. QED  BY <1>1, <2>1, <2>2
  <1>4. \A j \in 1 .. n : cs[j].base \in 0 .. j - 1
    BY <1>1 DEF Hierarchy, Bases
  <1>5. \A j \in 0 .. n : DeclOf(ds2, j) = DeclOf(ds, j)
    <2>1. \A j \in 0 .. n : j = 0 \/ j \in 1 .. n
      OBVIOUS
    <2>2. QED  BY <1>3, <2>1 DEF DeclOf
  <1>6. ASSUME NEW j \in 1 .. n + 1
        PROVE  j = k \/ j \in 1 .. n
    BY <1>1
  <1>7. Bases(cs2)
    <2>1. cs2[k].base \in 0 .. k - 1
      BY <1>1, <1>3
    <2>2. QED  BY <1>1, <1>3, <1>4, <1>6, <2>1 DEF Bases
  <1>8. ASSUME NEW j \in 1 .. n + 1
        PROVE  /\ Good(j, ds2[j])
               /\ Laid(j, DeclOf(ds2, cs2[j].base), ds2[j], cs2[j].fields, cs2[j].variant)
               /\ cs2[j].base # 0 => ~cs2[cs2[j].base].variant
    <2>1. CASE j \in 1 .. n
      <3>1. PICK i : i = cs[j].base /\ i \in 0 .. n /\ (i # 0 => i \in 1 .. n)
        BY <1>4, <2>1
      <3>2. /\ Good(j, ds[j])
            /\ Laid(j, DeclOf(ds, i), ds[j], cs[j].fields, cs[j].variant)
            /\ i # 0 => ~cs[i].variant
        BY <1>1, <2>1, <3>1 DEF Hierarchy
      <3>3. DeclOf(ds2, i) = DeclOf(ds, i) /\ cs2[j] = cs[j] /\ ds2[j] = ds[j]
            /\ (i # 0 => cs2[i] = cs[i])
        BY <1>3, <1>5, <2>1, <3>1
      <3>4. QED  BY <3>1, <3>2, <3>3
    <2>2. CASE j = k
      <3>1. base \in 0 .. n /\ (base # 0 => base \in 1 .. n)
        BY <1>1
      <3>2. DeclOf(ds2, base) = DeclOf(ds, base) /\ cs2[j] = c /\ ds2[j] = cd
            /\ (base # 0 => cs2[base] = cs[base])
        BY <1>3, <1>5, <2>2, <3>1
      <3>3. QED  BY <2>2, <3>2
    <2>3. QED  BY <1>6, <2>1, <2>2
  <1>9. QED  BY <1>2, <1>3, <1>7, <1>8 DEF Hierarchy

(* What is proved of every state: the classes are laid out as they should  *)
(* be, ...                                                                 *)
AreClasses == /\ \E S : classes \in Seq(S)
              /\ \E S : decls \in Seq(S)
              /\ Hierarchy(classes, decls)

LEMMA ClassesAtFirst ==
  ASSUME Init
  PROVE  AreClasses
  <1>1. classes = <<>> /\ decls = <<>>
    BY DEF Init
  <1>2. <<>> \in Seq({}) /\ Len(<<>>) = 0
    OBVIOUS
  <1>3. \A j \in 1 .. 0 : FALSE
    OBVIOUS
  <1>4. Bases(<<>>)
    BY <1>2, <1>3 DEF Bases
  <1>5. Hierarchy(<<>>, <<>>)
    BY <1>2, <1>3, <1>4 DEF Hierarchy
  <1>6. QED  BY <1>1, <1>2, <1>5 DEF AreClasses

(* The class k that Declare adds, its base's ClassDecl and its own.         *)
Declares(k, base, d, b, c, cd) ==
  /\ k = Len(classes) + 1 /\ k \in Nat \ {0} /\ b = DeclOf(decls, base)
  /\ cd = ClassDecl(b, k, d)
  /\ c = [base |-> base, fields |-> d.fields, methods |-> d.methods, variant |-> d.variant]
  /\ classes' = Append(classes, c) /\ decls' = Append(decls, cd)
  /\ Good(k - 1, b) /\ Overlay(b.membfuncs, d.methods)
  /\ HasVTable(cd) => HasVTable(b) \/ b.fieldCount = 0
  /\ \A i, j \in Offset(cd) .. cd.fieldCount + Offset(cd) - 1 :
        i < j /\ cd.element[i].static => cd.element[j].static
  /\ d.variant => /\ ~HasVTable(cd)
                  /\ \A i \in Offset(cd) .. cd.fieldCount + Offset(cd) - 1 : ~cd.element[i].static
  /\ base # 0 => ~classes[base].variant

LEMMA DeclarationIs ==
  ASSUME Careful = TRUE, AreClasses, NEW base \in 0 .. Len(classes), NEW d \in Declarations,
         Declare(base, d)
  PROVE  \E k, b, c, cd : Declares(k, base, d, b, c, cd)
  <1>1. PICK cs, ds : cs = classes /\ ds = decls
    OBVIOUS
  <1>2. Hierarchy(cs, ds)
    BY <1>1 DEF AreClasses
  <1>3. PICK n \in Nat : n = Len(cs) /\ n = Len(ds)
    BY <1>1, <1>2 DEF AreClasses, Hierarchy
  <1>4. PICK b, k, cd, c : /\ b = Base(base) /\ k = n + 1 /\ cd = ClassDecl(b, k, d)
                           /\ c = [base |-> base, fields |-> d.fields, methods |-> d.methods,
                                   variant |-> d.variant]
    OBVIOUS
  <1>5. base \in 0 .. n /\ (base # 0 => base \in 1 .. n) /\ b = DeclOf(ds, base)
    BY <1>1, <1>3, <1>4 DEF Base, DeclOf
  <1>6. LaidOut(base, d)
    BY DEF Declare
  <1>7. Good(k - 1, b)
    <2>1. k - 1 = n
      BY <1>4
    <2>2. CASE base = 0
      <3>1. Good(0, b) /\ 0 <= n
        BY <1>5, <2>2, NoneIsGood DEF DeclOf
      <3>2. QED  BY <2>1, <3>1, GoodForMore
    <2>3. CASE base # 0
      <3>1. Good(base, b) /\ base \in Nat /\ base <= n
        BY <1>2, <1>3, <1>5, <2>3 DEF DeclOf, Hierarchy
      <3>2. QED  BY <2>1, <3>1, GoodForMore
    <2>4. QED  BY <2>2, <2>3
  <1>8. Overlay(b.membfuncs, d.methods)
    <2>1. \A i \in DOMAIN d.methods :
            d.methods[i].kind = "override" => Named(b.membfuncs, d.methods[i].name)
      BY <1>4 DEF Declare
    <2>2. \A i \in DOMAIN d.methods : Named(b.membfuncs, d.methods[i].name) =>
            IsVirtual(Of(b.membfuncs, d.methods[i].name)) = IsVirtual(d.methods[i])
      BY <1>4, <1>6, Zenon DEF LaidOut
    <2>3. QED  BY <2>1, <2>2, Zenon DEF Overlay
  <1>9. /\ HasVTable(cd) => HasVTable(b) \/ b.fieldCount = 0
        /\ \A i, j \in Offset(cd) .. cd.fieldCount + Offset(cd) - 1 :
              i < j /\ cd.element[i].static => cd.element[j].static
        /\ d.variant => /\ ~HasVTable(cd)
                        /\ \A i \in Offset(cd) .. cd.fieldCount + Offset(cd) - 1 :
                             ~cd.element[i].static
        /\ base # 0 => ~classes[base].variant
    <2>1. k = Len(classes) + 1
      BY <1>1, <1>3, <1>4
    <2>2. cd = ClassDecl(Base(base), Len(classes) + 1, d)
      BY <1>4, <2>1
    <2>3. QED  BY <1>4, <1>6, <2>2, Zenon DEF LaidOut
  <1>10. classes' = Append(cs, c) /\ decls' = Append(ds, cd)
    BY <1>1, <1>3, <1>4 DEF Declare
  <1>11. k \in Nat \ {0}
    BY <1>4
  <1>12. Declares(k, base, d, b, c, cd)
    BY <1>1, <1>3, <1>4, <1>5, <1>7, <1>8, <1>9, <1>10, <1>11 DEF Declares
  <1>13. QED  BY <1>12

LEMMA DeclarationIsLaid ==
  ASSUME Careful = TRUE, AreClasses, NEW base \in 0 .. Len(classes), NEW d \in Declarations,
         Declare(base, d)
  PROVE  AreClasses'
  <1>1. PICK k, b, c, cd : Declares(k, base, d, b, c, cd)
    BY DeclarationIs
  <1>2. PICK cs, ds : cs = classes /\ ds = decls
    OBVIOUS
  <1>3. Hierarchy(cs, ds)
    BY <1>2 DEF AreClasses
  <1>4. PICK S, T : cs \in Seq(S) /\ ds \in Seq(T)
    BY <1>2 DEF AreClasses
  <1>5. Good(k, cd) /\ Laid(k, b, cd, d.fields, d.variant)
    BY <1>1, ClassIsLaid DEF Declares
  <1>6. c.base = base /\ c.fields = d.fields /\ c.variant = d.variant
    BY <1>1 DEF Declares
  <1>7. Hierarchy(Append(cs, c), Append(ds, cd))
    BY <1>1, <1>2, <1>3, <1>4, <1>5, <1>6, HierarchyGrows DEF Declares
  <1>8. classes' = Append(cs, c) /\ decls' = Append(ds, cd)
    BY <1>1, <1>2 DEF Declares
  <1>9. classes' \in Seq(S \cup {c}) /\ decls' \in Seq(T \cup {cd})
    <2>1. S \subseteq S \cup {c} /\ T \subseteq T \cup {cd}
      OBVIOUS
    <2>2. cs \in Seq(S \cup {c}) /\ ds \in Seq(T \cup {cd})
      BY <1>4, <2>1, SeqMonotonic
    <2>3. QED  BY <1>8, <2>2
  <1>10. QED  BY <1>7, <1>8, <1>9 DEF AreClasses

LEMMA ClassesStay ==
  ASSUME Careful = TRUE, AreClasses, [Next]_vars
  PROVE  AreClasses'
  <1>1. CASE UNCHANGED <<classes, decls>>
    BY <1>1 DEF AreClasses
  <1>2. ASSUME NEW base \in 0 .. Len(classes), NEW d \in Declarations, Declare(base, d)
        PROVE  AreClasses'
    BY <1>2, DeclarationIsLaid
  <1>3. ASSUME Next
        PROVE  \/ UNCHANGED <<classes, decls>>
               \/ \E base \in 0 .. Len(classes), d \in Declarations : Declare(base, d)
    BY <1>3 DEF Next, Create, Put, Assign
  <1>4. UNCHANGED vars => UNCHANGED <<classes, decls>>
    BY DEF vars
  <1>5. QED  BY <1>1, <1>2, <1>3, <1>4

LEMMA SlotIsOfAField ==
  ASSUME Careful = TRUE, AreClasses, NEW o \in Objects, memory[o].class \in 0 .. Len(classes),
         NEW s \in DOMAIN classes, NEW f \in FieldsSeen(classes, s), NEW inside \in BOOLEAN,
         Accessible(o, s, f, inside), Slot(s, f, inside) = 0
  PROVE  ~HasVTable(decls[memory[o].class])
  <1>1. PICK cs, ds, k : cs = classes /\ ds = decls /\ k = memory[o].class
    OBVIOUS
  <1>2. Hierarchy(cs, ds) /\ Bases(cs)
    BY <1>1 DEF AreClasses, Hierarchy
  <1>3. PICK n \in Nat : n = Len(cs) /\ s \in 1 .. n
    <2>1. DOMAIN cs = 1 .. Len(cs) /\ Len(cs) \in Nat
      BY <1>1 DEF AreClasses
    <2>2. QED  BY <1>1, <2>1
  <1>4. k \in 1 .. n /\ s \in ToSet(Chain(cs, k))
    BY <1>1, <1>3 DEF Accessible, Sees, DerivedFrom
  <1>5. Above(cs, ds, s, k)
    <2>1. k \in 0 .. Len(cs)
      BY <1>3, <1>4
    <2>2. QED  BY <1>2, <1>4, <2>1, ChainIsAbove
  <1>6. \A j \in ToSet(Chain(cs, s)) : j \in 1 .. n /\ Above(cs, ds, j, s)
    <2>1. s \in 0 .. Len(cs)
      BY <1>3
    <2>2. \A j \in ToSet(Chain(cs, s)) : j \in 1 .. s /\ Above(cs, ds, j, s)
      BY <1>2, <2>1, ChainIsAbove
    <2>3. 1 .. s \subseteq 1 .. n
      BY <1>3
    <2>4. QED  BY <2>2, <2>3
  <1>7. \A j \in 1 .. n : /\ ~Named(cs[j].fields, "variant")
                          /\ cs[j].variant => ~HasVTable(ds[j])
    BY <1>2, <1>3 DEF Hierarchy, Laid
  <1>8. CASE f = "variant"
    <2>1. cs[s].variant
      <3>1. \A j \in ToSet(Chain(cs, s)) : f \notin NamesOf(cs[j].fields)
        BY <1>6, <1>7, <1>8 DEF Named
      <3>2. QED  BY <1>1, <3>1 DEF FieldsSeen
    <2>2. s = k
      BY <1>5, <2>1 DEF Above
    <2>3. QED  BY <1>1, <1>4, <1>7, <2>1, <2>2
  <1>9. CASE f # "variant"
    <2>1. PICK e : e = ds[s].elementOf
      OBVIOUS
    <2>2. f \in DOMAIN e
      <3>1. PICK j \in ToSet(Chain(cs, s)) : f \in NamesOf(cs[j].fields)
        <4>1. f \in FieldsSeen(cs, s)
          BY <1>1
        <4>2. QED  BY <1>9, <4>1 DEF FieldsSeen
      <3>2. QED  BY <1>6, <2>1, <3>1 DEF Above
    <2>3. PICK cd : cd = ds[s]
      OBVIOUS
    <2>4. Good(s, cd)
      BY <1>2, <1>3, <2>3 DEF Hierarchy
    <2>5. e[f] \in Offset(cd) .. cd.fieldCount + Offset(cd) - 1 /\ cd.fieldCount \in Nat
      BY <2>1, <2>2, <2>3, <2>4 DEF Good
    <2>6. Slot(s, f, inside) = e[f]
      <3>1. Slot(s, f, FALSE) = e[f]
        BY <1>1, <1>9, <2>1 DEF Slot
      <3>2. CASE inside
        <4>1. Inside(s, f) = Slot(s, f, FALSE)
          BY <3>2 DEF Accessible, MayName
        <4>2. Slot(s, f, inside) = Inside(s, f)
          BY <1>9, <3>2 DEF Slot
        <4>3. QED  BY <3>1, <4>1, <4>2
      <3>3. CASE ~inside
        <4>1. Slot(s, f, inside) = e[f]
          BY <1>1, <1>9, <2>1, <3>3 DEF Slot
        <4>2. QED  BY <4>1
      <3>4. QED  BY <3>2, <3>3
    <2>7. ~HasVTable(cd) /\ cd.fieldCount # 0
      BY <2>5, <2>6 DEF Offset
    <2>8. QED  BY <1>1, <1>5, <2>3, <2>7 DEF Above
  <1>10. QED  BY <1>8, <1>9

(* ... and the memory holds objects.                                       *)
Slots  == UNION {[0 .. n - 1 -> Values \cup {Zero} \cup Nat] : n \in Nat}
Object == [class : Nat, slots : Slots]

IInv == AreClasses /\ memory \in [Objects -> Object] /\ TypeOK

LEMMA AbsentIsAnObject == Absent \in Object /\ Absent.class = 0 /\ DOMAIN Absent.slots = {}
  <1>1. <<>> \in [0 .. 0 - 1 -> Values \cup {Zero} \cup Nat]
    <2>1. 0 .. 0 - 1 = {}
      OBVIOUS
    <2>2. <<>> = [i \in {} |-> 0]
      OBVIOUS
    <2>3. QED  BY <2>1, <2>2
  <1>2. <<>> \in Slots
    BY <1>1 DEF Slots
  <1>3. QED  BY <1>2 DEF Absent, Object

LEMMA FirstIInv ==
  ASSUME Init
  PROVE  IInv
  <1>1. AreClasses
    BY ClassesAtFirst
  <1>2. memory = [o \in Objects |-> Absent] /\ classes = <<>> /\ decls = <<>> /\ globals = <<>>
    BY DEF Init
  <1>3. memory \in [Objects -> Object] /\ \A o \in Objects : memory[o] = Absent
    BY <1>2, AbsentIsAnObject
  <1>4. Len(classes) = 0 /\ Len(decls) = 0 /\ DOMAIN globals = {}
    BY <1>2
  <1>5. TypeOK
    BY <1>3, <1>4, AbsentIsAnObject DEF TypeOK
  <1>6. QED  BY <1>1, <1>3, <1>5 DEF IInv

(* What the slot i of an object of the class k may hold.                   *)
Held(k, i) == IF i = 0 /\ HasVTable(decls[k]) THEN {k} ELSE Values \cup {Zero}

LEMMA DeclareKeepsIInv ==
  ASSUME Careful = TRUE, IInv, NEW base \in 0 .. Len(classes), NEW d \in Declarations,
         Declare(base, d)
  PROVE  IInv'
  <1>1. AreClasses'
    BY DeclarationIsLaid DEF IInv
  <1>2. memory = [o \in Objects |-> Absent] /\ memory' = memory
    BY DEF Declare
  <1>3. memory' \in [Objects -> Object] /\ \A o \in Objects : memory'[o] = Absent
    BY <1>2, AbsentIsAnObject
  <1>4. Len(decls') = Len(classes') /\ Len(classes') \in Nat
    BY <1>1 DEF AreClasses, Hierarchy
  <1>5. \A f \in DOMAIN globals' : globals'[f] \in Values \cup {Zero}
    <2>1. PICK new : new = {<<Len(classes'), e.name>> : e \in {g \in ToSet(d.fields) : g.static}}
      OBVIOUS
    <2>2. globals' = Over([f \in new |-> Zero], globals)
      BY <2>1, Zenon DEF Declare
    <2>3. \A f \in DOMAIN globals : globals[f] \in Values \cup {Zero}
      BY DEF IInv, TypeOK
    <2>4. QED  BY <2>2, <2>3 DEF Over
  <1>6. TypeOK'
    BY <1>3, <1>4, <1>5, AbsentIsAnObject DEF TypeOK
  <1>7. QED  BY <1>1, <1>3, <1>6 DEF IInv

LEMMA CreateKeepsIInv ==
  ASSUME Careful = TRUE, IInv, NEW o \in Objects, NEW k \in DOMAIN classes, Create(o, k)
  PROVE  IInv'
  <1>1. AreClasses' /\ decls' = decls /\ classes' = classes /\ globals' = globals
    BY DEF IInv, AreClasses, Create, Crash
  <1>2. CASE UNCHANGED memory
    BY <1>1, <1>2 DEF IInv, TypeOK
  <1>3. CASE memory' = [memory EXCEPT ![o] =
                 [class |-> k,
                  slots |-> [i \in 0 .. Len(decls[k].structure) - 1 |->
                                IF i = 0 /\ HasVTable(decls[k]) THEN k ELSE Zero]]]
    <2>1. PICK n \in Nat : n = Len(classes) /\ k \in 1 .. n
      <3>1. DOMAIN classes = 1 .. Len(classes) /\ Len(classes) \in Nat
        BY DEF IInv, AreClasses
      <3>2. QED  BY <3>1
    <2>2. PICK m \in Nat : m = Len(decls[k].structure)
      BY <2>1, StructuresOf DEF IInv, AreClasses
    <2>3. PICK slots : slots = [i \in 0 .. m - 1 |-> IF i = 0 /\ HasVTable(decls[k]) THEN k ELSE Zero]
      OBVIOUS
    <2>4. slots \in Slots
      <3>1. slots \in [0 .. m - 1 -> Values \cup {Zero} \cup Nat]
        BY <2>1, <2>3
      <3>2. QED  BY <3>1 DEF Slots
    <2>5. PICK new : new = [class |-> k, slots |-> slots]
      OBVIOUS
    <2>6. new \in Object /\ new.class = k /\ new.slots = slots
      BY <2>1, <2>4, <2>5 DEF Object
    <2>7. memory' = [memory EXCEPT ![o] = new]
      BY <1>3, <2>2, <2>3, <2>5
    <2>8. /\ memory' \in [Objects -> Object] /\ memory'[o] = new
          /\ \A p \in Objects : p # o => memory'[p] = memory[p]
      BY <2>6, <2>7 DEF IInv
    <2>9. \A i \in DOMAIN slots : slots[i] \in Held(k, i)
      BY <2>3 DEF Held
    <2>10. ASSUME NEW p \in Objects
           PROVE  /\ memory'[p].class \in 0 .. Len(classes)
                  /\ \A i \in DOMAIN memory'[p].slots :
                       memory'[p].slots[i] \in Held(memory'[p].class, i)
      <3>1. CASE p = o
        BY <2>1, <2>6, <2>8, <2>9, <3>1
      <3>2. CASE p # o
        BY <2>8, <3>2 DEF IInv, TypeOK, Held
      <3>3. QED  BY <3>1, <3>2
    <2>11. TypeOK'
      BY <1>1, <2>10 DEF TypeOK, IInv, Held
    <2>12. QED  BY <1>1, <2>8, <2>11 DEF IInv
  <1>4. QED  BY <1>2, <1>3 DEF Create, Crash

LEMMA PutKeepsIInv ==
  ASSUME Careful = TRUE, IInv, NEW o \in Objects, NEW s \in DOMAIN classes,
         NEW f \in FieldsSeen(classes, s), NEW inside \in BOOLEAN, NEW v \in Values,
         Put(o, s, f, inside, v)
  PROVE  IInv'
  <1>1. AreClasses' /\ decls' = decls /\ classes' = classes
    BY DEF IInv, AreClasses, Put
  <1>2. CASE UNCHANGED <<memory, globals>>
    BY <1>1, <1>2 DEF IInv, TypeOK
  <1>3. CASE memory' = memory /\ globals' = [globals EXCEPT ![Global(s, f)] = v]
    <2>1. PICK g : g = Global(s, f)
      OBVIOUS
    <2>2. globals' = [globals EXCEPT ![g] = v]
      BY <1>3, <2>1
    <2>3. \A h \in DOMAIN globals' : globals'[h] \in Values \cup {Zero}
      BY <2>2 DEF IInv, TypeOK
    <2>4. QED  BY <1>1, <1>3, <2>3 DEF IInv, TypeOK
  <1>4. CASE /\ InBounds(o, s, Slot(s, f, inside)) /\ globals' = globals
             /\ memory' = [memory EXCEPT ![o].slots[Slot(s, f, inside)] = v]
    <2>1. PICK slot : slot = Slot(s, f, inside)
      OBVIOUS
    <2>2. PICK k, old : k = memory[o].class /\ old = memory[o].slots
      OBVIOUS
    <2>3. memory[o] = [class |-> k, slots |-> old] /\ k \in Nat /\ old \in Slots
      BY <2>2 DEF IInv, Object
    <2>4. slot \in DOMAIN old
      BY <1>4, <2>1, <2>2 DEF InBounds
    <2>5. PICK slots : slots = [old EXCEPT ![slot] = v]
      OBVIOUS
    <2>6. slots \in Slots /\ DOMAIN slots = DOMAIN old /\ slots[slot] = v
          /\ \A i \in DOMAIN old : i # slot => slots[i] = old[i]
      <3>1. PICK n \in Nat : old \in [0 .. n - 1 -> Values \cup {Zero} \cup Nat]
        BY <2>3 DEF Slots
      <3>2. slots \in [0 .. n - 1 -> Values \cup {Zero} \cup Nat]
        BY <2>4, <2>5, <3>1
      <3>3. QED  BY <2>4, <2>5, <3>1, <3>2 DEF Slots
    <2>7. PICK new : new = [class |-> k, slots |-> slots]
      OBVIOUS
    <2>8. new \in Object /\ new.class = k /\ new.slots = slots
      BY <2>3, <2>6, <2>7 DEF Object
    <2>9. memory' = [memory EXCEPT ![o] = new]
      <3>1. PICK r : r = [memory[o] EXCEPT !.slots = slots]
        OBVIOUS
      <3>2. r = new
        BY <2>3, <2>7, <3>1
      <3>3. memory' = [memory EXCEPT ![o] = r]
        BY <1>4, <2>1, <2>2, <2>5, <3>1
      <3>4. QED  BY <3>2, <3>3
    <2>10. /\ memory' \in [Objects -> Object] /\ memory'[o] = new
           /\ \A p \in Objects : p # o => memory'[p] = memory[p]
      BY <2>8, <2>9 DEF IInv
    <2>11. k \in 0 .. Len(classes) /\ \A i \in DOMAIN old : old[i] \in Held(k, i)
      BY <2>2 DEF IInv, TypeOK, Held
    <2>12. v \in Held(k, slot)
      <3>1. Accessible(o, s, f, inside)
        BY DEF Put
      <3>2. slot = 0 => ~HasVTable(decls[k])
        BY <2>1, <2>2, <2>11, <3>1, SlotIsOfAField DEF IInv
      <3>3. QED  BY <3>2 DEF Held
    <2>13. \A i \in DOMAIN slots : slots[i] \in Held(k, i)
      BY <2>6, <2>11, <2>12
    <2>14. ASSUME NEW p \in Objects
           PROVE  /\ memory'[p].class \in 0 .. Len(classes)
                  /\ \A i \in DOMAIN memory'[p].slots :
                       memory'[p].slots[i] \in Held(memory'[p].class, i)
      <3>1. CASE p = o
        BY <2>8, <2>10, <2>11, <2>13, <3>1
      <3>2. CASE p # o
        BY <2>10, <3>2 DEF IInv, TypeOK, Held
      <3>3. QED  BY <3>1, <3>2
    <2>15. TypeOK'
      BY <1>1, <1>4, <2>14 DEF TypeOK, IInv, Held
    <2>16. QED  BY <1>1, <2>10, <2>15 DEF IInv
  <1>5. QED  BY <1>2, <1>3, <1>4 DEF Put, Crash

LEMMA AssignKeepsIInv ==
  ASSUME Careful = TRUE, IInv, NEW a \in Objects, NEW b \in Objects, Assign(a, b)
  PROVE  IInv'
  <1>1. AreClasses' /\ decls' = decls /\ classes' = classes /\ globals' = globals
    BY DEF IInv, AreClasses, Assign
  <1>2. PICK k, old, slots : /\ k = memory[a].class /\ k = memory[b].class
                             /\ old = memory[a].slots /\ slots = memory[b].slots
    BY DEF Assign
  <1>3. memory[a] = [class |-> k, slots |-> old] /\ k \in Nat /\ slots \in Slots
    BY <1>2 DEF IInv, Object
  <1>4. memory' = [memory EXCEPT ![a].slots = slots]
    BY <1>2 DEF Assign, Copied
  <1>5. PICK new : new = [class |-> k, slots |-> slots]
    OBVIOUS
  <1>6. new \in Object /\ new.class = k /\ new.slots = slots
    BY <1>3, <1>5 DEF Object
  <1>7. memory' = [memory EXCEPT ![a] = new]
    <2>1. PICK r : r = [memory[a] EXCEPT !.slots = slots]
      OBVIOUS
    <2>2. r = new
      BY <1>3, <1>5, <2>1
    <2>3. memory' = [memory EXCEPT ![a] = r]
      BY <1>4, <2>1
    <2>4. QED  BY <2>2, <2>3
  <1>8. /\ memory' \in [Objects -> Object] /\ memory'[a] = new
        /\ \A p \in Objects : p # a => memory'[p] = memory[p]
    BY <1>6, <1>7 DEF IInv
  <1>9. k \in 0 .. Len(classes) /\ \A i \in DOMAIN slots : slots[i] \in Held(k, i)
    BY <1>2 DEF IInv, TypeOK, Held
  <1>10. ASSUME NEW p \in Objects
         PROVE  /\ memory'[p].class \in 0 .. Len(classes)
                /\ \A i \in DOMAIN memory'[p].slots :
                     memory'[p].slots[i] \in Held(memory'[p].class, i)
    <2>1. CASE p = a
      BY <1>6, <1>8, <1>9, <2>1
    <2>2. CASE p # a
      BY <1>8, <2>2 DEF IInv, TypeOK, Held
    <2>3. QED  BY <2>1, <2>2
  <1>11. TypeOK'
    BY <1>1, <1>10 DEF TypeOK, IInv, Held
  <1>12. QED  BY <1>1, <1>8, <1>11 DEF IInv

LEMMA StepKeepsIInv ==
  ASSUME Careful = TRUE, IInv, [Next]_vars
  PROVE  IInv'
  <1>1. CASE UNCHANGED vars
    BY <1>1 DEF vars, IInv, AreClasses, TypeOK
  <1>2. CASE Next
    <2>1. ASSUME NEW base \in 0 .. Len(classes), NEW d \in Declarations, Declare(base, d)
          PROVE  IInv'
      BY <2>1, DeclareKeepsIInv
    <2>2. ASSUME NEW o \in Objects, NEW k \in DOMAIN classes, Create(o, k)
          PROVE  IInv'
      BY <2>2, CreateKeepsIInv
    <2>3. ASSUME NEW o \in Objects, NEW s \in DOMAIN classes, NEW f \in FieldsSeen(classes, s),
                 NEW inside \in BOOLEAN, NEW v \in Values, Put(o, s, f, inside, v)
          PROVE  IInv'
      BY <2>3, PutKeepsIInv
    <2>4. ASSUME NEW a \in Objects, NEW b \in Objects, Assign(a, b)
          PROVE  IInv'
      BY <2>4, AssignKeepsIInv
    <2>5. QED  BY <1>2, <2>1, <2>2, <2>3, <2>4 DEF Next
  <1>3. QED  BY <1>1, <1>2

-----------------------------------------------------------------------------
(* No access to a field writes the pointer to the vtable: what an object   *)
(* has in its first slot is its class's, and the rest of the memory holds  *)
(* values. (FieldExprAST::Address with ClassDecl::Element, ParseFieldExpr  *)
(* and ExpandWithNames.)                                                   *)
THEOREM MemoryKeepsItsTypes ==
  ASSUME Careful = TRUE
  PROVE  Spec => []TypeOK
  <1>1. Init => IInv
    BY FirstIInv
  <1>2. IInv /\ [Next]_vars => IInv'
    BY StepKeepsIInv
  <1>3. IInv => TypeOK
    BY DEF IInv
  <1>4. QED  BY <1>1, <1>2, <1>3, PTL DEF Spec

(* A class has the slots of every class that it derives from, in their     *)
(* order, before its own, so that a pointer or a parameter of the base's   *)
(* type finds its fields in an object of the derived class                 *)
(* (ClassDecl::GetLlvmType and GetElement).                                *)
THEOREM BaseSlotsComeFirst ==
  ASSUME Careful = TRUE
  PROVE  Spec => []SlotsAreInherited
  <1>1. Init => AreClasses
    BY ClassesAtFirst
  <1>2. AreClasses /\ [Next]_vars => AreClasses'
    BY ClassesStay
  <1>3. AreClasses => SlotsAreInherited
    <2>1. SUFFICES ASSUME AreClasses, NEW k \in DOMAIN classes,
                          NEW j \in ToSet(Chain(classes, k))
                   PROVE  IsPrefix(decls[j].structure, decls[k].structure)
      BY DEF SlotsAreInherited
    <2>2. PICK cs, ds : cs = classes /\ ds = decls
      OBVIOUS
    <2>3. Hierarchy(cs, ds)
      BY <2>1, <2>2 DEF AreClasses
    <2>4. k \in 1 .. Len(cs) /\ Len(cs) \in Nat
      BY <2>1, <2>2 DEF AreClasses
    <2>5. j \in 1 .. Len(cs) /\ Above(cs, ds, j, k)
      <3>1. k \in 0 .. Len(cs)
        BY <2>4
      <3>2. j \in 1 .. k /\ Above(cs, ds, j, k)
        BY <2>2, <2>3, <3>1, ChainIsAbove
      <3>3. QED  BY <2>4, <3>2
    <2>6. PICK s, t : s = ds[j].structure /\ t = ds[k].structure
      OBVIOUS
    <2>7. s \in Seq(Names) /\ t \in Seq(Names) /\ Starts(s, t)
      BY <2>3, <2>4, <2>5, <2>6, StructuresOf DEF Above
    <2>8. IsPrefix(s, t)
      BY <2>7, StartsIsPrefix
    <2>9. QED  BY <2>2, <2>6, <2>8
  <1>4. QED  BY <1>1, <1>2, <1>3, PTL DEF Spec

(* The vtable of a class has a function at every index: the numbers that   *)
(* ClassDecl::VTableType gives and those that an override has from its     *)
(* base leave none out, so that VTableAST::GetInitializer fills them all.  *)
THEOREM NoGapInAVTable ==
  ASSUME Careful = TRUE
  PROVE  Spec => []VTablesAreFilled
  <1>1. Init => AreClasses
    BY ClassesAtFirst
  <1>2. AreClasses /\ [Next]_vars => AreClasses'
    BY ClassesStay
  <1>3. AreClasses => VTablesAreFilled
    <2>1. SUFFICES ASSUME AreClasses, NEW k \in DOMAIN classes, NEW i \in DOMAIN decls[k].vtable
                   PROVE  decls[k].vtable[i] # 0
      BY DEF VTablesAreFilled
    <2>2. k \in 1 .. Len(classes) /\ Len(classes) \in Nat
      BY <2>1 DEF AreClasses
    <2>3. decls[k].vtable[i] \in 1 .. k
      BY <2>1, <2>2 DEF AreClasses, Hierarchy, Laid
    <2>4. QED  BY <2>2, <2>3
  <1>4. QED  BY <1>1, <1>2, <1>3, PTL DEF Spec

-----------------------------------------------------------------------------
(* The hierarchies that PascalObjects speaks of are those of Objects.      *)

LEMMA SameHierarchy ==
  /\ \A cs, k : Pascal!Chain(cs, k) = Chain(cs, k)
  /\ \A c, s : Pascal!Nearest(c, s) = Nearest(c, s)
  /\ \A ds, n : Pascal!Of(ds, n) = Of(ds, n)
  /\ \A ds, n : Pascal!Named(ds, n) = Named(ds, n)
  /\ \A ds : Pascal!NamesOf(ds) = NamesOf(ds)
  /\ \A s : Pascal!ToSet(s) = ToSet(s)
  /\ \A f, g : Pascal!Over(f, g) = Over(f, g)
  <1>1. \A cs, k : Pascal!Chain(cs, k) = Chain(cs, k)
    BY DEF Pascal!Chain, Chain
  <1>2. \A c, s : Pascal!Nearest(c, s) = Nearest(c, s)
    BY DEF Pascal!Nearest, Nearest, Pascal!Min, Min
  <1>3. \A ds, n : Pascal!Of(ds, n) = Of(ds, n)
    BY DEF Pascal!Of, Of, Pascal!Max, Max
  <1>4. \A ds : Pascal!NamesOf(ds) = NamesOf(ds)
    BY DEF Pascal!NamesOf, NamesOf
  <1>5. \A ds, n : Pascal!Named(ds, n) = Named(ds, n)
    BY <1>4 DEF Pascal!Named, Named
  <1>6. \A s : Pascal!ToSet(s) = ToSet(s)
    BY DEF Pascal!ToSet, ToSet
  <1>7. \A f, g : Pascal!Over(f, g) = Over(f, g)
    BY DEF Pascal!Over, Over
  <1>8. QED  BY <1>1, <1>2, <1>3, <1>4, <1>5, <1>6, <1>7

LEMMA SameOwners ==
  /\ \A cs, k, f : Pascal!FieldOwner(cs, k, f) = FieldOwner(cs, k, f)
  /\ \A cs, k, m : Pascal!MethodOwner(cs, k, m) = MethodOwner(cs, k, m)
  /\ \A cs, k, m : Pascal!Kind(cs, k, m) = Kind(cs, k, m)
  /\ \A cs, d, s : Pascal!DerivedFrom(cs, d, s) = DerivedFrom(cs, d, s)
  <1>1. \A cs, k, f : Pascal!FieldOwner(cs, k, f) = FieldOwner(cs, k, f)
    BY SameHierarchy, Zenon DEF Pascal!FieldOwner, FieldOwner
  <1>2. \A cs, k, m : Pascal!MethodOwner(cs, k, m) = MethodOwner(cs, k, m)
    BY SameHierarchy, Zenon DEF Pascal!MethodOwner, MethodOwner
  <1>3. \A cs, k, m : Pascal!Kind(cs, k, m) = Kind(cs, k, m)
    BY SameHierarchy DEF Pascal!Kind, Kind
  <1>4. \A cs, d, s : Pascal!DerivedFrom(cs, d, s) = DerivedFrom(cs, d, s)
    BY SameHierarchy DEF Pascal!DerivedFrom, DerivedFrom
  <1>5. QED  BY <1>1, <1>2, <1>3, <1>4

(* The class nearest to k, itself included, that is in ks.                 *)
LEMMA MinIs ==
  ASSUME NEW S \in SUBSET Int, NEW x \in S, \A y \in S : x <= y
  PROVE  Min(S) = x
  <1>1. Min(S) \in S /\ \A y \in S : Min(S) <= y
    BY Zenon DEF Min
  <1>2. Min(S) \in Int /\ x \in Int /\ Min(S) <= x /\ x <= Min(S)
    BY <1>1
  <1>3. QED  BY <1>2

LEMMA MaxIs ==
  ASSUME NEW S \in SUBSET Int, NEW x \in S, \A y \in S : y <= x
  PROVE  Max(S) = x
  <1>1. \A y \in S : x >= y
    OBVIOUS
  <1>2. Max(S) \in S /\ \A y \in S : Max(S) >= y
    BY <1>1, Zenon DEF Max
  <1>3. Max(S) \in Int /\ x \in Int /\ Max(S) >= x /\ x >= Max(S)
    BY <1>1, <1>2
  <1>4. QED  BY <1>3

LEMMA NearestIs ==
  ASSUME NEW c \in Seq(Nat), NEW k \in Nat, NEW ks
  PROVE  /\ Nearest(<<>>, ks) = 0
         /\ Nearest(<<k>> \o c, ks) = IF k \in ks THEN k ELSE Nearest(c, ks)
  <1>1. Nearest(<<>>, ks) = 0
    BY DEF Nearest
  <1>2. PICK d : d = <<k>> \o c
    OBVIOUS
  <1>3. PICK n \in Nat : n = Len(c)
    OBVIOUS
  <1>4. /\ DOMAIN d = 1 .. n + 1 /\ DOMAIN c = 1 .. n
        /\ d[1] = k /\ \A i \in 1 .. n : d[i + 1] = c[i]
    BY <1>2, <1>3
  <1>5. PICK at, up : at = {i \in DOMAIN d : d[i] \in ks} /\ up = {i \in DOMAIN c : c[i] \in ks}
    OBVIOUS
  <1>6. /\ Nearest(d, ks) = IF at = {} THEN 0 ELSE d[Min(at)]
        /\ Nearest(c, ks) = IF up = {} THEN 0 ELSE c[Min(up)]
    BY <1>5, Zenon DEF Nearest
  <1>7. at \in SUBSET Nat /\ up \in SUBSET Nat
    BY <1>4, <1>5
  <1>8. CASE k \in ks
    <2>1. 1 \in at /\ \A i \in at : 1 <= i
      BY <1>3, <1>4, <1>5, <1>8
    <2>2. Min(at) = 1
      BY <1>7, <2>1, MinIs
    <2>3. Nearest(d, ks) = d[1]
      <3>1. at # {}
        BY <2>1
      <3>2. QED  BY <1>6, <2>2, <3>1
    <2>4. QED  BY <1>1, <1>2, <1>4, <1>8, <2>3
  <1>9. CASE k \notin ks
    <2>1. \A i \in at : i - 1 \in up
      <3>1. ASSUME NEW i \in 1 .. n + 1, d[i] \in ks
            PROVE  i - 1 \in 1 .. n /\ c[i - 1] \in ks
        <4>1. i # 1
          BY <1>4, <1>9, <3>1
        <4>2. i - 1 \in 1 .. n /\ (i - 1) + 1 = i
          BY <1>3, <4>1
        <4>3. d[(i - 1) + 1] = c[i - 1]
          BY <1>4, <4>2
        <4>4. QED  BY <3>1, <4>2, <4>3
      <3>2. QED  BY <1>4, <1>5, <3>1
    <2>2. \A i \in up : i + 1 \in at
      BY <1>3, <1>4, <1>5
    <2>3. CASE up = {}
      <3>1. at = {}
        BY <2>1, <2>3
      <3>2. Nearest(d, ks) = 0 /\ Nearest(c, ks) = 0
        BY <1>6, <2>3, <3>1
      <3>3. QED  BY <1>1, <1>2, <1>9, <3>2
    <2>4. CASE up # {}
      <3>1. PICK x : x = Min(up)
        OBVIOUS
      <3>2. x \in up /\ \A y \in up : x <= y
        <4>1. \E y \in up : \A z \in up : y <= z
          <5>1. PICK y \in up : \A z \in up : <<z, y>> \notin OpToRel(<, Nat)
            BY <1>7, <2>4, WFMin, NatLessThanWellFounded, Zenon
          <5>2. ASSUME NEW z \in up PROVE y <= z
            <6>1. y \in Nat /\ z \in Nat
              BY <1>7
            <6>2. ~(z < y)
              BY <5>1, <6>1 DEF OpToRel
            <6>3. QED  BY <6>1, <6>2
          <5>3. QED  BY <5>2
        <4>2. QED  BY <3>1, <4>1, Zenon DEF Min
      <3>3. x + 1 \in at /\ \A y \in at : x + 1 <= y
        BY <1>7, <2>1, <2>2, <3>2
      <3>4. Min(at) = x + 1
        <4>1. PICK z : z = x + 1
          OBVIOUS
        <4>2. at \in SUBSET Int /\ z \in at /\ \A y \in at : z <= y
          BY <1>7, <3>3, <4>1
        <4>3. Min(at) = z
          BY <4>2, MinIs
        <4>4. QED  BY <4>1, <4>3
      <3>5. x \in 1 .. n
        BY <1>4, <1>5, <3>2
      <3>6. d[Min(at)] = c[Min(up)]
        BY <1>4, <3>1, <3>4, <3>5
      <3>7. at # {}
        BY <3>3
      <3>8. Nearest(d, ks) = Nearest(c, ks)
        BY <1>6, <2>4, <3>6, <3>7
      <3>9. QED  BY <1>1, <1>2, <1>9, <3>8
    <2>5. QED  BY <2>3, <2>4
  <1>10. QED  BY <1>1, <1>8, <1>9

(* What holds of no class, and of a class when it holds of its base.       *)
LEMMA ClassInduction ==
  ASSUME NEW cs, Bases(cs), NEW S, 0 \in S, \A k \in 1 .. Len(cs) : cs[k].base \in S => k \in S
  PROVE  0 .. Len(cs) \subseteq S
  <1>1. PICK N \in Nat : N = Len(cs)
    BY DEF Bases
  <1>2. PICK T : T = {n \in 0 .. N : 0 .. n \subseteq S}
    OBVIOUS
  <1>3. 0 \in T
    <2>1. 0 .. 0 = {0} /\ 0 \in 0 .. N
      OBVIOUS
    <2>2. QED  BY <1>2, <2>1
  <1>4. ASSUME NEW n \in 0 .. N, n + 1 \in 0 .. N, n \in T
        PROVE  n + 1 \in T
    <2>1. n + 1 \in 1 .. N /\ (n + 1) - 1 = n
      BY <1>4
    <2>2. cs[n + 1].base \in 0 .. n
      BY <1>1, <2>1 DEF Bases
    <2>3. n + 1 \in S
      BY <1>1, <1>2, <1>4, <2>1, <2>2
    <2>4. \A j \in 0 .. n + 1 : j = n + 1 \/ j \in 0 .. n
      OBVIOUS
    <2>5. QED  BY <1>2, <1>4, <2>3, <2>4
  <1>5. 0 .. N \subseteq T
    BY <1>3, <1>4, Induction
  <1>6. N \in T
    BY <1>5
  <1>7. QED  BY <1>1, <1>2, <1>6

LEMMA ChainsAreInside ==
  ASSUME NEW cs, Bases(cs)
  PROVE  \A k \in 0 .. Len(cs) :
           /\ ToSet(Chain(cs, k)) \subseteq 1 .. k
           /\ \A j \in ToSet(Chain(cs, k)) : ToSet(Chain(cs, j)) \subseteq ToSet(Chain(cs, k))
  <1> DEFINE S == {k \in 0 .. Len(cs) :
                     /\ ToSet(Chain(cs, k)) \subseteq 1 .. k
                     /\ \A j \in ToSet(Chain(cs, k)) : ToSet(Chain(cs, j)) \subseteq ToSet(Chain(cs, k))}
  <1>1. 0 \in S
    <2>1. 0 \in 0 .. Len(cs)
      BY DEF Bases
    <2>2. ToSet(Chain(cs, 0)) = {}
      BY ChainMembers
    <2>3. QED  BY <2>1, <2>2
  <1>2. ASSUME NEW k \in 1 .. Len(cs), cs[k].base \in S
        PROVE  k \in S
    <2>1. PICK b : b = cs[k].base
      OBVIOUS
    <2>2. b \in 0 .. k - 1 /\ k \in 0 .. Len(cs)
      BY <2>1 DEF Bases
    <2>3. ToSet(Chain(cs, k)) = {k} \cup ToSet(Chain(cs, b))
      BY <2>1, ChainMembers
    <2>4. ToSet(Chain(cs, b)) \subseteq 1 .. b
      BY <1>2, <2>1
    <2>5. 1 .. b \subseteq 1 .. k /\ k \in 1 .. k
      BY <2>2
    <2>6. ToSet(Chain(cs, k)) \subseteq 1 .. k
      BY <2>3, <2>4, <2>5
    <2>7. \A j \in ToSet(Chain(cs, b)) : ToSet(Chain(cs, j)) \subseteq ToSet(Chain(cs, b))
      BY <1>2, <2>1
    <2>8. QED  BY <2>2, <2>3, <2>6, <2>7
  <1>3. 0 .. Len(cs) \subseteq S
    <2> HIDE DEF S
    <2>1. QED  BY <1>1, <1>2, ClassInduction
  <1>4. QED  BY <1>3

LEMMA OwnersAre ==
  ASSUME NEW cs, Bases(cs), NEW ks
  PROVE  /\ Nearest(Chain(cs, 0), ks) = 0
         /\ \A k \in 1 .. Len(cs) : Nearest(Chain(cs, k), ks) =
              IF k \in ks THEN k ELSE Nearest(Chain(cs, cs[k].base), ks)
  <1>1. Chain(cs, 0) = <<>>
    BY ChainIs
  <1>2. Nearest(<<>>, ks) = 0
    BY DEF Nearest
  <1>3. ASSUME NEW k \in 1 .. Len(cs)
        PROVE  Nearest(Chain(cs, k), ks) =
                 IF k \in ks THEN k ELSE Nearest(Chain(cs, cs[k].base), ks)
    <2>1. PICK c : c = Chain(cs, cs[k].base)
      OBVIOUS
    <2>2. cs[k].base \in 0 .. Len(cs) /\ k \in Nat /\ 1 .. Len(cs) \subseteq Nat
      BY DEF Bases
    <2>3. c \in Seq(1 .. Len(cs))
      BY <2>1, <2>2, ChainType
    <2>4. c \in Seq(Nat)
      BY <2>2, <2>3, SeqMonotonic
    <2>5. Chain(cs, k) = <<k>> \o c
      BY <2>1, ChainIs
    <2>6. QED  BY <2>1, <2>2, <2>4, <2>5, NearestIs
  <1>4. QED  BY <1>1, <1>2, <1>3

LEMMA NearestMember ==
  ASSUME NEW cs, Bases(cs), NEW ks
  PROVE  \A k \in 0 .. Len(cs) :
           /\ Nearest(Chain(cs, k), ks) \in {0} \cup (ks \cap ToSet(Chain(cs, k)))
           /\ Nearest(Chain(cs, k), ks) = 0 => ks \cap ToSet(Chain(cs, k)) = {}
  <1> DEFINE S == {k \in 0 .. Len(cs) :
                     /\ Nearest(Chain(cs, k), ks) \in {0} \cup (ks \cap ToSet(Chain(cs, k)))
                     /\ Nearest(Chain(cs, k), ks) = 0 => ks \cap ToSet(Chain(cs, k)) = {}}
  <1>1. 0 \in S
    <2>1. 0 \in 0 .. Len(cs)
      BY DEF Bases
    <2>2. ToSet(Chain(cs, 0)) = {} /\ Nearest(Chain(cs, 0), ks) = 0
      BY ChainMembers, OwnersAre
    <2>3. QED  BY <2>1, <2>2
  <1>2. ASSUME NEW k \in 1 .. Len(cs), cs[k].base \in S
        PROVE  k \in S
    <2>1. PICK b, c, d, x, y : /\ b = cs[k].base /\ c = ToSet(Chain(cs, k)) /\ d = ToSet(Chain(cs, b))
                               /\ x = Nearest(Chain(cs, k), ks) /\ y = Nearest(Chain(cs, b), ks)
      OBVIOUS
    <2>2. k \in 0 .. Len(cs) /\ k # 0
      BY DEF Bases
    <2>3. c = {k} \cup d
      BY <2>1, ChainMembers
    <2>4. x = IF k \in ks THEN k ELSE y
      BY <2>1, OwnersAre
    <2>5. y \in {0} \cup (ks \cap d) /\ (y = 0 => ks \cap d = {})
      BY <1>2, <2>1
    <2>6. x \in {0} \cup (ks \cap c) /\ (x = 0 => ks \cap c = {})
      BY <2>2, <2>3, <2>4, <2>5
    <2>7. QED  BY <2>1, <2>2, <2>6
  <1>3. 0 .. Len(cs) \subseteq S
    <2> HIDE DEF S
    <2>1. QED  BY <1>1, <1>2, ClassInduction
  <1>4. QED  BY <1>3

LEMMA NearestAgrees ==
  ASSUME NEW c, NEW ks, NEW ls, ks \cap ToSet(c) = ls \cap ToSet(c)
  PROVE  Nearest(c, ks) = Nearest(c, ls)
  <1>1. \A i \in DOMAIN c : c[i] \in ToSet(c)
    BY DEF ToSet
  <1>2. {i \in DOMAIN c : c[i] \in ks} = {i \in DOMAIN c : c[i] \in ls}
    BY <1>1
  <1>3. QED  BY <1>2, Zenon DEF Nearest

-----------------------------------------------------------------------------
(* Methods: the one that is nearest is the one that a class has.           *)

(* What the list g is when n of the methods have been put over b.          *)
Putting(k, b, methods, n, g) ==
  /\ \A x \in DOMAIN g :
       \/ x \in DOMAIN b /\ g[x] = b[x] /\ \A i \in 1 .. n : methods[i].name # g[x].name
       \/ \E i \in 1 .. n : /\ g[x] = Own(k, methods[i])
                            /\ \A j \in i + 1 .. n : methods[j].name # methods[i].name
  /\ \A i \in 1 .. n : \E x \in DOMAIN g : g[x].name = methods[i].name

LEMMA PuttingStep ==
  ASSUME NEW k, NEW b, NEW methods, NEW n \in Nat, NEW S, NEW g \in Seq(S), Distinct(g),
         Putting(k, b, methods, n, g)
  PROVE  Putting(k, b, methods, n + 1, PutOver(g, Own(k, methods[n + 1])))
  <1>1. PICK m, f, h : m = methods[n + 1] /\ f = Own(k, m) /\ h = PutOver(g, f)
    OBVIOUS
  <1>2. f.name = m.name
    BY <1>1 DEF Own
  <1>3. \A i \in 1 .. n + 1 : i = n + 1 \/ i \in 1 .. n
    OBVIOUS
  <1>4. n + 1 \in 1 .. n + 1 /\ 1 .. n \subseteq 1 .. n + 1 /\ \A j \in n + 1 + 1 .. n + 1 : FALSE
    OBVIOUS
  <1>5. DOMAIN g = 1 .. Len(g) /\ Len(g) \in Nat
    OBVIOUS
  (* What holds of a function that stays, and of the new one.              *)
  <1>6. ASSUME NEW x \in DOMAIN g, g[x].name # m.name, NEW e, e = g[x]
        PROVE  \/ x \in DOMAIN b /\ e = b[x] /\ \A i \in 1 .. n + 1 : methods[i].name # e.name
               \/ \E i \in 1 .. n + 1 :
                    /\ e = Own(k, methods[i])
                    /\ \A j \in i + 1 .. n + 1 : methods[j].name # methods[i].name
    <2>1. CASE x \in DOMAIN b /\ g[x] = b[x] /\ \A i \in 1 .. n : methods[i].name # g[x].name
      BY <1>1, <1>3, <1>6, <2>1
    <2>2. CASE \E i \in 1 .. n : /\ g[x] = Own(k, methods[i])
                                 /\ \A j \in i + 1 .. n : methods[j].name # methods[i].name
      <3>1. PICK i \in 1 .. n : /\ g[x] = Own(k, methods[i])
                                /\ \A j \in i + 1 .. n : methods[j].name # methods[i].name
        BY <2>2
      <3>2. methods[i].name # m.name
        BY <1>6, <3>1 DEF Own
      <3>3. \A j \in i + 1 .. n + 1 : j = n + 1 \/ j \in i + 1 .. n
        OBVIOUS
      <3>4. \A j \in i + 1 .. n + 1 : methods[j].name # methods[i].name
        BY <1>1, <3>1, <3>2, <3>3
      <3>5. QED  BY <1>4, <1>6, <3>1, <3>4
    <2>3. QED  BY <2>1, <2>2 DEF Putting
  <1>7. CASE \E x \in DOMAIN g : g[x].name = m.name
    <2>1. PICK x \in DOMAIN g : g[x].name = m.name
      BY <1>7
    <2>2. h = [g EXCEPT ![x] = f]
      BY <1>1, <1>2, <2>1, PutOverIs
    <2>3. DOMAIN h = DOMAIN g /\ h[x] = f /\ \A y \in DOMAIN g : y # x => h[y] = g[y]
      BY <2>2
    <2>4. ASSUME NEW y \in DOMAIN h
          PROVE  \/ y \in DOMAIN b /\ h[y] = b[y] /\ \A i \in 1 .. n + 1 : methods[i].name # h[y].name
                 \/ \E i \in 1 .. n + 1 :
                      /\ h[y] = Own(k, methods[i])
                      /\ \A j \in i + 1 .. n + 1 : methods[j].name # methods[i].name
      <3>1. CASE y = x
        BY <1>1, <1>4, <2>3, <3>1
      <3>2. CASE y # x
        <4>1. h[y] = g[y] /\ y \in DOMAIN g /\ g[y].name # m.name
          BY <2>1, <2>3, <3>2 DEF Distinct
        <4>2. QED  BY <4>1, <1>6
      <3>3. QED  BY <3>1, <3>2
    <2>5. ASSUME NEW i \in 1 .. n + 1
          PROVE  \E y \in DOMAIN h : h[y].name = methods[i].name
      <3>1. CASE i = n + 1
        BY <1>1, <1>2, <2>3, <3>1
      <3>2. CASE i # n + 1
        <4>1. PICK y \in DOMAIN g : g[y].name = methods[i].name
          BY <1>3, <3>2 DEF Putting
        <4>2. h[y].name = g[y].name
          BY <1>2, <2>1, <2>3
        <4>3. QED  BY <2>3, <4>1, <4>2
      <3>3. QED  BY <3>1, <3>2
    <2>6. QED  BY <1>1, <2>4, <2>5 DEF Putting
  <1>8. CASE ~\E x \in DOMAIN g : g[x].name = m.name
    <2>1. ~Named(g, f.name)
      BY <1>2, <1>8 DEF Named, NamesOf
    <2>2. h = Append(g, f)
      BY <1>1, <2>1, PutOverIs
    <2>3. PICK l \in Nat : l = Len(g)
      OBVIOUS
    <2>4. Len(h) = l + 1 /\ h[l + 1] = f /\ \A j \in 1 .. l : h[j] = g[j]
      BY <2>2, <2>3, Appended
    <2>5. DOMAIN h = 1 .. l + 1 /\ DOMAIN g = 1 .. l
      <3>1. h \in Seq(S \cup {f})
        <4>1. S \subseteq S \cup {f}
          OBVIOUS
        <4>2. g \in Seq(S \cup {f})
          BY <4>1, SeqMonotonic
        <4>3. QED  BY <2>2, <4>2
      <3>2. QED  BY <2>3, <2>4, <3>1
    <2>6. \A y \in 1 .. l + 1 : y = l + 1 \/ y \in 1 .. l
      OBVIOUS
    <2>7. ASSUME NEW y \in DOMAIN h
          PROVE  \/ y \in DOMAIN b /\ h[y] = b[y] /\ \A i \in 1 .. n + 1 : methods[i].name # h[y].name
                 \/ \E i \in 1 .. n + 1 :
                      /\ h[y] = Own(k, methods[i])
                      /\ \A j \in i + 1 .. n + 1 : methods[j].name # methods[i].name
      <3>1. CASE y = l + 1
        BY <1>1, <1>4, <2>4, <3>1
      <3>2. CASE y \in 1 .. l
        <4>1. h[y] = g[y] /\ y \in DOMAIN g /\ g[y].name # m.name
          BY <1>8, <2>4, <2>5, <3>2
        <4>2. QED  BY <4>1, <1>6
      <3>3. QED  BY <2>5, <2>6, <3>1, <3>2
    <2>8. ASSUME NEW i \in 1 .. n + 1
          PROVE  \E y \in DOMAIN h : h[y].name = methods[i].name
      <3>1. CASE i = n + 1
        <4>1. l + 1 \in DOMAIN h
          BY <2>5
        <4>2. QED  BY <1>1, <1>2, <2>4, <3>1, <4>1
      <3>2. CASE i # n + 1
        <4>1. PICK y \in DOMAIN g : g[y].name = methods[i].name
          BY <1>3, <3>2 DEF Putting
        <4>2. h[y] = g[y] /\ y \in DOMAIN h
          BY <2>4, <2>5
        <4>3. QED  BY <4>1, <4>2
      <3>3. QED  BY <3>1, <3>2
    <2>9. QED  BY <1>1, <2>7, <2>8 DEF Putting
  <1>9. QED  BY <1>7, <1>8

LEMMA MembFuncsPut ==
  ASSUME NEW k \in Nat \ {0}, NEW base, base.membfuncs \in Seq(Entries(k - 1)),
         Distinct(base.membfuncs), NEW methods \in Seq([name : STRING, kind : MethodKinds]),
         Overlay(base.membfuncs, methods)
  PROVE  Putting(k, base.membfuncs, methods, Len(methods), MembFuncs(base, k, methods))
  <1>1. PICK N \in Nat : N = Len(methods)
    OBVIOUS
  <1>2. PICK b : b = base.membfuncs
    OBVIOUS
  <1>3. PICK f : IsPuts(base, k, methods, N, f) /\ MembFuncs(base, k, methods) = f[N]
    BY <1>1, MembFuncsIs
  <1>4. \A n \in 0 .. N : Overlaid(b, k, f[n])
    BY <1>1, <1>2, <1>3, PutsOverlaid
  <1> DEFINE S == {n \in 0 .. N : Putting(k, b, methods, n, f[n])}
  <1>5. 0 \in S
    <2>1. f[0] = b
      BY <1>2, <1>3 DEF IsPuts
    <2>2. \A i \in 1 .. 0 : FALSE
      OBVIOUS
    <2>3. Putting(k, b, methods, 0, b)
      BY <2>2 DEF Putting
    <2>4. QED  BY <2>1, <2>3
  <1>6. ASSUME NEW n \in 0 .. N, n + 1 \in 0 .. N, n \in S
        PROVE  n + 1 \in S
    <2>1. f[n + 1] = PutOver(f[n], Own(k, methods[n + 1]))
      <3>1. n + 1 # 0 /\ (n + 1) - 1 = n
        OBVIOUS
      <3>2. f[n + 1] = PutOver(f[(n + 1) - 1], Own(k, methods[n + 1]))
        BY <1>3, <1>6, <3>1, Zenon DEF IsPuts
      <3>3. QED  BY <3>1, <3>2
    <2>2. PICK g : g = f[n]
      OBVIOUS
    <2>3. g \in Seq(Entries(k)) /\ Distinct(g) /\ Putting(k, b, methods, n, g)
      BY <1>4, <1>6, <2>2 DEF Overlaid
    <2>4. Putting(k, b, methods, n + 1, PutOver(g, Own(k, methods[n + 1])))
      BY <2>3, PuttingStep
    <2>5. QED  BY <1>6, <2>1, <2>2, <2>4
  <1>7. 0 .. N \subseteq S
    <2> HIDE DEF S
    <2>1. QED  BY <1>5, <1>6, Induction
  <1>8. QED  BY <1>1, <1>2, <1>3, <1>7

(* A class has the methods it declares and those of its base that it does  *)
(* not declare again.                                                      *)
OwnFirst(k, b, methods, fs) ==
  \A m : /\ Named(fs, m) <=> Named(methods, m) \/ Named(b, m)
         /\ Named(methods, m) => Of(fs, m).class = k /\ Of(fs, m).kind = Of(methods, m).kind
         /\ ~Named(methods, m) /\ Named(b, m) => Of(fs, m) = Of(b, m)

LEMMA MembFuncsOwnFirst ==
  ASSUME NEW k \in Nat \ {0}, NEW base, base.membfuncs \in Seq(Entries(k - 1)),
         Distinct(base.membfuncs), NEW methods \in Seq([name : STRING, kind : MethodKinds]),
         Overlay(base.membfuncs, methods)
  PROVE  OwnFirst(k, base.membfuncs, methods, MembFuncs(base, k, methods))
  <1>1. PICK b, fs : b = base.membfuncs /\ fs = MembFuncs(base, k, methods)
    OBVIOUS
  <1>2. PICK N \in Nat : N = Len(methods) /\ DOMAIN methods = 1 .. N
    OBVIOUS
  <1>3. Putting(k, b, methods, N, fs) /\ Overlaid(b, k, fs)
    BY <1>1, <1>2, MembFuncsPut, MembFuncsOverlaid
  <1>4. b \in Seq(Entries(k - 1)) /\ Distinct(b) /\ fs \in Seq(Entries(k)) /\ Distinct(fs)
    BY <1>1, <1>3 DEF Overlaid
  <1>5. \A x \in DOMAIN b : x \in DOMAIN fs /\ fs[x].name = b[x].name
    <2>1. DOMAIN b = 1 .. Len(b) /\ DOMAIN fs = 1 .. Len(fs) /\ Len(b) \in Nat /\ Len(fs) \in Nat
      BY <1>4
    <2>2. QED  BY <1>3, <2>1 DEF Overlaid
  <1>6. ASSUME NEW m, Named(fs, m)
        PROVE  \E x \in DOMAIN fs : fs[x].name = m /\ Of(fs, m) = fs[x]
    <2>1. PICK x \in DOMAIN fs : fs[x].name = m
      BY <1>6 DEF Named, NamesOf
    <2>2. QED  BY <1>4, <2>1, OfIs
  <1>7. ASSUME NEW i \in 1 .. N, \A j \in i + 1 .. N : methods[j].name # methods[i].name
        PROVE  Of(methods, methods[i].name) = methods[i]
    <2>1. PICK T : T = {j \in DOMAIN methods : methods[j].name = methods[i].name}
      OBVIOUS
    <2>2. T \in SUBSET Int /\ i \in T
      BY <1>2, <2>1
    <2>3. ASSUME NEW j \in T
          PROVE  j <= i
      <3>1. j \in 1 .. N /\ j \notin i + 1 .. N
        BY <1>2, <1>7, <2>1
      <3>2. QED  BY <3>1
    <2>4. Max(T) = i
      BY <2>2, <2>3, MaxIs
    <2>5. QED  BY <2>1, <2>4, Zenon DEF Of
  <1>8. ASSUME NEW m
        PROVE  /\ Named(fs, m) <=> Named(methods, m) \/ Named(b, m)
               /\ Named(methods, m) => Of(fs, m).class = k /\ Of(fs, m).kind = Of(methods, m).kind
               /\ ~Named(methods, m) /\ Named(b, m) => Of(fs, m) = Of(b, m)
    <2>1. Named(methods, m) => Named(fs, m)
      BY <1>2, <1>3 DEF Putting, Named, NamesOf
    <2>2. Named(b, m) => Named(fs, m)
      BY <1>5 DEF Named, NamesOf
    <2>3. ASSUME Named(fs, m)
          PROVE  \/ Named(methods, m) /\ Of(fs, m).class = k /\ Of(fs, m).kind = Of(methods, m).kind
                 \/ ~Named(methods, m) /\ Named(b, m) /\ Of(fs, m) = Of(b, m)
      <3>1. PICK x \in DOMAIN fs : fs[x].name = m /\ Of(fs, m) = fs[x]
        BY <1>6, <2>3
      <3>2. CASE x \in DOMAIN b /\ fs[x] = b[x] /\ \A i \in 1 .. N : methods[i].name # fs[x].name
        <4>1. Of(b, m) = b[x] /\ Named(b, m)
          BY <1>4, <3>1, <3>2, OfIs
        <4>2. ~Named(methods, m)
          BY <1>2, <3>1, <3>2 DEF Named, NamesOf
        <4>3. QED  BY <3>1, <3>2, <4>1, <4>2
      <3>3. CASE \E i \in 1 .. N : /\ fs[x] = Own(k, methods[i])
                                   /\ \A j \in i + 1 .. N : methods[j].name # methods[i].name
        <4>1. PICK i \in 1 .. N : /\ fs[x] = Own(k, methods[i])
                                  /\ \A j \in i + 1 .. N : methods[j].name # methods[i].name
          BY <3>3
        <4>2. methods[i].name = m /\ fs[x].class = k /\ fs[x].kind = methods[i].kind
          BY <3>1, <4>1 DEF Own
        <4>3. Of(methods, m) = methods[i]
          BY <1>7, <4>1, <4>2
        <4>4. Named(methods, m)
          BY <1>2, <4>2 DEF Named, NamesOf
        <4>5. QED  BY <3>1, <4>2, <4>3, <4>4
      <3>4. QED  BY <1>3, <3>2, <3>3 DEF Putting
    <2>4. QED  BY <2>1, <2>2, <2>3
  <1>9. QED  BY <1>1, <1>8 DEF OwnFirst

-----------------------------------------------------------------------------
(* What a ClassDecl has to do with the text of its class.                  *)

LEMMA ElementsOwn ==
  ASSUME NEW k, NEW b, NEW cd, NEW fields \in Seq(FieldDecls), b.fieldCount \in Nat,
         cd.fieldCount = b.fieldCount + Len(fields), HasVTable(b) => HasVTable(cd)
  PROVE  \A i \in 1 .. Len(fields) :
           Elements(b, cd, k, fields)[i - 1 + b.fieldCount + Offset(cd)] =
             [class |-> k, name |-> fields[i].name, static |-> fields[i].static]
  <1>1. PICK M \in Nat, L \in Nat, N \in Nat : /\ M = b.fieldCount /\ L = Len(fields)
                                               /\ N = cd.fieldCount /\ N = M + L
    OBVIOUS
  <1>2. PICK o \in {0, 1}, p \in {0, 1} : o = Offset(cd) /\ p = Offset(b) /\ p <= o
    BY DEF Offset
  <1>3. PICK at : at = Elements(b, cd, k, fields)
    OBVIOUS
  <1>4. ASSUME NEW i \in 1 .. L
        PROVE  at[i - 1 + M + o] = [class |-> k, name |-> fields[i].name, static |-> fields[i].static]
    <2>1. PICK n : n = i - 1 + M + o
      OBVIOUS
    <2>2. n \in 0 .. N + o - 1 /\ ~(n < M + p) /\ n - (M + o) >= 0 /\ n - (M + o) + 1 = i
      <3>1. i \in Nat /\ 1 <= i /\ i <= L /\ M \in Nat /\ L \in Nat /\ N = M + L
        BY <1>1
      <3>2. o \in Nat /\ p \in Nat /\ p <= o
        BY <1>2
      <3>3. QED  BY <2>1, <3>1, <3>2
    <2>3. at[n] = [class |-> k, name |-> fields[n - (M + o) + 1].name,
                   static |-> fields[n - (M + o) + 1].static]
      BY <1>1, <1>2, <1>3, <2>2 DEF Elements
    <2>4. QED  BY <2>1, <2>2, <2>3
  <1>5. QED  BY <1>1, <1>2, <1>3, <1>4

LEMMA ElementsOfOwn ==
  ASSUME NEW b, NEW cd, NEW fields \in Seq(FieldDecls), Distinct(fields)
  PROVE  /\ \A i \in 1 .. Len(fields) :
              ElementsOf(b, cd, fields)[fields[i].name] = i - 1 + b.fieldCount + Offset(cd)
         /\ \A f \in DOMAIN b.elementOf \ NamesOf(fields) :
              ElementsOf(b, cd, fields)[f] = b.elementOf[f]
  <1>1. PICK own : own = [f \in NamesOf(fields) |->
                            SelectInSeq(fields, LAMBDA d : d.name = f) - 1 + b.fieldCount + Offset(cd)]
    OBVIOUS
  <1>2. PICK of : of = ElementsOf(b, cd, fields) /\ of = Over(own, b.elementOf)
    BY <1>1 DEF ElementsOf
  <1>3. /\ \A f \in NamesOf(fields) : of[f] = own[f]
        /\ \A f \in DOMAIN b.elementOf \ NamesOf(fields) : of[f] = b.elementOf[f]
    BY <1>1, <1>2 DEF Over
  <1>4. ASSUME NEW i \in 1 .. Len(fields)
        PROVE  of[fields[i].name] = i - 1 + b.fieldCount + Offset(cd)
    <2>1. PICK f : f = fields[i].name
      OBVIOUS
    <2>2. f \in NamesOf(fields)
      BY <2>1 DEF NamesOf
    <2>3. {j \in 1 .. Len(fields) : fields[j].name = f} = {i}
      BY <2>1 DEF Distinct
    <2>4. SelectInSeq(fields, LAMBDA d : d.name = f) = i
      <3>1. i \in Int
        OBVIOUS
      <3>2. Min({i}) = i
        BY <3>1, OnlyOne
      <3>3. QED  BY <2>3, <3>2 DEF SelectInSeq
    <2>5. own[f] = i - 1 + b.fieldCount + Offset(cd)
      BY <1>1, <2>2, <2>4
    <2>6. QED  BY <1>3, <2>1, <2>2, <2>5
  <1>5. QED  BY <1>2, <1>3, <1>4

(* The class k with the base b, written c, and its ClassDecl.              *)
FieldAt(cd) == Offset(cd) .. cd.fieldCount + Offset(cd) - 1

WrittenMethods(k, b, c, cd) ==
  /\ c.methods \in Seq([name : STRING, kind : MethodKinds])
  /\ Overlay(b.membfuncs, c.methods)
  /\ Overlaid(b.membfuncs, k, cd.membfuncs)
  /\ OwnFirst(k, b.membfuncs, c.methods, cd.membfuncs)
  /\ cd.vtable = VTable(cd)

WrittenFields(k, b, c, cd) ==
  /\ c.fields \in Seq(FieldDecls) /\ Distinct(c.fields) /\ c.variant \in BOOLEAN
  /\ \A i \in 1 .. Len(c.fields) :
       /\ cd.element[i - 1 + b.fieldCount + Offset(cd)] =
            [class |-> k, name |-> c.fields[i].name, static |-> c.fields[i].static]
       /\ cd.elementOf[c.fields[i].name] = i - 1 + b.fieldCount + Offset(cd)
  /\ \A f \in DOMAIN b.elementOf \ NamesOf(c.fields) : cd.elementOf[f] = b.elementOf[f]
  /\ \A i, j \in FieldAt(cd) : i < j /\ cd.element[i].static => cd.element[j].static
  /\ c.variant => \A i \in FieldAt(cd) : ~cd.element[i].static

LEMMA ClassIsWritten ==
  ASSUME NEW k \in Nat \ {0}, NEW b, Good(k - 1, b), NEW d \in Declarations,
         Overlay(b.membfuncs, d.methods), NEW cd, cd = ClassDecl(b, k, d),
         HasVTable(b) => HasVTable(cd),
         \A i, j \in FieldAt(cd) : i < j /\ cd.element[i].static => cd.element[j].static,
         d.variant => \A i \in FieldAt(cd) : ~cd.element[i].static,
         NEW c, c.fields = d.fields, c.methods = d.methods, c.variant = d.variant
  PROVE  WrittenMethods(k, b, c, cd) /\ WrittenFields(k, b, c, cd)
  <1>1. PICK fields, methods : /\ fields = d.fields /\ methods = d.methods
                               /\ fields \in Seq(FieldDecls) /\ Distinct(fields)
                               /\ methods \in Seq([name : STRING, kind : MethodKinds])
    BY ObjectsAssumption DEF FieldDecls, MethodKinds, Distinct
  <1>2. PICK fs, v : fs = MembFuncs(b, k, methods) /\ v = Indexed(b, fs)
    OBVIOUS
  <1>3. PICK part : part = [membfuncs |-> fs, fieldCount |-> b.fieldCount + Len(fields),
                            virtIndex |-> v.virtIndex, virtuals |-> v.virtuals]
    OBVIOUS
  <1>4. PICK at : at = Elements(b, part, k, fields)
    OBVIOUS
  <1>5. /\ cd.membfuncs = fs /\ cd.fieldCount = part.fieldCount
        /\ cd.virtIndex = v.virtIndex /\ cd.virtuals = v.virtuals /\ cd.element = at
        /\ cd.elementOf = ElementsOf(b, part, fields) /\ cd.vtable = VTable(part)
    BY <1>1, <1>2, <1>3, <1>4 DEF ClassDecl
  <1>6. /\ part.membfuncs = fs /\ part.fieldCount = b.fieldCount + Len(fields)
        /\ part.virtIndex = v.virtIndex /\ part.virtuals = v.virtuals
    BY <1>3
  <1>7. HasVTable(cd) = HasVTable(part) /\ Offset(cd) = Offset(part)
    BY <1>5, <1>6 DEF HasVTable, Offset
  <1>8. b.membfuncs \in Seq(Entries(k - 1)) /\ Distinct(b.membfuncs) /\ b.fieldCount \in Nat
    BY DEF Good
  <1>9. WrittenMethods(k, b, c, cd)
    <2>1. Overlaid(b.membfuncs, k, fs) /\ OwnFirst(k, b.membfuncs, methods, fs)
      BY <1>1, <1>2, <1>8, MembFuncsOverlaid, MembFuncsOwnFirst
    <2>2. VTable(part) = VTable(cd)
      BY <1>5, <1>6 DEF VTable
    <2>3. QED  BY <1>1, <1>5, <2>1, <2>2 DEF WrittenMethods
  <1>10. WrittenFields(k, b, c, cd)
    <2>1. \A i \in 1 .. Len(fields) : at[i - 1 + b.fieldCount + Offset(part)] =
            [class |-> k, name |-> fields[i].name, static |-> fields[i].static]
      BY <1>1, <1>4, <1>6, <1>7, <1>8, ElementsOwn
    <2>2. /\ \A i \in 1 .. Len(fields) :
                cd.elementOf[fields[i].name] = i - 1 + b.fieldCount + Offset(part)
          /\ \A f \in DOMAIN b.elementOf \ NamesOf(fields) : cd.elementOf[f] = b.elementOf[f]
      BY <1>1, <1>5, ElementsOfOwn
    <2>3. c.variant \in BOOLEAN
      BY ObjectsAssumption
    <2>4. QED  BY <1>1, <1>5, <1>7, <2>1, <2>2, <2>3 DEF WrittenFields
  <1>11. QED  BY <1>9, <1>10

Written(cs, ds) ==
  \A k \in 1 .. Len(cs) : /\ WrittenMethods(k, DeclOf(ds, cs[k].base), cs[k], ds[k])
                          /\ WrittenFields(k, DeclOf(ds, cs[k].base), cs[k], ds[k])

(* The variables that the static fields are.                               *)
StaticsOf(k, fields) == {<<k, e.name>> : e \in {g \in ToSet(fields) : g.static}}

Statics(cs) == UNION {StaticsOf(k, cs[k].fields) : k \in 1 .. Len(cs)}

LEMMA StaticsGrow ==
  ASSUME NEW S, NEW cs \in Seq(S), NEW c, NEW k, k = Len(cs) + 1
  PROVE  Statics(Append(cs, c)) = StaticsOf(k, c.fields) \cup Statics(cs)
  <1>1. PICK n \in Nat : n = Len(cs) /\ k = n + 1
    OBVIOUS
  <1>2. PICK cs2 : cs2 = Append(cs, c)
    OBVIOUS
  <1>3. Len(cs2) = n + 1 /\ cs2[k] = c /\ \A j \in 1 .. n : cs2[j] = cs[j]
    BY <1>1, <1>2, Appended
  <1>4. PICK F : F = [j \in 1 .. n + 1 |-> StaticsOf(j, cs2[j].fields)]
    OBVIOUS
  <1>5. k \in 1 .. n + 1 /\ 1 .. n \subseteq 1 .. n + 1 /\ \A j \in 1 .. n + 1 : j = k \/ j \in 1 .. n
    BY <1>1
  <1>6. F[k] = StaticsOf(k, c.fields) /\ \A j \in 1 .. n : F[j] = StaticsOf(j, cs[j].fields)
    BY <1>3, <1>4, <1>5
  <1>7. Statics(cs2) = UNION {F[j] : j \in 1 .. n + 1}
    BY <1>3, <1>4 DEF Statics
  <1>8. Statics(cs) = UNION {F[j] : j \in 1 .. n}
    BY <1>1, <1>6 DEF Statics
  <1>9. UNION {F[j] : j \in 1 .. n + 1} = F[k] \cup UNION {F[j] : j \in 1 .. n}
    BY <1>5
  <1>10. QED  BY <1>2, <1>6, <1>7, <1>8, <1>9

LEMMA WrittenGrows ==
  ASSUME NEW S, NEW T, NEW cs \in Seq(S), NEW ds \in Seq(T), Hierarchy(cs, ds), Written(cs, ds),
         NEW k, k = Len(cs) + 1, NEW base \in 0 .. Len(cs), NEW c, NEW cd, c.base = base,
         WrittenMethods(k, DeclOf(ds, base), c, cd), WrittenFields(k, DeclOf(ds, base), c, cd)
  PROVE  Written(Append(cs, c), Append(ds, cd))
  <1>1. PICK n \in Nat : n = Len(cs) /\ n = Len(ds) /\ k = n + 1
    BY DEF Hierarchy
  <1>2. PICK cs2, ds2 : cs2 = Append(cs, c) /\ ds2 = Append(ds, cd)
    OBVIOUS
  <1>3. /\ Len(cs2) = n + 1 /\ Len(ds2) = n + 1 /\ cs2[k] = c /\ ds2[k] = cd
        /\ \A j \in 1 .. n : cs2[j] = cs[j] /\ ds2[j] = ds[j]
    <2>1. Len(cs2) = n + 1 /\ cs2[n + 1] = c /\ \A j \in 1 .. n : cs2[j] = cs[j]
      <3>1. PICK s : s = cs /\ s \in Seq(S)
        OBVIOUS
      <3>2. PICK t : t = Append(s, c)
        OBVIOUS
      <3>3. Len(t) = Len(s) + 1 /\ t[Len(s) + 1] = c /\ \A j \in 1 .. Len(s) : t[j] = s[j]
        BY <3>1, <3>2, Appended
      <3>4. QED  BY <1>1, <1>2, <3>1, <3>2, <3>3
    <2>2. Len(ds2) = n + 1 /\ ds2[n + 1] = cd /\ \A j \in 1 .. n : ds2[j] = ds[j]
      BY <1>1, <1>2, Appended
    <2>3. QED  BY <1>1, <2>1, <2>2
  <1>4. \A j \in 1 .. n : cs[j].base \in 0 .. n
    <2>1. ASSUME NEW j \in 1 .. n
          PROVE  cs[j].base \in 0 .. n
      <3>1. cs[j].base \in 0 .. j - 1
        BY <1>1, <2>1 DEF Hierarchy, Bases
      <3>2. QED  BY <3>1
    <2>2. QED  BY <2>1
  <1>5. \A j \in 0 .. n : DeclOf(ds2, j) = DeclOf(ds, j)
    <2>1. \A j \in 0 .. n : j = 0 \/ j \in 1 .. n
      OBVIOUS
    <2>2. QED  BY <1>3, <2>1 DEF DeclOf
  <1>6. \A j \in 1 .. n + 1 : j = k \/ j \in 1 .. n
    BY <1>1
  <1>7. ASSUME NEW j \in 1 .. n + 1
        PROVE  /\ WrittenMethods(j, DeclOf(ds2, cs2[j].base), cs2[j], ds2[j])
               /\ WrittenFields(j, DeclOf(ds2, cs2[j].base), cs2[j], ds2[j])
    <2>1. CASE j \in 1 .. n
      <3>1. /\ WrittenMethods(j, DeclOf(ds, cs[j].base), cs[j], ds[j])
            /\ WrittenFields(j, DeclOf(ds, cs[j].base), cs[j], ds[j])
        BY <1>1, <2>1 DEF Written
      <3>2. cs2[j] = cs[j] /\ ds2[j] = ds[j] /\ DeclOf(ds2, cs[j].base) = DeclOf(ds, cs[j].base)
        BY <1>3, <1>4, <1>5, <2>1
      <3>3. QED  BY <3>1, <3>2
    <2>2. CASE j = k
      <3>1. cs2[j] = c /\ ds2[j] = cd /\ DeclOf(ds2, base) = DeclOf(ds, base)
        BY <1>1, <1>3, <1>5, <2>2
      <3>2. QED  BY <2>2, <3>1
    <2>3. QED  BY <1>6, <2>1, <2>2
  <1>8. Written(cs2, ds2)
    BY <1>3, <1>7 DEF Written
  <1>9. QED  BY <1>2, <1>8

(* What is proved of every state of the program.                           *)
IsCompiled == /\ IInv
              /\ Written(classes, decls)
              /\ DOMAIN globals = Statics(classes)
              /\ \A o \in Objects : memory[o].class # 0 =>
                    DOMAIN memory[o].slots = 0 .. Len(decls[memory[o].class].structure) - 1

LEMMA CompiledAtFirst ==
  ASSUME Init
  PROVE  IsCompiled
  <1>1. IInv
    BY FirstIInv
  <1>2. classes = <<>> /\ decls = <<>> /\ globals = <<>> /\ \A o \in Objects : memory[o] = Absent
    BY DEF Init
  <1>3. Len(classes) = 0 /\ \A k \in 1 .. 0 : FALSE
    BY <1>2
  <1>4. Written(classes, decls)
    BY <1>3 DEF Written
  <1>5. Statics(classes) = {} /\ DOMAIN globals = {}
    <2>1. 1 .. Len(classes) = {}
      BY <1>3
    <2>2. Statics(classes) = {}
      BY <2>1 DEF Statics
    <2>3. QED  BY <1>2, <2>2
  <1>6. QED  BY <1>1, <1>2, <1>4, <1>5, AbsentIsAnObject DEF IsCompiled

LEMMA DeclareIsCompiled ==
  ASSUME Careful = TRUE, IsCompiled, NEW base \in 0 .. Len(classes), NEW d \in Declarations,
         Declare(base, d)
  PROVE  IsCompiled'
  <1>1. IInv'
    BY DeclareKeepsIInv DEF IsCompiled
  <1>2. AreClasses
    BY DEF IsCompiled, IInv
  <1>3. PICK k, b, c, cd : Declares(k, base, d, b, c, cd)
    BY <1>2, DeclarationIs
  <1>4. PICK cs, ds : cs = classes /\ ds = decls
    OBVIOUS
  <1>5. Hierarchy(cs, ds) /\ Written(cs, ds)
    BY <1>2, <1>4 DEF AreClasses, IsCompiled
  <1>6. PICK S, T : cs \in Seq(S) /\ ds \in Seq(T)
    BY <1>2, <1>4 DEF AreClasses
  <1>7. Good(k, cd) /\ Laid(k, b, cd, d.fields, d.variant)
    BY <1>3, ClassIsLaid DEF Declares
  <1>8. c.base = base /\ c.fields = d.fields /\ c.variant = d.variant /\ c.methods = d.methods
    BY <1>3 DEF Declares
  <1>9. WrittenMethods(k, b, c, cd) /\ WrittenFields(k, b, c, cd)
    <2>1. HasVTable(b) => HasVTable(cd)
      BY <1>7 DEF Laid
    <2>2. /\ k \in Nat \ {0} /\ Good(k - 1, b) /\ Overlay(b.membfuncs, d.methods)
          /\ cd = ClassDecl(b, k, d)
      BY <1>3 DEF Declares
    <2>3. /\ \A i, j \in FieldAt(cd) : i < j /\ cd.element[i].static => cd.element[j].static
          /\ d.variant => \A i \in FieldAt(cd) : ~cd.element[i].static
      BY <1>3, Zenon DEF Declares, FieldAt
    <2>4. QED  BY <1>8, <2>1, <2>2, <2>3, ClassIsWritten
  <1>10. k = Len(cs) + 1 /\ base \in 0 .. Len(cs) /\ b = DeclOf(ds, base)
    BY <1>3, <1>4 DEF Declares
  <1>11. /\ Written(Append(cs, c), Append(ds, cd))
         /\ Statics(Append(cs, c)) = StaticsOf(k, c.fields) \cup Statics(cs)
    <2>1. WrittenMethods(k, DeclOf(ds, base), c, cd) /\ WrittenFields(k, DeclOf(ds, base), c, cd)
      BY <1>9, <1>10
    <2>2. Written(Append(cs, c), Append(ds, cd))
      BY <1>5, <1>6, <1>8, <1>10, <2>1, WrittenGrows
    <2>3. Statics(Append(cs, c)) = StaticsOf(k, c.fields) \cup Statics(cs)
      BY <1>6, <1>10, StaticsGrow
    <2>4. QED  BY <2>2, <2>3
  <1>12. classes' = Append(cs, c) /\ decls' = Append(ds, cd)
    BY <1>3, <1>4 DEF Declares
  <1>13. DOMAIN globals' = Statics(classes')
    <2>1. Len(classes') = k
      BY <1>6, <1>10, <1>12, Appended
    <2>2. PICK F : F = [f \in StaticsOf(k, d.fields) |-> Zero]
      OBVIOUS
    <2>3. globals' = Over(F, globals)
      BY <2>1, <2>2 DEF Declare, StaticsOf
    <2>4. DOMAIN globals' = StaticsOf(k, d.fields) \cup DOMAIN globals
      BY <2>2, <2>3 DEF Over
    <2>5. QED  BY <1>4, <1>8, <1>11, <1>12, <2>4 DEF IsCompiled
  <1>14. \A o \in Objects : memory'[o].class = 0
    BY AbsentIsAnObject DEF Declare
  <1>15. QED  BY <1>1, <1>11, <1>12, <1>13, <1>14 DEF IsCompiled

LEMMA StepIsCompiled ==
  ASSUME Careful = TRUE, IsCompiled, [Next]_vars
  PROVE  IsCompiled'
  <1>1. IInv'
    BY StepKeepsIInv DEF IsCompiled
  <1>2. memory \in [Objects -> Object]
    BY DEF IsCompiled, IInv
  <1>3. ASSUME UNCHANGED <<classes, decls>>, DOMAIN globals' = DOMAIN globals,
               \A o \in Objects : memory'[o].class # 0 =>
                  DOMAIN memory'[o].slots = 0 .. Len(decls[memory'[o].class].structure) - 1
        PROVE  IsCompiled'
    BY <1>1, <1>3 DEF IsCompiled
  <1>4. ASSUME NEW o \in Objects, NEW k \in DOMAIN classes, Create(o, k)
        PROVE  IsCompiled'
    <2>1. UNCHANGED <<classes, decls, globals>>
      BY <1>4 DEF Create, Crash
    <2>2. CASE memory' = memory
      BY <1>3, <2>1, <2>2 DEF IsCompiled
    <2>3. CASE memory' # memory
      <3>1. PICK new : new = [class |-> k,
                              slots |-> [i \in 0 .. Len(decls[k].structure) - 1 |->
                                           IF i = 0 /\ HasVTable(decls[k]) THEN k ELSE Zero]]
        OBVIOUS
      <3>2. memory' = [memory EXCEPT ![o] = new]
        BY <1>4, <2>3, <3>1 DEF Create, Crash
      <3>3. new.class = k /\ DOMAIN new.slots = 0 .. Len(decls[k].structure) - 1
        BY <3>1
      <3>4. memory'[o] = new /\ \A p \in Objects : p # o => memory'[p] = memory[p]
        BY <1>2, <3>2
      <3>5. ASSUME NEW p \in Objects, memory'[p].class # 0
            PROVE  DOMAIN memory'[p].slots = 0 .. Len(decls[memory'[p].class].structure) - 1
        <4>1. CASE p = o
          BY <3>3, <3>4, <4>1, <2>1
        <4>2. CASE p # o
          <5>1. memory'[p] = memory[p]
            BY <3>4, <4>2
          <5>2. QED  BY <3>5, <2>1, <5>1 DEF IsCompiled
        <4>3. QED  BY <4>1, <4>2
      <3>6. UNCHANGED <<classes, decls>> /\ DOMAIN globals' = DOMAIN globals
        BY <2>1
      <3>7. QED  BY <1>3, <3>5, <3>6
    <2>4. QED  BY <2>2, <2>3
  <1>5. ASSUME NEW o \in Objects, NEW i, NEW v, memory' = [memory EXCEPT ![o].slots[i] = v],
               UNCHANGED <<classes, decls, globals>>
        PROVE  IsCompiled'
    <2>1. PICK slots : slots = [memory[o].slots EXCEPT ![i] = v]
      OBVIOUS
    <2>2. DOMAIN slots = DOMAIN memory[o].slots
      BY <2>1
    <2>3. PICK new : new = [memory[o] EXCEPT !.slots = slots]
      OBVIOUS
    <2>4. new.class = memory[o].class /\ new.slots = slots
      BY <1>2, <2>3 DEF Object
    <2>5. memory'[o] = new /\ \A p \in Objects : p # o => memory'[p] = memory[p]
      BY <1>2, <1>5, <2>1, <2>3
    <2>6. ASSUME NEW p \in Objects, memory'[p].class # 0
          PROVE  DOMAIN memory'[p].slots = 0 .. Len(decls[memory'[p].class].structure) - 1
      <3>1. memory'[p].class = memory[p].class /\ DOMAIN memory'[p].slots = DOMAIN memory[p].slots
        BY <2>2, <2>4, <2>5
      <3>2. DOMAIN memory[p].slots = 0 .. Len(decls[memory[p].class].structure) - 1
        BY <2>6, <3>1 DEF IsCompiled
      <3>3. QED  BY <3>1, <3>2
    <2>7. UNCHANGED <<classes, decls>> /\ DOMAIN globals' = DOMAIN globals
      BY <1>5
    <2>8. QED  BY <1>3, <2>6, <2>7
  <1>6. ASSUME NEW o \in Objects, NEW s \in DOMAIN classes, NEW f \in FieldsSeen(classes, s),
               NEW inside \in BOOLEAN, NEW v \in Values, Put(o, s, f, inside, v)
        PROVE  IsCompiled'
    <2>1. UNCHANGED <<classes, decls>>
      BY <1>6 DEF Put
    <2>2. CASE memory' = memory /\ globals' = [globals EXCEPT ![Global(s, f)] = v]
      BY <1>3, <2>1, <2>2 DEF IsCompiled
    <2>3. CASE memory' = [memory EXCEPT ![o].slots[Slot(s, f, inside)] = v] /\ UNCHANGED globals
      BY <1>5, <2>1, <2>3
    <2>4. CASE UNCHANGED <<memory, globals>>
      BY <1>3, <2>1, <2>4 DEF IsCompiled
    <2>5. QED  BY <1>6, <2>2, <2>3, <2>4 DEF Put, Crash
  <1>7. ASSUME NEW a \in Objects, NEW b \in Objects, Assign(a, b)
        PROVE  IsCompiled'
    <2>1. PICK slots : slots = memory[b].slots
      OBVIOUS
    <2>2. /\ memory[a].class = memory[b].class /\ memory[a].class # 0
          /\ memory' = [memory EXCEPT ![a].slots = slots]
          /\ UNCHANGED <<classes, decls, globals>>
      BY <1>7, <2>1 DEF Assign, Copied
    <2>3. PICK new : new = [memory[a] EXCEPT !.slots = slots]
      OBVIOUS
    <2>4. new.class = memory[b].class /\ new.slots = memory[b].slots
      BY <1>2, <2>1, <2>2, <2>3 DEF Object
    <2>5. memory'[a] = new /\ \A p \in Objects : p # a => memory'[p] = memory[p]
      BY <1>2, <2>2, <2>3
    <2>6. ASSUME NEW p \in Objects, memory'[p].class # 0
          PROVE  DOMAIN memory'[p].slots = 0 .. Len(decls[memory'[p].class].structure) - 1
      <3>1. CASE p = a
        <4>1. DOMAIN memory[b].slots = 0 .. Len(decls[memory[b].class].structure) - 1
          BY <2>2 DEF IsCompiled
        <4>2. QED  BY <2>4, <2>5, <3>1, <4>1
      <3>2. CASE p # a
        <4>1. memory'[p] = memory[p]
          BY <2>5, <3>2
        <4>2. QED  BY <2>6, <4>1 DEF IsCompiled
      <3>3. QED  BY <3>1, <3>2
    <2>7. UNCHANGED <<classes, decls>> /\ DOMAIN globals' = DOMAIN globals
      BY <2>2
    <2>8. QED  BY <1>3, <2>6, <2>7
  <1>8. CASE UNCHANGED vars
    BY <1>3, <1>8 DEF vars, IsCompiled
  <1>9. CASE Next
    <2>1. ASSUME NEW base \in 0 .. Len(classes), NEW d \in Declarations, Declare(base, d)
          PROVE  IsCompiled'
      BY <2>1, DeclareIsCompiled
    <2>2. QED  BY <1>4, <1>6, <1>7, <1>9, <2>1 DEF Next
  <1>10. QED  BY <1>8, <1>9

-----------------------------------------------------------------------------
(* Methods through the chain of a class.                                   *)

LEMMA OwnersByBase ==
  ASSUME NEW cs, Bases(cs), DOMAIN cs = 1 .. Len(cs), NEW n
  PROVE  /\ MethodOwner(cs, 0, n) = 0 /\ FieldOwner(cs, 0, n) = 0
         /\ \A k \in 1 .. Len(cs) :
              /\ MethodOwner(cs, k, n) = IF Named(cs[k].methods, n) THEN k
                                         ELSE MethodOwner(cs, cs[k].base, n)
              /\ FieldOwner(cs, k, n) = IF Named(cs[k].fields, n) THEN k
                                        ELSE FieldOwner(cs, cs[k].base, n)
  <1>1. PICK ms, fs : /\ ms = {j \in DOMAIN cs : Named(cs[j].methods, n)}
                      /\ fs = {j \in DOMAIN cs : Named(cs[j].fields, n)}
    OBVIOUS
  <1>2. \A k : /\ MethodOwner(cs, k, n) = Nearest(Chain(cs, k), ms)
               /\ FieldOwner(cs, k, n) = Nearest(Chain(cs, k), fs)
    BY <1>1, Zenon DEF MethodOwner, FieldOwner
  <1>3. \A k \in 1 .. Len(cs) : /\ k \in ms <=> Named(cs[k].methods, n)
                                /\ k \in fs <=> Named(cs[k].fields, n)
    BY <1>1
  <1>4. /\ Nearest(Chain(cs, 0), ms) = 0
        /\ \A k \in 1 .. Len(cs) : Nearest(Chain(cs, k), ms) =
             IF k \in ms THEN k ELSE Nearest(Chain(cs, cs[k].base), ms)
    BY OwnersAre
  <1>5. /\ Nearest(Chain(cs, 0), fs) = 0
        /\ \A k \in 1 .. Len(cs) : Nearest(Chain(cs, k), fs) =
             IF k \in fs THEN k ELSE Nearest(Chain(cs, cs[k].base), fs)
    BY OwnersAre
  <1>6. QED  BY <1>2, <1>3, <1>4, <1>5

LEMMA OwnerIsDeclared ==
  ASSUME NEW cs, Bases(cs), DOMAIN cs = 1 .. Len(cs), NEW k \in 0 .. Len(cs), NEW n
  PROVE  /\ MethodOwner(cs, k, n) # 0 =>
              /\ MethodOwner(cs, k, n) \in ToSet(Chain(cs, k))
              /\ Named(cs[MethodOwner(cs, k, n)].methods, n)
         /\ FieldOwner(cs, k, n) # 0 =>
              /\ FieldOwner(cs, k, n) \in ToSet(Chain(cs, k))
              /\ Named(cs[FieldOwner(cs, k, n)].fields, n)
         /\ MethodOwner(cs, k, n) = 0 =>
              \A j \in ToSet(Chain(cs, k)) : ~Named(cs[j].methods, n)
         /\ FieldOwner(cs, k, n) = 0 =>
              \A j \in ToSet(Chain(cs, k)) : ~Named(cs[j].fields, n)
  <1>1. PICK ms, fs : /\ ms = {j \in DOMAIN cs : Named(cs[j].methods, n)}
                      /\ fs = {j \in DOMAIN cs : Named(cs[j].fields, n)}
    OBVIOUS
  <1>2. /\ MethodOwner(cs, k, n) = Nearest(Chain(cs, k), ms)
        /\ FieldOwner(cs, k, n) = Nearest(Chain(cs, k), fs)
    BY <1>1, Zenon DEF MethodOwner, FieldOwner
  <1>3. /\ Nearest(Chain(cs, k), ms) \in {0} \cup (ms \cap ToSet(Chain(cs, k)))
        /\ Nearest(Chain(cs, k), ms) = 0 => ms \cap ToSet(Chain(cs, k)) = {}
    BY NearestMember
  <1>4. /\ Nearest(Chain(cs, k), fs) \in {0} \cup (fs \cap ToSet(Chain(cs, k)))
        /\ Nearest(Chain(cs, k), fs) = 0 => fs \cap ToSet(Chain(cs, k)) = {}
    BY NearestMember
  <1>5. ToSet(Chain(cs, k)) \subseteq DOMAIN cs
    <2>1. ToSet(Chain(cs, k)) \subseteq 1 .. k
      BY ChainsAreInside
    <2>2. 1 .. k \subseteq 1 .. Len(cs)
      BY DEF Bases
    <2>3. QED  BY <2>1, <2>2
  <1>6. QED  BY <1>1, <1>2, <1>3, <1>4, <1>5

(* The function m of the class k, whose ClassDecl is cd.                   *)
HasMethod(cs, k, cd, m) ==
  /\ Named(cd.membfuncs, m) <=> MethodOwner(cs, k, m) # 0
  /\ MethodOwner(cs, k, m) # 0 =>
       /\ Of(cd.membfuncs, m).class = MethodOwner(cs, k, m)
       /\ Of(cd.membfuncs, m).kind = Kind(cs, MethodOwner(cs, k, m), m)

LEMMA MethodsAre ==
  ASSUME NEW cs, NEW ds, Hierarchy(cs, ds), Written(cs, ds), DOMAIN cs = 1 .. Len(cs), NEW m
  PROVE  \A k \in 0 .. Len(cs) : HasMethod(cs, k, DeclOf(ds, k), m)
  <1> DEFINE S == {k \in 0 .. Len(cs) : HasMethod(cs, k, DeclOf(ds, k), m)}
  <1>1. Bases(cs)
    BY DEF Hierarchy
  <1>2. 0 \in S
    <2>1. MethodOwner(cs, 0, m) = 0 /\ 0 \in 0 .. Len(cs)
      BY <1>1, OwnersByBase DEF Bases
    <2>2. ~Named(None.membfuncs, m)
      BY DEF None, Named, NamesOf
    <2>3. QED  BY <2>1, <2>2 DEF HasMethod, DeclOf
  <1>3. ASSUME NEW k \in 1 .. Len(cs), cs[k].base \in S
        PROVE  k \in S
    <2>1. PICK i, c, b, cd : i = cs[k].base /\ c = cs[k] /\ b = DeclOf(ds, i) /\ cd = ds[k]
      OBVIOUS
    <2>2. k \in 0 .. Len(cs) /\ k # 0
      BY <1>1 DEF Bases
    <2>3. OwnFirst(k, b.membfuncs, c.methods, cd.membfuncs)
      BY <2>1 DEF Written, WrittenMethods
    <2>4. HasMethod(cs, i, b, m)
      BY <1>3, <2>1
    <2>5. MethodOwner(cs, k, m) = IF Named(c.methods, m) THEN k ELSE MethodOwner(cs, i, m)
      BY <1>1, <2>1, OwnersByBase
    <2>6. Kind(cs, k, m) = Of(c.methods, m).kind
      BY <2>1 DEF Kind
    <2>7. PICK x, y : x = MethodOwner(cs, k, m) /\ y = MethodOwner(cs, i, m)
      OBVIOUS
    <2>8. CASE Named(c.methods, m)
      <3>1. x = k /\ Named(cd.membfuncs, m) /\ Of(cd.membfuncs, m).class = k
            /\ Of(cd.membfuncs, m).kind = Of(c.methods, m).kind
        BY <2>3, <2>5, <2>7, <2>8 DEF OwnFirst
      <3>2. HasMethod(cs, k, cd, m)
        BY <2>2, <2>6, <2>7, <3>1 DEF HasMethod
      <3>3. QED  BY <2>1, <2>2, <3>2 DEF DeclOf
    <2>9. CASE ~Named(c.methods, m)
      <3>1. x = y
        BY <2>5, <2>7, <2>9
      <3>2. /\ Named(cd.membfuncs, m) <=> Named(b.membfuncs, m)
            /\ Named(b.membfuncs, m) => Of(cd.membfuncs, m) = Of(b.membfuncs, m)
        BY <2>3, <2>9 DEF OwnFirst
      <3>3. HasMethod(cs, k, cd, m)
        BY <2>4, <2>7, <3>1, <3>2 DEF HasMethod
      <3>4. QED  BY <2>1, <2>2, <3>3 DEF DeclOf
    <2>10. QED  BY <2>8, <2>9
  <1>4. 0 .. Len(cs) \subseteq S
    <2> HIDE DEF S
    <2>1. QED  BY <1>1, <1>2, <1>3, ClassInduction
  <1>5. QED  BY <1>4

(* A class keeps the places of the functions of the classes above.         *)
Keeps(fs, gs) == /\ Len(fs) <= Len(gs)
                 /\ \A i \in 1 .. Len(fs) : /\ gs[i].name = fs[i].name
                                            /\ IsVirtual(gs[i]) = IsVirtual(fs[i])

LEMMA PlacesAreKept ==
  ASSUME NEW cs, NEW ds, Hierarchy(cs, ds), Written(cs, ds)
  PROVE  \A k \in 0 .. Len(cs) : \A j \in ToSet(Chain(cs, k)) :
            Keeps(ds[j].membfuncs, ds[k].membfuncs)
  <1> DEFINE S == {k \in 0 .. Len(cs) : \A j \in ToSet(Chain(cs, k)) :
                                          Keeps(ds[j].membfuncs, ds[k].membfuncs)}
  <1>1. Bases(cs)
    BY DEF Hierarchy
  <1>2. 0 \in S
    <2>1. ToSet(Chain(cs, 0)) = {} /\ 0 \in 0 .. Len(cs)
      BY <1>1, ChainMembers DEF Bases
    <2>2. QED  BY <2>1
  <1>3. ASSUME NEW k \in 1 .. Len(cs), cs[k].base \in S
        PROVE  k \in S
    <2>1. PICK i, gs, c : i = cs[k].base /\ gs = ds[k].membfuncs /\ c = ToSet(Chain(cs, i))
      OBVIOUS
    <2>2. k \in 0 .. Len(cs) /\ i \in 0 .. k - 1 /\ ToSet(Chain(cs, k)) = {k} \cup c
      BY <1>1, <2>1, ChainMembers DEF Bases
    <2>3. gs \in Seq(Entries(k))
      BY <2>1 DEF Hierarchy, Good
    <2>4. Keeps(gs, gs)
      <3>1. Len(gs) \in Nat
        BY <2>3
      <3>2. QED  BY <3>1 DEF Keeps
    <2>5. ASSUME NEW j \in c
          PROVE  Keeps(ds[j].membfuncs, gs)
      <3>1. i # 0
        BY <1>1, <2>1, ChainMembers
      <3>2. i \in 1 .. Len(cs) /\ j \in 1 .. Len(cs)
        <4>1. i \in 1 .. Len(cs) /\ i \in 0 .. Len(cs)
          BY <1>1, <2>2, <3>1 DEF Bases
        <4>2. c \subseteq 1 .. i
          BY <1>1, <2>1, <4>1, ChainsAreInside
        <4>3. 1 .. i \subseteq 1 .. Len(cs)
          BY <1>1, <4>1 DEF Bases
        <4>4. QED  BY <4>1, <4>2, <4>3
      <3>3. PICK es, fs : es = ds[j].membfuncs /\ fs = ds[i].membfuncs
        OBVIOUS
      <3>4. Len(es) \in Nat /\ Len(fs) \in Nat /\ Len(gs) \in Nat
        <4>1. es \in Seq(Entries(j)) /\ fs \in Seq(Entries(i))
          BY <3>2, <3>3 DEF Hierarchy, Good
        <4>2. QED  BY <2>3, <4>1
      <3>5. Keeps(es, fs)
        BY <1>3, <2>1, <3>3
      <3>6. Keeps(fs, gs)
        <4>1. Overlaid(fs, k, gs)
          BY <2>1, <3>1, <3>3 DEF Written, WrittenMethods, DeclOf
        <4>2. QED  BY <4>1 DEF Overlaid, Keeps
      <3>7. Keeps(es, gs)
        <4>1. 1 .. Len(es) \subseteq 1 .. Len(fs) /\ Len(es) <= Len(gs)
          BY <3>4, <3>5, <3>6 DEF Keeps
        <4>2. QED  BY <3>5, <3>6, <4>1 DEF Keeps
      <3>8. QED  BY <3>3, <3>7
    <2>6. \A j \in ToSet(Chain(cs, k)) : Keeps(ds[j].membfuncs, ds[k].membfuncs)
      BY <2>1, <2>2, <2>4, <2>5
    <2>7. QED  BY <2>2, <2>6
  <1>4. 0 .. Len(cs) \subseteq S
    <2> HIDE DEF S
    <2>1. QED  BY <1>1, <1>2, <1>3, ClassInduction
  <1>5. QED  BY <1>4

(* The class that brought in a method.                                     *)
From(cs, m, j, f) ==
  LET up == Pascal!MethodOwner(cs, cs[j].base, m)
  IN  IF ~Pascal!Named(cs[j].methods, m) THEN 0
      ELSE IF up = 0 \/ "plain" \in {Pascal!Kind(cs, j, m), Pascal!Kind(cs, up, m)} THEN j
      ELSE f[up]

IsFrom(cs, m, N, f) == f = [j \in 1 .. N |-> From(cs, m, j, f)]

LEMMA OwnerIsBefore ==
  ASSUME NEW cs, Bases(cs), DOMAIN cs = 1 .. Len(cs), NEW m, NEW j \in 1 .. Len(cs)
  PROVE  Pascal!MethodOwner(cs, cs[j].base, m) \in 0 .. j - 1
  <1>1. PICK i, x : i = cs[j].base /\ x = MethodOwner(cs, i, m)
    OBVIOUS
  <1>2. i \in 0 .. j - 1 /\ i \in 0 .. Len(cs) /\ j \in Nat
    BY <1>1 DEF Bases
  <1>3. x # 0 => x \in ToSet(Chain(cs, i))
    BY <1>1, <1>2, OwnerIsDeclared
  <1>4. ToSet(Chain(cs, i)) \subseteq 1 .. i
    BY <1>2, ChainsAreInside
  <1>5. x \in 0 .. j - 1
    BY <1>2, <1>3, <1>4
  <1>6. QED  BY <1>1, <1>5, SameOwners

LEMMA FromExists ==
  ASSUME NEW cs, Bases(cs), DOMAIN cs = 1 .. Len(cs), NEW m
  PROVE  \E f : IsFrom(cs, m, Len(cs), f)
  <1> DEFINE N == Len(cs)
             S == {n \in 0 .. N : \E f : IsFrom(cs, m, n, f)}
  <1>1. N \in Nat
    BY DEF Bases
  <1>2. 0 \in S
    <2>1. PICK f : f = [j \in 1 .. 0 |-> 0]
      OBVIOUS
    <2>2. 1 .. 0 = {}
      OBVIOUS
    <2>3. IsFrom(cs, m, 0, f)
      BY <2>1, <2>2 DEF IsFrom
    <2>4. QED  BY <1>1, <2>3
  <1>3. ASSUME NEW n \in 0 .. N, n + 1 \in 0 .. N, n \in S
        PROVE  n + 1 \in S
    <2>1. PICK g : IsFrom(cs, m, n, g)
      BY <1>3
    <2>2. PICK f : f = [j \in 1 .. n + 1 |-> From(cs, m, j, g)]
      OBVIOUS
    <2>3. ASSUME NEW j \in 1 .. n
          PROVE  f[j] = g[j]
      <3>1. j \in 1 .. n + 1 /\ j \in 1 .. n
        BY <1>1
      <3>2. f[j] = From(cs, m, j, g)
        BY <2>2, <3>1, Zenon
      <3>3. g[j] = From(cs, m, j, g)
        BY <2>1, <3>1, Zenon DEF IsFrom
      <3>4. QED  BY <3>2, <3>3
    <2>4. ASSUME NEW j \in 1 .. n + 1
          PROVE  From(cs, m, j, f) = From(cs, m, j, g)
      <3>1. PICK up : up = Pascal!MethodOwner(cs, cs[j].base, m)
        OBVIOUS
      <3>2. j \in 1 .. Len(cs) /\ j - 1 <= n
        BY <1>1, <1>3
      <3>3. up \in 0 .. j - 1
        BY <3>1, <3>2, OwnerIsBefore
      <3>4. up # 0 => up \in 1 .. n
        BY <1>1, <3>2, <3>3
      <3>5. up # 0 => f[up] = g[up]
        BY <2>3, <3>4
      <3>6. QED  BY <3>1, <3>5, Zenon DEF From
    <2>5. IsFrom(cs, m, n + 1, f)
      <3>1. [j \in 1 .. n + 1 |-> From(cs, m, j, f)] = [j \in 1 .. n + 1 |-> From(cs, m, j, g)]
        BY <2>4
      <3>2. QED  BY <2>2, <3>1 DEF IsFrom
    <2>6. QED  BY <1>3, <2>5
  <1>4. 0 .. N \subseteq S
    <2> HIDE DEF S
    <2>1. QED  BY <1>1, <1>2, <1>3, Induction
  <1>5. N \in S
    BY <1>1, <1>4
  <1>6. QED  BY <1>5

LEMMA IntroducerIs ==
  ASSUME NEW cs, Bases(cs), DOMAIN cs = 1 .. Len(cs), NEW m, NEW k \in 1 .. Len(cs),
         NEW up, up = MethodOwner(cs, cs[k].base, m)
  PROVE  Pascal!Introducer(cs, k, m) =
           IF ~Named(cs[k].methods, m) THEN 0
           ELSE IF up = 0 \/ "plain" \in {Kind(cs, k, m), Kind(cs, up, m)} THEN k
           ELSE Pascal!Introducer(cs, up, m)
  <1>1. PICK f : f = CHOOSE g : IsFrom(cs, m, Len(cs), g)
    OBVIOUS
  <1>2. IsFrom(cs, m, Len(cs), f)
    BY <1>1, FromExists, Zenon
  <1>3. \A j : Pascal!Introducer(cs, j, m) = f[j]
    BY <1>1 DEF Pascal!Introducer, From, IsFrom
  <1>4. f[k] = From(cs, m, k, f)
    BY <1>2, Zenon DEF IsFrom
  <1>5. From(cs, m, k, f) = IF ~Named(cs[k].methods, m) THEN 0
           ELSE IF up = 0 \/ "plain" \in {Kind(cs, k, m), Kind(cs, up, m)} THEN k ELSE f[up]
    BY SameOwners, SameHierarchy, Zenon DEF From
  <1>6. QED  BY <1>3, <1>4, <1>5

LEMMA KeptPlace ==
  ASSUME NEW S, NEW T, NEW fs \in Seq(S), NEW gs \in Seq(T), Distinct(fs), Distinct(gs),
         Keeps(fs, gs), NEW m, Named(fs, m)
  PROVE  \E i \in 1 .. Len(fs) : /\ i \in 1 .. Len(gs) /\ Named(gs, m)
                                 /\ Of(fs, m) = fs[i] /\ Of(gs, m) = gs[i]
                                 /\ IsVirtual(gs[i]) = IsVirtual(fs[i])
  <1>1. PICK i \in DOMAIN fs : fs[i].name = m
    BY DEF Named, NamesOf
  <1>2. i \in 1 .. Len(fs) /\ i \in 1 .. Len(gs) /\ i \in DOMAIN gs
    <2>1. /\ DOMAIN fs = 1 .. Len(fs) /\ DOMAIN gs = 1 .. Len(gs)
          /\ Len(fs) \in Nat /\ Len(gs) \in Nat /\ Len(fs) <= Len(gs)
      BY DEF Keeps
    <2>2. QED  BY <2>1
  <1>3. gs[i].name = m /\ IsVirtual(gs[i]) = IsVirtual(fs[i])
    BY <1>1, <1>2 DEF Keeps
  <1>4. Of(fs, m) = fs[i]
    BY <1>1, OfIs
  <1>5. Of(gs, m) = gs[i] /\ Named(gs, m)
    BY <1>2, <1>3, OfIs
  <1>6. QED  BY <1>2, <1>3, <1>4, <1>5

(* A virtual method has one introducer in all the classes above.           *)
OneIntroducer(cs, k, m) ==
  LET x == MethodOwner(cs, k, m)
  IN  x # 0 /\ Kind(cs, x, m) # "plain" =>
        /\ Pascal!Introducer(cs, x, m) # 0
        /\ \A j \in ToSet(Chain(cs, k)) : Named(cs[j].methods, m) =>
             Pascal!Introducer(cs, j, m) = Pascal!Introducer(cs, x, m)

LEMMA IntroducersAre ==
  ASSUME NEW cs, NEW ds, Hierarchy(cs, ds), Written(cs, ds), DOMAIN cs = 1 .. Len(cs), NEW m
  PROVE  \A k \in 0 .. Len(cs) : OneIntroducer(cs, k, m)
  <1> DEFINE S == {k \in 0 .. Len(cs) : OneIntroducer(cs, k, m)}
  <1>1. Bases(cs)
    BY DEF Hierarchy
  <1>2. 0 \in S
    <2>1. MethodOwner(cs, 0, m) = 0 /\ 0 \in 0 .. Len(cs)
      BY <1>1, OwnersByBase DEF Bases
    <2>2. QED  BY <2>1 DEF OneIntroducer
  <1>3. ASSUME NEW k \in 1 .. Len(cs), cs[k].base \in S
        PROVE  k \in S
    <2>1. PICK i, x, y : i = cs[k].base /\ x = MethodOwner(cs, k, m) /\ y = MethodOwner(cs, i, m)
      OBVIOUS
    <2>2. k \in 0 .. Len(cs) /\ k # 0 /\ i \in 0 .. Len(cs) /\ (i # 0 => i \in 1 .. Len(cs))
      BY <1>1, <2>1 DEF Bases
    <2>3. ToSet(Chain(cs, k)) = {k} \cup ToSet(Chain(cs, i))
      BY <1>1, <2>1, ChainMembers
    <2>4. x = IF Named(cs[k].methods, m) THEN k ELSE y
      BY <1>1, <2>1, OwnersByBase
    <2>5. OneIntroducer(cs, i, m)
      BY <1>3, <2>1
    <2>6. CASE ~Named(cs[k].methods, m)
      BY <2>1, <2>2, <2>3, <2>4, <2>5, <2>6 DEF OneIntroducer
    <2>7. CASE Named(cs[k].methods, m) /\ y = 0
      <3>1. \A j \in ToSet(Chain(cs, i)) : ~Named(cs[j].methods, m)
        BY <1>1, <2>1, <2>2, <2>7, OwnerIsDeclared
      <3>2. Pascal!Introducer(cs, k, m) = k
        <4>1. y = MethodOwner(cs, cs[k].base, m)
          BY <2>1
        <4>2. Pascal!Introducer(cs, k, m) =
                IF ~Named(cs[k].methods, m) THEN 0
                ELSE IF y = 0 \/ "plain" \in {Kind(cs, k, m), Kind(cs, y, m)} THEN k
                ELSE Pascal!Introducer(cs, y, m)
          BY <1>1, <4>1, IntroducerIs
        <4>3. QED  BY <2>7, <4>2
      <3>3. QED  BY <2>1, <2>2, <2>3, <2>4, <2>7, <3>1, <3>2 DEF OneIntroducer
    <2>8. CASE Named(cs[k].methods, m) /\ y # 0
      <3>1. i \in 1 .. Len(cs)
        BY <1>1, <2>1, <2>2, <2>8, OwnersByBase
      <3>2. PICK fs, gs : fs = ds[i].membfuncs /\ gs = ds[k].membfuncs
        OBVIOUS
      <3>3. HasMethod(cs, i, ds[i], m) /\ HasMethod(cs, k, ds[k], m)
        <4>1. HasMethod(cs, i, DeclOf(ds, i), m) /\ HasMethod(cs, k, DeclOf(ds, k), m)
          BY <2>2, MethodsAre
        <4>2. DeclOf(ds, i) = ds[i] /\ DeclOf(ds, k) = ds[k]
          BY <2>2, <3>1 DEF DeclOf
        <4>3. QED  BY <4>1, <4>2
      <3>4. fs \in Seq(Entries(i)) /\ gs \in Seq(Entries(k)) /\ Distinct(fs) /\ Distinct(gs)
        BY <3>1, <3>2 DEF Hierarchy, Good
      <3>5. Keeps(fs, gs)
        <4>1. Overlaid(fs, k, gs)
          BY <2>1, <2>2, <3>1, <3>2 DEF Written, WrittenMethods, DeclOf
        <4>2. QED  BY <4>1 DEF Overlaid, Keeps
      <3>6. Named(fs, m)
        BY <2>1, <2>8, <3>2, <3>3 DEF HasMethod
      <3>7. IsVirtual(Of(gs, m)) = IsVirtual(Of(fs, m))
        BY <3>4, <3>5, <3>6, KeptPlace
      <3>8. Of(gs, m).kind = Kind(cs, k, m) /\ Of(fs, m).kind = Kind(cs, y, m) /\ x = k
        BY <2>1, <2>2, <2>4, <2>8, <3>2, <3>3 DEF HasMethod
      <3>9. CASE Kind(cs, k, m) = "plain"
        BY <2>1, <2>2, <3>8, <3>9 DEF OneIntroducer
      <3>10. CASE Kind(cs, k, m) # "plain"
        <4>1. Kind(cs, y, m) # "plain"
          BY <3>7, <3>8, <3>10 DEF IsVirtual
        <4>2. Pascal!Introducer(cs, k, m) = Pascal!Introducer(cs, y, m)
          BY <1>1, <2>1, <2>8, <3>10, <4>1, IntroducerIs
        <4>3. /\ Pascal!Introducer(cs, y, m) # 0
              /\ \A j \in ToSet(Chain(cs, i)) : Named(cs[j].methods, m) =>
                   Pascal!Introducer(cs, j, m) = Pascal!Introducer(cs, y, m)
          BY <2>1, <2>5, <2>8, <4>1 DEF OneIntroducer
        <4>4. QED  BY <2>1, <2>2, <2>3, <3>8, <4>2, <4>3 DEF OneIntroducer
      <3>11. QED  BY <3>9, <3>10
    <2>9. QED  BY <2>6, <2>7, <2>8
  <1>4. 0 .. Len(cs) \subseteq S
    <2> HIDE DEF S
    <2>1. QED  BY <1>1, <1>2, <1>3, ClassInduction
  <1>5. QED  BY <1>4

(* The virtual method m that is seen through the class s of an object of   *)
(* the class k.                                                            *)
CallFinds(cs, ds, k, s, m, x, f) ==
    /\ HasVTable(ds[k])
    /\ ds[s].virtIndex[<<f.class, f.name>>] \in DOMAIN ds[k].vtable
    /\ ds[k].vtable[ds[s].virtIndex[<<f.class, f.name>>]] =
         Nearest(Chain(cs, k), {j \in DOMAIN cs :
                    Pascal!Introducer(cs, j, m) = Pascal!Introducer(cs, x, m)})

LEMMA VirtualCall ==
  ASSUME NEW cs, NEW ds, Hierarchy(cs, ds), Written(cs, ds), DOMAIN cs = 1 .. Len(cs),
         NEW k \in 1 .. Len(cs), NEW s \in ToSet(Chain(cs, k)), s \in 1 .. Len(cs),
         NEW m, NEW x, x = MethodOwner(cs, s, m), x # 0, Kind(cs, x, m) # "plain",
         NEW f, f = Of(ds[s].membfuncs, m)
  PROVE  CallFinds(cs, ds, k, s, m, x, f)
  <1>1. PICK fs, gs : fs = ds[s].membfuncs /\ gs = ds[k].membfuncs
    OBVIOUS
  <1>2. Bases(cs) /\ k \in 0 .. Len(cs) /\ s \in 0 .. Len(cs) /\ k # 0 /\ s # 0
    BY DEF Hierarchy, Bases
  <1>3. Good(k, ds[k]) /\ Good(s, ds[s])
    BY DEF Hierarchy
  <1>4. fs \in Seq(Entries(s)) /\ gs \in Seq(Entries(k)) /\ Distinct(fs) /\ Distinct(gs)
    BY <1>1, <1>3 DEF Good
  <1>5. Keeps(fs, gs)
    BY <1>1, <1>2, PlacesAreKept
  <1>6. HasMethod(cs, k, ds[k], m) /\ HasMethod(cs, s, ds[s], m)
    BY <1>2, MethodsAre DEF DeclOf
  <1>7. Named(fs, m) /\ Of(fs, m).kind = Kind(cs, x, m)
    BY <1>1, <1>6 DEF HasMethod
  <1>8. PICK i \in 1 .. Len(fs) : /\ i \in 1 .. Len(gs) /\ Named(gs, m)
                                  /\ Of(fs, m) = fs[i] /\ Of(gs, m) = gs[i]
                                  /\ IsVirtual(gs[i]) = IsVirtual(fs[i])
    BY <1>4, <1>5, <1>7, KeptPlace
  <1>9. IsVirtual(fs[i]) /\ IsVirtual(gs[i]) /\ i \in DOMAIN fs /\ i \in DOMAIN gs
    BY <1>4, <1>7, <1>8 DEF IsVirtual
  <1>10. PICK p \in Nat : p = i - 1
    BY <1>8
  <1>11. Before(fs, p) = Before(gs, p)
    <2>1. \A j \in 1 .. p : IsVirtual(fs[j]) = IsVirtual(gs[j])
      <3>1. Len(fs) \in Nat
        BY <1>4
      <3>2. 1 .. p \subseteq 1 .. Len(fs)
        BY <1>8, <1>10, <3>1
      <3>3. QED  BY <1>5, <3>2 DEF Keeps
    <2>2. QED  BY <2>1, BeforeSame
  <1>12. ds[s].virtIndex[<<f.class, f.name>>] = Before(gs, p)
    <2>1. f = fs[i]
      BY <1>1, <1>8
    <2>2. ds[s].virtIndex[Id(fs[i])] = Before(fs, i - 1)
      BY <1>1, <1>3, <1>9 DEF Good, Numbered
    <2>3. QED  BY <1>10, <1>11, <2>1, <2>2 DEF Id
  <1>13. ds[k].vtable = VTable(ds[k])
    BY DEF Written, WrittenMethods
  <1>14. /\ DOMAIN ds[k].vtable = 0 .. Before(gs, Len(gs)) - 1
         /\ ds[k].vtable[Before(gs, p)] = gs[i].class
    <2>1. Numbered(k, ds[k].membfuncs, ds[k]) /\ ds[k].membfuncs \in Seq(Entries(k)) /\ k \in Nat
      BY <1>2, <1>3 DEF Good
    <2>2. /\ DOMAIN VTable(ds[k]) = 0 .. Before(gs, Len(gs)) - 1
          /\ \A j \in DOMAIN gs : IsVirtual(gs[j]) => VTable(ds[k])[Before(gs, j - 1)] = gs[j].class
      BY <1>1, <2>1, VTableIs
    <2>3. QED  BY <1>9, <1>10, <1>13, <2>2
  <1>15. Before(gs, p) \in 0 .. Before(gs, Len(gs)) - 1
    <2>1. PICK L \in Nat : L = Len(gs)
      BY <1>4
    <2>2. p + 1 = i /\ p + 1 <= L /\ p + 1 \in Nat
      BY <1>8, <1>10, <2>1
    <2>3. Before(gs, p) \in Nat /\ Before(gs, p + 1) = Before(gs, p) + 1
      BY <1>9, <2>2, BeforeStep
    <2>4. Before(gs, p + 1) <= Before(gs, L) /\ Before(gs, L) \in Nat
      <3>1. PICK q \in Nat : q = p + 1
        BY <2>2
      <3>2. Before(gs, q) <= Before(gs, L)
        BY <2>2, <3>1, BeforeGrows
      <3>3. Before(gs, L) \in Nat
        BY BeforeStep
      <3>4. QED  BY <3>1, <3>2, <3>3
    <2>5. QED  BY <2>1, <2>3, <2>4
  <1>16. HasVTable(ds[k])
    <2>1. Before(gs, Len(gs)) \in Nat /\ Before(gs, p) \in Nat
      BY <1>4, <1>10, BeforeStep
    <2>2. Before(gs, Len(gs)) > 0
      BY <1>15, <2>1
    <2>3. QED  BY <1>1, <1>2, <1>3, <2>2, VTableBefore
  <1>17. gs[i].class = Nearest(Chain(cs, k), {j \in DOMAIN cs :
                         Pascal!Introducer(cs, j, m) = Pascal!Introducer(cs, x, m)})
    <2>1. PICK z : z = MethodOwner(cs, k, m)
      OBVIOUS
    <2>2. z # 0 /\ gs[i].class = z /\ gs[i].kind = Kind(cs, z, m)
      BY <1>1, <1>6, <1>8, <2>1 DEF HasMethod
    <2>3. Kind(cs, z, m) # "plain"
      BY <1>9, <2>2 DEF IsVirtual
    <2>4. OneIntroducer(cs, k, m)
      BY <1>2, IntroducersAre
    <2>5. x \in ToSet(Chain(cs, s)) /\ Named(cs[x].methods, m)
      BY <1>2, OwnerIsDeclared
    <2>6. x \in ToSet(Chain(cs, k))
      BY <1>2, <2>5, ChainsAreInside
    <2>7. PICK w : w = Pascal!Introducer(cs, x, m)
      OBVIOUS
    <2>8. w # 0 /\ \A j \in ToSet(Chain(cs, k)) : Named(cs[j].methods, m) =>
                      Pascal!Introducer(cs, j, m) = w
      <3>1. /\ Pascal!Introducer(cs, z, m) # 0
            /\ \A j \in ToSet(Chain(cs, k)) : Named(cs[j].methods, m) =>
                 Pascal!Introducer(cs, j, m) = Pascal!Introducer(cs, z, m)
        BY <2>1, <2>2, <2>3, <2>4 DEF OneIntroducer
      <3>2. w = Pascal!Introducer(cs, z, m)
        BY <2>5, <2>6, <2>7, <3>1
      <3>3. QED  BY <3>1, <3>2
    <2>9. \A j \in DOMAIN cs : ~Named(cs[j].methods, m) => Pascal!Introducer(cs, j, m) = 0
      BY <1>2, IntroducerIs
    <2>10. PICK ks, ls : /\ ks = {j \in DOMAIN cs : Named(cs[j].methods, m)}
                         /\ ls = {j \in DOMAIN cs : Pascal!Introducer(cs, j, m) = w}
      OBVIOUS
    <2>11. ks \cap ToSet(Chain(cs, k)) = ls \cap ToSet(Chain(cs, k))
      BY <2>8, <2>9, <2>10
    <2>12. Nearest(Chain(cs, k), ks) = Nearest(Chain(cs, k), ls)
      BY <2>11, NearestAgrees
    <2>13. z = Nearest(Chain(cs, k), ks)
      BY <2>1, <2>10 DEF MethodOwner
    <2>14. QED  BY <2>2, <2>7, <2>10, <2>12, <2>13
  <1>18. QED  BY <1>12, <1>14, <1>15, <1>16, <1>17 DEF CallFinds

-----------------------------------------------------------------------------
(* The slots of a class: the pointer to its vtable, the fields that are    *)
(* not static, and the variant part.                                       *)

(* What the structure g is after n of the fields.                          *)
InSlots(o, at, n, g) ==
  /\ g \in Seq(Names) /\ o <= Len(g) /\ Len(g) <= n + o
  /\ \A x \in 1 .. Len(g) : IF x <= o THEN g[x] = <<0, "vtable">>
                            ELSE ~at[x - 1].static /\ g[x] = Id(at[x - 1])
  /\ \A i \in o .. n + o - 1 : ~at[i].static => i < Len(g)

LEMMA InSlotsStep ==
  ASSUME NEW o \in Nat, NEW at, NEW n \in Nat, NEW g, InSlots(o, at, n, g), at[n + o] \in Field,
         \A i \in o .. n + o - 1 : at[i].static => at[n + o].static
  PROVE  InSlots(o, at, n + 1, Kept(at[n + o], g))
  <1>1. PICK l \in Nat : l = Len(g) /\ g \in Seq(Names) /\ o <= l /\ l <= n + o
    BY DEF InSlots
  <1>2. PICK e : e = at[n + o] /\ e \in Field
    OBVIOUS
  <1>3. \A i \in o .. n + 1 + o - 1 : i = n + o \/ i \in o .. n + o - 1
    OBVIOUS
  <1>4. CASE e.static
    <2>1. Kept(e, g) = g
      BY <1>4 DEF Kept
    <2>2. \A i \in o .. n + 1 + o - 1 : ~at[i].static => i < Len(g)
      BY <1>2, <1>3, <1>4 DEF InSlots
    <2>3. Len(g) <= n + 1 + o
      BY <1>1
    <2>4. InSlots(o, at, n + 1, g)
      BY <2>2, <2>3 DEF InSlots
    <2>5. QED  BY <1>2, <2>1, <2>4
  <1>5. CASE ~e.static
    <2>1. \A i \in o .. n + o - 1 : i < l
      BY <1>1, <1>2, <1>5 DEF InSlots
    <2>2. l = n + o
      <3>1. CASE n = 0
        BY <1>1, <3>1
      <3>2. CASE n # 0
        <4>1. n + o - 1 \in o .. n + o - 1
          BY <3>2
        <4>2. n + o - 1 < l
          BY <2>1, <4>1
        <4>3. QED  BY <1>1, <4>2
      <3>3. QED  BY <3>1, <3>2
    <2>3. PICK h, id : h = Append(g, id) /\ id = <<e.class, e.name>> /\ h = Kept(e, g)
      BY <1>5 DEF Kept
    <2>4. id \in Names
      BY <1>2, <2>3 DEF Field, Names
    <2>5. h \in Seq(Names) /\ Len(h) = l + 1 /\ h[l + 1] = id /\ \A j \in 1 .. l : h[j] = g[j]
      BY <1>1, <2>3, <2>4, Appended
    <2>6. ASSUME NEW x \in 1 .. Len(h)
          PROVE  IF x <= o THEN h[x] = <<0, "vtable">> ELSE ~at[x - 1].static /\ h[x] = Id(at[x - 1])
      <3>1. CASE x = l + 1
        <4>1. ~(x <= o) /\ x - 1 = n + o
          BY <2>2, <3>1
        <4>2. QED  BY <1>2, <1>5, <2>3, <2>5, <3>1, <4>1 DEF Id
      <3>2. CASE x # l + 1
        <4>1. x \in 1 .. l
          BY <2>5, <3>2
        <4>2. QED  BY <1>1, <2>5, <4>1 DEF InSlots
      <3>3. QED  BY <3>1, <3>2
    <2>7. o <= Len(h) /\ Len(h) <= n + 1 + o /\ \A i \in o .. n + 1 + o - 1 : i < Len(h)
      BY <1>1, <2>2, <2>5
    <2>8. InSlots(o, at, n + 1, h)
      BY <2>5, <2>6, <2>7 DEF InSlots
    <2>9. QED  BY <1>2, <2>3, <2>8
  <1>6. QED  BY <1>4, <1>5

(* The structure s of the class k.                                         *)
SlotsOf(k, cd, variant, s) ==
  /\ \A i \in FieldAt(cd) : ~cd.element[i].static =>
        i + 1 \in 1 .. Len(s) /\ s[i + 1] = Id(cd.element[i])
  /\ \A x \in 1 .. Len(s) :
        \/ x <= Offset(cd) /\ s[x] = <<0, "vtable">>
        \/ x - 1 \in FieldAt(cd) /\ ~cd.element[x - 1].static /\ s[x] = Id(cd.element[x - 1])
        \/ variant /\ x = cd.fieldCount + 1 /\ s[x] = <<k, "variant">>
  /\ Offset(cd) <= Len(s)
  /\ variant => cd.fieldCount + 1 \in 1 .. Len(s) /\ s[cd.fieldCount + 1] = <<k, "variant">>

LEMMA SlotsAreFields ==
  ASSUME NEW k \in Nat, NEW cd, Good(k, cd), NEW variant \in BOOLEAN, variant => ~HasVTable(cd),
         \A i, j \in FieldAt(cd) : i < j /\ cd.element[i].static => cd.element[j].static,
         variant => \A i \in FieldAt(cd) : ~cd.element[i].static,
         NEW s, IsStructure(cd, cd.element, k, variant, s)
  PROVE  SlotsOf(k, cd, variant, s)
  <1> DEFINE at == cd.element
  <1>1. PICK N \in Nat, o \in Nat : /\ N = cd.fieldCount /\ o = Offset(cd)
                                   /\ (HasVTable(cd) => o = 1) /\ (~HasVTable(cd) => o = 0)
    <2>1. Offset(cd) \in Nat /\ (HasVTable(cd) => Offset(cd) = 1) /\ (~HasVTable(cd) => Offset(cd) = 0)
      BY DEF Offset
    <2>2. cd.fieldCount \in Nat
      BY DEF Good
    <2>3. QED  BY <2>1, <2>2
  <1>2. PICK f : /\ IsSlots(cd, at, N, f)
                 /\ s = IF variant THEN Append(f[N], <<k, "variant">>) ELSE f[N]
    BY <1>1 DEF IsStructure
  <1>3. AreFields(cd, at, N)
    BY <1>1 DEF Good
  <1>4. /\ f[0] = First(cd)
        /\ \A n \in 0 .. N : n + 1 \in 0 .. N => f[n + 1] = Kept(at[n + o], f[n])
    <2>1. /\ f[0] = First(cd)
          /\ \A n \in 0 .. N : n + 1 \in 0 .. N => f[n + 1] = Kept(at[n + Offset(cd)], f[n])
      <3>1. N \in Nat /\ IsSlots(cd, at, N, f)
        BY <1>1, <1>2
      <3> HIDE DEF at
      <3>2. QED  BY <3>1, SlotsStep
    <2>2. QED  BY <1>1, <2>1
  <1>5. \A i, j \in o .. N + o - 1 : i < j /\ at[i].static => at[j].static
    BY <1>1 DEF FieldAt
  <1> DEFINE S == {n \in 0 .. N : InSlots(o, at, n, f[n])}
  <1>6. 0 \in S
    <2>1. First(cd) \in Seq(Names)
      <3>1. \A n \in 0 .. N : f[n] \in Seq(Names)
        BY <1>1, <1>2, <1>3, SlotsType
      <3>2. 0 \in 0 .. N
        BY <1>1
      <3>3. QED  BY <1>4, <3>1, <3>2
    <2>2. Len(First(cd)) = o /\ \A x \in 1 .. o : First(cd)[x] = <<0, "vtable">>
      BY <1>1 DEF First, Offset
    <2>3. InSlots(o, at, 0, First(cd))
      BY <2>1, <2>2 DEF InSlots
    <2>4. QED  BY <1>4, <2>3
  <1>7. ASSUME NEW n \in 0 .. N, n + 1 \in 0 .. N, n \in S
        PROVE  n + 1 \in S
    <2>1. n + o \in 0 .. N + o - 1 /\ n + o \in o .. N + o - 1
      BY <1>7
    <2>2. at[n + o] \in Field
      BY <1>1, <1>3, <2>1 DEF AreFields
    <2>3. ASSUME NEW i \in o .. n + o - 1, at[i].static
          PROVE  at[n + o].static
      <3>1. i \in o .. N + o - 1 /\ i < n + o
        BY <2>1
      <3>2. QED  BY <1>5, <2>1, <2>3, <3>1
    <2>4. PICK g : g = f[n] /\ InSlots(o, at, n, g)
      BY <1>7
    <2>5. InSlots(o, at, n + 1, Kept(at[n + o], g))
      BY <2>2, <2>3, <2>4, InSlotsStep
    <2>6. QED  BY <1>4, <1>7, <2>4, <2>5
  <1>8. 0 .. N \subseteq S
    <2> HIDE DEF S
    <2>1. QED  BY <1>6, <1>7, Induction
  <1>9. PICK g : g = f[N] /\ InSlots(o, at, N, g)
    BY <1>8
  <1>10. PICK l \in Nat : l = Len(g) /\ g \in Seq(Names) /\ o <= l /\ l <= N + o
    BY <1>9 DEF InSlots
  <1>11. \A i \in o .. N + o - 1 : ~at[i].static => i + 1 \in 1 .. l /\ g[i + 1] = Id(at[i])
    <2>1. ASSUME NEW i \in o .. N + o - 1, ~at[i].static
          PROVE  i + 1 \in 1 .. l /\ g[i + 1] = Id(at[i])
      <3>1. i < l
        BY <1>9, <1>10, <2>1 DEF InSlots
      <3>2. i + 1 \in 1 .. l /\ ~(i + 1 <= o) /\ (i + 1) - 1 = i
        BY <1>10, <3>1
      <3>3. g[i + 1] = Id(at[(i + 1) - 1])
        BY <1>9, <1>10, <3>2 DEF InSlots
      <3>4. QED  BY <3>2, <3>3
    <2>2. QED  BY <2>1
  <1>12. \A x \in 1 .. l : \/ x <= o /\ g[x] = <<0, "vtable">>
                           \/ x - 1 \in o .. N + o - 1 /\ ~at[x - 1].static /\ g[x] = Id(at[x - 1])
    <2>1. ASSUME NEW x \in 1 .. l
          PROVE  \/ x <= o /\ g[x] = <<0, "vtable">>
                 \/ x - 1 \in o .. N + o - 1 /\ ~at[x - 1].static /\ g[x] = Id(at[x - 1])
      <3>1. CASE x <= o
        BY <1>9, <1>10, <3>1 DEF InSlots
      <3>2. CASE ~(x <= o)
        <4>1. x - 1 \in o .. N + o - 1
          BY <1>10, <3>2
        <4>2. ~at[x - 1].static /\ g[x] = Id(at[x - 1])
          BY <1>9, <1>10, <3>2 DEF InSlots
        <4>3. QED  BY <4>1, <4>2
      <3>3. QED  BY <3>1, <3>2
    <2>2. QED  BY <2>1
  <1>13. CASE ~variant
    <2>1. s = g
      BY <1>2, <1>9, <1>13
    <2>2. QED  BY <1>1, <1>10, <1>11, <1>12, <1>13, <2>1 DEF SlotsOf, FieldAt
  <1>14. CASE variant
    <2>1. o = 0 /\ l = N
      <3>1. o = 0 /\ \A i \in 0 .. N - 1 : ~at[i].static
        BY <1>1, <1>14 DEF Offset, FieldAt
      <3>2. CASE N = 0
        BY <1>10, <3>1, <3>2
      <3>3. CASE N # 0
        <4>1. N - 1 \in 0 .. N - 1
          BY <3>3
        <4>2. (N - 1) + 1 \in 1 .. l
          BY <1>11, <3>1, <4>1
        <4>3. QED  BY <1>10, <3>1, <4>2
      <3>4. QED  BY <3>2, <3>3
    <2>2. s = Append(g, <<k, "variant">>)
      BY <1>2, <1>9, <1>14
    <2>3. Len(s) = N + 1 /\ s[N + 1] = <<k, "variant">> /\ \A j \in 1 .. N : s[j] = g[j]
      <3>1. Len(Append(g, <<k, "variant">>)) = Len(g) + 1
            /\ Append(g, <<k, "variant">>)[Len(g) + 1] = <<k, "variant">>
            /\ \A j \in 1 .. Len(g) : Append(g, <<k, "variant">>)[j] = g[j]
        BY <1>10, Appended
      <3>2. QED  BY <1>10, <2>1, <2>2, <3>1
    <2>4. \A i \in 0 .. N - 1 : i + 1 \in 1 .. N /\ i + 1 \in 1 .. N + 1
      OBVIOUS
    <2>5. \A i \in FieldAt(cd) : ~at[i].static => i + 1 \in 1 .. Len(s) /\ s[i + 1] = Id(at[i])
      BY <1>1, <1>11, <2>1, <2>3, <2>4 DEF FieldAt
    <2>6. \A x \in 1 .. N + 1 : x \in 1 .. N \/ x = N + 1
      OBVIOUS
    <2>7. \A x \in 1 .. N : x - 1 \in FieldAt(cd) /\ ~at[x - 1].static /\ s[x] = Id(at[x - 1])
      <3>1. ASSUME NEW x \in 1 .. N
            PROVE  x - 1 \in 0 .. N - 1 /\ ~at[x - 1].static /\ s[x] = Id(at[x - 1])
        <4>1. ~(x <= o) /\ x \in 1 .. l
          BY <2>1
        <4>2. QED  BY <1>12, <2>1, <2>3, <4>1
      <3>2. QED  BY <1>1, <2>1, <3>1 DEF FieldAt
    <2>8. N + 1 \in 1 .. Len(s) /\ 0 <= Len(s)
      BY <2>3
    <2>9. QED  BY <1>1, <1>14, <2>1, <2>3, <2>5, <2>6, <2>7, <2>8 DEF SlotsOf
  <1>15. QED  BY <1>13, <1>14

(* The fields of a class are those of its base and its own.                *)
LEMMA FieldsOfTheBase ==
  ASSUME NEW k, NEW b, NEW c, NEW cd, b.fieldCount \in Nat,
         Laid(k, b, cd, c.fields, c.variant), WrittenFields(k, b, c, cd)
  PROVE  /\ FieldAt(b) \subseteq FieldAt(cd)
         /\ \A i \in FieldAt(b) : cd.element[i] = b.element[i]
         /\ \A x \in 1 .. Len(c.fields) :
              /\ x - 1 + b.fieldCount + Offset(cd) \in FieldAt(cd)
              /\ cd.element[x - 1 + b.fieldCount + Offset(cd)] =
                   [class |-> k, name |-> c.fields[x].name, static |-> c.fields[x].static]
         /\ \A i \in FieldAt(cd) :
              i \in FieldAt(b) \/ \E x \in 1 .. Len(c.fields) : i = x - 1 + b.fieldCount + Offset(cd)
  <1>1. PICK M \in Nat, L \in Nat, N \in Nat : /\ M = b.fieldCount /\ L = Len(c.fields)
                                               /\ N = cd.fieldCount /\ N = M + L
    BY DEF Laid
  <1>2. PICK o \in Nat, p \in Nat : /\ o = Offset(cd) /\ p = Offset(b)
                                    /\ p <= o /\ (M # 0 => p = o)
    <2>1. /\ Offset(cd) \in Nat /\ Offset(b) \in Nat /\ Offset(b) <= Offset(cd)
          /\ M # 0 => Offset(b) = Offset(cd)
      BY <1>1 DEF Offset, Laid
    <2>2. QED  BY <2>1
  <1>3. FieldAt(cd) = o .. N + o - 1 /\ FieldAt(b) = p .. M + p - 1
    BY <1>1, <1>2 DEF FieldAt
  <1>4. p .. M + p - 1 \subseteq o .. N + o - 1
    BY <1>1, <1>2
  <1>5. \A i \in p .. M + p - 1 : cd.element[i] = b.element[i]
    <2>1. p .. M + p - 1 \subseteq 0 .. M + p - 1
      OBVIOUS
    <2>2. QED  BY <1>1, <1>2, <2>1 DEF Laid
  <1>6. ASSUME NEW x \in 1 .. L
        PROVE  /\ x - 1 + M + o \in o .. N + o - 1
               /\ cd.element[x - 1 + M + o] =
                    [class |-> k, name |-> c.fields[x].name, static |-> c.fields[x].static]
    <2>1. x - 1 + M + o \in o .. N + o - 1
      <3>1. N = M + L
        BY <1>1
      <3>2. QED  BY <3>1
    <2>2. QED  BY <1>1, <1>2, <2>1 DEF WrittenFields
  <1>7. ASSUME NEW i \in o .. N + o - 1
        PROVE  i \in p .. M + p - 1 \/ \E x \in 1 .. L : i = x - 1 + M + o
    <2>1. CASE i < M + o
      <3>1. M # 0
        BY <2>1
      <3>2. p = o
        BY <1>2, <3>1
      <3>3. QED  BY <2>1, <3>2
    <2>2. CASE ~(i < M + o)
      <3>1. PICK x \in Int : x = i - (M + o) + 1
        OBVIOUS
      <3>2. x \in 1 .. L /\ i = x - 1 + M + o
        <4>1. N = M + L
          BY <1>1
        <4>2. QED  BY <2>2, <3>1, <4>1
      <3>3. QED  BY <3>2
    <2>3. QED  BY <2>1, <2>2
  <1>8. FieldAt(b) \subseteq FieldAt(cd)
    BY <1>3, <1>4
  <1>9. \A i \in FieldAt(b) : cd.element[i] = b.element[i]
    BY <1>3, <1>5
  <1>10. ASSUME NEW x \in 1 .. Len(c.fields)
         PROVE  /\ x - 1 + b.fieldCount + Offset(cd) \in FieldAt(cd)
                /\ cd.element[x - 1 + b.fieldCount + Offset(cd)] =
                     [class |-> k, name |-> c.fields[x].name, static |-> c.fields[x].static]
    <2>1. x \in 1 .. L
      BY <1>1
    <2>2. x - 1 + b.fieldCount + Offset(cd) = x - 1 + M + o
      BY <1>1, <1>2
    <2>3. QED  BY <1>3, <1>6, <2>1, <2>2
  <1>11. ASSUME NEW i \in FieldAt(cd)
         PROVE  i \in FieldAt(b) \/ \E x \in 1 .. Len(c.fields) : i = x - 1 + b.fieldCount + Offset(cd)
    <2>1. i \in p .. M + p - 1 \/ \E x \in 1 .. L : i = x - 1 + M + o
      BY <1>3, <1>7
    <2>2. CASE i \in p .. M + p - 1
      BY <1>3, <2>2
    <2>3. CASE \E x \in 1 .. L : i = x - 1 + M + o
      BY <1>1, <1>2, <2>3
    <2>4. QED  BY <2>1, <2>2, <2>3
  <1>12. QED  BY <1>8, <1>9, <1>10, <1>11

(* Where the fields of the class k are that it has from cs.                *)
Declared(cs, e) == \E x \in 1 .. Len(cs[e.class].fields) : /\ cs[e.class].fields[x].name = e.name
                                                           /\ cs[e.class].fields[x].static = e.static

HasFields(cs, k, cd) ==
  /\ \A i \in FieldAt(cd) : cd.element[i].class \in ToSet(Chain(cs, k)) /\ Declared(cs, cd.element[i])
  /\ \A i, j \in FieldAt(cd) : Id(cd.element[i]) = Id(cd.element[j]) => i = j
  /\ \A j \in ToSet(Chain(cs, k)) : \A x \in 1 .. Len(cs[j].fields) : \E i \in FieldAt(cd) :
        cd.element[i] = [class |-> j, name |-> cs[j].fields[x].name, static |-> cs[j].fields[x].static]
  /\ \A f : f \in DOMAIN cd.elementOf <=> FieldOwner(cs, k, f) # 0
  /\ \A f \in DOMAIN cd.elementOf : /\ cd.elementOf[f] \in FieldAt(cd)
                                    /\ cd.element[cd.elementOf[f]].class = FieldOwner(cs, k, f)
                                    /\ cd.element[cd.elementOf[f]].name = f

LEMMA FieldsStep ==
  ASSUME NEW cs, Bases(cs), DOMAIN cs = 1 .. Len(cs), NEW k \in 1 .. Len(cs), NEW b, NEW cd,
         NEW u, u = cs[k].base,
         Good(k, cd), b.fieldCount \in Nat, Laid(k, b, cd, cs[k].fields, cs[k].variant),
         WrittenFields(k, b, cs[k], cd), HasFields(cs, u, b)
  PROVE  HasFields(cs, k, cd)
  <1>1. PICK fields, M, o : fields = cs[k].fields /\ M = b.fieldCount /\ o = Offset(cd)
    OBVIOUS
  <1>2. ToSet(Chain(cs, k)) = {k} \cup ToSet(Chain(cs, u))
    BY ChainMembers
  <1>3. k \notin ToSet(Chain(cs, u)) /\ k # 0
    <2>1. u \in 0 .. k - 1 /\ u \in 0 .. Len(cs)
      BY DEF Bases
    <2>2. ToSet(Chain(cs, u)) \subseteq 1 .. u
      BY <2>1, ChainsAreInside
    <2>3. QED  BY <2>1, <2>2
  <1>4. /\ FieldAt(b) \subseteq FieldAt(cd)
        /\ \A i \in FieldAt(b) : cd.element[i] = b.element[i]
        /\ \A x \in 1 .. Len(fields) :
              /\ x - 1 + M + o \in FieldAt(cd)
              /\ cd.element[x - 1 + M + o] =
                   [class |-> k, name |-> fields[x].name, static |-> fields[x].static]
        /\ \A i \in FieldAt(cd) : i \in FieldAt(b) \/ \E x \in 1 .. Len(fields) : i = x - 1 + M + o
    BY <1>1, FieldsOfTheBase
  <1>5. fields \in Seq(FieldDecls) /\ Distinct(fields) /\ DOMAIN fields = 1 .. Len(fields)
    <2>1. fields \in Seq(FieldDecls) /\ Distinct(fields)
      BY <1>1 DEF WrittenFields
    <2>2. QED  BY <2>1
  <1>6. ASSUME NEW x \in 1 .. Len(fields), NEW i, i = x - 1 + M + o
         PROVE  /\ cd.element[i].class = k /\ cd.element[i].name = fields[x].name
                /\ cd.element[i].static = fields[x].static
    <2>1. PICK e : e = [class |-> k, name |-> fields[x].name, static |-> fields[x].static]
      OBVIOUS
    <2>2. cd.element[i] = e
      BY <1>4, <1>6, <2>1
    <2>3. e.class = k /\ e.name = fields[x].name /\ e.static = fields[x].static
      BY <2>1
    <2>4. QED  BY <2>2, <2>3
  <1>7. ASSUME NEW i \in FieldAt(cd)
        PROVE  /\ cd.element[i].class \in ToSet(Chain(cs, k)) /\ Declared(cs, cd.element[i])
               /\ cd.element[i].class = k <=> i \notin FieldAt(b)
    <2>1. CASE i \in FieldAt(b)
      BY <1>2, <1>3, <1>4, <2>1 DEF HasFields
    <2>2. CASE i \notin FieldAt(b)
      <3>1. PICK x \in 1 .. Len(fields) : i = x - 1 + M + o
        BY <1>4, <2>2
      <3>2. PICK e : e = cd.element[i]
        OBVIOUS
      <3>3. e.class = k /\ e.name = fields[x].name /\ e.static = fields[x].static
        BY <1>6, <3>1, <3>2
      <3>4. Declared(cs, e)
        BY <1>1, <3>3 DEF Declared
      <3>5. QED  BY <1>2, <2>2, <3>2, <3>3, <3>4
    <2>3. QED  BY <2>1, <2>2
  <1>8. ASSUME NEW i \in FieldAt(cd), NEW j \in FieldAt(cd), Id(cd.element[i]) = Id(cd.element[j])
        PROVE  i = j
    <2>1. cd.element[i].class = cd.element[j].class /\ cd.element[i].name = cd.element[j].name
      BY <1>8 DEF Id
    <2>2. i \in FieldAt(b) <=> j \in FieldAt(b)
      BY <1>7, <2>1
    <2>3. CASE i \in FieldAt(b)
      <3>1. i \in FieldAt(b) /\ j \in FieldAt(b) /\ Id(b.element[i]) = Id(b.element[j])
        BY <1>4, <1>8, <2>2, <2>3
      <3>2. QED  BY <3>1 DEF HasFields
    <2>4. CASE i \notin FieldAt(b)
      <3>1. PICK x \in 1 .. Len(fields) : i = x - 1 + M + o
        BY <1>4, <2>4
      <3>2. PICK y \in 1 .. Len(fields) : j = y - 1 + M + o
        BY <1>4, <2>2, <2>4
      <3>3. fields[x].name = fields[y].name
        <4>1. cd.element[i].name = fields[x].name
          BY <1>6, <3>1
        <4>2. cd.element[j].name = fields[y].name
          BY <1>6, <3>2
        <4>3. QED  BY <2>1, <4>1, <4>2
      <3>4. x = y
        BY <1>5, <3>3 DEF Distinct
      <3>5. QED  BY <3>1, <3>2, <3>4
    <2>5. QED  BY <2>3, <2>4
  <1>9. ASSUME NEW j \in ToSet(Chain(cs, k)), NEW x \in 1 .. Len(cs[j].fields)
        PROVE  \E i \in FieldAt(cd) : cd.element[i] =
                 [class |-> j, name |-> cs[j].fields[x].name, static |-> cs[j].fields[x].static]
    <2>1. CASE j = k
      BY <1>1, <1>4, <2>1
    <2>2. CASE j # k
      <3>1. j \in ToSet(Chain(cs, u))
        BY <1>2, <2>2
      <3>2. PICK i \in FieldAt(b) : b.element[i] =
              [class |-> j, name |-> cs[j].fields[x].name, static |-> cs[j].fields[x].static]
        BY <3>1 DEF HasFields
      <3>3. QED  BY <1>4, <3>2
    <2>3. QED  BY <2>1, <2>2
  <1>10. \A f : FieldOwner(cs, k, f) = IF Named(fields, f) THEN k ELSE FieldOwner(cs, u, f)
    BY <1>1, OwnersByBase
  <1>11. DOMAIN cd.elementOf = NamesOf(fields) \cup DOMAIN b.elementOf
    BY <1>1 DEF Laid
  <1>12. \A f : f \in DOMAIN cd.elementOf <=> FieldOwner(cs, k, f) # 0
    <2>1. ASSUME NEW f
          PROVE  f \in DOMAIN cd.elementOf <=> FieldOwner(cs, k, f) # 0
      <3>1. f \in DOMAIN b.elementOf <=> FieldOwner(cs, u, f) # 0
        BY DEF HasFields
      <3>2. FieldOwner(cs, k, f) = IF f \in NamesOf(fields) THEN k ELSE FieldOwner(cs, u, f)
        BY <1>10 DEF Named
      <3>3. QED  BY <1>3, <1>11, <3>1, <3>2
    <2>2. QED  BY <2>1
  <1>13. ASSUME NEW f \in DOMAIN cd.elementOf
         PROVE  /\ cd.elementOf[f] \in FieldAt(cd)
                /\ cd.element[cd.elementOf[f]].class = FieldOwner(cs, k, f)
                /\ cd.element[cd.elementOf[f]].name = f
    <2>1. cd.elementOf[f] \in FieldAt(cd)
      BY DEF Good, FieldAt
    <2>2. CASE f \in NamesOf(fields)
      <3>1. PICK x \in 1 .. Len(fields) : fields[x].name = f
        BY <1>5, <2>2 DEF NamesOf
      <3>2. cd.elementOf[f] = x - 1 + M + o
        BY <1>1, <3>1 DEF WrittenFields
      <3>3. PICK i : i = x - 1 + M + o
        OBVIOUS
      <3>4. cd.element[i].class = k /\ cd.element[i].name = f
        BY <1>6, <3>1, <3>3
      <3>5. FieldOwner(cs, k, f) = k
        BY <1>10, <2>2 DEF Named
      <3>6. QED  BY <2>1, <3>2, <3>3, <3>4, <3>5
    <2>3. CASE f \notin NamesOf(fields)
      <3>1. f \in DOMAIN b.elementOf \ NamesOf(fields)
        BY <1>11, <2>3
      <3>2. PICK i : i = cd.elementOf[f]
        OBVIOUS
      <3>3. i = b.elementOf[f]
        BY <1>1, <3>1, <3>2 DEF WrittenFields
      <3>4. i \in FieldAt(b) /\ b.element[i].class = FieldOwner(cs, u, f) /\ b.element[i].name = f
        BY <3>1, <3>3 DEF HasFields
      <3>5. FieldOwner(cs, k, f) = FieldOwner(cs, u, f)
        BY <1>10, <2>3 DEF Named
      <3>6. QED  BY <1>4, <2>1, <3>2, <3>4, <3>5
    <2>4. QED  BY <2>2, <2>3
  <1>14. QED  BY <1>7, <1>8, <1>9, <1>12, <1>13 DEF HasFields

LEMMA FieldsAre ==
  ASSUME NEW cs, NEW ds, Hierarchy(cs, ds), Written(cs, ds), DOMAIN cs = 1 .. Len(cs)
  PROVE  \A k \in 0 .. Len(cs) : HasFields(cs, k, DeclOf(ds, k))
  <1> DEFINE S == {k \in 0 .. Len(cs) : HasFields(cs, k, DeclOf(ds, k))}
  <1>1. Bases(cs)
    BY DEF Hierarchy
  <1>2. 0 \in S
    <2>1. ToSet(Chain(cs, 0)) = {} /\ 0 \in 0 .. Len(cs) /\ \A f : FieldOwner(cs, 0, f) = 0
      BY <1>1, ChainMembers, OwnersByBase DEF Bases
    <2>2. None.elementOf = <<>> /\ None.fieldCount = 0 /\ None.virtuals = 0
      BY DEF None
    <2>3. FieldAt(None) = {} /\ DOMAIN None.elementOf = {}
      BY <2>2 DEF FieldAt, Offset, HasVTable
    <2>4. HasFields(cs, 0, None)
      BY <2>1, <2>3 DEF HasFields
    <2>5. QED  BY <2>1, <2>4 DEF DeclOf
  <1>3. ASSUME NEW k \in 1 .. Len(cs), cs[k].base \in S
        PROVE  k \in S
    <2>1. PICK u, b, cd : u = cs[k].base /\ b = DeclOf(ds, u) /\ cd = ds[k]
      OBVIOUS
    <2>2. k \in 0 .. Len(cs) /\ k # 0 /\ u \in 0 .. Len(cs) /\ (u # 0 => u \in 1 .. Len(cs))
      BY <1>1, <2>1 DEF Bases
    <2>3. Good(k, cd) /\ Laid(k, b, cd, cs[k].fields, cs[k].variant) /\ WrittenFields(k, b, cs[k], cd)
      BY <2>1 DEF Hierarchy, Written
    <2>4. b.fieldCount \in Nat
      <3>1. CASE u = 0
        BY <2>1, <3>1 DEF DeclOf, None
      <3>2. CASE u # 0
        BY <2>1, <2>2, <3>2 DEF DeclOf, Hierarchy, Good
      <3>3. QED  BY <3>1, <3>2
    <2>5. HasFields(cs, u, b)
      BY <1>3, <2>1
    <2>6. HasFields(cs, k, cd)
      BY <1>1, <2>1, <2>3, <2>4, <2>5, FieldsStep
    <2>7. QED  BY <2>1, <2>2, <2>6 DEF DeclOf
  <1>4. 0 .. Len(cs) \subseteq S
    <2> HIDE DEF S
    <2>1. QED  BY <1>1, <1>2, <1>3, ClassInduction
  <1>5. QED  BY <1>4

-----------------------------------------------------------------------------
(* What the memory shows of an object.                                     *)

LEMMA ClassesAre ==
  ASSUME IsCompiled
  PROVE  /\ Hierarchy(classes, decls) /\ Written(classes, decls) /\ Bases(classes)
         /\ DOMAIN classes = 1 .. Len(classes) /\ Len(classes) \in Nat
  <1>1. PICK S : classes \in Seq(S)
    BY DEF IsCompiled, IInv, AreClasses
  <1>2. Hierarchy(classes, decls) /\ Written(classes, decls)
    BY DEF IsCompiled, IInv, AreClasses
  <1>3. QED  BY <1>1, <1>2 DEF Hierarchy

LEMMA ClassSlots ==
  ASSUME IsCompiled, NEW k \in 1 .. Len(classes)
  PROVE  /\ SlotsOf(k, decls[k], classes[k].variant, decls[k].structure)
         /\ HasFields(classes, k, decls[k])
         /\ decls[k].structure \in Seq(Names)
         /\ classes[k].variant => ~HasVTable(decls[k])
         /\ k \in ToSet(Chain(classes, k)) /\ ToSet(Chain(classes, k)) \subseteq 1 .. k
  <1>1. /\ Hierarchy(classes, decls) /\ Written(classes, decls) /\ Bases(classes)
        /\ DOMAIN classes = 1 .. Len(classes) /\ Len(classes) \in Nat
    BY ClassesAre
  <1>2. PICK cs, ds, cd, c : cs = classes /\ ds = decls /\ cd = ds[k] /\ c = cs[k]
    OBVIOUS
  <1>3. k \in Nat /\ k \in 0 .. Len(cs) /\ k # 0
    BY <1>1, <1>2
  <1>4. Good(k, cd) /\ Laid(k, DeclOf(ds, c.base), cd, c.fields, c.variant)
    BY <1>1, <1>2 DEF Hierarchy
  <1>5. WrittenFields(k, DeclOf(ds, c.base), c, cd)
    BY <1>1, <1>2 DEF Written
  <1>6. c.variant \in BOOLEAN
    BY <1>5 DEF WrittenFields
  <1>7. SlotsOf(k, cd, c.variant, cd.structure)
    BY <1>3, <1>4, <1>5, <1>6, SlotsAreFields DEF Laid, WrittenFields
  <1>8. HasFields(cs, k, DeclOf(ds, k))
    BY <1>1, <1>2, <1>3, FieldsAre
  <1>9. ToSet(Chain(cs, k)) = {k} \cup ToSet(Chain(cs, c.base)) /\ ToSet(Chain(cs, k)) \subseteq 1 .. k
    BY <1>1, <1>2, <1>3, ChainMembers, ChainsAreInside
  <1>10. QED  BY <1>1, <1>2, <1>3, <1>4, <1>7, <1>8, <1>9, StructuresOf DEF DeclOf, Laid

(* No field that is declared has the name of the variant part.             *)
LEMMA FieldsAreNamed ==
  ASSUME IsCompiled, NEW k \in 1 .. Len(classes), NEW i \in FieldAt(decls[k]),
         NEW e, e = decls[k].element[i]
  PROVE  /\ e.class \in ToSet(Chain(classes, k)) /\ e.class \in 1 .. Len(classes) /\ e.class # 0
         /\ e.name # "variant"
         /\ \E x \in DOMAIN classes[e.class].fields : /\ classes[e.class].fields[x].name = e.name
                                                      /\ classes[e.class].fields[x].static = e.static
  <1>1. PICK cs, ds : cs = classes /\ ds = decls
    OBVIOUS
  <1>2. Hierarchy(cs, ds) /\ Written(cs, ds) /\ DOMAIN cs = 1 .. Len(cs) /\ Len(cs) \in Nat
    BY <1>1, ClassesAre
  <1>3. PICK j : j = e.class
    OBVIOUS
  <1>4. j \in ToSet(Chain(cs, k)) /\ Declared(cs, e)
    BY <1>1, <1>3, ClassSlots DEF HasFields
  <1>5. j \in 1 .. k
    BY <1>1, <1>4, ClassSlots
  <1>6. j \in 1 .. Len(cs) /\ j # 0
    BY <1>1, <1>2, <1>5
  <1>7. ~Named(cs[j].fields, "variant") /\ cs[j].fields \in Seq(FieldDecls)
    BY <1>2, <1>6 DEF Hierarchy, Laid, Written, WrittenFields
  <1>8. PICK x \in 1 .. Len(cs[j].fields) : cs[j].fields[x].name = e.name /\ cs[j].fields[x].static = e.static
    BY <1>3, <1>4 DEF Declared
  <1>9. x \in DOMAIN cs[j].fields
    BY <1>7
  <1>10. e.name # "variant"
    BY <1>7, <1>8, <1>9 DEF Named, NamesOf
  <1>11. QED  BY <1>1, <1>3, <1>4, <1>6, <1>8, <1>9, <1>10

(* What is in each slot that is a place of a field.                        *)
LEMMA PlaceIs ==
  ASSUME IsCompiled, NEW k \in 1 .. Len(classes), NEW x \in Places(k)
  PROVE  /\ x \in 1 .. Len(decls[k].structure)
         /\ \/ /\ x - 1 \in FieldAt(decls[k]) /\ ~decls[k].element[x - 1].static
               /\ decls[k].structure[x] = Id(decls[k].element[x - 1])
            \/ /\ classes[k].variant /\ x = decls[k].fieldCount + 1
               /\ decls[k].structure[x] = <<k, "variant">>
  <1>1. PICK s : s = decls[k].structure
    OBVIOUS
  <1>2. SlotsOf(k, decls[k], classes[k].variant, s) /\ s \in Seq(Names)
    BY <1>1, ClassSlots
  <1>3. x \in 1 .. Len(s) /\ s[x][1] # 0
    BY <1>1, <1>2 DEF Places
  <1>4. s[x] # <<0, "vtable">>
    BY <1>3
  <1>5. QED  BY <1>1, <1>2, <1>3, <1>4 DEF SlotsOf

LEMMA FieldPlaces ==
  ASSUME IsCompiled, NEW k \in 1 .. Len(classes)
  PROVE  /\ \A i \in FieldAt(decls[k]) : ~decls[k].element[i].static =>
              i + 1 \in Places(k) /\ decls[k].structure[i + 1] = Id(decls[k].element[i])
         /\ classes[k].variant => /\ decls[k].fieldCount + 1 \in Places(k)
                                  /\ decls[k].structure[decls[k].fieldCount + 1] = <<k, "variant">>
  <1>1. PICK s, cd : s = decls[k].structure /\ cd = decls[k]
    OBVIOUS
  <1>2. SlotsOf(k, cd, classes[k].variant, s) /\ s \in Seq(Names) /\ DOMAIN s = 1 .. Len(s)
    <2>1. SlotsOf(k, cd, classes[k].variant, s) /\ s \in Seq(Names)
      BY <1>1, ClassSlots
    <2>2. QED  BY <2>1
  <1>3. ASSUME NEW i \in FieldAt(cd), ~cd.element[i].static
        PROVE  i + 1 \in Places(k) /\ s[i + 1] = Id(cd.element[i])
    <2>1. i + 1 \in DOMAIN s /\ s[i + 1] = Id(cd.element[i])
      BY <1>2, <1>3 DEF SlotsOf
    <2>2. cd.element[i].class # 0
      BY <1>1, FieldsAreNamed
    <2>3. s[i + 1][1] # 0
      BY <2>1, <2>2 DEF Id
    <2>4. QED  BY <1>1, <2>1, <2>3 DEF Places
  <1>4. ASSUME classes[k].variant
        PROVE  cd.fieldCount + 1 \in Places(k) /\ s[cd.fieldCount + 1] = <<k, "variant">>
    <2>1. cd.fieldCount + 1 \in DOMAIN s /\ s[cd.fieldCount + 1] = <<k, "variant">>
      BY <1>2, <1>4 DEF SlotsOf
    <2>2. s[cd.fieldCount + 1][1] # 0
      BY <2>1
    <2>3. QED  BY <1>1, <2>1, <2>2 DEF Places
  <1>5. QED  BY <1>1, <1>3, <1>4

(* Every field has one place.                                              *)
LEMMA PlacesAreApart ==
  ASSUME IsCompiled, NEW k \in 1 .. Len(classes), NEW x \in Places(k)
  PROVE  /\ \A y \in Places(k) : decls[k].structure[x] = decls[k].structure[y] => x = y
         /\ Place(k, decls[k].structure[x]) = x
         /\ HasVTable(decls[k]) => x # 1
  <1>1. PICK cd, s, N : cd = decls[k] /\ s = cd.structure /\ N = cd.fieldCount
    OBVIOUS
  <1>2. ASSUME NEW i \in FieldAt(cd)
        PROVE  Id(cd.element[i]) # <<k, "variant">>
    <2>1. cd.element[i].name # "variant"
      BY <1>1, FieldsAreNamed
    <2>2. QED  BY <2>1 DEF Id
  <1>3. \A i, j \in FieldAt(cd) : Id(cd.element[i]) = Id(cd.element[j]) => i = j
    BY <1>1, ClassSlots DEF HasFields
  <1>4. \A z \in Places(k) : /\ z \in Int
                             /\ \/ z - 1 \in FieldAt(cd) /\ s[z] = Id(cd.element[z - 1])
                                \/ classes[k].variant /\ z = N + 1 /\ s[z] = <<k, "variant">>
    BY <1>1, PlaceIs
  <1>5. ASSUME NEW y \in Places(k), s[x] = s[y]
        PROVE  x = y
    <2>1. CASE x - 1 \in FieldAt(cd) /\ s[x] = Id(cd.element[x - 1])
      <3>1. y - 1 \in FieldAt(cd) /\ s[y] = Id(cd.element[y - 1])
        BY <1>2, <1>4, <1>5, <2>1
      <3>2. x - 1 = y - 1
        BY <1>3, <1>5, <2>1, <3>1
      <3>3. QED  BY <1>4, <3>2
    <2>2. CASE x = N + 1 /\ s[x] = <<k, "variant">>
      BY <1>2, <1>4, <1>5, <2>2
    <2>3. QED  BY <1>4, <2>1, <2>2
  <1>6. Place(k, s[x]) = x
    BY <1>1, <1>5 DEF Place
  <1>7. ASSUME HasVTable(cd)
        PROVE  x # 1
    <2>1. x - 1 \in FieldAt(cd)
      BY <1>1, <1>4, <1>7, ClassSlots
    <2>2. x - 1 >= 1 /\ x \in Int
      BY <1>4, <1>7, <2>1 DEF FieldAt, Offset
    <2>3. QED  BY <2>2
  <1>8. QED  BY <1>1, <1>5, <1>6, <1>7

(* ... and the places are those of the fields that the text says.          *)
LEMMA PlacesAreFields ==
  ASSUME IsCompiled, NEW k \in 1 .. Len(classes)
  PROVE  {decls[k].structure[i] : i \in Places(k)} = Pascal!FieldsOf(k)
  <1>1. PICK cd, s, c : cd = decls[k] /\ s = cd.structure /\ c = ToSet(Chain(classes, k))
    OBVIOUS
  <1>2. k \in c
    BY <1>1, ClassSlots
  <1>3. Pascal!FieldsOf(k) = UNION {{j} \X Pascal!OwnFields(classes[j]) : j \in c}
    BY <1>1, SameHierarchy DEF Pascal!FieldsOf
  <1>4. \A j : Pascal!OwnFields(classes[j]) =
                 {d.name : d \in {f \in ToSet(classes[j].fields) : ~f.static}}
                   \cup (IF classes[j].variant THEN {"variant"} ELSE {})
    BY SameHierarchy DEF Pascal!OwnFields
  <1>5. ASSUME NEW x \in Places(k)
        PROVE  \E j \in c : s[x] \in {j} \X Pascal!OwnFields(classes[j])
    <2>1. CASE /\ x - 1 \in FieldAt(cd) /\ ~cd.element[x - 1].static
               /\ s[x] = Id(cd.element[x - 1])
      <3>1. PICK e : e = cd.element[x - 1]
        OBVIOUS
      <3>2. e.class \in c /\ \E y \in DOMAIN classes[e.class].fields :
                               /\ classes[e.class].fields[y].name = e.name
                               /\ classes[e.class].fields[y].static = e.static
        BY <1>1, <2>1, <3>1, FieldsAreNamed
      <3>3. PICK j, y : /\ j = e.class /\ y \in DOMAIN classes[j].fields
                        /\ classes[j].fields[y].name = e.name /\ ~classes[j].fields[y].static
        BY <2>1, <3>1, <3>2
      <3>4. classes[j].fields[y] \in ToSet(classes[j].fields)
        BY <3>3 DEF ToSet
      <3>5. e.name \in Pascal!OwnFields(classes[j])
        BY <1>4, <3>3, <3>4
      <3>6. s[x] = <<j, e.name>>
        BY <2>1, <3>1, <3>3 DEF Id
      <3>7. QED  BY <3>2, <3>3, <3>5, <3>6
    <2>2. CASE classes[k].variant /\ s[x] = <<k, "variant">>
      <3>1. "variant" \in Pascal!OwnFields(classes[k])
        BY <1>4, <2>2
      <3>2. QED  BY <1>2, <2>2, <3>1
    <2>3. QED  BY <1>1, <2>1, <2>2, PlaceIs
  <1>6. ASSUME NEW j \in c, NEW n \in Pascal!OwnFields(classes[j])
        PROVE  \E x \in Places(k) : s[x] = <<j, n>>
    <2>1. CASE \E d \in ToSet(classes[j].fields) : ~d.static /\ n = d.name
      <3>1. PICK y \in DOMAIN classes[j].fields : /\ ~classes[j].fields[y].static
                                                  /\ n = classes[j].fields[y].name
        BY <2>1 DEF ToSet
      <3>2. y \in 1 .. Len(classes[j].fields)
        <4>1. j \in 1 .. k
          BY <1>1, ClassSlots
        <4>2. 1 .. k \subseteq 1 .. Len(classes)
          BY ClassesAre
        <4>3. classes[j].fields \in Seq(FieldDecls)
          BY <4>1, <4>2, ClassesAre DEF Written, WrittenFields
        <4>4. QED  BY <3>1, <4>3
      <3>3. PICK i \in FieldAt(cd) : cd.element[i] =
              [class |-> j, name |-> classes[j].fields[y].name, static |-> classes[j].fields[y].static]
        BY <1>1, <3>2, ClassSlots DEF HasFields
      <3>4. cd.element[i].class = j /\ cd.element[i].name = n /\ ~cd.element[i].static
        <4>1. PICK e : e = [class |-> j, name |-> classes[j].fields[y].name,
                            static |-> classes[j].fields[y].static]
          OBVIOUS
        <4>2. e.class = j /\ e.name = n /\ ~e.static
          BY <3>1, <4>1
        <4>3. QED  BY <3>3, <4>1, <4>2
      <3>5. i + 1 \in Places(k) /\ s[i + 1] = <<j, n>>
        BY <1>1, <3>4, FieldPlaces DEF Id
      <3>6. QED  BY <3>5
    <2>2. CASE classes[j].variant /\ n = "variant"
      <3>1. j = k
        <4>1. k \in 0 .. Len(classes)
          BY ClassesAre
        <4>2. Above(classes, decls, j, k)
          BY <1>1, <4>1, ClassesAre, ChainIsAbove
        <4>3. QED  BY <2>2, <4>2 DEF Above
      <3>2. cd.fieldCount + 1 \in Places(k) /\ s[cd.fieldCount + 1] = <<k, "variant">>
        BY <1>1, <2>2, <3>1, FieldPlaces
      <3>3. QED  BY <2>2, <3>1, <3>2
    <2>3. \/ n \in {d.name : d \in {f \in ToSet(classes[j].fields) : ~f.static}}
          \/ n \in (IF classes[j].variant THEN {"variant"} ELSE {})
      BY <1>4
    <2>4. CASE n \in {d.name : d \in {f \in ToSet(classes[j].fields) : ~f.static}}
      BY <2>1, <2>4
    <2>5. CASE n \in (IF classes[j].variant THEN {"variant"} ELSE {})
      <3>1. classes[j].variant /\ n = "variant"
        BY <2>5
      <3>2. QED  BY <2>2, <3>1
    <2>6. QED  BY <2>3, <2>4, <2>5
  <1>7. PICK A, B : A = {s[i] : i \in Places(k)} /\ B = Pascal!FieldsOf(k)
    OBVIOUS
  <1>8. A \subseteq B
    BY <1>3, <1>5, <1>7
  <1>9. ASSUME NEW f \in B
        PROVE  f \in A
    <2>1. PICK j \in c : f \in {j} \X Pascal!OwnFields(classes[j])
      BY <1>3, <1>7
    <2>2. PICK n \in Pascal!OwnFields(classes[j]) : f = <<j, n>>
      BY <2>1
    <2>3. QED  BY <1>6, <1>7, <2>2
  <1>10. QED  BY <1>1, <1>7, <1>8, <1>9

-----------------------------------------------------------------------------
(* An access to a field finds the field of the text.                       *)

LEMMA StaticsAre ==
  ASSUME IsCompiled, NEW j \in 1 .. Len(classes)
  PROVE  /\ \A x \in DOMAIN classes[j].fields :
              <<j, classes[j].fields[x].name>> \in DOMAIN globals <=> classes[j].fields[x].static
         /\ <<j, "variant">> \notin DOMAIN globals
  <1>1. PICK fields : fields = classes[j].fields
    OBVIOUS
  <1>2. Distinct(fields) /\ ~Named(fields, "variant")
    BY <1>1, ClassesAre DEF Hierarchy, Laid, Written, WrittenFields
  <1>3. \A n : <<j, n>> \in DOMAIN globals <=> \E x \in DOMAIN fields : fields[x].static /\ fields[x].name = n
    <2>1. ASSUME NEW n
          PROVE  <<j, n>> \in DOMAIN globals <=>
                   \E x \in DOMAIN fields : fields[x].static /\ fields[x].name = n
      <3>1. DOMAIN globals = UNION {StaticsOf(i, classes[i].fields) : i \in 1 .. Len(classes)}
        BY DEF IsCompiled, Statics
      <3>2. \A i : <<j, n>> \in StaticsOf(i, classes[i].fields) => i = j
        BY DEF StaticsOf
      <3>3. <<j, n>> \in DOMAIN globals <=> <<j, n>> \in StaticsOf(j, fields)
        BY <1>1, <3>1, <3>2
      <3>4. <<j, n>> \in StaticsOf(j, fields) <=>
              \E e \in ToSet(fields) : e.static /\ e.name = n
        BY DEF StaticsOf
      <3>5. QED  BY <3>3, <3>4 DEF ToSet
    <2>2. QED  BY <2>1
  <1>4. ASSUME NEW x \in DOMAIN fields
        PROVE  <<j, fields[x].name>> \in DOMAIN globals <=> fields[x].static
    BY <1>2, <1>3 DEF Distinct
  <1>5. <<j, "variant">> \notin DOMAIN globals
    BY <1>2, <1>3 DEF Named, NamesOf
  <1>6. QED  BY <1>1, <1>4, <1>5

(* The field at of the class s is where it should be in an object of the   *)
(* class k that derives from s.                                            *)
LEMMA PlaceIsInherited ==
  ASSUME IsCompiled, NEW o \in Objects, NEW k \in 1 .. Len(classes), k = memory[o].class,
         NEW s \in ToSet(Chain(classes, k)), s \in 1 .. Len(classes),
         NEW e \in Nat, e + 1 \in Places(s), NEW at, decls[s].structure[e + 1] = at
  PROVE  /\ InBounds(o, s, e)
         /\ e + 1 \in Places(k) /\ decls[k].structure[e + 1] = at
  <1>1. PICK t, u : t = decls[s].structure /\ u = decls[k].structure
    OBVIOUS
  <1>2. t \in Seq(Names) /\ u \in Seq(Names) /\ Len(t) \in Nat /\ Len(u) \in Nat
        /\ DOMAIN u = 1 .. Len(u) /\ DOMAIN t = 1 .. Len(t)
    <2>1. t \in Seq(Names) /\ u \in Seq(Names)
      BY <1>1, ClassSlots
    <2>2. QED  BY <2>1
  <1>3. Starts(t, u)
    <2>1. k \in 0 .. Len(classes)
      BY ClassesAre
    <2>2. Above(classes, decls, s, k)
      BY <2>1, ClassesAre, ChainIsAbove
    <2>3. QED  BY <1>1, <2>2 DEF Above
  <1>4. e + 1 \in 1 .. Len(t) /\ t[e + 1] = at /\ at[1] # 0
    BY <1>1, <1>2 DEF Places
  <1>5. e < Len(t) /\ e < Len(u) /\ e + 1 \in 1 .. Len(u)
    BY <1>2, <1>3, <1>4 DEF Starts
  <1>6. u[e + 1] = at
    BY <1>3, <1>4 DEF Starts
  <1>7. e + 1 \in Places(k)
    BY <1>1, <1>2, <1>4, <1>5, <1>6 DEF Places
  <1>8. k # 0
    BY ClassesAre
  <1>9. DOMAIN memory[o].slots = 0 .. Len(u) - 1
    BY <1>1, <1>8 DEF IsCompiled
  <1>10. e \in DOMAIN memory[o].slots
    BY <1>2, <1>5, <1>9
  <1>11. QED  BY <1>1, <1>5, <1>6, <1>7, <1>10 DEF InBounds

LEMMA AccessIs ==
  ASSUME Careful = TRUE, IsCompiled, NEW o \in Objects, NEW s \in DOMAIN classes,
         NEW f \in FieldsSeen(classes, s), NEW inside \in BOOLEAN, Accessible(o, s, f, inside),
         NEW k, k = memory[o].class, NEW at, at = Pascal!Field(o, s, f)
  PROVE  /\ k \in 1 .. Len(classes)
         /\ \/ IsGlobal(s, f, inside) /\ Global(s, f) = at /\ at \in DOMAIN globals
            \/ /\ ~IsGlobal(s, f, inside) /\ at \notin DOMAIN globals
               /\ InBounds(o, s, Slot(s, f, inside)) /\ Slot(s, f, inside) \in Nat
               /\ Slot(s, f, inside) + 1 \in Places(k)
               /\ decls[k].structure[Slot(s, f, inside) + 1] = at
  <1>1. /\ s \in 1 .. Len(classes) /\ s \in 0 .. Len(classes) /\ s # 0
    BY ClassesAre
  <1>2. k \in 1 .. Len(classes) /\ s \in ToSet(Chain(classes, k))
    <2>1. k \in 0 .. Len(classes) /\ k # 0 /\ Len(classes) \in Nat
      BY ClassesAre DEF IsCompiled, IInv, TypeOK, Accessible, Sees
    <2>2. QED  BY <2>1 DEF Accessible, Sees, DerivedFrom
  <1>3. at = IF f = "variant" THEN <<s, f>> ELSE <<FieldOwner(classes, s, f), f>>
    BY SameOwners DEF Pascal!Field
  <1>4. PICK cd : cd = decls[s]
    OBVIOUS
  <1>5. \A j \in ToSet(Chain(classes, s)) : j \in 1 .. Len(classes) /\ ~Named(classes[j].fields, "variant")
    <2>1. ASSUME NEW j \in ToSet(Chain(classes, s))
          PROVE  j \in 1 .. Len(classes) /\ ~Named(classes[j].fields, "variant")
      <3>1. j \in 1 .. s
        BY <1>1, ClassSlots
      <3>2. j \in 1 .. Len(classes)
        BY <1>1, <3>1, ClassesAre
      <3>3. QED  BY <3>2, ClassesAre DEF Hierarchy, Laid
    <2>2. QED  BY <2>1
  <1>6. CASE f = "variant"
    <2>1. classes[s].variant
      BY <1>5, <1>6 DEF FieldsSeen, Named
    <2>2. PICK N \in Nat : N = cd.fieldCount
      BY <1>1, <1>4, ClassesAre, StructuresOf
    <2>3. Slot(s, f, inside) = N /\ ~IsGlobal(s, f, inside)
      BY <1>4, <1>6, <2>2 DEF Slot, IsGlobal
    <2>4. N + 1 \in Places(s) /\ decls[s].structure[N + 1] = at
      BY <1>1, <1>3, <1>4, <1>6, <2>1, <2>2, FieldPlaces
    <2>5. InBounds(o, s, N) /\ N + 1 \in Places(k) /\ decls[k].structure[N + 1] = at
      BY <1>1, <1>2, <2>4, PlaceIsInherited
    <2>6. at \notin DOMAIN globals
      BY <1>1, <1>3, <1>6, StaticsAre
    <2>7. QED  BY <1>2, <2>3, <2>5, <2>6
  <1>7. CASE f # "variant"
    <2>1. PICK j : j = FieldOwner(classes, s, f)
      OBVIOUS
    <2>2. j # 0
      <3>1. \E i \in ToSet(Chain(classes, s)) : Named(classes[i].fields, f)
        BY <1>7 DEF FieldsSeen, Named
      <3>2. QED  BY <1>1, <2>1, <3>1, ClassesAre, OwnerIsDeclared
    <2>3. HasFields(classes, s, cd)
      BY <1>1, <1>4, ClassSlots
    <2>4. PICK i, e : i = cd.elementOf[f] /\ e = cd.element[i]
      OBVIOUS
    <2>5. i \in FieldAt(cd) /\ e.class = j /\ e.name = f
      BY <2>1, <2>2, <2>3, <2>4 DEF HasFields
    <2>6. at = <<j, f>> /\ Id(e) = at
      BY <1>3, <1>7, <2>1, <2>5 DEF Id
    <2>7. i \in Nat
      <3>1. Offset(cd) \in Nat
        BY DEF Offset
      <3>2. cd.fieldCount \in Nat
        BY <1>1, <1>4, ClassesAre, StructuresOf
      <3>3. QED  BY <2>5, <3>1, <3>2 DEF FieldAt
    <2>8. at \in DOMAIN globals <=> e.static
      <3>1. e.class \in 1 .. Len(classes)
            /\ \E x \in DOMAIN classes[e.class].fields : /\ classes[e.class].fields[x].name = e.name
                                                         /\ classes[e.class].fields[x].static = e.static
        BY <1>1, <1>4, <2>4, <2>5, FieldsAreNamed
      <3>2. PICK x \in DOMAIN classes[j].fields : /\ classes[j].fields[x].name = f
                                                  /\ classes[j].fields[x].static = e.static
        BY <2>5, <3>1
      <3>3. QED  BY <2>5, <2>6, <3>1, <3>2, StaticsAre
    <2>9. Slot(s, f, FALSE) = i
      BY <1>4, <1>7, <2>4 DEF Slot
    <2>10. Slot(s, f, inside) = i
      <3>1. CASE inside
        <4>1. Inside(s, f) = Slot(s, f, FALSE)
          BY <3>1 DEF Accessible, MayName
        <4>2. Slot(s, f, inside) = Inside(s, f)
          BY <1>7, <3>1 DEF Slot
        <4>3. QED  BY <2>9, <4>1, <4>2
      <3>2. CASE ~inside
        <4>1. inside = FALSE
          BY <3>2
        <4>2. QED  BY <2>9, <4>1
      <3>3. QED  BY <3>1, <3>2
    <2>11. IsGlobal(s, f, inside) <=> ~inside /\ e.static
      BY <1>4, <1>7, <2>4, <2>9 DEF IsGlobal
    <2>12. inside => ~e.static
      BY <1>4, <2>4, <2>9 DEF Accessible, MayName
    <2>13. CASE e.static
      <3>1. Global(s, f) = at
        BY <1>4, <2>4, <2>6 DEF Global, Id
      <3>2. QED  BY <1>2, <2>8, <2>11, <2>12, <2>13, <3>1
    <2>14. CASE ~e.static
      <3>1. i + 1 \in Places(s) /\ decls[s].structure[i + 1] = at
        BY <1>1, <1>4, <2>4, <2>5, <2>6, <2>14, FieldPlaces
      <3>2. InBounds(o, s, i) /\ i + 1 \in Places(k) /\ decls[k].structure[i + 1] = at
        <4>1. PICK n \in Nat : n = i
          BY <2>7
        <4>2. n + 1 \in Places(s) /\ decls[s].structure[n + 1] = at
          BY <3>1, <4>1
        <4>3. InBounds(o, s, n) /\ n + 1 \in Places(k) /\ decls[k].structure[n + 1] = at
          BY <1>1, <1>2, <4>2, PlaceIsInherited
        <4>4. QED  BY <4>1, <4>3
      <3>3. QED  BY <1>2, <2>7, <2>8, <2>10, <2>11, <2>14, <3>2
    <2>15. QED  BY <2>13, <2>14
  <1>8. QED  BY <1>6, <1>7

-----------------------------------------------------------------------------
(* What an object shows: the values of its fields.                         *)

LEMMA NothingShown ==
  ASSUME NEW o \in Objects, memory[o].class = 0
  PROVE  Shown[o] = [class |-> 0, values |-> <<>>]
  BY DEF Shown

IsShown(o, k, values) ==
    /\ Shown[o] = [class |-> k, values |-> values]
    /\ k \in 1 .. Len(classes)
    /\ DOMAIN values = Pascal!FieldsOf(k)
    /\ values = [f \in DOMAIN values |-> values[f]]
    /\ \A x \in Places(k) : /\ decls[k].structure[x] \in DOMAIN values
                            /\ values[decls[k].structure[x]] = memory[o].slots[x - 1]

LEMMA ShownIs ==
  ASSUME IsCompiled, NEW o \in Objects, NEW k, k = memory[o].class, k # 0
  PROVE  \E values : IsShown(o, k, values)
  <1>1. Shown[o] = IF k = 0 THEN [class |-> 0, values |-> <<>>]
                   ELSE [class |-> k,
                         values |-> [f \in {decls[k].structure[i] : i \in Places(k)} |->
                                        memory[o].slots[Place(k, f) - 1]]]
    BY DEF Shown
  <1>2. k \in 1 .. Len(classes)
    BY ClassesAre DEF IsCompiled, IInv, TypeOK
  <1>3. PICK F : F = {decls[k].structure[i] : i \in Places(k)}
    OBVIOUS
  <1>4. F = Pascal!FieldsOf(k)
    BY <1>2, <1>3, PlacesAreFields
  <1>5. PICK values : values = [f \in F |-> memory[o].slots[Place(k, f) - 1]]
    OBVIOUS
  <1>6. Shown[o] = [class |-> k, values |-> values]
    BY <1>1, <1>3, <1>5, Zenon
  <1>7. ASSUME NEW x \in Places(k)
        PROVE  /\ decls[k].structure[x] \in DOMAIN values
               /\ values[decls[k].structure[x]] = memory[o].slots[x - 1]
    <2>1. decls[k].structure[x] \in F
      BY <1>3
    <2>2. Place(k, decls[k].structure[x]) = x
      BY <1>2, PlacesAreApart
    <2>3. QED  BY <1>5, <2>1, <2>2
  <1>8. DOMAIN values = Pascal!FieldsOf(k)
    BY <1>4, <1>5
  <1>9. values = [f \in DOMAIN values |-> values[f]]
    BY <1>5
  <1>10. IsShown(o, k, values)
    BY <1>2, <1>6, <1>7, <1>8, <1>9 DEF IsShown
  <1>11. QED  BY <1>10

LEMMA ShownClass ==
  ASSUME IsCompiled, NEW o \in Objects
  PROVE  Shown[o].class = memory[o].class
  <1>1. PICK k : k = memory[o].class
    OBVIOUS
  <1>2. CASE k = 0
    <2>1. PICK e : e = [class |-> 0, values |-> <<>>]
      OBVIOUS
    <2>2. e.class = k
      BY <1>2, <2>1
    <2>3. Shown[o] = e
      BY <1>1, <1>2, <2>1, NothingShown
    <2>4. QED  BY <1>1, <2>2, <2>3
  <1>3. CASE k # 0
    <2>1. PICK values : IsShown(o, k, values)
      BY <1>1, <1>3, ShownIs
    <2>2. Shown[o] = [class |-> k, values |-> values]
      BY <2>1 DEF IsShown
    <2>3. QED  BY <1>1, <2>2
  <1>4. QED  BY <1>2, <1>3

(* A field is read where the text has it.                                  *)
LEMMA ReadIs ==
  ASSUME Careful = TRUE, IsCompiled, NEW o \in Objects, NEW s \in DOMAIN classes,
         NEW f \in FieldsSeen(classes, s), NEW inside \in BOOLEAN, Accessible(o, s, f, inside)
  PROVE  Read(o, s, f, inside) = Pascal!Read(o, s, f)
  <1>1. PICK k, at, slot : /\ k = memory[o].class /\ at = Pascal!Field(o, s, f)
                           /\ slot = Slot(s, f, inside)
    OBVIOUS
  <1>2. Pascal!Read(o, s, f) = IF at \in DOMAIN globals THEN globals[at] ELSE Shown[o].values[at]
    BY <1>1 DEF Pascal!Read
  <1>3. k \in 1 .. Len(classes)
        /\ \/ IsGlobal(s, f, inside) /\ Global(s, f) = at /\ at \in DOMAIN globals
           \/ /\ ~IsGlobal(s, f, inside) /\ at \notin DOMAIN globals
              /\ InBounds(o, s, slot) /\ slot \in Nat
              /\ slot + 1 \in Places(k) /\ decls[k].structure[slot + 1] = at
    BY <1>1, AccessIs
  <1>4. CASE IsGlobal(s, f, inside)
    BY <1>2, <1>3, <1>4 DEF Read
  <1>5. CASE ~IsGlobal(s, f, inside)
    <2>1. Read(o, s, f, inside) = memory[o].slots[slot]
      BY <1>1, <1>3, <1>5 DEF Read
    <2>2. k # 0
      BY <1>3
    <2>3. PICK values : IsShown(o, k, values)
      BY <1>1, <2>2, ShownIs
    <2>4. /\ Shown[o] = [class |-> k, values |-> values]
          /\ \A x \in Places(k) : values[decls[k].structure[x]] = memory[o].slots[x - 1]
      BY <2>3 DEF IsShown
    <2>5. Shown[o].values = values
      BY <2>4
    <2>6. values[at] = memory[o].slots[(slot + 1) - 1]
      BY <1>3, <1>5, <2>4
    <2>7. (slot + 1) - 1 = slot
      BY <1>3, <1>5
    <2>8. QED  BY <1>2, <1>3, <1>5, <2>1, <2>5, <2>6, <2>7
  <1>6. QED  BY <1>4, <1>5

(* A call runs the method that the text says.                              *)
LEMMA CallIs ==
  ASSUME Careful = TRUE, IsCompiled, NEW o \in Objects, NEW s \in DOMAIN classes, Sees(o, s),
         NEW m \in MethodsSeen(classes, s)
  PROVE  Runs(o, s, m) = Pascal!Runs(o, s, m)
  <1>1. PICK k, f, x : /\ k = memory[o].class /\ f = Of(decls[s].membfuncs, m)
                       /\ x = MethodOwner(classes, s, m)
    OBVIOUS
  <1>2. s \in 1 .. Len(classes) /\ s \in 0 .. Len(classes) /\ s # 0
    BY ClassesAre
  <1>3. k \in 1 .. Len(classes) /\ s \in ToSet(Chain(classes, k)) /\ k # 0
    <2>1. k \in 0 .. Len(classes) /\ k # 0 /\ Len(classes) \in Nat
      BY <1>1, ClassesAre DEF IsCompiled, IInv, TypeOK, Sees
    <2>2. QED  BY <1>1, <2>1 DEF Sees, DerivedFrom
  <1>4. x # 0
    <2>1. \E j \in ToSet(Chain(classes, s)) : Named(classes[j].methods, m)
      BY DEF MethodsSeen, Named
    <2>2. QED  BY <1>1, <1>2, <2>1, ClassesAre, OwnerIsDeclared
  <1>5. f.class = x /\ f.kind = Kind(classes, x, m)
    <2>1. HasMethod(classes, s, DeclOf(decls, s), m)
      BY <1>2, ClassesAre, MethodsAre
    <2>2. HasMethod(classes, s, decls[s], m)
      BY <1>2, <2>1 DEF DeclOf
    <2>3. QED  BY <1>1, <1>4, <2>2 DEF HasMethod
  <1>6. Shown[o].class = k
    BY <1>1, ShownClass
  <1>7. Pascal!Runs(o, s, m) =
          IF Kind(classes, x, m) = "plain" THEN x
          ELSE Nearest(Chain(classes, k), {j \in DOMAIN classes :
                         Pascal!Introducer(classes, j, m) = Pascal!Introducer(classes, x, m)})
    BY <1>1, <1>6, SameOwners, SameHierarchy, Zenon DEF Pascal!Runs
  <1>8. CASE Kind(classes, x, m) = "plain"
    <2>1. Runs(o, s, m) = f.class
      BY <1>1, <1>5, <1>8 DEF Runs, IsVirtual
    <2>2. QED  BY <1>5, <1>7, <1>8, <2>1
  <1>9. CASE Kind(classes, x, m) # "plain"
    <2>1. PICK index : index = decls[s].virtIndex[<<f.class, f.name>>]
      OBVIOUS
    <2>2. /\ HasVTable(decls[k]) /\ index \in DOMAIN decls[k].vtable
          /\ decls[k].vtable[index] =
               Nearest(Chain(classes, k), {j \in DOMAIN classes :
                         Pascal!Introducer(classes, j, m) = Pascal!Introducer(classes, x, m)})
      <3>1. PICK cs, ds : cs = classes /\ ds = decls
        OBVIOUS
      <3>2. Hierarchy(cs, ds) /\ Written(cs, ds) /\ DOMAIN cs = 1 .. Len(cs)
        BY <3>1, ClassesAre
      <3>3. k \in 1 .. Len(cs) /\ s \in ToSet(Chain(cs, k)) /\ s \in 1 .. Len(cs)
        BY <1>2, <1>3, <3>1
      <3>4. x = MethodOwner(cs, s, m) /\ Kind(cs, x, m) # "plain" /\ f = Of(ds[s].membfuncs, m)
        BY <1>1, <1>9, <3>1
      <3>5. CallFinds(cs, ds, k, s, m, x, f)
        BY <1>4, <3>2, <3>3, <3>4, VirtualCall
      <3>6. index = ds[s].virtIndex[<<f.class, f.name>>]
        BY <2>1, <3>1
      <3>7. HasVTable(ds[k]) /\ index \in DOMAIN ds[k].vtable
        BY <3>5, <3>6 DEF CallFinds
      <3>8. ds[k].vtable[index] =
              Nearest(Chain(cs, k), {j \in DOMAIN cs :
                         Pascal!Introducer(cs, j, m) = Pascal!Introducer(cs, x, m)})
        BY <3>5, <3>6 DEF CallFinds
      <3>9. QED  BY <3>1, <3>7, <3>8, Zenon
    <2>3. memory[o].slots[0] = k
      <3>1. Offset(decls[k]) = 1
        BY <2>2 DEF Offset
      <3>2. PICK L \in Nat : L = Len(decls[k].structure)
        BY <1>3, ClassesAre, StructuresOf
      <3>3. 1 <= L
        BY <1>3, <3>1, <3>2, ClassSlots DEF SlotsOf
      <3>4. DOMAIN memory[o].slots = 0 .. L - 1
        BY <1>1, <1>3, <3>2 DEF IsCompiled
      <3>5. 0 \in DOMAIN memory[o].slots
        BY <3>3, <3>4
      <3>6. memory[o].slots[0] \in {k}
        BY <1>1, <2>2, <3>5 DEF IsCompiled, IInv, TypeOK
      <3>7. QED  BY <3>6
    <2>4. k \in DOMAIN classes
      BY <1>3, ClassesAre
    <2>5. IsVirtual(f)
      BY <1>5, <1>9 DEF IsVirtual
    <2>6. Runs(o, s, m) = decls[k].vtable[index]
      BY <1>1, <2>1, <2>2, <2>3, <2>4, <2>5 DEF Runs
    <2>7. QED  BY <1>7, <1>9, <2>2, <2>6
  <1>10. QED  BY <1>8, <1>9

-----------------------------------------------------------------------------
(* Whatever classes a careful program declares, a field that it names      *)
(* reads as the text says, from inside a method and from outside, through  *)
(* every class that the object is of, and a call runs the method that the  *)
(* text says: ClassDecl::Element, GetElement, GetLlvmType and VTableType   *)
(* agree with each other and with what is inherited.                       *)
THEOREM ObjectsReadAsWritten ==
  ASSUME Careful = TRUE
  PROVE  Spec => []ReadsAndCallsAsWritten
  <1>1. Init => IsCompiled
    BY CompiledAtFirst
  <1>2. IsCompiled /\ [Next]_vars => IsCompiled'
    BY StepIsCompiled
  <1>3. IsCompiled => ReadsAndCallsAsWritten
    BY ReadIs, CallIs DEF ReadsAndCallsAsWritten
  <1>4. QED  BY <1>1, <1>2, <1>3, PTL DEF Spec

-----------------------------------------------------------------------------
(* A step of the memory is a step of what the objects are to the program.   *)

(* What an object with the memory r is.                                    *)
View(r) ==
    LET k == r.class
    IN  IF k = 0 THEN [class |-> 0, values |-> <<>>]
        ELSE [class |-> k,
              values |-> [f \in {decls[k].structure[i] : i \in Places(k)} |->
                            r.slots[Place(k, f) - 1]]]

LEMMA ViewIs ==
  ASSUME IsCompiled, NEW r, NEW k, k = r.class, k \in 1 .. Len(classes),
         NEW values, DOMAIN values = Pascal!FieldsOf(k), values = [f \in DOMAIN values |-> values[f]],
         \A x \in Places(k) : values[decls[k].structure[x]] = r.slots[x - 1]
  PROVE  View(r) = [class |-> k, values |-> values]
  <1>1. PICK F : F = {decls[k].structure[i] : i \in Places(k)}
    OBVIOUS
  <1>2. F = DOMAIN values
    BY <1>1, PlacesAreFields
  <1>3. PICK found : found = [f \in F |-> r.slots[Place(k, f) - 1]]
    OBVIOUS
  <1>4. ASSUME NEW f \in F
        PROVE  found[f] = values[f]
    <2>1. PICK x \in Places(k) : f = decls[k].structure[x]
      BY <1>1
    <2>2. Place(k, f) = x
      BY <2>1, PlacesAreApart
    <2>3. QED  BY <1>3, <2>1, <2>2
  <1>5. found = values
    BY <1>2, <1>3, <1>4
  <1>6. k # 0
    BY ClassesAre
  <1>7. View(r) = IF k = 0 THEN [class |-> 0, values |-> <<>>]
                  ELSE [class |-> k, values |-> [f \in F |-> r.slots[Place(k, f) - 1]]]
    BY <1>1 DEF View
  <1>8. QED  BY <1>3, <1>5, <1>6, <1>7

LEMMA ShownIsTheView ==
  /\ Shown = [o \in Objects |-> View(memory[o])]
  /\ decls' = decls => Shown' = [o \in Objects |-> View(memory'[o])]
  <1>1. Shown = [o \in Objects |-> View(memory[o])]
    BY DEF Shown, View
  <1>2. ASSUME decls' = decls
        PROVE  Shown' = [o \in Objects |-> View(memory'[o])]
    BY <1>2 DEF Shown, View, Place, Places
  <1>3. QED  BY <1>1, <1>2

LEMMA OneIsChanged ==
  ASSUME IsCompiled, UNCHANGED <<classes, decls>>, NEW o \in Objects,
         NEW new, memory' = [memory EXCEPT ![o] = new]
  PROVE  Shown' = [Shown EXCEPT ![o] = View(new)]
  <1>1. memory \in [Objects -> Object]
    BY DEF IsCompiled, IInv
  <1>2. memory'[o] = new /\ \A p \in Objects : p # o => memory'[p] = memory[p]
    BY <1>1
  <1>3. PICK view : view = [r \in {memory[p] : p \in Objects} \cup {new} |-> View(r)]
    OBVIOUS
  <1>4. Shown = [p \in Objects |-> view[memory[p]]]
    BY <1>3, ShownIsTheView
  <1>5. Shown' = [p \in Objects |-> view[memory'[p]]]
    BY <1>2, <1>3, ShownIsTheView
  <1>6. View(new) = view[new]
    BY <1>3
  <1>7. QED  BY <1>2, <1>4, <1>5, <1>6

LEMMA NothingIsChanged ==
  ASSUME UNCHANGED <<decls, memory>>
  PROVE  Shown' = Shown
  BY ShownIsTheView

LEMMA CreateIsWritten ==
  ASSUME IsCompiled, NEW o \in Objects, NEW k \in DOMAIN classes, Create(o, k)
  PROVE  Pascal!Create(o, k) \/ UNCHANGED Pascal!abstractVars
  <1>1. UNCHANGED <<classes, decls, globals>>
    BY DEF Create, Crash
  <1>2. CASE memory' = memory
    BY <1>1, <1>2, NothingIsChanged DEF Pascal!abstractVars
  <1>3. CASE memory' # memory
    <2>1. PICK new : new = [class |-> k,
                            slots |-> [i \in 0 .. Len(decls[k].structure) - 1 |->
                                         IF i = 0 /\ HasVTable(decls[k]) THEN k ELSE Zero]]
      OBVIOUS
    <2>2. memory' = [memory EXCEPT ![o] = new]
      BY <1>3, <2>1 DEF Create, Crash
    <2>3. PICK values : values = [f \in Pascal!FieldsOf(k) |-> Zero]
      OBVIOUS
    <2>4. k \in 1 .. Len(classes)
      BY ClassesAre
    <2>5. ASSUME NEW x \in Places(k)
          PROVE  values[decls[k].structure[x]] = new.slots[x - 1]
      <3>1. decls[k].structure[x] \in Pascal!FieldsOf(k)
        BY <2>4, PlacesAreFields
      <3>2. values[decls[k].structure[x]] = Zero
        BY <2>3, <3>1
      <3>3. PICK L \in Nat : L = Len(decls[k].structure)
        BY <2>4, ClassesAre, StructuresOf
      <3>4. PICK y : y = x - 1
        OBVIOUS
      <3>5. y \in 0 .. L - 1 /\ (HasVTable(decls[k]) => y # 0)
        <4>1. x \in 1 .. L
          BY <2>4, <3>3, PlaceIs
        <4>2. HasVTable(decls[k]) => x # 1
          BY <2>4, PlacesAreApart
        <4>3. QED  BY <3>4, <4>1, <4>2
      <3>6. new.slots = [i \in 0 .. L - 1 |-> IF i = 0 /\ HasVTable(decls[k]) THEN k ELSE Zero]
        BY <2>1, <3>3
      <3>7. new.slots[y] = Zero
        BY <3>5, <3>6
      <3>8. QED  BY <3>2, <3>4, <3>7
    <2>6. View(new) = [class |-> k, values |-> values]
      <3>1. new.class = k
        BY <2>1
      <3>2. DOMAIN values = Pascal!FieldsOf(k) /\ values = [f \in DOMAIN values |-> values[f]]
        BY <2>3
      <3>3. QED  BY <2>4, <2>5, <3>1, <3>2, ViewIs
    <2>7. Shown' = [Shown EXCEPT ![o] = View(new)]
      BY <1>1, <2>2, OneIsChanged
    <2>8. Shown[o].class = 0
      BY ShownClass DEF Create
    <2>9. Shown' = [Shown EXCEPT ![o] = [class |-> k, values |-> values]]
      BY <2>6, <2>7
    <2>10. QED  BY <1>1, <2>3, <2>8, <2>9 DEF Pascal!Create
  <1>4. QED  BY <1>2, <1>3

LEMMA SeesAsWritten ==
  ASSUME IsCompiled, NEW o \in Objects, NEW s
  PROVE  Pascal!Sees(o, s) <=> Sees(o, s)
  <1>1. Shown[o].class = memory[o].class
    BY ShownClass
  <1>2. QED  BY <1>1, SameOwners DEF Pascal!Sees, Sees

LEMMA PutIsWritten ==
  ASSUME Careful = TRUE, IsCompiled, NEW o \in Objects, NEW s \in DOMAIN classes,
         NEW f \in FieldsSeen(classes, s), NEW inside \in BOOLEAN, NEW v \in Values,
         Put(o, s, f, inside, v)
  PROVE  Pascal!Put(o, s, f, v)
  <1>1. PICK k, at, slot : /\ k = memory[o].class /\ at = Pascal!Field(o, s, f)
                           /\ slot = Slot(s, f, inside)
    OBVIOUS
  <1>2. Accessible(o, s, f, inside) /\ UNCHANGED <<classes, decls>>
    BY DEF Put
  <1>3. k \in 1 .. Len(classes)
        /\ \/ IsGlobal(s, f, inside) /\ Global(s, f) = at /\ at \in DOMAIN globals
           \/ /\ ~IsGlobal(s, f, inside) /\ at \notin DOMAIN globals
              /\ InBounds(o, s, slot) /\ slot \in Nat
              /\ slot + 1 \in Places(k) /\ decls[k].structure[slot + 1] = at
    BY <1>1, <1>2, AccessIs
  <1>4. Pascal!Sees(o, s)
    BY <1>2, SeesAsWritten DEF Accessible
  <1>5. Pascal!Put(o, s, f, v) <=>
          /\ IF at \in DOMAIN globals
             THEN globals' = [globals EXCEPT ![at] = v] /\ Shown' = Shown
             ELSE Shown' = [Shown EXCEPT ![o].values[at] = v] /\ globals' = globals
          /\ classes' = classes
    BY <1>1, <1>4 DEF Pascal!Put
  <1>6. CASE IsGlobal(s, f, inside)
    <2>1. globals' = [globals EXCEPT ![at] = v] /\ memory' = memory
      BY <1>3, <1>6 DEF Put
    <2>2. Shown' = Shown
      BY <1>2, <2>1, NothingIsChanged
    <2>3. QED  BY <1>2, <1>3, <1>5, <1>6, <2>1, <2>2
  <1>7. CASE ~IsGlobal(s, f, inside)
    <2>1. memory' = [memory EXCEPT ![o].slots[slot] = v] /\ globals' = globals
      BY <1>1, <1>3, <1>7 DEF Put
    <2>2. memory \in [Objects -> Object]
      BY DEF IsCompiled, IInv
    <2>3. PICK slots : slots = [memory[o].slots EXCEPT ![slot] = v]
      OBVIOUS
    <2>4. PICK new : new = [memory[o] EXCEPT !.slots = slots]
      OBVIOUS
    <2>5. new.class = k /\ new.slots = slots
      BY <1>1, <2>2, <2>4 DEF Object
    <2>6. memory' = [memory EXCEPT ![o] = new]
      BY <2>1, <2>3, <2>4
    <2>7. k # 0
      BY <1>3
    <2>8. PICK old : IsShown(o, k, old)
      BY <1>1, <2>7, ShownIs
    <2>9. PICK values : values = [old EXCEPT ![at] = v]
      OBVIOUS
    <2>10. /\ DOMAIN values = DOMAIN old
           /\ values = [g \in DOMAIN values |-> values[g]]
           /\ \A g \in DOMAIN old : values[g] = IF g = at THEN v ELSE old[g]
      BY <2>9
    <2>11. /\ slot \in DOMAIN memory[o].slots
           /\ \A i \in DOMAIN memory[o].slots : slots[i] = IF i = slot THEN v ELSE memory[o].slots[i]
      BY <1>3, <1>7, <2>3 DEF InBounds
    <2>12. ASSUME NEW x \in Places(k)
           PROVE  values[decls[k].structure[x]] = slots[x - 1]
      <3>1. PICK g : g = decls[k].structure[x]
        OBVIOUS
      <3>2. g \in DOMAIN old /\ old[g] = memory[o].slots[x - 1]
        BY <2>8, <3>1 DEF IsShown
      <3>3. PICK y \in Nat : y = x - 1 /\ x = y + 1 /\ y \in DOMAIN memory[o].slots
        <4>1. PICK L \in Nat : L = Len(decls[k].structure)
          BY <1>3, ClassesAre, StructuresOf
        <4>2. x \in 1 .. L
          BY <1>3, <4>1, PlaceIs
        <4>3. DOMAIN memory[o].slots = 0 .. L - 1
          BY <1>1, <2>7, <4>1 DEF IsCompiled
        <4>4. QED  BY <4>2, <4>3
      <3>4. CASE y = slot
        <4>1. g = at
          BY <1>3, <1>7, <3>1, <3>3, <3>4
        <4>2. QED  BY <2>10, <2>11, <3>1, <3>2, <3>3, <3>4, <4>1
      <3>5. CASE y # slot
        <4>1. x # slot + 1
          BY <1>3, <1>7, <3>3, <3>5
        <4>2. PICK z \in Places(k) : z = slot + 1 /\ decls[k].structure[z] = at
          BY <1>3, <1>7
        <4>3. g # at
          BY <1>3, <3>1, <4>1, <4>2, PlacesAreApart
        <4>4. QED  BY <2>10, <2>11, <3>1, <3>2, <3>3, <3>5, <4>3
      <3>6. QED  BY <3>4, <3>5
    <2>13. Shown[o] = [class |-> k, values |-> old] /\ DOMAIN old = Pascal!FieldsOf(k)
      BY <2>8 DEF IsShown
    <2>14. View(new) = [class |-> k, values |-> values]
      BY <1>3, <2>5, <2>10, <2>12, <2>13, ViewIs
    <2>15. Shown' = [Shown EXCEPT ![o] = [class |-> k, values |-> values]]
      BY <1>2, <2>6, <2>14, OneIsChanged
    <2>16. [Shown EXCEPT ![o].values[at] = v] = [Shown EXCEPT ![o] = [class |-> k, values |-> values]]
      <3>1. PICK w : w = [Shown[o] EXCEPT !.values = values]
        OBVIOUS
      <3>2. w = [class |-> k, values |-> values]
        BY <2>13, <3>1
      <3>3. Shown[o].values = old
        BY <2>13
      <3>4. [Shown EXCEPT ![o].values[at] = v] = [Shown EXCEPT ![o] = w]
        BY <2>9, <3>1, <3>3
      <3>5. QED  BY <3>2, <3>4
    <2>17. QED  BY <1>2, <1>3, <1>5, <1>7, <2>1, <2>15, <2>16
  <1>8. QED  BY <1>6, <1>7

LEMMA AssignIsWritten ==
  ASSUME Careful = TRUE, IsCompiled, NEW a \in Objects, NEW b \in Objects, Assign(a, b)
  PROVE  Pascal!Assign(a, b)
  <1>1. PICK k, slots : k = memory[a].class /\ slots = memory[b].slots
    OBVIOUS
  <1>2. /\ k # 0 /\ memory[b].class = k /\ Sees(b, k)
        /\ memory' = [memory EXCEPT ![a].slots = slots]
        /\ UNCHANGED <<classes, decls, globals>>
    BY <1>1 DEF Assign, Copied
  <1>3. memory \in [Objects -> Object]
    BY DEF IsCompiled, IInv
  <1>4. PICK new : new = [memory[a] EXCEPT !.slots = slots]
    OBVIOUS
  <1>5. new.class = k /\ new.slots = slots
    BY <1>1, <1>3, <1>4 DEF Object
  <1>6. memory' = [memory EXCEPT ![a] = new]
    BY <1>2, <1>4
  <1>7. PICK old : IsShown(a, k, old)
    BY <1>1, <1>2, ShownIs
  <1>8. PICK values : IsShown(b, k, values)
    BY <1>2, ShownIs
  <1>9. /\ Shown[a] = [class |-> k, values |-> old] /\ DOMAIN old = DOMAIN values
        /\ Shown[b] = [class |-> k, values |-> values]
        /\ DOMAIN values = Pascal!FieldsOf(k)
        /\ values = [f \in DOMAIN values |-> values[f]]
        /\ \A x \in Places(k) : values[decls[k].structure[x]] = slots[x - 1]
        /\ k \in 1 .. Len(classes)
    BY <1>1, <1>7, <1>8 DEF IsShown
  <1>10. View(new) = [class |-> k, values |-> values]
    BY <1>5, <1>9, ViewIs
  <1>11. Shown' = [Shown EXCEPT ![a] = [class |-> k, values |-> values]]
    BY <1>2, <1>6, <1>10, OneIsChanged
  <1>12. /\ Shown[a].class = k /\ Shown[a].values = old
         /\ Shown[b].class = k /\ Shown[b].values = values
    BY <1>9
  <1>13. values = [f \in DOMAIN old |-> Shown[b].values[f]]
    BY <1>9, <1>12
  <1>14. [Shown EXCEPT ![a].values = [f \in DOMAIN @ |-> Shown[b].values[f]]] =
           [Shown EXCEPT ![a] = [class |-> k, values |-> values]]
    BY <1>9, <1>12, <1>13
  <1>15. Pascal!Sees(b, Shown[a].class)
    BY <1>2, <1>12, SeesAsWritten
  <1>16. QED  BY <1>2, <1>11, <1>12, <1>14, <1>15 DEF Pascal!Assign

LEMMA AbsentIsShown ==
  ASSUME memory = [o \in Objects |-> Absent]
  PROVE  Shown = [o \in Objects |-> Pascal!Absent]
  BY DEF Shown, Absent, Pascal!Absent

LEMMA DeclareIsWritten ==
  ASSUME NEW base \in 0 .. Len(classes), NEW d \in Declarations, Declare(base, d)
  PROVE  Pascal!Declare(base, d)
  <1>1. memory = [o \in Objects |-> Absent] /\ memory' = memory
    BY DEF Declare
  <1>2. Shown = [o \in Objects |-> Pascal!Absent]
    BY <1>1, AbsentIsShown
  <1>3. Shown' = [o \in Objects |-> Pascal!Absent]
    BY <1>1 DEF Shown, Absent, Pascal!Absent
  <1>4. globals' = Pascal!Over([f \in {<<Len(classes'), e.name>> :
                                       e \in {g \in Pascal!ToSet(d.fields) : g.static}} |-> Zero],
                               globals)
    BY SameHierarchy, Zenon DEF Declare
  <1>5. QED  BY <1>2, <1>3, <1>4 DEF Declare, Pascal!Declare

LEMMA FieldsSeenAre ==
  \A cs, k : Pascal!FieldsSeen(cs, k) = FieldsSeen(cs, k)
  BY SameHierarchy DEF Pascal!FieldsSeen, FieldsSeen

(* Slots, offsets, vtables and the memory of the statics show nowhere: what *)
(* the declarations, the creation, the accesses and the assignments of a    *)
(* careful program do is what its text says, whatever classes it declares.  *)
THEOREM ObjectsArePascalObjects ==
  ASSUME Careful = TRUE
  PROVE  Spec => ImplementsPascalObjects
  <1>1. Init => IsCompiled /\ Pascal!Init
    BY CompiledAtFirst, AbsentIsShown DEF Init, Pascal!Init
  <1>2. ASSUME IsCompiled, [Next]_vars
        PROVE  IsCompiled' /\ [Pascal!Next]_(Pascal!abstractVars)
    <2>1. IsCompiled'
      BY <1>2, StepIsCompiled
    <2>2. CASE UNCHANGED vars
      <3>1. UNCHANGED <<classes, globals>> /\ Shown' = Shown
        BY <2>2, NothingIsChanged DEF vars
      <3>2. QED  BY <2>1, <3>1 DEF Pascal!abstractVars
    <2>3. ASSUME NEW base \in 0 .. Len(classes), NEW d \in Declarations, Declare(base, d)
          PROVE  Pascal!Next
      BY <2>3, DeclareIsWritten DEF Pascal!Next
    <2>4. ASSUME NEW o \in Objects, NEW k \in DOMAIN classes, Create(o, k)
          PROVE  Pascal!Next \/ UNCHANGED Pascal!abstractVars
      BY <1>2, <2>4, CreateIsWritten DEF Pascal!Next
    <2>5. ASSUME NEW o \in Objects, NEW s \in DOMAIN classes, NEW f \in FieldsSeen(classes, s),
                 NEW inside \in BOOLEAN, NEW v \in Values, Put(o, s, f, inside, v)
          PROVE  Pascal!Next
      <3>1. Pascal!Put(o, s, f, v)
        BY <1>2, <2>5, PutIsWritten
      <3>2. f \in Pascal!FieldsSeen(classes, s)
        BY FieldsSeenAre
      <3>3. QED  BY <3>1, <3>2 DEF Pascal!Next
    <2>6. ASSUME NEW a \in Objects, NEW b \in Objects, Assign(a, b)
          PROVE  Pascal!Next
      BY <1>2, <2>6, AssignIsWritten DEF Pascal!Next
    <2>7. QED  BY <1>2, <2>1, <2>2, <2>3, <2>4, <2>5, <2>6 DEF Next
  <1>3. QED  BY <1>1, <1>2, PTL DEF Spec, ImplementsPascalObjects, Pascal!Spec

=============================================================================
