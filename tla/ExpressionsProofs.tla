------------------------- MODULE ExpressionsProofs -------------------------
(***************************************************************************)
(* That the code for an expression has the type that its type stands for,  *)
(* that no expression the semantics lets pass stops the compiler, and that *)
(* a call in the text is made once, for every type a program can have and  *)
(* expressions of any length: what Careful leaves out is all that can go   *)
(* wrong in these ways.                                                    *)
(***************************************************************************)
EXTENDS Expressions, TLAPS

AllOps == Compares \cup ShortCircuits
            \cup {"+", "-", "*", "/", "**", "pow", "div", "mod", "and", "or", "xor", "shl", "shr"}

-----------------------------------------------------------------------------
(* Types.                                                                  *)

LEMMA WidthIs ==
  /\ DOMAIN Width = {"i1", "i8", "i32", "i64"}
  /\ Width["i1"] = 1 /\ Width["i8"] = 2 /\ Width["i32"] = 3 /\ Width["i64"] = 4
  BY DEF Width

(* What Type() of a type can be, and what LLVM makes of it.                *)
LEMMA TypesAre ==
  ASSUME NEW ty, IsType(ty)
  PROVE  /\ ty.kind \in {"Char", "Boolean", "Integer", "LongInt", "Real", "Complex", "Enum",
                         "Range", "String", "Array", "Pointer", "Record"}
         /\ Type(ty) \in {"Char", "Boolean", "Integer", "LongInt", "Real", "Complex", "Enum",
                          "String", "Array", "Pointer", "Record"}
         /\ ty.kind # "Range" => Type(ty) = ty.kind
         /\ ty.kind = "Range" => IsIntegral(ty)
         /\ ty.kind = "String" => ty.of = "Char"
         /\ ty # NoType /\ ty # Simple("undecided")
  <1>1. PICK kind, of : kind = ty.kind /\ of = ty.of
    OBVIOUS
  <1>2. ty = [kind |-> kind, of |-> of, name |-> ty.name, start |-> ty.start, end |-> ty.end]
    BY <1>1 DEF IsType, Decl
  <1>3. \/ kind = of /\ kind \in {"Char", "Boolean", "Integer", "LongInt", "Real", "Complex"}
        \/ kind = "Enum" /\ of = "Integer"
        \/ kind = "Range" /\ of \in {"Char", "Boolean", "Integer", "LongInt", "Enum"}
        \/ kind = "String" /\ of = "Char"
        \/ kind \in {"Array", "Pointer", "Record"}
    <2>1. \A k : Simple(k).kind = k /\ Simple(k).of = k
      BY DEF Simple, Decl
    <2>2. CASE ty \in {CharDecl, BoolDecl, IntegerDecl, Int64Decl, RealDecl, ComplexDecl}
      BY <1>1, <2>1, <2>2 DEF CharDecl, BoolDecl, IntegerDecl, Int64Decl, RealDecl, ComplexDecl
    <2>3. QED  BY <1>1, <2>2 DEF IsType
  <1>4. Type(ty) = IF kind = "Range" THEN of ELSE kind
    BY <1>1 DEF Type
  <1>5. ty # NoType /\ ty # Simple("undecided")
    <2>1. NoType.kind = "none" /\ Simple("undecided").kind = "undecided"
      BY DEF NoType, Simple, Decl
    <2>2. QED  BY <1>1, <1>3, <2>1
  <1>6. kind = "Range" => IsIntegral(ty)
    BY <1>3, <1>4 DEF IsIntegral
  <1>7. QED  BY <1>1, <1>3, <1>4, <1>5, <1>6

LEMMA LlvmTypes ==
  ASSUME NEW ty, IsType(ty)
  PROVE  /\ Type(ty) = "Char" => LlvmType(ty) = "i8"
         /\ Type(ty) = "Boolean" => LlvmType(ty) = "i1"
         /\ Type(ty) \in {"Integer", "Enum"} => LlvmType(ty) = "i32"
         /\ Type(ty) = "LongInt" => LlvmType(ty) = "i64"
         /\ Type(ty) = "Real" => LlvmType(ty) = "double"
         /\ Type(ty) = "Complex" => LlvmType(ty) = "complex"
         /\ Type(ty) = "Pointer" => LlvmType(ty) = "ptr"
         /\ Type(ty) = "String" => LlvmType(ty) = "string"
         /\ Type(ty) \in {"Array", "Record"} => LlvmType(ty) = "aggregate"
         /\ LlvmType(ty) # "ice"
         /\ LlvmType(ty) \in DOMAIN Width <=> IsIntegral(ty)
  BY TypesAre, WidthIs DEF LlvmType, IsIntegral

LEMMA SameTypes ==
  ASSUME NEW a, IsType(a), NEW b, IsType(b), SameAs(a, b)
  PROVE  Type(a) = Type(b) /\ LlvmType(a) = LlvmType(b)
  <1>1. Type(a) = Type(b)
    BY TypesAre DEF SameAs, Type, IsArray, IsA
  <1>2. QED  BY <1>1 DEF LlvmType

LEMMA TypeNames ==
  /\ IsType(BoolDecl) /\ IsType(RealDecl) /\ IsType(ComplexDecl) /\ IsType(IntegerDecl)
  /\ IsType(Int64Decl) /\ IsType(CharDecl) /\ IsType(NilDecl)
  /\ \A n : IsType(StringDecl(n)) /\ StringDecl(n).kind = "String" /\ StringDecl(n).of = "Char"
  /\ Type(BoolDecl) = "Boolean" /\ BoolDecl.kind = "Boolean"
  /\ Type(RealDecl) = "Real" /\ RealDecl.kind = "Real"
  /\ Type(ComplexDecl) = "Complex" /\ ComplexDecl.kind = "Complex"
  /\ Type(IntegerDecl) = "Integer" /\ Type(Int64Decl) = "LongInt" /\ CharDecl.kind = "Char"
  /\ NilDecl.kind = "Pointer"
  BY DEF IsType, Type, Decl, CharDecl, BoolDecl, IntegerDecl, Int64Decl, RealDecl, ComplexDecl,
         Simple, StringDecl, NilDecl, PointerDecl

(* What TypeCastAST::CodeGen can make of a value of the type from.         *)
Castable(from, ty) ==
  \/ SameAs(ty, from)
  \/ Type(ty) = "Complex" /\ (IsIntegral(from) \/ Type(from) = "Real")
  \/ Type(ty) = "Real" /\ IsIntegral(from)
  \/ /\ IsIntegral(ty) /\ IsIntegral(from)
     /\ Type(from) = Type(ty) \/ (Type(from) = "Integer" /\ Type(ty) = "LongInt")
  \/ Type(ty) = "Pointer" /\ Type(from) = "Pointer"
  \/ Type(ty) = "String" /\ (from.kind = "Char" \/ IsCharArray(from))

-----------------------------------------------------------------------------
(* Nodes.                                                                  *)

(* A node whose code has its type.                                         *)
Fine(n) ==
  /\ IsType(n.type) /\ n.llvm = LlvmType(n.type)
  /\ n.shape = "integer" => n.type.kind \in {"Integer", "LongInt", "Boolean", "Enum"}
  /\ n.shape = "char" => n.type.kind = "Char"
  /\ n.shape = "string" => n.type.kind = "Array" /\ n.type.of = "Char"
  /\ n.shape = "nil" => n.type.kind = "Pointer"
  /\ n.shape # "none"

(* And whose calls are made once.                                          *)
Good(n) ==
  /\ n = [shape |-> n.shape, type |-> n.type, early |-> n.early, llvm |-> n.llvm,
          value |-> n.value, means |-> n.means, calls |-> n.calls, made |-> n.made,
          splits |-> n.splits]
  /\ Fine(n) /\ n.calls \in Nat /\ n.made = n.calls

LEMMA CastHasItsType ==
  ASSUME NEW n, Good(n), NEW ty, IsType(ty), Castable(n.type, ty), ~SameAs(ty, n.type)
  PROVE  CastCodeGen(n, ty).llvm = LlvmType(ty)
  <1>1. PICK from : from = n.type
    OBVIOUS
  <1>2. n.llvm = LlvmType(from) /\ IsType(from) /\ Castable(from, ty) /\ ~SameAs(ty, from)
    BY <1>1 DEF Good, Fine
  <1>3. /\ LlvmType(from) \in DOMAIN Width <=> IsIntegral(from)
        /\ Type(from) = "Real" => LlvmType(from) = "double"
    BY <1>2, LlvmTypes
  <1>4. CASE Type(ty) = "Complex"
    <2>1. IsIntegral(n.type) \/ n.llvm = "double"
      BY <1>1, <1>2, <1>4, <1>3 DEF Castable, IsIntegral
    <2>2. QED  BY <1>4, <2>1, LlvmTypes DEF CastCodeGen, IsIntegral
  <1>5. CASE Type(ty) = "Real"
    <2>1. IsIntegral(from)
      BY <1>2, <1>5 DEF Castable, IsIntegral
    <2>2. n.llvm \in DOMAIN Width
      BY <1>2, <2>1, <1>3
    <2>3. ~IsIntegral(ty)
      BY <1>5 DEF IsIntegral
    <2>4. PICK x : x = Whole(Signed(n.llvm, n.value))
      OBVIOUS
    <2>5. CastCodeGen(n, ty) = Double(x)
      BY <1>5, <2>2, <2>3, <2>4 DEF CastCodeGen
    <2>6. QED  BY <1>5, <2>5, LlvmTypes DEF Double
  <1>6. CASE IsIntegral(ty)
    <2>1. IsIntegral(n.type) /\ ~(Width[LlvmType(ty)] < Width[n.llvm])
      BY <1>1, <1>2, <1>6, LlvmTypes, WidthIs DEF Castable, IsIntegral
    <2>2. Type(ty) \notin {"Complex", "Real", "Pointer", "String"}
      BY <1>6 DEF IsIntegral
    <2>3. CastCodeGen(n, ty) = Wrapped(LlvmType(ty), IF IsUnsigned(ty) THEN n.value
                                                     ELSE Signed(n.llvm, n.value))
      <3>1. PICK x : x = Wrapped(LlvmType(ty), IF IsUnsigned(ty) THEN n.value
                                               ELSE Signed(n.llvm, n.value))
        OBVIOUS
      <3>2. CastCodeGen(n, ty) = x
        BY <1>6, <2>1, <2>2, <3>1 DEF CastCodeGen
      <3>3. QED  BY <3>1, <3>2
    <2>4. QED  BY <2>3 DEF Wrapped
  <1>7. CASE Type(ty) = "Pointer"
    <2>1. n.llvm = "ptr"
      BY <1>2, <1>7, LlvmTypes DEF Castable, IsIntegral
    <2>2. QED  BY <1>7, <2>1, LlvmTypes DEF CastCodeGen, IsIntegral
  <1>8. CASE Type(ty) = "String"
    <2>1. n.type.kind = "Char" \/ IsCharArray(n.type)
      BY <1>1, <1>2, <1>8 DEF Castable, IsIntegral
    <2>2. MakeString(n).llvm = "string"
      <3>1. CASE n.type.kind = "Char"
        BY <3>1 DEF MakeString, IsA
      <3>2. CASE n.type.kind # "Char"
        BY <2>1, <3>2 DEF MakeString, IsA
      <3>3. QED  BY <3>1, <3>2
    <2>3. QED  BY <1>8, <2>2, LlvmTypes DEF CastCodeGen, IsIntegral
  <1>9. QED  BY <1>4, <1>5, <1>6, <1>7, <1>8 DEF Castable

(* A node after a cast.                                                    *)
LEMMA RecastIs ==
  ASSUME NEW n, Good(n), NEW ty, IsType(ty), Castable(n.type, ty), ~CallGap(ty, n),
         NEW m, m = Recast(n, ty)
  PROVE  /\ Good(m) /\ m.calls = n.calls /\ m.llvm = LlvmType(ty) /\ Type(m.type) = Type(ty)
         /\ m.type = ty \/ (m = n /\ SameAs(ty, n.type))
  <1>1. CASE SameAs(ty, n.type)
    <2>1. m = n
      BY <1>1 DEF Recast
    <2>2. QED  BY <1>1, <2>1, SameTypes DEF Good, Fine
  <1>2. CASE ~SameAs(ty, n.type)
    <2>1. PICK g : g = CastCodeGen(n, ty) /\ g.llvm = LlvmType(ty)
      BY <1>2, CastHasItsType
    <2>2. PICK made : made = IF RunsTwice(n, ty) THEN 2 * n.made ELSE n.made
      OBVIOUS
    <2>3. made = n.calls
      BY <2>2 DEF RunsTwice, CallGap, Good
    <2>4. m = [n EXCEPT !.shape = "cast", !.type = ty, !.llvm = g.llvm, !.value = g.value,
                        !.made = made]
      BY <1>2, <2>1, <2>2 DEF Recast
    <2>5. m = [shape |-> "cast", type |-> ty, early |-> n.early, llvm |-> g.llvm,
               value |-> g.value, means |-> n.means, calls |-> n.calls, made |-> made,
               splits |-> n.splits]
      BY <2>4 DEF Good
    <2>6. QED  BY <2>1, <2>3, <2>5 DEF Good, Fine
  <1>3. QED  BY <1>1, <1>2

(* What CompatibleType finds, but for strings.                             *)
LEMMA CommonIs ==
  ASSUME NEW a, IsType(a), NEW b, IsType(b), a.kind # "String", b.kind # "String",
         NEW c, c = CompatibleType(a, b), c # NoType
  PROVE  /\ c = a \/ c = b
         /\ \/ /\ IsIntegral(a) /\ IsIntegral(b) /\ IsIntegral(c)
               /\ Castable(a, c) /\ Castable(b, c)
            \/ /\ Type(c) = "Real" /\ (IsIntegral(a) \/ Type(a) = "Real")
               /\ IsIntegral(b) \/ Type(b) = "Real"
            \/ /\ Type(c) = "Complex" /\ (IsIntegral(a) \/ Type(a) \in {"Real", "Complex"})
               /\ IsIntegral(b) \/ Type(b) \in {"Real", "Complex"}
            \/ a.kind = "Pointer" /\ b.kind = "Pointer"
            \/ a.kind = "Array" /\ b.kind = "Array" /\ a.of = b.of
            \/ a.kind = "Record" /\ b.kind = "Record"
  <1>1. CASE a.kind = "Char"
    BY <1>1, TypesAre DEF CompatibleType, CharCompatible, SameAs, Type, IsArray, IsA, IsIntegral, Castable
  <1>2. CASE a.kind = "Integer"
    BY <1>2, TypesAre DEF CompatibleType, IntegerCompatible, Type, IsIntegral, Castable
  <1>3. CASE a.kind = "LongInt"
    BY <1>3, TypesAre DEF CompatibleType, Int64Compatible, Type, IsIntegral, Castable
  <1>4. CASE a.kind = "Real"
    BY <1>4, TypesAre DEF CompatibleType, RealCompatible, SameAs, Type, IsArray, IsA, IsIntegral
  <1>5. CASE a.kind = "Complex"
    BY <1>5, TypesAre DEF CompatibleType, ComplexCompatible, SameAs, Type, IsArray, IsA,
                          IsIntegral, IsNumeric
  <1>6. CASE a.kind = "Range"
    BY <1>6, TypesAre DEF CompatibleType, RangeCompatible, SameAs, Type, IsIntegral, Castable
  <1>7. CASE a.kind = "Array"
    <2>1. c = ArrayCompatible(a, b)
      BY <1>7 DEF CompatibleType
    <2>2. c = a /\ (SameAs(a, b) \/ (IsArray(b) /\ a.of = b.of))
      BY <2>1 DEF ArrayCompatible
    <2>3. SameAs(a, b) => b.kind = "Array" /\ a.of = b.of
      BY <1>7 DEF SameAs, IsArray, IsA
    <2>4. IsArray(b) => b.kind = "Array"
      BY DEF IsArray, IsA
    <2>5. QED  BY <1>7, <2>2, <2>3, <2>4
  <1>8. CASE a.kind = "Pointer"
    BY <1>8, TypesAre DEF CompatibleType, PointerCompatible, SameAs, IsArray, IsA
  <1>9. CASE a.kind \in {"Boolean", "Enum", "Record"}
    BY <1>9, TypesAre DEF CompatibleType, SameAs, Type, IsArray, IsA, IsIntegral, Castable
  <1>10. QED  BY <1>1, <1>2, <1>3, <1>4, <1>5, <1>6, <1>7, <1>8, <1>9, TypesAre

-----------------------------------------------------------------------------
(* Operands that the semantics has prepared, by what the code does.        *)

(* Both made strings, to be compared.                                      *)
Texts(op, t) == op \in Compares /\ t.l.type.kind = "String" /\ t.r.type.kind = "String"

Decisions(op, t) ==
  op \in ShortCircuits /\ t.l.type = BoolDecl /\ t.r.type = BoolDecl /\ t.ty = BoolDecl /\ ~t.r.splits

Joined(op, t) ==
  /\ op = "+" /\ t.ty = StringDecl(MaxStringLen)
  /\ t.l.type.kind \in {"Char", "Array", "String"} /\ t.r.type.kind \in {"Char", "Array", "String"}
  /\ {t.l.type.kind, t.r.type.kind} # {"Char", "Array"}

Complexes(op, t) ==
  /\ t.l.type.kind = "Complex" /\ t.r.llvm = ComplexRight(op)
  /\ op \in {"=", "<>"} \/ (op \in {"+", "-", "*", "/", "pow", "**"} /\ Type(t.ty) = "Complex")

Reals(op, t) ==
  /\ Type(t.l.type) = "Real" /\ Type(t.r.type) = "Real"
  /\ op \in Compares \/ (op \in {"+", "-", "*", "/", "pow", "**"} /\ Type(t.ty) = "Real")

Pointers(op, t) == op \in {"=", "<>"} /\ t.l.type.kind = "Pointer" /\ t.r.type.kind = "Pointer"

Ordinals(op, t) ==
  /\ IsIntegral(t.l.type) /\ Type(t.l.type) = Type(t.r.type)
  /\ \/ op \in Compares
     \/ /\ op \in {"+", "-", "*", "div", "mod", "and", "or", "xor", "shl", "shr", "pow"}
        /\ t.l.type.kind # "Char" /\ Type(t.ty) = Type(t.l.type)
        /\ op = "pow" => Type(t.ty) = "Integer"

CharArrays(op, t) ==
  /\ op \in Compares /\ IsCharArray(t.l.type) /\ IsCharArray(t.r.type)
  /\ Size(t.l.type) = Size(t.r.type)

Prepared(op, t) ==
  \/ Texts(op, t) \/ Decisions(op, t) \/ Joined(op, t) \/ Complexes(op, t) \/ Reals(op, t)
  \/ Pointers(op, t) \/ Ordinals(op, t) \/ CharArrays(op, t)

(* What the semantics makes of two operands: their code has its types, and *)
(* makes the calls that the operands made.                                 *)
Ready(op, l, r, t) ==
  /\ Good(t.l) /\ Good(t.r) /\ t.l.calls = l.calls /\ t.r.calls = r.calls
  /\ IsType(t.ty) /\ Prepared(op, t)

LEMMA TypedIs ==
  ASSUME NEW ty, NEW l, NEW r, NEW t, t = Typed(ty, l, r)
  PROVE  t.ty = ty /\ t.l = l /\ t.r = r
  BY DEF Typed

LEMMA KindIsType ==
  ASSUME NEW ty, IsType(ty), ~IsIntegral(ty)
  PROVE  ty.kind = Type(ty)
  BY TypesAre

LEMMA SameAsItself ==
  ASSUME NEW ty, IsType(ty)
  PROVE  SameAs(ty, ty)
  BY DEF SameAs, Type

LEMMA NoGap ==
  ASSUME NEW op, NEW l, NEW r, ~Gap(op, l, r)
  PROVE  /\ ~CallGap(l.type, r) /\ ~CallGap(r.type, l)
         /\ ~LiteralGap(op, l.type, r) /\ ~LiteralGap(op, r.type, l)
         /\ op \in Compares => ~ComparisonGap(op, l, r)
         /\ op = "+" => ~ConcatenationGap(l, r)
         /\ op \in {"shl", "shr"} => ~ShiftGap(l, r)
         /\ op = "pow" => ~PowGap(l, r)
         /\ op \in ShortCircuits => ~r.splits
  BY DEF Gap

LEMMA TextsAreCompared ==
  ASSUME NEW op \in Compares, NEW l, Good(l), NEW r, Good(r), ~Gap(op, l, r),
         "String" \in {l.type.kind, r.type.kind}, NEW s, s = StringDecl(MaxStringLen),
         NEW t, t = Typed(BoolDecl, Recast(l, s), Recast(r, s))
  PROVE  Ready(op, l, r, t)
  <1>1. ~OddText(l) /\ ~OddText(r)
    BY NoGap DEF ComparisonGap, Kinds
  <1>2. IsType(s) /\ s.kind = "String" /\ Type(s) = "String"
    BY TypeNames DEF Type
  <1>3. /\ Castable(l.type, s) /\ Castable(r.type, s)
        /\ ~CallGap(s, l) /\ ~CallGap(s, r)
    BY <1>1, <1>2 DEF OddText, Castable, CallGap
  <1>4. PICK m, n : m = Recast(l, s) /\ n = Recast(r, s)
    OBVIOUS
  <1>5. Good(m) /\ m.calls = l.calls /\ Type(m.type) = "String"
    BY <1>2, <1>3, <1>4, RecastIs
  <1>6. Good(n) /\ n.calls = r.calls /\ Type(n.type) = "String"
    BY <1>2, <1>3, <1>4, RecastIs
  <1>7. m.type.kind = "String" /\ n.type.kind = "String"
    BY <1>5, <1>6, TypesAre, KindIsType DEF Good, Fine, IsIntegral
  <1>8. t.ty = BoolDecl /\ t.l = m /\ t.r = n
    BY <1>4, TypedIs
  <1>9. QED  BY <1>5, <1>6, <1>7, <1>8, TypeNames DEF Ready, Prepared, Texts

LEMMA TextsAreJoined ==
  ASSUME NEW l, Good(l), NEW r, Good(r), ~Gap("+", l, r),
         IsStringLike(l.type), IsStringLike(r.type),
         NEW t, t = Typed(StringDecl(MaxStringLen), l, r)
  PROVE  Ready("+", l, r, t)
  <1>1. ~ConcatenationGap(l, r)
    BY NoGap
  <1>2. l.type.kind # "Range" /\ r.type.kind # "Range"
    BY <1>1 DEF ConcatenationGap, Kinds
  <1>3. {l.type.kind, r.type.kind} # {"Char", "Array"}
    BY <1>1 DEF ConcatenationGap, Kinds
  <1>4. \A ty : IsStringLike(ty) /\ ty.kind # "Range" => ty.kind \in {"Char", "Array", "String"}
    BY DEF IsStringLike, Type, IsCharArray, IsArray, IsA
  <1>5. l.type.kind \in {"Char", "Array", "String"} /\ r.type.kind \in {"Char", "Array", "String"}
    BY <1>2, <1>4
  <1>6. t.ty = StringDecl(MaxStringLen) /\ t.l = l /\ t.r = r
    BY TypedIs
  <1>7. Joined("+", t)
    BY <1>3, <1>5, <1>6 DEF Joined
  <1>8. IsType(t.ty)
    BY <1>6, TypeNames
  <1>9. QED  BY <1>6, <1>7, <1>8 DEF Ready, Prepared

(* A number can be made a real or a complex one.                           *)
LEMMA NumbersAre ==
  ASSUME NEW ty, IsType(ty), IsNumeric(ty)
  PROVE  /\ Castable(ty, ComplexDecl)
         /\ ty.kind # "Complex" => Castable(ty, RealDecl)
         /\ ty.kind = "Complex" <=> Type(ty) = "Complex"
  <1>1. Type(ty) \in {"Integer", "LongInt", "Real", "Complex"}
    BY DEF IsNumeric
  <1>2. Type(ty) \in {"Real", "Complex"} => ty.kind = Type(ty)
    BY KindIsType DEF IsIntegral
  <1>3. ty.kind = "Complex" => Type(ty) = "Complex"
    BY DEF Type
  <1>4. Type(ty) = "Complex" => SameAs(ComplexDecl, ty)
    BY TypeNames DEF SameAs, IsArray, IsA
  <1>5. Type(ty) = "Real" => SameAs(RealDecl, ty)
    BY TypeNames DEF SameAs, IsArray, IsA
  <1>6. IsIntegral(ty) \/ Type(ty) \in {"Real", "Complex"}
    BY <1>1 DEF IsIntegral
  <1>7. Castable(ty, ComplexDecl)
    BY <1>4, <1>6, TypeNames DEF Castable
  <1>8. ty.kind # "Complex" => Castable(ty, RealDecl)
    BY <1>2, <1>5, <1>6, TypeNames DEF Castable
  <1>9. QED  BY <1>2, <1>3, <1>7, <1>8

LEMMA ComplexPowers ==
  ASSUME NEW l, Good(l), NEW r, Good(r), l.type.kind = "Complex", IsIntegral(r.type),
         NEW t, t = Typed(l.type, l, Recast(r, RealDecl))
  PROVE  Ready("pow", l, r, t)
  <1>1. IsType(RealDecl) /\ Type(RealDecl) = "Real" /\ Castable(r.type, RealDecl)
    BY TypeNames DEF Castable
  <1>2. ~CallGap(RealDecl, r)
    BY <1>1 DEF CallGap
  <1>3. PICK n : n = Recast(r, RealDecl)
    OBVIOUS
  <1>4. Good(n) /\ n.calls = r.calls
    BY <1>1, <1>2, <1>3, RecastIs
  <1>5. t.ty = l.type /\ t.l = l /\ t.r = n
    BY <1>3, TypedIs
  <1>6. Complexes("pow", t)
    <2>1. n.llvm = LlvmType(RealDecl)
      BY <1>1, <1>2, <1>3, RecastIs
    <2>2. n.llvm = "double"
      BY <1>1, <2>1, LlvmTypes
    <2>3. QED  BY <1>5, <2>2 DEF Complexes, ComplexRight, Type
  <1>7. QED  BY <1>4, <1>5, <1>6 DEF Ready, Prepared, Good, Fine

(* Quotients and powers of real or complex numbers.                        *)
LEMMA FractionsAreMade ==
  ASSUME NEW op \in {"/", "**"}, NEW l, Good(l), NEW r, Good(r), ~Gap(op, l, r),
         IsNumeric(l.type), IsNumeric(r.type),
         NEW ty, ty \in {RealDecl, ComplexDecl}, NEW ry, ry \in {RealDecl, ComplexDecl},
         op = "/" => ry = ty, op = "**" => ry = RealDecl,
         ry = ComplexDecl => "Complex" \in {l.type.kind, r.type.kind},
         ty = ComplexDecl => "Complex" \in {l.type.kind, r.type.kind},
         op = "**" /\ ty = ComplexDecl => l.type.kind = "Complex",
         ty = RealDecl => l.type.kind # "Complex", ry = RealDecl => r.type.kind # "Complex",
         NEW t, t = Typed(ty, Recast(l, ty), Recast(r, ry))
  PROVE  Ready(op, l, r, t)
  <1>1. IsType(l.type) /\ IsType(r.type)
    BY DEF Good, Fine
  <1>2. IsType(ty) /\ IsType(ry) /\ Castable(l.type, ty) /\ Castable(r.type, ry)
    BY <1>1, NumbersAre, TypeNames
  <1>3. \A n : IsIntegral(n) => Type(n) # "Complex"
    BY DEF IsIntegral
  <1>4. \A n : n.kind = "Complex" => Type(n) = "Complex"
    BY DEF Type
  <1>5. /\ Type(ty) = "Complex" <=> ty = ComplexDecl
        /\ Type(ry) = "Complex" <=> ry = ComplexDecl
    BY TypeNames
  <1>6. ~CallGap(l.type, r) /\ ~CallGap(r.type, l)
    BY NoGap
  <1>7. ~CallGap(ty, l)
    BY <1>3, <1>4, <1>5, <1>6 DEF CallGap
  <1>8. ~CallGap(ry, r)
    BY <1>3, <1>4, <1>5, <1>6 DEF CallGap
  <1>9. PICK m, n : m = Recast(l, ty) /\ n = Recast(r, ry)
    OBVIOUS
  <1>10. Good(m) /\ m.calls = l.calls /\ Type(m.type) = Type(ty)
    BY <1>2, <1>7, <1>9, RecastIs
  <1>11. Good(n) /\ n.calls = r.calls /\ Type(n.type) = Type(ry)
    BY <1>2, <1>8, <1>9, RecastIs
  <1>12. t.ty = ty /\ t.l = m /\ t.r = n
    BY <1>9, TypedIs
  <1>13. CASE ty = ComplexDecl
    <2>1. Type(m.type) = "Complex" /\ Type(ty) = "Complex"
      BY <1>10, <1>13, TypeNames
    <2>2. m.type.kind = "Complex"
      BY <2>1, <1>3, <1>10, KindIsType DEF Good, Fine
    <2>3. n.llvm = ComplexRight(op)
      <3>1. op = "/" => Type(n.type) = "Complex"
        BY <1>11, <1>13, TypeNames
      <3>2. op = "**" => Type(n.type) = "Real"
        BY <1>11, TypeNames
      <3>3. QED  BY <1>11, <3>1, <3>2, LlvmTypes DEF Good, Fine, ComplexRight
    <2>4. QED  BY <2>1, <2>2, <2>3, <1>2, <1>10, <1>11, <1>12 DEF Ready, Prepared, Complexes
  <1>14. CASE ty = RealDecl
    <2>1. ry = RealDecl
      BY <1>14
    <2>2. Type(m.type) = "Real" /\ Type(n.type) = "Real" /\ Type(ty) = "Real"
      BY <1>10, <1>11, <1>14, <2>1, TypeNames
    <2>3. QED  BY <2>2, <1>2, <1>10, <1>11, <1>12 DEF Ready, Prepared, Reals
  <1>15. QED  BY <1>13, <1>14

LEMMA NilIsAPointer ==
  ASSUME NEW op \in {"=", "<>"}, NEW l, Good(l), NEW r, Good(r),
         l.type.kind = "Pointer", r.type.kind = "Pointer", NEW t,
         \/ t = Typed(l.type, l, Recast(r, l.type))
         \/ t = Typed(r.type, Recast(l, r.type), r)
  PROVE  Ready(op, l, r, t)
  <1>1. /\ IsType(l.type) /\ IsType(r.type)
        /\ Type(l.type) = "Pointer" /\ Type(r.type) = "Pointer"
    BY DEF Good, Fine, Type
  <1>2. /\ Castable(l.type, r.type) /\ Castable(r.type, l.type)
        /\ ~CallGap(l.type, r) /\ ~CallGap(r.type, l)
    BY <1>1 DEF Castable, CallGap
  <1>3. PICK m, n : m = Recast(l, r.type) /\ n = Recast(r, l.type)
    OBVIOUS
  <1>4. Good(m) /\ m.calls = l.calls /\ Type(m.type) = "Pointer"
    BY <1>1, <1>2, <1>3, RecastIs
  <1>5. Good(n) /\ n.calls = r.calls /\ Type(n.type) = "Pointer"
    BY <1>1, <1>2, <1>3, RecastIs
  <1>6. m.type.kind = "Pointer" /\ n.type.kind = "Pointer"
    BY <1>4, <1>5, KindIsType DEF Good, Fine, IsIntegral
  <1>7. CASE t = Typed(l.type, l, Recast(r, l.type))
    <2>1. t.ty = l.type /\ t.l = l /\ t.r = n
      BY <1>3, <1>7, TypedIs
    <2>2. QED  BY <2>1, <1>1, <1>5, <1>6 DEF Ready, Prepared, Pointers
  <1>8. CASE t = Typed(r.type, Recast(l, r.type), r)
    <2>1. t.ty = r.type /\ t.l = m /\ t.r = r
      BY <1>3, <1>8, TypedIs
    <2>2. QED  BY <2>1, <1>1, <1>4, <1>6 DEF Ready, Prepared, Pointers
  <1>9. QED  BY <1>7, <1>8

(* A subrange and a literal of its base type.                              *)
LEMMA LiteralsMeetRanges ==
  ASSUME NEW op \in AllOps, op \notin ShortCircuits \cup {"/", "**"},
         NEW l, Good(l), NEW r, Good(r), ~Gap(op, l, r), NEW t,
         \/ l.type.kind = "Range" /\ IsIntegerExpr(r) /\ t = Typed(l.type, l, r)
         \/ r.type.kind = "Range" /\ IsIntegerExpr(l) /\ t = Typed(r.type, l, r)
  PROVE  Ready(op, l, r, t)
  <1>1. IsType(l.type) /\ IsType(r.type)
    BY DEF Good, Fine
  <1>2. /\ t.l = l /\ t.r = r
        /\ \/ t.ty = l.type /\ l.type.kind = "Range" /\ IsIntegerExpr(r)
           \/ t.ty = r.type /\ r.type.kind = "Range" /\ IsIntegerExpr(l)
    BY TypedIs
  <1>3. ~LiteralGap(op, l.type, r) /\ ~LiteralGap(op, r.type, l) /\ (op = "pow" => ~PowGap(l, r))
    BY NoGap
  <1>4. Type(l.type) = Type(r.type) /\ Type(t.ty) = Type(l.type)
    BY <1>2, <1>3 DEF LiteralGap, OddLiteral
  <1>5. IsIntegral(t.ty)
    BY <1>1, <1>2, TypesAre
  <1>6. IsIntegral(l.type)
    BY <1>4, <1>5 DEF IsIntegral
  <1>7. op \in Compares \/ IsNumeric(t.ty)
    BY <1>2, <1>3 DEF LiteralGap
  <1>8. CASE op \in Compares
    BY <1>1, <1>2, <1>4, <1>6, <1>8 DEF Ready, Prepared, Ordinals
  <1>9. CASE op \notin Compares
    <2>1. Type(l.type) \in {"Integer", "LongInt"}
      BY <1>4, <1>6, <1>7, <1>9 DEF IsNumeric, IsIntegral
    <2>2. l.type.kind # "Char"
      BY <2>1 DEF Type
    <2>3. op \in {"+", "-", "*", "div", "mod", "and", "or", "xor", "shl", "shr", "pow"}
      BY <1>9 DEF AllOps
    <2>4. op = "pow" => Type(t.ty) = "Integer"
      BY <1>3, <1>4, <2>1 DEF PowGap
    <2>5. QED  BY <1>1, <1>2, <1>4, <1>6, <2>2, <2>3, <2>4 DEF Ready, Prepared, Ordinals
  <1>10. QED  BY <1>8, <1>9

-----------------------------------------------------------------------------
(* Operands that decide the type themselves.                               *)

(* An operator that is left to its operands, and the operands it is left.  *)
Left(op, l, r) ==
  /\ op \in AllOps \ (ShortCircuits \cup {"/", "**"})
  /\ ~(op \in Compares /\ {l.type.kind, r.type.kind} = {"Complex"})
  /\ ~(op \in Compares /\ "String" \in {l.type.kind, r.type.kind})
  /\ ~(op = "pow" /\ l.type.kind = "Complex")
  /\ OperandsAllowed(op, l.type, r.type)

LEMMA OperandsOfTheRest ==
  ASSUME NEW op, NEW l, Good(l), NEW r, Good(r), ~Gap(op, l, r), Left(op, l, r), op \notin Compares
  PROVE  /\ op \in {"+", "-", "*"} => IsNumeric(l.type) /\ IsNumeric(r.type)
         /\ op \in {"div", "mod", "and", "or", "xor"} => IsIntegral(l.type) /\ IsIntegral(r.type)
         /\ op = "pow" => /\ Type(l.type) \in {"Integer", "Real"}
                          /\ IsIntegral(r.type) /\ Type(r.type) # "LongInt"
         /\ op \in {"shl", "shr"} => /\ Type(l.type) \in {"Integer", "LongInt"}
                                     /\ Type(r.type) \in {"Integer", "LongInt"}
         /\ op \in {"+", "-", "*", "div", "mod", "and", "or", "xor", "shl", "shr", "pow"}
         /\ l.type.kind # "Char" /\ r.type.kind # "Char"
         /\ l.type.kind # "String" /\ r.type.kind # "String"
         /\ Type(l.type) \notin {"String", "Pointer", "Array", "Record"}
  <1>1. IsType(l.type) /\ IsType(r.type)
    BY DEF Good, Fine
  <1>2. op \in {"+", "-", "*", "div", "mod", "and", "or", "xor", "shl", "shr", "pow"}
    BY DEF Left, AllOps
  <1>3. op \in {"+", "-", "*"} => IsNumeric(l.type) /\ IsNumeric(r.type)
    BY DEF Left, OperandsAllowed
  <1>4. op \in {"div", "mod", "and", "or", "xor"} =>
            /\ IsIntegral(l.type) /\ IsIntegral(r.type)
            /\ l.type.kind # "Char" /\ r.type.kind # "Char"
    BY DEF Left, OperandsAllowed
  <1>5. op = "pow" => IsNumeric(l.type) /\ IsIntegral(r.type) /\ r.type.kind # "Char"
    BY DEF Left, OperandsAllowed
  <1>6. op = "pow" => /\ Type(l.type) \in {"Integer", "Real"} /\ Type(r.type) # "LongInt"
    <2>1. op = "pow" => l.type.kind # "Complex" /\ ~PowGap(l, r)
      BY NoGap DEF Left
    <2>2. op = "pow" => Type(l.type) # "Complex"
      BY <1>1, <1>5, <2>1, NumbersAre
    <2>3. QED  BY <1>5, <2>1, <2>2 DEF PowGap, IsNumeric
  <1>7. op \in {"shl", "shr"} => /\ Type(l.type) \in {"Integer", "LongInt"}
                                 /\ Type(r.type) \in {"Integer", "LongInt"}
    BY NoGap DEF ShiftGap
  <1>8. \A ty : IsNumeric(ty) \/ Type(ty) \in {"Integer", "Real", "LongInt"} => ty.kind \notin {"Char", "String"}
    BY DEF IsNumeric, Type
  <1>9. \A ty : IsIntegral(ty) => ty.kind # "String"
    BY DEF IsIntegral, Type
  <1>10. \A ty : IsIntegral(ty) \/ IsNumeric(ty) => Type(ty) \notin {"String", "Pointer", "Array", "Record"}
    BY DEF IsIntegral, IsNumeric
  <1>11. l.type.kind # "Char" /\ r.type.kind # "Char" /\ l.type.kind # "String" /\ r.type.kind # "String"
    BY <1>2, <1>3, <1>4, <1>5, <1>6, <1>7, <1>8, <1>9
  <1>12. Type(l.type) \notin {"String", "Pointer", "Array", "Record"}
    BY <1>2, <1>3, <1>4, <1>6, <1>7, <1>10
  <1>13. QED  BY <1>2, <1>3, <1>4, <1>5, <1>6, <1>7, <1>11, <1>12

LEMMA IntegersMeet ==
  ASSUME NEW op, NEW l, Good(l), NEW r, Good(r), ~Gap(op, l, r), Left(op, l, r),
         NEW c, c \in {l.type, r.type},
         IsIntegral(l.type), IsIntegral(r.type), IsIntegral(c),
         Castable(l.type, c), Castable(r.type, c),
         NEW t, t = Typed(c, Recast(l, c), Recast(r, c))
  PROVE  Ready(op, l, r, t)
  <1>1. IsType(l.type) /\ IsType(r.type) /\ IsType(c)
    BY DEF Good, Fine
  <1>2. ~CallGap(c, l) /\ ~CallGap(c, r)
    BY DEF CallGap, IsIntegral
  <1>3. PICK m, n : m = Recast(l, c) /\ n = Recast(r, c)
    OBVIOUS
  <1>4. /\ Good(m) /\ m.calls = l.calls /\ Type(m.type) = Type(c)
        /\ m.type = c \/ m = l
    BY <1>1, <1>2, <1>3, RecastIs
  <1>5. Good(n) /\ n.calls = r.calls /\ Type(n.type) = Type(c)
    BY <1>1, <1>2, <1>3, RecastIs
  <1>6. t.ty = c /\ t.l = m /\ t.r = n
    BY <1>3, TypedIs
  <1>7. IsIntegral(m.type)
    BY <1>4 DEF IsIntegral
  <1>8. CASE op \in Compares
    BY <1>1, <1>4, <1>5, <1>6, <1>7, <1>8 DEF Ready, Prepared, Ordinals
  <1>9. CASE op \notin Compares
    <2>1. /\ op \in {"+", "-", "*", "div", "mod", "and", "or", "xor", "shl", "shr", "pow"}
          /\ l.type.kind # "Char" /\ r.type.kind # "Char"
          /\ op = "pow" => Type(l.type) \in {"Integer", "Real"} /\ Type(r.type) # "LongInt"
      BY <1>9, OperandsOfTheRest
    <2>2. m.type.kind # "Char"
      BY <1>4, <2>1
    <2>3. op = "pow" => Type(l.type) = "Integer"
      BY <2>1 DEF IsIntegral
    <2>4. op = "pow" => Type(c) # "LongInt"
      BY <2>1, <2>3
    <2>5. SameAs(c, l.type) => Type(c) = Type(l.type)
      BY <1>1, SameTypes
    <2>6. op = "pow" => Type(c) = "Integer"
      BY <2>3, <2>4, <2>5 DEF Castable, IsIntegral
    <2>7. QED  BY <1>1, <1>4, <1>5, <1>6, <1>7, <2>1, <2>2, <2>6 DEF Ready, Prepared, Ordinals
  <1>10. QED  BY <1>8, <1>9

LEMMA RealsMeet ==
  ASSUME NEW op, NEW l, Good(l), NEW r, Good(r), ~Gap(op, l, r), Left(op, l, r),
         NEW c, c \in {l.type, r.type}, Type(c) = "Real",
         IsIntegral(l.type) \/ Type(l.type) = "Real", IsIntegral(r.type) \/ Type(r.type) = "Real",
         NEW t, t = Typed(c, Recast(l, c), Recast(r, c))
  PROVE  Ready(op, l, r, t)
  <1>1. IsType(l.type) /\ IsType(r.type) /\ IsType(c) /\ c.kind = "Real"
    BY KindIsType DEF Good, Fine, IsIntegral
  <1>2. ~CallGap(c, l) /\ ~CallGap(c, r)
    BY DEF CallGap
  <1>3. Castable(l.type, c) /\ Castable(r.type, c)
    BY <1>1 DEF Castable, SameAs, IsArray, IsA
  <1>4. PICK m, n : m = Recast(l, c) /\ n = Recast(r, c)
    OBVIOUS
  <1>5. Good(m) /\ m.calls = l.calls /\ Type(m.type) = "Real"
    BY <1>1, <1>2, <1>3, <1>4, RecastIs
  <1>6. Good(n) /\ n.calls = r.calls /\ Type(n.type) = "Real"
    BY <1>1, <1>2, <1>3, <1>4, RecastIs
  <1>7. t.ty = c /\ t.l = m /\ t.r = n
    BY <1>4, TypedIs
  <1>8. op \in Compares \cup {"+", "-", "*", "pow"}
    BY OperandsOfTheRest DEF IsIntegral
  <1>9. QED  BY <1>1, <1>5, <1>6, <1>7, <1>8 DEF Ready, Prepared, Reals

LEMMA ComplexesMeet ==
  ASSUME NEW op, NEW l, Good(l), NEW r, Good(r), ~Gap(op, l, r), Left(op, l, r),
         NEW c, c \in {l.type, r.type}, Type(c) = "Complex",
         IsIntegral(l.type) \/ Type(l.type) \in {"Real", "Complex"},
         IsIntegral(r.type) \/ Type(r.type) \in {"Real", "Complex"},
         NEW t, t = Typed(c, Recast(l, c), Recast(r, c))
  PROVE  Ready(op, l, r, t)
  <1>1. IsType(l.type) /\ IsType(r.type) /\ IsType(c) /\ c.kind = "Complex"
    BY KindIsType DEF Good, Fine, IsIntegral
  <1>2. ~CallGap(c, l) /\ ~CallGap(c, r)
    BY NoGap DEF CallGap, IsIntegral
  <1>3. Castable(l.type, c) /\ Castable(r.type, c)
    BY <1>1 DEF Castable, SameAs, IsArray, IsA
  <1>4. PICK m, n : m = Recast(l, c) /\ n = Recast(r, c)
    OBVIOUS
  <1>5. Good(m) /\ m.calls = l.calls /\ Type(m.type) = "Complex"
    BY <1>1, <1>2, <1>3, <1>4, RecastIs
  <1>6. Good(n) /\ n.calls = r.calls /\ Type(n.type) = "Complex"
    BY <1>1, <1>2, <1>3, <1>4, RecastIs
  <1>7. t.ty = c /\ t.l = m /\ t.r = n
    BY <1>4, TypedIs
  <1>8. m.type.kind = "Complex"
    BY <1>5, KindIsType DEF Good, Fine, IsIntegral
  <1>9. op \in Compares => op \in {"=", "<>"}
    <2>1. "Complex" \in {l.type.kind, r.type.kind}
      BY <1>1
    <2>2. op \in Compares => {l.type.kind, r.type.kind} # {"Complex"} /\ ~ComparisonGap(op, l, r)
      BY NoGap DEF Left
    <2>3. QED  BY <2>1, <2>2 DEF ComparisonGap, Kinds
  <1>10. op \in {"=", "<>", "+", "-", "*"}
    BY <1>9, OperandsOfTheRest DEF IsIntegral
  <1>11. n.llvm = ComplexRight(op)
    BY <1>6, <1>10, LlvmTypes DEF Good, Fine, ComplexRight
  <1>12. QED  BY <1>1, <1>5, <1>6, <1>7, <1>8, <1>10, <1>11 DEF Ready, Prepared, Complexes

LEMMA PointersMeet ==
  ASSUME NEW op, NEW l, Good(l), NEW r, Good(r), ~Gap(op, l, r), Left(op, l, r),
         NEW c, c \in {l.type, r.type}, l.type.kind = "Pointer", r.type.kind = "Pointer",
         NEW t, t = Typed(c, Recast(l, c), Recast(r, c))
  PROVE  Ready(op, l, r, t)
  <1>1. Type(l.type) = "Pointer"
    BY DEF Type
  <1>2. op \in Compares
    BY <1>1, OperandsOfTheRest
  <1>3. op \in {"=", "<>"}
    BY <1>2, NoGap DEF ComparisonGap, Kinds
  <1>4. Recast(l, l.type) = l /\ Recast(r, r.type) = r
    BY SameAsItself DEF Recast, Good, Fine
  <1>5. t = Typed(l.type, l, Recast(r, l.type)) \/ t = Typed(r.type, Recast(l, r.type), r)
    BY <1>4
  <1>6. QED  BY <1>3, <1>5, NilIsAPointer

LEMMA CompoundsMeet ==
  ASSUME NEW op, NEW l, Good(l), NEW r, Good(r), ~Gap(op, l, r), Left(op, l, r),
         NEW c, c \in {l.type, r.type},
         \/ l.type.kind = "Array" /\ r.type.kind = "Array"
         \/ l.type.kind = "Record" /\ r.type.kind = "Record",
         NEW t, t = Typed(c, l, r)
  PROVE  Ready(op, l, r, t)
  <1>1. Type(l.type) \in {"Array", "Record"} /\ IsCompound(l.type) /\ IsCompound(r.type)
    BY DEF Type, IsCompound
  <1>2. op \in Compares
    BY <1>1, OperandsOfTheRest
  <1>3. ~ComparisonGap(op, l, r)
    BY <1>2, NoGap
  <1>4. IsCharArray(l.type) /\ IsCharArray(r.type) /\ Size(l.type) = Size(r.type)
    BY <1>1, <1>3 DEF ComparisonGap
  <1>5. t.ty = c /\ t.l = l /\ t.r = r
    BY TypedIs
  <1>6. IsType(c)
    BY DEF Good, Fine
  <1>7. QED  BY <1>2, <1>4, <1>5, <1>6 DEF Ready, Prepared, CharArrays

-----------------------------------------------------------------------------
(* Every operator and every two operands that the semantics lets pass.     *)
LEMMA RejectedIs == Rejected.ty = NoType
  BY DEF Rejected, Typed

LEMMA DivideIsReady ==
  ASSUME NEW l, Good(l), NEW r, Good(r), ~Gap("/", l, r),
         NEW b, b = DivideType(l, r, IF "Complex" \in {l.type.kind, r.type.kind} THEN ComplexDecl
                                     ELSE RealDecl)
  PROVE  b.ty = NoType \/ Ready("/", l, r, b)
  <1>1. CASE ~(IsNumeric(l.type) /\ IsNumeric(r.type))
    BY <1>1, RejectedIs DEF DivideType
  <1>2. CASE IsNumeric(l.type) /\ IsNumeric(r.type)
    <2>1. PICK ty : ty = IF "Complex" \in {l.type.kind, r.type.kind} THEN ComplexDecl ELSE RealDecl
      OBVIOUS
    <2>2. b = Typed(ty, Recast(l, ty), Recast(r, ty))
      BY <1>2, <2>1 DEF DivideType
    <2>3. RealDecl # ComplexDecl
      BY TypeNames
    <2>4. QED  BY <1>2, <2>1, <2>2, <2>3, FractionsAreMade
  <1>3. QED  BY <1>1, <1>2

LEMMA PowerIsReady ==
  ASSUME NEW l, Good(l), NEW r, Good(r), ~Gap("**", l, r), NEW b, b = PowerType(l, r)
  PROVE  b.ty = NoType \/ Ready("**", l, r, b)
  <1>1. CASE ~(IsNumeric(l.type) /\ IsNumeric(r.type) /\ r.type.kind # "Complex")
    BY <1>1, RejectedIs DEF PowerType, IsA
  <1>2. CASE IsNumeric(l.type) /\ IsNumeric(r.type) /\ r.type.kind # "Complex"
    <2>1. PICK ty : ty = IF l.type.kind = "Complex" THEN ComplexDecl ELSE RealDecl
      OBVIOUS
    <2>2. b = Typed(ty, Recast(l, ty), Recast(r, RealDecl))
      BY <1>2, <2>1 DEF PowerType, IsA
    <2>3. RealDecl # ComplexDecl
      BY TypeNames
    <2>4. QED  BY <1>2, <2>1, <2>2, <2>3, FractionsAreMade
  <1>3. QED  BY <1>1, <1>2

LEMMA ComplexesAreCompared ==
  ASSUME NEW op \in {"=", "<>"}, NEW l, Good(l), NEW r, Good(r),
         l.type.kind = "Complex", r.type.kind = "Complex", NEW b, b = Typed(BoolDecl, l, r)
  PROVE  Ready(op, l, r, b)
  <1>1. IsType(r.type) /\ r.llvm = LlvmType(r.type) /\ Type(r.type) = "Complex"
    BY KindIsType, TypesAre DEF Good, Fine
  <1>2. r.llvm = "complex"
    BY <1>1, LlvmTypes
  <1>3. QED  BY <1>2, TypedIs, TypeNames DEF Ready, Prepared, Complexes, ComplexRight

LEMMA TruthIsDecided ==
  ASSUME NEW op \in ShortCircuits, NEW l, Good(l), NEW r, Good(r), ~Gap(op, l, r),
         l.type = BoolDecl, r.type = BoolDecl, NEW b, b = Typed(BoolDecl, l, r)
  PROVE  Ready(op, l, r, b)
  BY TypedIs, TypeNames, NoGap DEF Ready, Prepared, Decisions

LEMMA RulesAreReady ==
  ASSUME NEW op \in AllOps, NEW l, Good(l), NEW r, Good(r), ~Gap(op, l, r),
         NEW b, b = BinaryExprType(op, l, r)
  PROVE  \/ b.ty = NoType
         \/ Ready(op, l, r, b)
         \/ /\ b = Undecided(l, r) /\ op \notin ShortCircuits \cup {"/", "**"}
            /\ ~(op \in Compares /\ {l.type.kind, r.type.kind} = {"Complex"})
            /\ ~(op \in Compares /\ "String" \in {l.type.kind, r.type.kind})
            /\ ~(op = "pow" /\ l.type.kind = "Complex")
  <1> DEFINE kinds == {l.type.kind, r.type.kind}
             string == StringDecl(MaxStringLen)
             c1 == op \in Compares /\ kinds = {"Complex"}
             c2 == op \in Compares /\ "String" \in kinds
             c3 == op \in ShortCircuits
             c4 == op = "+" /\ IsStringLike(l.type) /\ IsStringLike(r.type)
             c5 == op = "pow" /\ l.type.kind = "Complex"
             c6 == op = "/"
             c7 == op = "**"
             c8 == op \in {"=", "<>"} /\ l.type.kind = "Pointer" /\ r.shape = "nil"
             c9 == op \in {"=", "<>"} /\ r.type.kind = "Pointer" /\ l.shape = "nil"
             c10 == l.type.kind = "Range" /\ IsIntegerExpr(r)
             c11 == r.type.kind = "Range" /\ IsIntegerExpr(l)
  <1>1. CASE c1
    <2>1. b = IF op \in {"=", "<>"} THEN Typed(BoolDecl, l, r) ELSE Rejected
      BY <1>1 DEF BinaryExprType
    <2>2. l.type.kind = "Complex" /\ r.type.kind = "Complex"
      BY <1>1
    <2>3. CASE op \in {"=", "<>"}
      BY <2>1, <2>2, <2>3, ComplexesAreCompared
    <2>4. QED  BY <2>1, <2>3, RejectedIs
  <1>2. CASE ~c1 /\ c2
    <2>1. PICK s : s = string
      OBVIOUS
    <2>2. b = Typed(BoolDecl, Recast(l, s), Recast(r, s))
      BY <1>2, <2>1 DEF BinaryExprType
    <2>3. QED  BY <1>2, <2>1, <2>2, TextsAreCompared
  <1>3. CASE ~c1 /\ ~c2 /\ c3
    <2>1. b = IF {l.type, r.type} = {BoolDecl} THEN Typed(BoolDecl, l, r) ELSE Rejected
      BY <1>3 DEF BinaryExprType
    <2>2. CASE {l.type, r.type} = {BoolDecl}
      <3>1. l.type = BoolDecl /\ r.type = BoolDecl
        BY <2>2
      <3>2. QED  BY <1>3, <2>1, <2>2, <3>1, TruthIsDecided
    <2>3. QED  BY <2>1, <2>2, RejectedIs
  <1>4. CASE ~c1 /\ ~c2 /\ ~c3 /\ c4
    <2>1. b = Typed(string, l, r)
      BY <1>4 DEF BinaryExprType
    <2>2. QED  BY <1>4, <2>1, TextsAreJoined
  <1>5. CASE ~c1 /\ ~c2 /\ ~c3 /\ ~c4 /\ c5
    <2>1. b = IF IsIntegral(r.type) /\ r.type.kind # "Char" THEN Typed(l.type, l, Recast(r, RealDecl))
              ELSE Rejected
      BY <1>5 DEF BinaryExprType
    <2>2. CASE IsIntegral(r.type) /\ r.type.kind # "Char"
      BY <1>5, <2>1, <2>2, ComplexPowers
    <2>3. QED  BY <2>1, <2>2, RejectedIs
  <1>6. CASE ~c1 /\ ~c2 /\ ~c3 /\ ~c4 /\ ~c5 /\ c6
    <2>1. b = DivideType(l, r, IF "Complex" \in kinds THEN ComplexDecl ELSE RealDecl)
      BY <1>6 DEF BinaryExprType
    <2>2. QED  BY <1>6, <2>1, DivideIsReady
  <1>7. CASE ~c1 /\ ~c2 /\ ~c3 /\ ~c4 /\ ~c5 /\ ~c6 /\ c7
    <2>1. b = PowerType(l, r)
      BY <1>7 DEF BinaryExprType
    <2>2. QED  BY <1>7, <2>1, PowerIsReady
  <1>8. CASE ~c1 /\ ~c2 /\ ~c3 /\ ~c4 /\ ~c5 /\ ~c6 /\ ~c7 /\ c8
    <2>1. b = Typed(l.type, l, Recast(r, l.type))
      BY <1>8 DEF BinaryExprType
    <2>2. r.type.kind = "Pointer"
      BY <1>8 DEF Good, Fine
    <2>3. QED  BY <1>8, <2>1, <2>2, NilIsAPointer
  <1>9. CASE ~c1 /\ ~c2 /\ ~c3 /\ ~c4 /\ ~c5 /\ ~c6 /\ ~c7 /\ ~c8 /\ c9
    <2>1. b = Typed(r.type, Recast(l, r.type), r)
      BY <1>9 DEF BinaryExprType
    <2>2. l.type.kind = "Pointer"
      BY <1>9 DEF Good, Fine
    <2>3. QED  BY <1>9, <2>1, <2>2, NilIsAPointer
  <1>10. CASE ~c1 /\ ~c2 /\ ~c3 /\ ~c4 /\ ~c5 /\ ~c6 /\ ~c7 /\ ~c8 /\ ~c9 /\ c10
    <2>1. b = Typed(l.type, l, r)
      BY <1>10 DEF BinaryExprType
    <2>2. QED  BY <1>10, <2>1, LiteralsMeetRanges
  <1>11. CASE ~c1 /\ ~c2 /\ ~c3 /\ ~c4 /\ ~c5 /\ ~c6 /\ ~c7 /\ ~c8 /\ ~c9 /\ ~c10 /\ c11
    <2>1. b = Typed(r.type, l, r)
      BY <1>11 DEF BinaryExprType
    <2>2. QED  BY <1>11, <2>1, LiteralsMeetRanges
  <1>12. CASE ~c1 /\ ~c2 /\ ~c3 /\ ~c4 /\ ~c5 /\ ~c6 /\ ~c7 /\ ~c8 /\ ~c9 /\ ~c10 /\ ~c11
    <2>1. b = Undecided(l, r)
      BY <1>12 DEF BinaryExprType
    <2>2. QED  BY <1>12, <2>1
  <1> HIDE DEF c1, c2, c3, c4, c5, c6, c7, c8, c9, c10, c11
  <1>13. QED  BY <1>1, <1>2, <1>3, <1>4, <1>5, <1>6, <1>7, <1>8, <1>9, <1>10, <1>11, <1>12

LEMMA TruthValuesMeet ==
  ASSUME NEW op \in {"and", "or", "xor"}, NEW l, Good(l), NEW r, Good(r),
         l.type = BoolDecl, r.type = BoolDecl, NEW t, t = Typed(BoolDecl, l, r)
  PROVE  Ready(op, l, r, t)
  BY TypedIs, TypeNames DEF Ready, Prepared, Ordinals, IsIntegral

LEMMA CommonIsReady ==
  ASSUME NEW op, NEW l, Good(l), NEW r, Good(r), ~Gap(op, l, r), Left(op, l, r),
         NEW c, c = CompatibleType(l.type, r.type), c # NoType,
         NEW t, t = IF IsCompound(c) THEN Typed(c, l, r) ELSE Typed(c, Recast(l, c), Recast(r, c))
  PROVE  Ready(op, l, r, t)
  <1>1. PICK a, b : a = l.type /\ b = r.type
    OBVIOUS
  <1>2. IsType(a) /\ IsType(b)
    BY <1>1 DEF Good, Fine
  <1>3. a.kind # "String" /\ b.kind # "String"
    <2>1. CASE op \in Compares
      BY <1>1, <2>1 DEF Left
    <2>2. CASE op \notin Compares
      BY <1>1, <2>2, OperandsOfTheRest
    <2>3. QED  BY <2>1, <2>2
  <1>4. c = CompatibleType(a, b)
    BY <1>1
  <1>5. /\ c = a \/ c = b
        /\ \/ /\ IsIntegral(a) /\ IsIntegral(b) /\ IsIntegral(c)
              /\ Castable(a, c) /\ Castable(b, c)
           \/ /\ Type(c) = "Real" /\ (IsIntegral(a) \/ Type(a) = "Real")
              /\ IsIntegral(b) \/ Type(b) = "Real"
           \/ /\ Type(c) = "Complex" /\ (IsIntegral(a) \/ Type(a) \in {"Real", "Complex"})
              /\ IsIntegral(b) \/ Type(b) \in {"Real", "Complex"}
           \/ a.kind = "Pointer" /\ b.kind = "Pointer"
           \/ a.kind = "Array" /\ b.kind = "Array"
           \/ a.kind = "Record" /\ b.kind = "Record"
    BY <1>2, <1>3, <1>4, CommonIs
  <1>6. c \in {l.type, r.type}
    BY <1>1, <1>5
  <1>7. Type(c) \notin {"Array", "String", "Record"} => t = Typed(c, Recast(l, c), Recast(r, c))
    BY DEF IsCompound
  <1>8. CASE IsIntegral(a) /\ IsIntegral(b) /\ IsIntegral(c) /\ Castable(a, c) /\ Castable(b, c)
    <2>1. t = Typed(c, Recast(l, c), Recast(r, c))
      BY <1>7, <1>8 DEF IsIntegral
    <2>2. QED  BY <1>1, <1>6, <1>8, <2>1, IntegersMeet
  <1>9. CASE /\ Type(c) = "Real" /\ (IsIntegral(a) \/ Type(a) = "Real")
             /\ IsIntegral(b) \/ Type(b) = "Real"
    <2>1. t = Typed(c, Recast(l, c), Recast(r, c))
      BY <1>7, <1>9
    <2>2. QED  BY <1>1, <1>6, <1>9, <2>1, RealsMeet
  <1>10. CASE /\ Type(c) = "Complex" /\ (IsIntegral(a) \/ Type(a) \in {"Real", "Complex"})
              /\ IsIntegral(b) \/ Type(b) \in {"Real", "Complex"}
    <2>1. t = Typed(c, Recast(l, c), Recast(r, c))
      BY <1>7, <1>10
    <2>2. QED  BY <1>1, <1>6, <1>10, <2>1, ComplexesMeet
  <1>11. CASE a.kind = "Pointer" /\ b.kind = "Pointer"
    <2>1. Type(c) = "Pointer"
      BY <1>5, <1>11 DEF Type
    <2>2. t = Typed(c, Recast(l, c), Recast(r, c))
      BY <1>7, <2>1
    <2>3. QED  BY <1>1, <1>6, <1>11, <2>2, PointersMeet
  <1>12. CASE (a.kind = "Array" /\ b.kind = "Array") \/ (a.kind = "Record" /\ b.kind = "Record")
    <2>1. IsCompound(c)
      BY <1>5, <1>12 DEF Type, IsCompound
    <2>2. t = Typed(c, l, r)
      BY <2>1
    <2>3. QED  BY <1>1, <1>6, <1>12, <2>2, CompoundsMeet
  <1>13. QED  BY <1>5, <1>8, <1>9, <1>10, <1>11, <1>12

LEMMA BinaryIsReady ==
  ASSUME NEW op \in AllOps, NEW l, Good(l), NEW r, Good(r), ~Gap(op, l, r),
         NEW t, t = CheckBinaryExpr(op, l, r), t.ty # NoType
  PROVE  Ready(op, l, r, t)
  <1>1. PICK b : b = BinaryExprType(op, l, r)
    OBVIOUS
  <1>2. PICK c : c = CompatibleType(l.type, r.type)
    OBVIOUS
  <1>3. Simple("undecided") # NoType
    BY DEF Simple, NoType, Decl
  <1>4. CASE b.ty = NoType
    <2>1. t = b
      BY <1>1, <1>3, <1>4 DEF CheckBinaryExpr
    <2>2. QED  BY <1>4, <2>1
  <1>5. CASE Ready(op, l, r, b)
    <2>1. b.ty # Simple("undecided")
      BY <1>5, TypesAre DEF Ready
    <2>2. t = b
      BY <1>1, <2>1 DEF CheckBinaryExpr
    <2>3. QED  BY <1>5, <2>2
  <1>6. CASE /\ b = Undecided(l, r) /\ op \notin ShortCircuits \cup {"/", "**"}
             /\ ~(op \in Compares /\ {l.type.kind, r.type.kind} = {"Complex"})
             /\ ~(op \in Compares /\ "String" \in {l.type.kind, r.type.kind})
             /\ ~(op = "pow" /\ l.type.kind = "Complex")
    <2>1. b.ty = Simple("undecided")
      BY <1>6 DEF Undecided, Typed
    <2>2. t = IF ~OperandsAllowed(op, l.type, r.type) THEN Rejected
              ELSE IF op \in {"and", "or", "xor"} /\ {l.type, r.type} = {BoolDecl}
              THEN Typed(BoolDecl, l, r)
              ELSE IF c = NoType THEN Rejected
              ELSE IF IsCompound(c) THEN Typed(c, l, r)
              ELSE Typed(c, Recast(l, c), Recast(r, c))
      BY <1>1, <1>2, <2>1 DEF CheckBinaryExpr
    <2>3. OperandsAllowed(op, l.type, r.type)
      BY <2>2, RejectedIs
    <2>4. Left(op, l, r)
      BY <1>6, <2>3 DEF Left
    <2>5. CASE op \in {"and", "or", "xor"} /\ {l.type, r.type} = {BoolDecl}
      <3>1. l.type = BoolDecl /\ r.type = BoolDecl
        BY <2>5
      <3>2. QED  BY <2>2, <2>3, <2>5, <3>1, TruthValuesMeet
    <2>6. CASE ~(op \in {"and", "or", "xor"} /\ {l.type, r.type} = {BoolDecl})
      <3>1. c # NoType
        BY <2>2, <2>3, <2>6, RejectedIs
      <3>2. t = IF IsCompound(c) THEN Typed(c, l, r) ELSE Typed(c, Recast(l, c), Recast(r, c))
        BY <2>2, <2>3, <2>6, <3>1
      <3>3. QED  BY <1>2, <2>4, <3>1, <3>2, CommonIsReady
    <2>7. QED  BY <2>5, <2>6
  <1>7. QED  BY <1>1, <1>4, <1>5, <1>6, RulesAreReady

-----------------------------------------------------------------------------
(* What the code for two operands yields.                                  *)

(* The type of the code for an operator whose operands have the type ty.   *)
Yields(op, ty) == IF op \in Compares THEN "i1" ELSE LlvmType(ty)

LEMMA StringishAre ==
  ASSUME NEW n, Good(n)
  PROVE  /\ Stringish(n) => n.type.kind \in {"Char", "String", "Array"}
         /\ n.type.kind \in {"Char", "String"} => Stringish(n)
         /\ n.llvm = LlvmType(n.type) /\ n.llvm # "ice" /\ IsType(n.type)
  BY LlvmTypes DEF Stringish, IsA, Good, Fine

LEMMA ComparisonsYield ==
  ASSUME NEW op \in Compares, NEW s, NEW t
  PROVE  StrCompare(op, s, t).llvm = "i1"
  BY DEF StrCompare, Bool, Wrapped

LEMMA TextsYield ==
  ASSUME NEW op \in Compares, NEW m, Good(m), NEW n, Good(n),
         m.type.kind = "String", n.type.kind = "String"
  PROVE  BinaryCodeGen(op, m, n).llvm = "i1"
  <1>1. Stringish(m) /\ Stringish(n) /\ m.llvm # "ice" /\ n.llvm # "ice"
    BY StringishAre
  <1>2. {m.type.kind, n.type.kind} # {"Char"} /\ op # "+"
    BY DEF Compares
  <1>3. BinaryCodeGen(op, m, n) = StrCompare(op, Text(m), Text(n))
    BY <1>1, <1>2 DEF BinaryCodeGen
  <1>4. QED  BY <1>3, ComparisonsYield

LEMMA CharArraysYield ==
  ASSUME NEW op \in Compares, NEW m, Good(m), NEW n, Good(n),
         IsCharArray(m.type), IsCharArray(n.type), Size(m.type) = Size(n.type)
  PROVE  BinaryCodeGen(op, m, n).llvm = "i1"
  <1>1. m.llvm # "ice" /\ n.llvm # "ice" /\ op # "+"
    BY StringishAre DEF Compares
  <1>2. m.type.kind \in {"Array", "String"}
    BY DEF IsCharArray, IsArray, IsA
  <1>3. {m.type.kind, n.type.kind} # {"Char"}
    BY <1>2
  <1>4. CASE Stringish(m) /\ Stringish(n)
    <2>1. BinaryCodeGen(op, m, n) = StrCompare(op, Text(m), Text(n))
      BY <1>1, <1>3, <1>4 DEF BinaryCodeGen
    <2>2. QED  BY <2>1, ComparisonsYield
  <1>5. CASE ~(Stringish(m) /\ Stringish(n))
    <2>1. BinaryCodeGen(op, m, n) = StrCompare(op, m.value, n.value)
      BY <1>1, <1>5 DEF BinaryCodeGen
    <2>2. QED  BY <2>1, ComparisonsYield
  <1>6. QED  BY <1>4, <1>5

LEMMA JoinedYields ==
  ASSUME NEW m, Good(m), NEW n, Good(n),
         m.type.kind \in {"Char", "Array", "String"}, n.type.kind \in {"Char", "Array", "String"},
         {m.type.kind, n.type.kind} # {"Char", "Array"}
  PROVE  BinaryCodeGen("+", m, n).llvm = "string"
  <1>1. m.llvm # "ice" /\ n.llvm # "ice"
    BY StringishAre
  <1>2. CASE Stringish(m) /\ Stringish(n)
    BY <1>1, <1>2 DEF BinaryCodeGen
  <1>3. CASE ~(Stringish(m) /\ Stringish(n))
    <2>1. ~Stringish(m) => m.type.kind = "Array"
      BY StringishAre
    <2>2. ~Stringish(n) => n.type.kind = "Array"
      BY StringishAre
    <2>3. m.type.kind # "Char" /\ n.type.kind # "Char"
      BY <1>3, <2>1, <2>2
    <2>4. IsArray(m.type) /\ IsArray(n.type)
      BY <2>3 DEF IsArray, IsA
    <2>5. QED  BY <1>1, <1>3, <2>4 DEF BinaryCodeGen
  <1>4. QED  BY <1>2, <1>3

(* What is no text and no array.                                           *)
LEMMA NumbersYield ==
  ASSUME NEW op, NEW m, Good(m), NEW n, Good(n),
         ~(Stringish(m) /\ Stringish(n) /\ (op = "+" \/ {m.type.kind, n.type.kind} # {"Char"})),
         m.type.kind \notin {"Array", "String"}
  PROVE  BinaryCodeGen(op, m, n) =
           IF op \in ShortCircuits
           THEN IF n.splits THEN ICE
                ELSE Bool(IF op = "and_then" THEN m.value = 1 /\ n.value = 1 ELSE m.value = 1 \/ n.value = 1)
           ELSE IF m.type.kind = "Complex"
           THEN IF n.llvm = ComplexRight(op) THEN ComplexBinExpr(op, m, n) ELSE ICE
           ELSE IF m.llvm # n.llvm THEN ICE
           ELSE IF m.llvm = "ptr" /\ op \in {"=", "<>"} THEN Bool((op = "=") = (m.value = n.value))
           ELSE IF m.llvm \in DOMAIN Width
           THEN IntegerBinExpr(op, m.value, n.value, m.llvm, IsUnsigned(n.type))
           ELSE IF m.llvm = "double" THEN DoubleBinExpr(op, m.value, n.value) ELSE ICE
  <1>1. m.llvm # "ice" /\ n.llvm # "ice" /\ ~IsArray(m.type)
    BY StringishAre DEF IsArray, IsA
  <1>2. ~IsCharArray(m.type)
    BY <1>1 DEF IsCharArray
  <1>3. QED  BY <1>1, <1>2 DEF BinaryCodeGen, IsA

LEMMA DecisionsYield ==
  ASSUME NEW op \in ShortCircuits, NEW m, Good(m), NEW n, Good(n),
         m.type = BoolDecl, n.type = BoolDecl, ~n.splits
  PROVE  BinaryCodeGen(op, m, n).llvm = "i1"
  <1>1. m.type.kind = "Boolean"
    BY TypeNames
  <1>2. ~Stringish(m)
    BY <1>1, StringishAre
  <1>3. QED  BY <1>1, <1>2, NumbersYield DEF Bool, Wrapped

LEMMA ComplexesYield ==
  ASSUME NEW op, NEW m, Good(m), NEW n, Good(n), m.type.kind = "Complex",
         n.llvm = ComplexRight(op)
  PROVE  /\ op \in {"=", "<>"} => BinaryCodeGen(op, m, n).llvm = "i1"
         /\ op \in {"+", "-", "*", "/", "pow", "**"} => BinaryCodeGen(op, m, n).llvm = "complex"
  <1>1. ~Stringish(m)
    BY StringishAre
  <1>2. op \in {"=", "<>", "+", "-", "*", "/", "pow", "**"} =>
            BinaryCodeGen(op, m, n) = ComplexBinExpr(op, m, n)
    BY <1>1, NumbersYield DEF ShortCircuits
  <1>3. op \in {"=", "<>"} => ComplexBinExpr(op, m, n).llvm = "i1"
    BY DEF ComplexBinExpr, Bool, Wrapped
  <1>4. op \in {"+", "-", "*", "/", "pow", "**"} => ComplexBinExpr(op, m, n).llvm = "complex"
    BY DEF ComplexBinExpr
  <1>5. QED  BY <1>2, <1>3, <1>4

LEMMA RealsYield ==
  ASSUME NEW op, NEW m, Good(m), NEW n, Good(n), Type(m.type) = "Real", Type(n.type) = "Real"
  PROVE  /\ op \in Compares => BinaryCodeGen(op, m, n).llvm = "i1"
         /\ op \in {"+", "-", "*", "/", "pow", "**"} => BinaryCodeGen(op, m, n).llvm = "double"
  <1>1. m.llvm = "double" /\ n.llvm = "double" /\ m.type.kind = "Real"
    BY StringishAre, LlvmTypes, KindIsType DEF IsIntegral
  <1>2. ~Stringish(m)
    BY <1>1, StringishAre
  <1>3. m.llvm \notin DOMAIN Width
    BY <1>1, WidthIs
  <1>4. op \in Compares \cup {"+", "-", "*", "/", "pow", "**"} =>
            BinaryCodeGen(op, m, n) = DoubleBinExpr(op, m.value, n.value)
    BY <1>1, <1>2, <1>3, NumbersYield DEF ShortCircuits, Compares
  <1>5. op \in Compares => DoubleBinExpr(op, m.value, n.value).llvm = "i1"
    BY DEF DoubleBinExpr, Bool, Wrapped, Compares
  <1>6. op \in {"+", "-", "*", "/", "pow", "**"} => DoubleBinExpr(op, m.value, n.value).llvm = "double"
    BY DEF DoubleBinExpr, Double, Compares
  <1>7. QED  BY <1>4, <1>5, <1>6

LEMMA PointersYield ==
  ASSUME NEW op \in {"=", "<>"}, NEW m, Good(m), NEW n, Good(n),
         m.type.kind = "Pointer", n.type.kind = "Pointer"
  PROVE  BinaryCodeGen(op, m, n).llvm = "i1"
  <1>1. Type(m.type) = "Pointer" /\ Type(n.type) = "Pointer"
    BY DEF Type
  <1>2. m.llvm = "ptr" /\ n.llvm = "ptr"
    BY <1>1, StringishAre, LlvmTypes
  <1>3. ~Stringish(m)
    BY StringishAre
  <1>4. BinaryCodeGen(op, m, n) = Bool((op = "=") = (m.value = n.value))
    BY <1>2, <1>3, NumbersYield DEF ShortCircuits
  <1>5. QED  BY <1>4 DEF Bool, Wrapped

LEMMA IntegersYield ==
  ASSUME NEW op, NEW a, NEW b, NEW llvm, NEW isUnsigned
  PROVE  /\ op \in Compares => IntegerBinExpr(op, a, b, llvm, isUnsigned).llvm = "i1"
         /\ op \in {"+", "-", "*", "div", "mod", "and", "or", "xor", "shl", "shr"} =>
                IntegerBinExpr(op, a, b, llvm, isUnsigned).llvm = llvm
         /\ op = "pow" /\ llvm = "i32" => IntegerBinExpr(op, a, b, llvm, isUnsigned).llvm = llvm
  <1>1. op \in Compares => IntegerBinExpr(op, a, b, llvm, isUnsigned).llvm = "i1"
    BY DEF IntegerBinExpr, CompareInts, Bool, Wrapped, Compares
  <1>2. op \in {"+", "-", "*", "div", "mod"} => IntegerBinExpr(op, a, b, llvm, isUnsigned).llvm = llvm
    BY DEF IntegerBinExpr, Wrapped, Compares
  <1>3. op \in {"and", "or", "xor", "shl", "shr"} => IntegerBinExpr(op, a, b, llvm, isUnsigned).llvm = llvm
    BY DEF IntegerBinExpr, Wrapped, Compares
  <1>4. op = "pow" /\ llvm = "i32" => IntegerBinExpr(op, a, b, llvm, isUnsigned).llvm = llvm
    BY DEF IntegerBinExpr, Wrapped, Compares
  <1>5. QED  BY <1>1, <1>2, <1>3, <1>4

LEMMA OrdinalsYield ==
  ASSUME NEW op \in AllOps, NEW m, Good(m), NEW n, Good(n),
         IsIntegral(m.type), Type(m.type) = Type(n.type),
         \/ op \in Compares
         \/ /\ op \in {"+", "-", "*", "div", "mod", "and", "or", "xor", "shl", "shr", "pow"}
            /\ m.type.kind # "Char" /\ (op = "pow" => Type(m.type) = "Integer")
  PROVE  BinaryCodeGen(op, m, n).llvm = IF op \in Compares THEN "i1" ELSE LlvmType(m.type)
  <1>1. PICK mt, nt : mt = m.type /\ nt = n.type
    OBVIOUS
  <1>2. /\ IsType(mt) /\ IsType(nt) /\ IsIntegral(mt) /\ IsIntegral(nt)
        /\ m.llvm = LlvmType(mt) /\ n.llvm = LlvmType(nt)
    BY <1>1, StringishAre DEF IsIntegral
  <1>3. m.llvm = n.llvm /\ m.llvm \in DOMAIN Width
    <2>1. LlvmType(mt) = LlvmType(nt)
      BY <1>1 DEF LlvmType
    <2>2. LlvmType(mt) \in DOMAIN Width
      BY <1>2, LlvmTypes
    <2>3. QED  BY <1>2, <2>1, <2>2
  <1>4. mt.kind \notin {"Array", "String", "Complex"} /\ nt.kind \notin {"Array", "String", "Complex"}
    BY <1>2 DEF IsIntegral, Type
  <1>5. ~(Stringish(m) /\ Stringish(n) /\ (op = "+" \/ {m.type.kind, n.type.kind} # {"Char"}))
    <2>1. Stringish(m) => m.type.kind = "Char"
      BY <1>1, <1>4, StringishAre
    <2>2. Stringish(n) => n.type.kind = "Char"
      BY <1>1, <1>4, StringishAre
    <2>3. op \in Compares => op # "+"
      BY DEF Compares
    <2>4. QED  BY <2>1, <2>2, <2>3
  <1>6. m.llvm # "ptr"
    BY <1>3, WidthIs
  <1>7. op \notin ShortCircuits
    BY DEF ShortCircuits, Compares
  <1>8. BinaryCodeGen(op, m, n) = IntegerBinExpr(op, m.value, n.value, m.llvm, IsUnsigned(n.type))
    BY <1>1, <1>3, <1>4, <1>5, <1>6, <1>7, NumbersYield
  <1>9. op = "pow" => m.llvm = "i32"
    BY <1>1, <1>2, LlvmTypes DEF Compares
  <1>10. QED  BY <1>1, <1>2, <1>8, <1>9, IntegersYield

LEMMA BinaryYields ==
  ASSUME NEW op \in AllOps, NEW l, NEW r, NEW t, Ready(op, l, r, t)
  PROVE  BinaryCodeGen(op, t.l, t.r).llvm = Yields(op, t.ty)
  <1>1. PICK m, n, ty : m = t.l /\ n = t.r /\ ty = t.ty
    OBVIOUS
  <1>2. Good(m) /\ Good(n) /\ IsType(ty)
    BY <1>1 DEF Ready
  <1>3. CASE Texts(op, t)
    BY <1>1, <1>2, <1>3, TextsYield DEF Texts, Yields
  <1>4. CASE Decisions(op, t)
    <2>1. BinaryCodeGen(op, m, n).llvm = "i1" /\ op \notin Compares /\ ty = BoolDecl
      BY <1>1, <1>2, <1>4, DecisionsYield DEF Decisions, ShortCircuits, Compares
    <2>2. LlvmType(ty) = "i1"
      BY <2>1, <1>2, LlvmTypes, TypeNames
    <2>3. QED  BY <1>1, <2>1, <2>2 DEF Yields
  <1>5. CASE Joined(op, t)
    <2>1. op = "+" /\ ty = StringDecl(MaxStringLen) /\ BinaryCodeGen("+", m, n).llvm = "string"
      BY <1>1, <1>2, <1>5, JoinedYields DEF Joined
    <2>2. Type(ty) = "String"
      BY <2>1, TypeNames DEF Type
    <2>3. LlvmType(ty) = "string"
      BY <2>2, <1>2, LlvmTypes
    <2>4. QED  BY <1>1, <2>1, <2>3 DEF Yields, Compares
  <1>6. CASE Complexes(op, t)
    <2>1. CASE op \in {"=", "<>"}
      BY <1>1, <1>2, <1>6, <2>1, ComplexesYield DEF Complexes, Yields, Compares
    <2>2. CASE op \in {"+", "-", "*", "/", "pow", "**"} /\ Type(t.ty) = "Complex"
      <3>1. LlvmType(ty) = "complex"
        BY <1>1, <1>2, <2>2, LlvmTypes
      <3>2. QED  BY <1>1, <1>2, <1>6, <2>2, <3>1, ComplexesYield DEF Complexes, Yields, Compares
    <2>3. QED  BY <1>6, <2>1, <2>2 DEF Complexes
  <1>7. CASE Reals(op, t)
    <2>1. CASE op \in Compares
      BY <1>1, <1>2, <1>7, <2>1, RealsYield DEF Reals, Yields
    <2>2. CASE op \in {"+", "-", "*", "/", "pow", "**"} /\ Type(t.ty) = "Real"
      <3>1. LlvmType(ty) = "double"
        BY <1>1, <1>2, <2>2, LlvmTypes
      <3>2. QED  BY <1>1, <1>2, <1>7, <2>2, <3>1, RealsYield DEF Reals, Yields, Compares
    <2>3. QED  BY <1>7, <2>1, <2>2 DEF Reals
  <1>8. CASE Pointers(op, t)
    BY <1>1, <1>2, <1>8, PointersYield DEF Pointers, Yields, Compares
  <1>9. CASE Ordinals(op, t)
    <2>1. BinaryCodeGen(op, m, n).llvm = IF op \in Compares THEN "i1" ELSE LlvmType(m.type)
      BY <1>1, <1>2, <1>9, OrdinalsYield DEF Ordinals
    <2>2. op \notin Compares => LlvmType(m.type) = LlvmType(ty)
      BY <1>1, <1>9 DEF Ordinals, LlvmType
    <2>3. QED  BY <1>1, <2>1, <2>2 DEF Yields
  <1>10. CASE CharArrays(op, t)
    BY <1>1, <1>2, <1>10, CharArraysYield DEF CharArrays, Yields
  <1>11. Prepared(op, t)
    BY DEF Ready
  <1>12. QED  BY <1>3, <1>4, <1>5, <1>6, <1>7, <1>8, <1>9, <1>10, <1>11 DEF Prepared

-----------------------------------------------------------------------------
(* The invariant.                                                          *)

ResultIsRight ==
  /\ result.made = result.calls
  /\ result.shape # "none" => result.llvm = LlvmType(result.type)

IInv == Good(expr) /\ ResultIsRight /\ verdict # "ice"

LEMMA LeavesAreGood ==
  ASSUME NEW leaf, IsLeaf(leaf)
  PROVE  Good(LeafNode(leaf))
  <1>1. PICK g : g = Represented(leaf.type, leaf.means)
    OBVIOUS
  <1>2. g.llvm = LlvmType(leaf.type)
    BY <1>1 DEF Represented, Wrapped
  <1>3. PICK c : c = Truth(leaf.shape = "call") /\ c \in Nat
    BY DEF Truth
  <1>4. PICK n : n = LeafNode(leaf)
    OBVIOUS
  <1>5. n = [shape |-> leaf.shape, type |-> leaf.type, early |-> leaf.type, llvm |-> g.llvm,
             value |-> g.value, means |-> {leaf.means}, calls |-> c, made |-> c, splits |-> FALSE]
    BY <1>1, <1>3, <1>4 DEF LeafNode
  <1>6. Fine(n)
    BY <1>2, <1>5, TypeNames DEF Fine, IsLeaf
  <1>7. Good(n)
    BY <1>3, <1>5, <1>6 DEF Good
  <1>8. QED  BY <1>4, <1>7

LEMMA InitiallyGood == Init => IInv
  <1> SUFFICES ASSUME Init PROVE IInv
    OBVIOUS
  <1>1. Good(expr)
    BY LeavesAreGood, ExpressionsAssumption DEF Init
  <1>2. ResultIsRight
    BY DEF Init, ResultIsRight, None
  <1>3. QED  BY <1>1, <1>2 DEF Init, IInv

LEMMA EndsKeep ==
  ASSUME IInv, NEW v, v # "ice", Ends(v)
  PROVE  IInv'
  BY DEF IInv, Ends, ResultIsRight

LEMMA BinaryKeeps ==
  ASSUME Careful = TRUE, IInv, NEW op \in AllOps, NEW l, Good(l), NEW r, Good(r), Binary(op, l, r)
  PROVE  IInv'
  <1>1. PICK t : t = CheckBinaryExpr(op, l, r)
    OBVIOUS
  <1>2. PICK g : g = BinaryCodeGen(op, t.l, t.r)
    OBVIOUS
  <1>3. /\ ~Gap(op, l, r)
        /\ IF t.ty = NoType THEN Ends("rejected")
           ELSE IF "ice" \in {t.l.llvm, t.r.llvm} THEN Ends("ice")
           ELSE IF t.l.llvm = t.r.llvm /\ Traps(op, t.l, t.r) THEN Ends("stopped")
           ELSE IF g.llvm = "ice" THEN Ends("ice")
           ELSE expr' = BinaryNode(op, l, r, t, g) /\ ops' = ops + 1 /\ UNCHANGED <<result, verdict>>
    BY <1>1, <1>2 DEF Binary
  <1>4. CASE t.ty = NoType
    BY <1>3, <1>4, EndsKeep
  <1>5. CASE t.ty # NoType
    <2>1. Ready(op, l, r, t)
      BY <1>1, <1>3, <1>5, BinaryIsReady
    <2>2. PICK ty : ty = IF op \in Compares THEN BoolDecl ELSE t.ty
      OBVIOUS
    <2>3. IsType(ty)
      BY <2>1, <2>2, TypeNames DEF Ready
    <2>4. g.llvm = LlvmType(ty)
      <3>1. g.llvm = Yields(op, t.ty)
        BY <1>2, <2>1, BinaryYields
      <3>2. LlvmType(BoolDecl) = "i1"
        BY TypeNames, LlvmTypes
      <3>3. QED  BY <2>2, <3>1, <3>2 DEF Yields
    <2>5. g.llvm # "ice"
      BY <2>3, <2>4, LlvmTypes
    <2>6. t.l.llvm # "ice" /\ t.r.llvm # "ice"
      BY <2>1, StringishAre DEF Ready
    <2>7. CASE t.l.llvm = t.r.llvm /\ Traps(op, t.l, t.r)
      BY <1>3, <1>5, <2>6, <2>7, EndsKeep
    <2>8. CASE ~(t.l.llvm = t.r.llvm /\ Traps(op, t.l, t.r))
      <3>1. expr' = BinaryNode(op, l, r, t, g) /\ UNCHANGED <<result, verdict>>
        BY <1>3, <1>5, <2>5, <2>6, <2>8
      <3>2. PICK right : right = Truth(RunsRight(op, l)) /\ right \in Nat
        BY DEF Truth
      <3>3. PICK ms : ms = Meanings(op, l, r, ty)
        OBVIOUS
      <3>4. expr' = [shape |-> "other", type |-> ty, early |-> EarlyType(op, l, r), llvm |-> g.llvm,
                     value |-> g.value, means |-> ms, calls |-> l.calls + right * r.calls,
                     made |-> t.l.made + right * t.r.made, splits |-> Splits(op, g.llvm, l, r)]
        BY <2>2, <3>1, <3>2, <3>3 DEF BinaryNode
      <3>5. /\ l.calls \in Nat /\ r.calls \in Nat
            /\ t.l.made = l.calls /\ t.r.made = r.calls
        BY <2>1 DEF Ready, Good
      <3>6. l.calls + right * r.calls \in Nat
        BY <3>2, <3>5
      <3>7. Fine(expr')
        BY <2>3, <2>4, <3>4 DEF Fine
      <3>8. Good(expr')
        BY <3>4, <3>5, <3>6, <3>7 DEF Good
      <3>9. Good(expr)' /\ ResultIsRight' /\ verdict' # "ice"
        BY <3>1, <3>8 DEF IInv, ResultIsRight, Good, Fine
      <3>10. QED  BY <3>9 DEF IInv
    <2>9. QED  BY <2>7, <2>8
  <1>6. QED  BY <1>4, <1>5

LEMMA UnaryYields ==
  ASSUME NEW op \in {"not", "-"}, NEW n, Good(n), UnaryAllowed(op, n.type), n.type.kind # "Complex"
  PROVE  UnaryCodeGen(op, n).llvm = n.llvm
  <1>1. PICK ty : ty = n.type
    OBVIOUS
  <1>2. IsType(ty) /\ n.llvm = LlvmType(ty)
    BY <1>1, StringishAre
  <1>3. op = "not" => IsIntegral(ty)
    BY <1>1 DEF UnaryAllowed
  <1>4. op = "-" => IsIntegral(ty) \/ Type(ty) = "Real"
    <2>1. op = "-" => IsNumeric(ty)
      BY <1>1 DEF UnaryAllowed
    <2>2. op = "-" => Type(ty) # "Complex"
      BY <1>1, <1>2, <2>1, NumbersAre
    <2>3. QED  BY <2>1, <2>2 DEF IsNumeric, IsIntegral
  <1>5. LlvmType(ty) \in DOMAIN Width <=> IsIntegral(ty)
    BY <1>2, LlvmTypes
  <1>6. CASE IsIntegral(ty)
    <2>1. n.llvm \in DOMAIN Width /\ n.llvm # "double"
      BY <1>2, <1>5, <1>6, WidthIs
    <2>2. UnaryCodeGen(op, n) = Wrapped(n.llvm, IF op = "-" THEN -n.value ELSE -n.value - 1)
      BY <2>1 DEF UnaryCodeGen
    <2>3. QED  BY <2>2 DEF Wrapped
  <1>7. CASE ~IsIntegral(ty)
    <2>1. op = "-" /\ n.llvm = "double" /\ n.llvm \notin DOMAIN Width
      BY <1>2, <1>3, <1>4, <1>5, <1>7, LlvmTypes
    <2>2. PICK x : x = ROp("-", Whole(0), n.value)
      OBVIOUS
    <2>3. UnaryCodeGen(op, n) = Double(x)
      BY <2>1, <2>2 DEF UnaryCodeGen
    <2>4. QED  BY <2>1, <2>3 DEF Double
  <1>8. QED  BY <1>6, <1>7

LEMMA UnaryKeeps ==
  ASSUME Careful = TRUE, IInv, NEW op \in {"not", "-"}, UnaryExpr(op)
  PROVE  IInv'
  <1>1. PICK g : g = UnaryCodeGen(op, expr)
    OBVIOUS
  <1>2. Good(expr)
    BY DEF IInv
  <1>3. expr.type.kind # "Complex" /\ expr.early = expr.type
    BY DEF UnaryExpr, UnaryGap, IsA
  <1>4. CASE ~UnaryAllowed(op, expr.type)
    BY <1>4, EndsKeep DEF UnaryExpr
  <1>5. CASE UnaryAllowed(op, expr.type)
    <2>1. g.llvm = expr.llvm /\ g.llvm # "ice"
      BY <1>1, <1>2, <1>3, <1>5, UnaryYields, StringishAre
    <2> DEFINE ms == {m \in UNION {UnaryMeaning(op, expr.type, a) : a \in expr.means} : Fits(expr.type, m)}
    <2>2. /\ expr' = [expr EXCEPT !.shape = "other", !.value = g.value, !.means = ms]
          /\ UNCHANGED <<result, verdict>>
      BY <1>1, <1>3, <1>5, <2>1 DEF UnaryExpr
    <2> HIDE DEF ms
    <2>3. expr' = [shape |-> "other", type |-> expr.type, early |-> expr.early, llvm |-> expr.llvm,
                   value |-> g.value, means |-> ms, calls |-> expr.calls, made |-> expr.made,
                   splits |-> expr.splits]
      BY <1>2, <2>2 DEF Good
    <2>4. Good(expr)'
      BY <1>2, <2>3 DEF Good, Fine
    <2>5. QED  BY <2>2, <2>4 DEF IInv, ResultIsRight
  <1>6. QED  BY <1>4, <1>5

-----------------------------------------------------------------------------
(* What is stored.                                                         *)

LEMMA NoneIs == None.shape = "none"
  BY DEF None

LEMMA AssignableIs ==
  ASSUME NEW ty, IsType(ty), NEW from, IsType(from), NEW a, a = AssignableType(ty, from), a # NoType,
         ~(ty.kind = "Real" /\ from.kind = "Complex"),
         ty.kind = "Array" => SameAs(ty, from),
         ty.kind = "String" => from.kind = "Char" \/ IsCharArray(from)
  PROVE  Castable(from, a) /\ IsType(a) /\ Type(a) = Type(ty)
  <1>1. SameAs(ty, from) => Type(ty) = Type(from)
    BY SameTypes
  <1>2. CASE a = from /\ Type(from) = Type(ty)
    BY <1>2, SameAsItself DEF Castable
  <1>3. CASE a = ty /\ SameAs(ty, from)
    BY <1>3 DEF Castable
  <1>4. CASE ty.kind = "Char"
    <2>1. a = IF SameAs(ty, from) THEN ty ELSE NoType
      BY <1>4 DEF AssignableType
    <2>2. QED  BY <2>1, <1>3
  <1>5. CASE ty.kind = "Integer"
    <2>1. a = IF SameAs(ty, from) THEN from ELSE NoType
      BY <1>5 DEF AssignableType
    <2>2. QED  BY <2>1, <1>1, <1>2
  <1>6. CASE ty.kind = "LongInt"
    <2>1. a = IF SameAs(ty, from) \/ Type(from) = "Integer" THEN ty ELSE NoType
      BY <1>6 DEF AssignableType
    <2>2. Type(ty) = "LongInt"
      BY <1>6 DEF Type
    <2>3. QED  BY <2>1, <2>2, <1>3 DEF Castable, IsIntegral
  <1>7. CASE ty.kind = "Range"
    <2>1. a = IF SameAs(ty, from) \/ Type(from) = Type(ty) THEN from ELSE NoType
      BY <1>7 DEF AssignableType
    <2>2. QED  BY <2>1, <1>1, <1>2
  <1>8. CASE ty.kind \in {"Boolean", "Enum", "Record"}
    <2>1. a = IF SameAs(ty, from) THEN ty ELSE NoType
      BY <1>8 DEF AssignableType, CompatibleType
    <2>2. QED  BY <2>1, <1>3
  <1>9. CASE ty.kind = "Real"
    <2>1. a = RealCompatible(ty, from)
      BY <1>9 DEF AssignableType, CompatibleType
    <2>2. Type(from) = "Complex" => from.kind = "Complex"
      BY KindIsType DEF IsIntegral
    <2>3. a = ty /\ (SameAs(ty, from) \/ Type(from) \in {"LongInt", "Integer"})
      BY <1>9, <2>1, <2>2 DEF RealCompatible
    <2>4. Type(ty) = "Real"
      BY <1>9 DEF Type
    <2>5. QED  BY <1>3, <2>3, <2>4 DEF Castable, IsIntegral
  <1>10. CASE ty.kind = "Complex"
    <2>1. a = ComplexCompatible(ty, from)
      BY <1>10 DEF AssignableType, CompatibleType
    <2>2. a = ty /\ (SameAs(ty, from) \/ IsNumeric(from))
      BY <2>1 DEF ComplexCompatible
    <2>3. Type(ty) = "Complex"
      BY <1>10 DEF Type
    <2>4. Type(from) = "Complex" => SameAs(ty, from)
      BY <1>10 DEF SameAs, IsArray, IsA
    <2>5. QED  BY <1>3, <2>2, <2>3, <2>4 DEF Castable, IsIntegral, IsNumeric
  <1>11. CASE ty.kind = "Array"
    <2>1. a = ArrayCompatible(ty, from)
      BY <1>11 DEF AssignableType, CompatibleType
    <2>2. QED  BY <1>3, <1>11, <2>1 DEF ArrayCompatible
  <1>12. CASE ty.kind = "String"
    <2>1. a = StringCompatible(ty, from)
      BY <1>12 DEF AssignableType, CompatibleType
    <2>2. a = ty \/ (a = from /\ Type(from) = "String")
      BY <2>1 DEF StringCompatible
    <2>3. Type(ty) = "String"
      BY <1>12 DEF Type
    <2>4. QED  BY <1>12, <2>2, <2>3 DEF Castable
  <1>13. CASE ty.kind = "Pointer"
    <2>1. a = PointerCompatible(ty, from)
      BY <1>13 DEF AssignableType, CompatibleType
    <2>2. a = ty /\ (SameAs(ty, from) \/ from.kind = "Pointer")
      BY <2>1 DEF PointerCompatible
    <2>3. Type(ty) = "Pointer" /\ (from.kind = "Pointer" => Type(from) = "Pointer")
      BY <1>13 DEF Type
    <2>4. QED  BY <1>3, <2>2, <2>3 DEF Castable
  <1>14. QED  BY <1>4, <1>5, <1>6, <1>7, <1>8, <1>9, <1>10, <1>11, <1>12, <1>13, TypesAre

LEMMA StoredIs ==
  ASSUME NEW ty, IsType(ty), NEW m, Good(m),
         \/ ty.kind # "String" /\ m.llvm = LlvmType(ty)
         \/ ty.kind = "String" /\ Type(m.type) = "String"
         \/ ty.kind = "Array" /\ IsCharArray(ty) /\ m.shape = "string"
  PROVE  Stored(ty, m).llvm = LlvmType(ty)
  <1>1. CASE ty.kind = "String"
    <2>1. Type(m.type) = "String"
      BY <1>1
    <2>2. m.type.kind = "String" /\ m.type.of = "Char"
      BY <2>1, KindIsType, TypesAre DEF Good, Fine, IsIntegral
    <2>3. IsCharArray(m.type)
      BY <2>2 DEF IsCharArray, IsArray, IsA
    <2>4. Stored(ty, m) = MakeString(m)
      BY <1>1 DEF Stored
    <2>5. MakeString(m).llvm = "string"
      BY <2>2, <2>3 DEF MakeString, IsA
    <2>6. Type(ty) = "String"
      BY <1>1 DEF Type
    <2>7. QED  BY <2>4, <2>5, <2>6, LlvmTypes
  <1>2. CASE ty.kind # "String" /\ m.shape = "string" /\ IsCharArray(ty)
    <2>1. Type(ty) = "Array"
      BY <1>2 DEF IsCharArray, IsArray, IsA, Type
    <2>2. Stored(ty, m).llvm = "aggregate"
      BY <1>2 DEF Stored
    <2>3. QED  BY <2>1, <2>2, LlvmTypes
  <1>3. CASE ty.kind # "String" /\ ~(m.shape = "string" /\ IsCharArray(ty))
    BY <1>3 DEF Stored
  <1>4. QED  BY <1>1, <1>2, <1>3

LEMMA AssignedIs ==
  ASSUME NEW ty, IsType(ty), NEW n, Good(n), ~AssignGap(ty, n),
         NEW m, m = CheckAssign(ty, n), m.shape # "none"
  PROVE  Good(m) /\ Stored(ty, m).llvm = LlvmType(ty)
  <1>1. PICK from : from = n.type
    OBVIOUS
  <1>2. IsType(from) /\ n.llvm = LlvmType(from)
    BY <1>1, StringishAre
  <1>3. PICK a : a = AssignableType(ty, from)
    OBVIOUS
  <1>4. CASE ty.kind = "Pointer" /\ n.shape = "nil"
    <2>1. m = Recast(n, ty)
      BY <1>4 DEF CheckAssign
    <2>2. from.kind = "Pointer"
      BY <1>1, <1>4 DEF Good, Fine
    <2>3. Type(ty) = "Pointer" /\ Type(from) = "Pointer"
      BY <1>4, <2>2 DEF Type
    <2>4. Castable(n.type, ty) /\ ~CallGap(ty, n)
      BY <1>1, <2>3 DEF Castable, CallGap
    <2>5. Good(m) /\ m.llvm = LlvmType(ty)
      BY <2>1, <2>4, RecastIs
    <2>6. QED  BY <1>4, <2>5, StoredIs
  <1>5. CASE ~(ty.kind = "Pointer" /\ n.shape = "nil") /\ ty.kind = "Range" /\ IsIntegerExpr(n)
    <2>1. m = n
      BY <1>5, NoneIs DEF CheckAssign
    <2>2. Type(ty) = Type(from)
      BY <1>1, <1>5 DEF AssignGap, OddLiteral
    <2>3. LlvmType(ty) = LlvmType(from)
      BY <2>2 DEF LlvmType
    <2>4. QED  BY <1>2, <1>5, <2>1, <2>3, StoredIs
  <1>6. CASE ty.kind = "Array" /\ IsCharArray(ty) /\ n.shape = "string"
    <2>1. m = n
      BY <1>6, NoneIs DEF CheckAssign
    <2>2. QED  BY <1>6, <2>1, StoredIs
  <1>7. CASE /\ ~(ty.kind = "Pointer" /\ n.shape = "nil") /\ ~(ty.kind = "Range" /\ IsIntegerExpr(n))
             /\ ~(ty.kind = "Array" /\ IsCharArray(ty) /\ n.shape = "string")
    <2>1. a # NoType /\ m = Recast(n, a)
      BY <1>1, <1>3, <1>7, NoneIs DEF CheckAssign
    <2>2. ~(ty.kind = "Real" /\ from.kind = "Complex") /\ ~CallGap(ty, n)
      BY <1>1 DEF AssignGap, IsA
    <2>3. ty.kind = "String" => from.kind = "Char" \/ IsCharArray(from)
      BY <1>1 DEF AssignGap, OddText
    <2>4. ty.kind = "Array" => SameAs(ty, from)
      <3>1. CASE n.shape # "string"
        BY <1>1, <3>1 DEF AssignGap
      <3>2. CASE n.shape = "string" /\ ty.kind = "Array"
        <4>1. from.kind = "Array" /\ from.of = "Char" /\ ty.of # "Char"
          BY <1>1, <1>7, <3>2 DEF Good, Fine, IsCharArray, IsArray, IsA
        <4>2. a = ArrayCompatible(ty, from)
          BY <1>3, <3>2 DEF AssignableType, CompatibleType
        <4>3. QED  BY <2>1, <4>1, <4>2 DEF ArrayCompatible
      <3>3. QED  BY <3>1, <3>2
    <2>5. Castable(from, a) /\ IsType(a) /\ Type(a) = Type(ty)
      BY <1>2, <1>3, <2>1, <2>2, <2>3, <2>4, AssignableIs
    <2>6. ~CallGap(a, n)
      BY <2>2, <2>5 DEF CallGap
    <2>7. Good(m) /\ m.llvm = LlvmType(a) /\ Type(m.type) = Type(a)
      BY <1>1, <2>1, <2>5, <2>6, RecastIs
    <2>8. LlvmType(a) = LlvmType(ty)
      BY <2>5 DEF LlvmType
    <2>9. ty.kind = "String" => Type(m.type) = "String"
      BY <2>5, <2>7 DEF Type
    <2>10. QED  BY <2>7, <2>8, <2>9, StoredIs
  <1>8. QED  BY <1>4, <1>5, <1>6, <1>7

LEMMA AssignKeeps ==
  ASSUME Careful = TRUE, IInv, NEW ty, IsType(ty), Assign(ty)
  PROVE  IInv'
  <1>1. PICK n : n = CheckAssign(ty, expr)
    OBVIOUS
  <1>2. PICK g : g = Stored(ty, n)
    OBVIOUS
  <1>3. Good(expr) /\ ~AssignGap(ty, expr)
    BY DEF IInv, Assign
  <1>4. CASE n.shape = "none"
    BY <1>1, <1>4, EndsKeep DEF Assign
  <1>5. CASE n.shape # "none"
    <2>1. Good(n) /\ g.llvm = LlvmType(ty)
      BY <1>1, <1>2, <1>3, <1>5, AssignedIs
    <2>2. n.llvm # "ice" /\ g.llvm # "ice"
      BY <2>1, StringishAre, LlvmTypes
    <2> DEFINE ms == {m \in {Converted(ty, expr.type, a) : a \in expr.means} : Holding(ty, m)}
    <2>3. Stores([n EXCEPT !.type = ty, !.llvm = g.llvm, !.value = g.value, !.means = ms])
      BY <1>1, <1>2, <1>5, <2>2 DEF Assign
    <2> HIDE DEF ms
    <2>4. PICK node : node = [n EXCEPT !.type = ty, !.llvm = g.llvm, !.value = g.value, !.means = ms]
      OBVIOUS
    <2>5. node = [shape |-> n.shape, type |-> ty, early |-> n.early, llvm |-> g.llvm, value |-> g.value,
               means |-> ms, calls |-> n.calls, made |-> n.made, splits |-> n.splits]
      BY <2>1, <2>4 DEF Good
    <2>6. result' = node
      BY <2>3, <2>4 DEF Stores
    <2>7. result'.made = result'.calls /\ result'.llvm = LlvmType(ty) /\ result'.type = ty
      BY <2>1, <2>5, <2>6 DEF Good
    <2>8. ResultIsRight'
      BY <2>7 DEF ResultIsRight
    <2>9. QED  BY <2>3, <2>8 DEF IInv, Stores
  <1>6. QED  BY <1>4, <1>5

LEMMA LimitedIs ==
  ASSUME NEW ty, IsType(ty), NEW n, Good(n), ~LimitGap(ty, n),
         NEW m, m = CheckLimit(ty, n), m.shape # "none"
  PROVE  Good(m) /\ m.llvm = LlvmType(ty)
  <1>1. PICK from : from = n.type
    OBVIOUS
  <1>2. IsType(from) /\ n.llvm = LlvmType(from)
    BY <1>1, StringishAre
  <1>3. PICK a : a = AssignableType(from, ty)
    OBVIOUS
  <1>4. IsIntegral(ty) /\ a # NoType /\ m = Recast(n, a)
    BY <1>1, <1>3, NoneIs DEF CheckLimit
  <1>5. LlvmType(from) = LlvmType(ty)
    BY <1>1 DEF LimitGap
  <1>6. IsIntegral(from)
    BY <1>2, <1>4, <1>5, LlvmTypes
  <1>7. from.kind \notin {"Real", "Array", "String"}
    BY <1>6 DEF IsIntegral, Type
  <1>8. IsType(a) /\ Type(a) = Type(from)
    BY <1>2, <1>3, <1>4, <1>7, AssignableIs
  <1>9. Castable(from, a) /\ ~CallGap(a, n)
    BY <1>6, <1>8 DEF Castable, CallGap, IsIntegral
  <1>10. Good(m) /\ m.llvm = LlvmType(a)
    BY <1>1, <1>4, <1>8, <1>9, RecastIs
  <1>11. LlvmType(a) = LlvmType(from)
    BY <1>8 DEF LlvmType
  <1>12. QED  BY <1>5, <1>10, <1>11

LEMMA LimitKeeps ==
  ASSUME Careful = TRUE, IInv, NEW ty, IsType(ty), Limit(ty)
  PROVE  IInv'
  <1>1. PICK n : n = CheckLimit(ty, expr)
    OBVIOUS
  <1>2. Good(expr) /\ ~LimitGap(ty, expr)
    BY DEF IInv, Limit
  <1>3. CASE n.shape = "none"
    BY <1>1, <1>3, EndsKeep DEF Limit
  <1>4. CASE n.shape # "none"
    <2>1. Good(n) /\ n.llvm = LlvmType(ty)
      BY <1>1, <1>2, <1>4, LimitedIs
    <2> DEFINE ms == {m \in expr.means : LlvmType(ty) = n.llvm /\ Fits(ty, m)}
    <2>2. Stores([n EXCEPT !.shape = "limit", !.type = ty, !.means = ms])
      BY <1>1, <1>4 DEF Limit
    <2> HIDE DEF ms
    <2>3. PICK node : node = [n EXCEPT !.shape = "limit", !.type = ty, !.means = ms]
      OBVIOUS
    <2>4. node = [shape |-> "limit", type |-> ty, early |-> n.early, llvm |-> n.llvm, value |-> n.value,
               means |-> ms, calls |-> n.calls, made |-> n.made, splits |-> n.splits]
      BY <2>1, <2>3 DEF Good
    <2>5. result' = node
      BY <2>2, <2>3 DEF Stores
    <2>6. result'.made = result'.calls /\ result'.llvm = LlvmType(ty) /\ result'.type = ty
      BY <2>1, <2>4, <2>5 DEF Good
    <2>7. ResultIsRight'
      BY <2>6 DEF ResultIsRight
    <2>8. QED  BY <2>2, <2>7 DEF IInv, Stores
  <1>5. QED  BY <1>3, <1>4

LEMMA ReducedIs ==
  ASSUME NEW range, NEW n, Good(n), IsIntegral(n.type),
         NEW g, g = Reduced(range, n)
  PROVE  /\ g.llvm \in {"i32", "i64"}
         /\ Type(n.type) # "LongInt" => g.llvm = "i32"
  <1>1. PICK ty : ty = n.type
    OBVIOUS
  <1>2. IsType(ty) /\ n.llvm = LlvmType(ty) /\ IsIntegral(ty)
    BY <1>1, StringishAre
  <1>3. g.llvm = IF Width[n.llvm] < Width.i32 THEN "i32" ELSE n.llvm
    BY DEF Reduced, Wrapped
  <1>4. Width.i32 = 3
    BY DEF Width
  <1>5. n.llvm \in {"i1", "i8", "i32", "i64"}
    BY <1>2, LlvmTypes, WidthIs
  <1>6. Type(ty) # "LongInt" => n.llvm \in {"i1", "i8", "i32"}
    BY <1>2, LlvmTypes DEF IsIntegral
  <1>7. QED  BY <1>1, <1>3, <1>4, <1>5, <1>6, WidthIs

LEMMA IndexKeeps ==
  ASSUME Careful = TRUE, IInv, NEW range, NEW check \in BOOLEAN, Index(range, check)
  PROVE  IInv'
  <1>1. PICK g : g = Reduced(range, expr)
    OBVIOUS
  <1>2. Good(expr) /\ ~IndexGap(range, check, expr)
    BY DEF IInv, Index
  <1>3. CASE ~IndexAllowed(range, expr)
    BY <1>3, EndsKeep DEF Index
  <1>4. CASE IndexAllowed(range, expr)
    <2>1. IsIntegral(expr.type)
      BY <1>4 DEF IndexAllowed
    <2>2. /\ g.llvm \in {"i32", "i64"}
          /\ check => g.llvm = "i32"
      BY <1>1, <1>2, <2>1, ReducedIs DEF IndexGap
    <2> DEFINE right == {m \in expr.means : m \in range.start .. range.end}
               wrong == IF check THEN expr.means \ right ELSE {}
               ms == {m - range.start : m \in right} \cup {Outside : m \in wrong}
               ty == IF g.llvm = "i32" THEN IntegerDecl ELSE Int64Decl
               v == IF check /\ ~(g.value < Size(range)) THEN Outside ELSE g.value
    <2>3. Stores([expr EXCEPT !.shape = "index", !.type = ty, !.llvm = g.llvm, !.value = v, !.means = ms])
      BY <1>1, <1>4, <2>2 DEF Index
    <2>4. g.llvm = LlvmType(ty)
      BY <2>2, TypeNames, LlvmTypes
    <2> HIDE DEF ms, ty, v
    <2>5. PICK node : node = [expr EXCEPT !.shape = "index", !.type = ty, !.llvm = g.llvm, !.value = v,
                                          !.means = ms]
      OBVIOUS
    <2>6. node = [shape |-> "index", type |-> ty, early |-> expr.early, llvm |-> g.llvm, value |-> v,
               means |-> ms, calls |-> expr.calls, made |-> expr.made, splits |-> expr.splits]
      BY <1>2, <2>5 DEF Good
    <2>7. result' = node
      BY <2>3, <2>5 DEF Stores
    <2>8. result'.made = result'.calls /\ result'.llvm = LlvmType(ty) /\ result'.type = ty
      BY <1>2, <2>4, <2>6, <2>7 DEF Good
    <2>9. ResultIsRight'
      BY <2>8 DEF ResultIsRight
    <2>10. QED  BY <2>3, <2>9 DEF IInv, Stores
  <1>5. QED  BY <1>3, <1>4

-----------------------------------------------------------------------------
(* The theorems.                                                           *)

LEMMA StepsKeep ==
  ASSUME Careful = TRUE, IInv, [Next]_vars
  PROVE  IInv'
  <1>1. CASE UNCHANGED vars
    BY <1>1 DEF IInv, vars, ResultIsRight
  <1>2. CASE BinaryExpr
    <2>1. PICK op \in Ops, leaf \in Operands :
            Binary(op, expr, LeafNode(leaf)) \/ Binary(op, LeafNode(leaf), expr)
      BY <1>2 DEF BinaryExpr
    <2>2. op \in AllOps /\ Good(LeafNode(leaf)) /\ Good(expr)
      BY LeavesAreGood, ExpressionsAssumption DEF IInv, AllOps
    <2>3. QED  BY <2>1, <2>2, BinaryKeeps
  <1>3. ASSUME NEW op \in {"not", "-"}, UnaryExpr(op) PROVE IInv'
    BY <1>3, UnaryKeeps
  <1>4. ASSUME NEW ty \in Targets, Assign(ty) PROVE IInv'
    BY <1>4, AssignKeeps, ExpressionsAssumption
  <1>5. ASSUME NEW ty \in Targets, Limit(ty) PROVE IInv'
    BY <1>5, LimitKeeps, ExpressionsAssumption
  <1>6. ASSUME NEW range \in Indexes, NEW check \in BOOLEAN, Index(range, check) PROVE IInv'
    BY <1>6, IndexKeeps
  <1>7. QED  BY <1>1, <1>2, <1>3, <1>4, <1>5, <1>6 DEF Next

LEMMA ExpressionsAreGood ==
  ASSUME Careful = TRUE
  PROVE  Spec => []IInv
  <1>1. IInv /\ [Next]_vars => IInv'
    BY StepsKeep
  <1>2. QED  BY <1>1, InitiallyGood, PTL DEF Spec

(* The code that the compiler makes of an expression yields the LLVM type  *)
(* of the Pascal type that the semantics gave the expression, and what is  *)
(* stored, compared with the variable of a loop or taken for an index has  *)
(* the type of the place: for any types, and expressions of any length,    *)
(* casts included. Careful leaves out the operands for which it does not.  *)
THEOREM CodeHasItsType ==
  ASSUME Careful = TRUE
  PROVE  Spec => []TypesAreGenerated
  <1>1. IInv => TypesAreGenerated
    BY DEF IInv, Good, Fine, ResultIsRight, TypesAreGenerated
  <1>2. QED  BY <1>1, ExpressionsAreGood, PTL

(* No expression that the semantics accepts reaches an internal error of   *)
(* the code generator: the pairs of types that BinaryExprType,             *)
(* CompatibleType and AssignableType let pass are pairs that some branch   *)
(* of BinaryExprAST::CodeGen, TypeCastAST::CodeGen or AssignExprAST can    *)
(* compile.                                                                *)
THEOREM WhatIsAcceptedCompiles ==
  ASSUME Careful = TRUE
  PROVE  Spec => []AcceptedCompiles
  <1>1. IInv => AcceptedCompiles
    BY DEF IInv, AcceptedCompiles
  <1>2. QED  BY <1>1, ExpressionsAreGood, PTL

(* A function called once in the text of an expression is called once by   *)
(* its code, whatever casts the semantics puts around the call.            *)
THEOREM NoCallIsRepeated ==
  ASSUME Careful = TRUE
  PROVE  Spec => []CallsHappenOnce
  <1>1. IInv => CallsHappenOnce
    BY DEF IInv, Good, ResultIsRight, CallsHappenOnce
  <1>2. QED  BY <1>1, ExpressionsAreGood, PTL
=============================================================================
