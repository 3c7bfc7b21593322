------------------------------- MODULE Types -------------------------------
(* The types of the compiler (types.cpp): which are the same, which may     *)
(* meet in an expression, which may be assigned, and what LLVM makes of     *)
(* them. A type is a record: its kind, the kind it is made of (for a range, *)
(* an array and a pointer), a name, and the bounds of a range or an index.  *)
EXTENDS Integers

Decl(kind, of, name, start, end) ==
    [kind |-> kind, of |-> of, name |-> name, start |-> start, end |-> end]

Simple(kind)       == Decl(kind, kind, "", 0, 0)
RangeDecl(ty, s, e) == Decl("Range", ty.kind, ty.name, s, e)
EnumDecl(name)     == Decl("Enum", "Integer", name, 0, 0)
CharArray(s, e)    == Decl("Array", "Char", "", s, e)
IntArray(s, e)     == Decl("Array", "Integer", "", s, e)
StringDecl(cap)    == Decl("String", "Char", "", 0, cap + 1)
PointerDecl(of, name) == Decl("Pointer", of, name, 0, 0)
RecordDecl(name)   == Decl("Record", "Record", name, 0, 0)

CharDecl == Simple("Char")
BoolDecl == Simple("Boolean")
IntegerDecl == Simple("Integer")
Int64Decl == Simple("LongInt")
RealDecl == Simple("Real")
ComplexDecl == Simple("Complex")
NilDecl == PointerDecl("Void", "")

NoType == Simple("none")

(* What a type can be: a range is one of integers, truth values, characters *)
(* or values of an enumeration, and a string is made of characters.         *)
IsType(ty) ==
    /\ ty = Decl(ty.kind, ty.of, ty.name, ty.start, ty.end)
    /\ \/ ty \in {CharDecl, BoolDecl, IntegerDecl, Int64Decl, RealDecl, ComplexDecl}
       \/ ty.kind = "Enum" /\ ty.of = "Integer"
       \/ ty.kind = "Range" /\ ty.of \in {"Char", "Boolean", "Integer", "LongInt", "Enum"}
       \/ ty.kind = "String" /\ ty.of = "Char"
       \/ ty.kind \in {"Array", "Pointer", "Record"}

(* The virtual Type(): that of a range is its base's. *)
Type(ty) == IF ty.kind = "Range" THEN ty.of ELSE ty.kind

IsA(ty, kinds) == ty.kind \in kinds

IsArray(ty) == IsA(ty, {"Array", "String"})

Size(ty) == ty.end - ty.start + 1

(* The first element of a string is its length. *)
Capacity(ty) == Size(ty) - 2

IsNumeric(ty) == Type(ty) \in {"Integer", "LongInt", "Real", "Complex"}

IsIntegral(ty) == Type(ty) \in {"Char", "Integer", "LongInt", "Enum", "Boolean"}

IsUnsigned(ty) == Type(ty) \in {"Char", "Enum", "Boolean"}

IsCompound(ty) == Type(ty) \in {"Array", "String", "Record"}

IsCharArray(ty) == IsArray(ty) /\ ty.of = "Char"

IsStringLike(ty) == Type(ty) = "Char" \/ IsCharArray(ty)

(* The class derived from another one here is the class "derived", and its  *)
(* base is the class "base".                                                *)
DerivedFrom(derived, base) ==
    derived.of = "Class" /\ derived.name = "derived" /\ base.of = "Class" /\ base.name = "base"

SameAs(a, b) ==
    CASE a.kind = "Range"   -> Type(a) = Type(b) /\ (b.kind = "Range" => a.start = b.start /\ a.end = b.end)
      [] a.kind = "Enum"    -> b.kind = "Enum" /\ a.name = b.name
      [] a.kind = "Boolean" -> b.kind = "Boolean"
      [] IsArray(a)         -> a.kind = b.kind /\ a.of = b.of /\ a.start = b.start /\ a.end = b.end
      [] a.kind = "Pointer" -> b.kind = "Pointer" /\ a.of = b.of /\ a.name = b.name
      [] a.kind = "Record"  -> a = b
      [] OTHER              -> a.kind = Type(b)

(* The types by kind, the virtual functions CompatibleType. *)
CharCompatible(a, b) == IF SameAs(a, b) \/ Type(b) = "String" THEN a ELSE NoType

IntegerCompatible(a, b) == IF Type(b) = "Integer" THEN a
                           ELSE IF Type(b) \in {"LongInt", "Real", "Complex"} THEN b ELSE NoType

Int64Compatible(a, b) == IF Type(b) \in {"LongInt", "Integer"} THEN a
                         ELSE IF Type(b) \in {"Real", "Complex"} THEN b ELSE NoType

RealCompatible(a, b) == IF SameAs(a, b) \/ Type(b) \in {"LongInt", "Integer"} THEN a
                        ELSE IF Type(b) = "Complex" THEN b ELSE NoType

ComplexCompatible(a, b) == IF SameAs(a, b) \/ IsNumeric(b) THEN a ELSE NoType

RangeCompatible(a, b) == IF SameAs(a, b) THEN a
                         ELSE IF Type(b) \in {Type(a), "Real"} THEN b ELSE NoType

(* Of the ranges only the bytes that an index takes are compared.           *)
ArrayCompatible(a, b) == IF SameAs(a, b) \/ (IsArray(b) /\ a.of = b.of) THEN a ELSE NoType

StringCompatible(a, b) ==
    IF SameAs(a, b) \/ Type(b) \in {"Char", "Array"} THEN a
    ELSE IF Type(b) = "String" THEN (IF Capacity(b) > Capacity(a) THEN b ELSE a) ELSE NoType

PointerCompatible(a, b) ==
    IF SameAs(a, b) \/ (b.kind = "Pointer" /\ DerivedFrom(b, a)) THEN a ELSE NoType

CompatibleType(a, b) ==
    CASE a.kind = "Char"    -> CharCompatible(a, b)
      [] a.kind = "Integer" -> IntegerCompatible(a, b)
      [] a.kind = "LongInt" -> Int64Compatible(a, b)
      [] a.kind = "Real"    -> RealCompatible(a, b)
      [] a.kind = "Complex" -> ComplexCompatible(a, b)
      [] a.kind = "Range"   -> RangeCompatible(a, b)
      [] a.kind = "Array"   -> ArrayCompatible(a, b)
      [] a.kind = "String"  -> StringCompatible(a, b)
      [] a.kind = "Pointer" -> PointerCompatible(a, b)
      [] OTHER              -> IF SameAs(a, b) THEN a ELSE NoType

AssignableType(a, b) ==
    CASE a.kind = "Char"    -> IF SameAs(a, b) THEN a ELSE NoType
      [] a.kind = "Integer" -> IF SameAs(a, b) THEN b ELSE NoType
      [] a.kind = "LongInt" -> IF SameAs(a, b) \/ Type(b) = "Integer" THEN a ELSE NoType
      [] a.kind = "Range"   -> IF SameAs(a, b) \/ Type(b) = Type(a) THEN b ELSE NoType
      [] OTHER              -> CompatibleType(a, b)

(* The bits of the integers of LLVM: one, eight, 32 and 64 in the compiler, *)
(* few enough here for every value to be tried.                             *)
Width == [i1 |-> 1, i8 |-> 2, i32 |-> 3, i64 |-> 4]

LlvmType(ty) ==
    CASE Type(ty) = "Char"    -> "i8"
      [] Type(ty) = "Boolean" -> "i1"
      [] Type(ty) \in {"Integer", "Enum"} -> "i32"
      [] Type(ty) = "LongInt" -> "i64"
      [] Type(ty) = "Real"    -> "double"
      [] Type(ty) = "Complex" -> "complex"
      [] Type(ty) = "Pointer" -> "ptr"
      [] Type(ty) = "String"  -> "string"
      [] OTHER                -> "aggregate"
=============================================================================
