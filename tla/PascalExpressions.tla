------------------------- MODULE PascalExpressions -------------------------
(* What expressions mean: integers are integers of any size, reals are      *)
(* fractions, complex numbers pairs of them, characters and values of       *)
(* enumerations their ordinal numbers, and strings sequences. The meaning   *)
(* of an operation is a set: empty where the program may not ask for it.    *)
EXTENDS Types, Sequences, FiniteSetsExt

Compares == {"=", "<>", "<", "<=", ">", ">="}

Holds(op, order) ==
    CASE op = "="  -> order = 0
      [] op = "<>" -> order # 0
      [] op = "<"  -> order < 0
      [] op = "<=" -> order <= 0
      [] op = ">"  -> order > 0
      [] op = ">=" -> order >= 0

Truth(b) == IF b THEN 1 ELSE 0

Abs(n) == IF n < 0 THEN -n ELSE n

Quotient(a, b) == IF (a < 0) = (b < 0) THEN Abs(a) \div Abs(b) ELSE -(Abs(a) \div Abs(b))

Bits(n) == {i \in 0 .. Width.i64 - 1 : (n \div 2 ^ i) % 2 = 1}

OfBits(set) == LET n == MapThenSumSet(LAMBDA i : 2 ^ i, set)
               IN  IF Width.i64 - 1 \in set THEN n - 2 ^ Width.i64 ELSE n

BitOp(op, s, t) == CASE op = "and" -> s \cap t
                     [] op = "or"  -> s \cup t
                     [] op = "xor" -> (s \cup t) \ (s \cap t)

-----------------------------------------------------------------------------
(* Fractions in their lowest terms; what is no fraction is <<0, 0>>.        *)
NotANumber == <<0, 0>>

Divisor[a \in Nat, b \in Nat] == IF b = 0 THEN a ELSE Divisor[b, a % b]

Fraction(n, d) ==
    IF d = 0 THEN NotANumber
    ELSE LET g == Divisor[Abs(n), Abs(d)]
         IN  IF d < 0 THEN <<(-n) \div g, (-d) \div g>> ELSE <<n \div g, d \div g>>

Whole(n) == <<n, 1>>

Power(a, n) == IF n = 0 THEN 1 ELSE a ^ n

RPower(x, n) ==
    IF n >= 0 THEN Fraction(Power(x[1], n), Power(x[2], n)) ELSE Fraction(x[2] ^ (-n), x[1] ^ (-n))

ROp(op, x, y) ==
    IF NotANumber \in {x, y} THEN NotANumber
    ELSE CASE op = "+" -> Fraction(x[1] * y[2] + y[1] * x[2], x[2] * y[2])
           [] op = "-" -> Fraction(x[1] * y[2] - y[1] * x[2], x[2] * y[2])
           [] op = "*" -> Fraction(x[1] * y[1], x[2] * y[2])
           [] op = "/" -> Fraction(x[1] * y[2], x[2] * y[1])
           [] op \in {"pow", "**"} -> IF y[2] = 1 THEN RPower(x, y[1]) ELSE NotANumber

ROrder(x, y) == x[1] * y[2] - y[1] * x[2]

(* Complex numbers. *)
CTimes(x, y) == <<ROp("-", ROp("*", x[1], y[1]), ROp("*", x[2], y[2])),
                  ROp("+", ROp("*", x[1], y[2]), ROp("*", x[2], y[1]))>>

CReciprocal(x) ==
    LET norm == ROp("+", ROp("*", x[1], x[1]), ROp("*", x[2], x[2]))
    IN  <<ROp("/", x[1], norm), ROp("/", ROp("-", Whole(0), x[2]), norm)>>

CPower(x, y) ==
    LET up[n \in 0 .. Abs(y[1])] == IF n = 0 THEN <<Whole(1), Whole(0)>> ELSE CTimes(x, up[n - 1])
    IN  IF y[2] # 1 THEN <<NotANumber, NotANumber>>
        ELSE IF y[1] >= 0 THEN up[y[1]] ELSE CReciprocal(up[-y[1]])

(* Text, the shorter of two before the longer.                              *)
TextOrder(s, t) ==
    LET both == 1 .. Min({Len(s), Len(t)})
        apart == {i \in both : s[i] # t[i]}
    IN  IF apart = {} THEN Len(s) - Len(t) ELSE s[Min(apart)] - t[Min(apart)]

-----------------------------------------------------------------------------
AsReal(ty, m) == IF Type(ty) = "Real" THEN m ELSE Whole(m)

AsComplex(ty, m) == IF Type(ty) = "Complex" THEN m ELSE <<AsReal(ty, m), Whole(0)>>

AsText(ty, m) == IF Type(ty) = "Char" THEN <<m>> ELSE m

OrdinalMeaning(op, a, b) ==
    CASE op \in Compares -> {Truth(Holds(op, a - b))}
      [] op = "+" -> {a + b}
      [] op = "-" -> {a - b}
      [] op = "*" -> {a * b}
      [] op = "div" -> IF b = 0 THEN {} ELSE {Quotient(a, b)}
      [] op = "mod" -> IF b <= 0 THEN {} ELSE {a % b}
      [] op = "pow" -> IF a = 0 /\ b <= 0 THEN {}
                       ELSE IF b >= 0 THEN {Power(a, b)} ELSE {Quotient(1, a ^ (-b))}
      [] op = "shl" -> IF a < 0 \/ b \notin 0 .. Width.i32 - 1 THEN {} ELSE {a * 2 ^ b}
      [] op = "shr" -> IF a < 0 \/ b \notin 0 .. Width.i32 - 1 THEN {} ELSE {a \div 2 ^ b}
      [] op \in {"and", "or", "xor"} -> {OfBits(BitOp(op, Bits(a), Bits(b)))}
      [] op = "and_then" -> {Truth(a = 1 /\ b = 1)}
      [] op = "or_else" -> {Truth(a = 1 \/ b = 1)}

(* Zero is raised to what is positive.                                      *)
Raises(op, isZero, y) == op \in {"pow", "**"} /\ isZero => y[1] > 0

RealMeaning(op, x, y) ==
    IF op \in Compares THEN {Truth(Holds(op, ROrder(x, y)))}
    ELSE {z \in {ROp(op, x, y)} : Raises(op, x[1] = 0, y)} \ {NotANumber}

ComplexMeaning(op, x, y) ==
    {z \in CASE op \in {"=", "<>"} -> {Truth((op = "=") = (x = y))}
             [] op \in {"+", "-"} -> {<<ROp(op, x[1], y[1]), ROp(op, x[2], y[2])>>}
             [] op = "*" -> {CTimes(x, y)}
             [] op = "/" -> {CTimes(x, CReciprocal(y))}
             [] op \in {"pow", "**"} -> {CPower(x, y[1])} :
        op \in {"=", "<>"} \/ (NotANumber \notin {z[1], z[2]} /\ Raises(op, x = <<Whole(0), Whole(0)>>, y[1]))}

TextMeaning(op, s, t) == IF op = "+" THEN {s \o t} ELSE {Truth(Holds(op, TextOrder(s, t)))}

(* The operation on a value l of the type lt and a value r of the type rt.  *)
Meaning(op, lt, l, rt, r) ==
    CASE "Complex" \in {Type(lt), Type(rt)} -> ComplexMeaning(op, AsComplex(lt, l), AsComplex(rt, r))
      [] "Complex" \notin {Type(lt), Type(rt)} /\ ("Real" \in {Type(lt), Type(rt)} \/ op \in {"/", "**"})
             -> RealMeaning(op, AsReal(lt, l), AsReal(rt, r))
      [] (IsCharArray(lt) \/ IsCharArray(rt)) \/ (op = "+" /\ {Type(lt), Type(rt)} = {"Char"})
             -> TextMeaning(op, AsText(lt, l), AsText(rt, r))
      [] OTHER -> OrdinalMeaning(op, l, r)

(* The values that there are of a type, as meanings.                        *)
Fits(ty, m) ==
    CASE IsUnsigned(ty) -> m >= 0 /\ m < 2 ^ Width[LlvmType(ty)]
      [] Type(ty) \in {"Integer", "LongInt"} ->
             LET half == 2 ^ (Width[LlvmType(ty)] - 1) IN m >= -half /\ m < half
      [] Type(ty) = "String" -> Len(m) <= Capacity(ty)
      [] OTHER -> TRUE

(* Those that a variable of the type may be given.                          *)
Holding(ty, m) == Fits(ty, m) /\ (ty.kind = "Range" => m \in ty.start .. ty.end)

(* The meanings of not, for truth values and for bits, and of minus.        *)
UnaryMeaning(op, ty, m) ==
    CASE op = "not" -> IF Type(ty) = "Boolean" THEN {1 - m}
                       ELSE IF IsNumeric(ty) THEN {-m - 1} ELSE {}
      [] op = "-" -> CASE Type(ty) = "Real" -> {ROp("-", Whole(0), m)}
                       [] Type(ty) = "Complex" -> {<<ROp("-", Whole(0), m[1]), ROp("-", Whole(0), m[2])>>}
                       [] OTHER -> {-m}

(* A value of the type from, assigned to a variable of the type to.         *)
Converted(to, from, m) == CASE Type(to) = "Real" -> AsReal(from, m)
                            [] Type(to) = "Complex" -> AsComplex(from, m)
                            [] Type(to) = "String" -> AsText(from, m)
                            [] OTHER -> m
=============================================================================
