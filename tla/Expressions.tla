---------------------------- MODULE Expressions ----------------------------
(* Types checked (semantics.cpp) and expressions compiled (expr.cpp): an    *)
(* expression grows by an operator at a time, to the left or to the right,  *)
(* and ends as the right side of an assignment, the limit of a for loop or  *)
(* an index. For every node there is what the semantics makes of its type,  *)
(* what the code generated for it yields, and what it means.                *)
EXTENDS PascalExpressions

CONSTANTS Leaves,      \* variables, literals and calls
          Operands,    \* those of them that an operator adds
          Ops,         \* binary operators
          Targets,     \* the types of variables assigned to and looped over
          Indexes,     \* the ranges of the indexes of arrays
          MaxStringLen, \* 255 in the compiler
          MaxOps,      \* bound: operators in an expression
          MaxReal,     \* bound: numerators and denominators that operators are applied to
          MaxStored,   \* bound: operators in one that is stored or an index
          Careful      \* TRUE: nothing that is known to go wrong

ShortCircuits == {"and_then", "or_else"}

(* What the parser makes a literal of has a type that goes with it.         *)
IsLeaf(leaf) ==
    /\ leaf.shape \in {"variable", "call", "integer", "char", "string", "nil"}
    /\ IsType(leaf.type)
    /\ leaf.shape = "integer" => leaf.type.kind \in {"Integer", "LongInt", "Boolean", "Enum"}
    /\ leaf.shape = "char"    => leaf.type = CharDecl
    /\ leaf.shape = "string"  => leaf.type.kind = "Array" /\ leaf.type.of = "Char"
    /\ leaf.shape = "nil"     => leaf.type = NilDecl

ASSUME ExpressionsAssumption ==
    /\ \A leaf \in Leaves \cup Operands : IsLeaf(leaf)
    /\ \A ty \in Targets : IsType(ty)
    /\ \A range \in Indexes : IsType(range) /\ range.kind = "Range"
    /\ Ops \subseteq Compares \cup ShortCircuits
                 \cup {"+", "-", "*", "/", "**", "pow", "div", "mod", "and", "or", "xor", "shl", "shr"}
    /\ Careful \in BOOLEAN

VARIABLES expr,    \* the expression
          ops,     \* its operators
          result,  \* what was stored, or the index computed
          verdict  \* of the compiler, or of the program

vars == <<expr, ops, result, verdict>>

None == [shape |-> "none", type |-> NoType, early |-> NoType, llvm |-> "none", value |-> 0,
         means |-> {}, calls |-> 0, made |-> 0, splits |-> FALSE]

Signed(llvm, v) == IF v >= 2 ^ (Width[llvm] - 1) THEN v - 2 ^ Width[llvm] ELSE v

Wrapped(llvm, v) == [llvm |-> llvm, value |-> v % 2 ^ Width[llvm]]

Double(x) == [llvm |-> "double", value |-> x]

Bool(b) == Wrapped("i1", Truth(b))

(* The compiler's internal error.                                           *)
ICE == [llvm |-> "ice", value |-> 0]

(* The value of a type that has a meaning.                                  *)
Represented(ty, m) == IF IsIntegral(ty) THEN Wrapped(LlvmType(ty), m) ELSE [llvm |-> LlvmType(ty), value |-> m]

IsIntegerExpr(n) == n.shape \in {"integer", "char"}

-----------------------------------------------------------------------------
(* Casts.                                                                   *)

(* Mutant: the value is computed twice for a real, too.                     *)
RunsTwiceForReals(n, ty) == Type(ty) \in {"Real", "Complex"} /\ IsIntegral(n.type)

(* TypeCastAST::Address generates the code of an integral expression twice  *)
(* for a complex number.                                                    *)
RunsTwice(n, ty) == Type(ty) = "Complex" /\ IsIntegral(n.type)

(* MakeStringFromExpr. *)
MakeString(n) ==
    IF IsA(n.type, {"Char"}) THEN [llvm |-> "string", value |-> <<n.value>>]
    ELSE IF IsCharArray(n.type) THEN [llvm |-> "string", value |-> n.value] ELSE ICE

(* TypeCastAST::CodeGen. *)
CastCodeGen(n, ty) ==
    CASE Type(ty) = "Complex" ->
             IF IsIntegral(n.type) THEN [llvm |-> "complex", value |-> <<Whole(Signed(n.llvm, n.value)), Whole(0)>>]
             ELSE IF n.llvm = "double" THEN [llvm |-> "complex", value |-> <<n.value, Whole(0)>>] ELSE ICE
      [] Type(ty) = "Real" -> IF n.llvm \in DOMAIN Width THEN Double(Whole(Signed(n.llvm, n.value))) ELSE ICE
      [] IsIntegral(ty) ->
             IF ~IsIntegral(n.type) \/ Width[LlvmType(ty)] < Width[n.llvm] THEN ICE
             ELSE Wrapped(LlvmType(ty), IF IsUnsigned(ty) THEN n.value ELSE Signed(n.llvm, n.value))
      [] Type(ty) = "Pointer" -> IF n.llvm = "ptr" THEN [llvm |-> "ptr", value |-> n.value] ELSE ICE
      [] Type(ty) = "String" -> MakeString(n)
      [] OTHER -> ICE

Recast(n, ty) ==
    IF SameAs(ty, n.type) THEN n
    ELSE LET g == CastCodeGen(n, ty)
         IN  [n EXCEPT !.shape = "cast", !.type = ty, !.llvm = g.llvm, !.value = g.value,
                       !.made = IF RunsTwice(n, ty) THEN 2 * @ ELSE @]

-----------------------------------------------------------------------------
(* The semantics.                                                           *)
Typed(ty, l, r) == [ty |-> ty, l |-> l, r |-> r]

Rejected == Typed(NoType, None, None)

(* A type for the operation, and no rule that gives it: then the operands   *)
(* decide.                                                                  *)
Undecided(l, r) == Typed(Simple("undecided"), l, r)

(* Mutant: only the left side is converted.                                 *)
DivideTypeOfTheLeft(l, r, ty) == IF IsNumeric(l.type) /\ IsNumeric(r.type)
                                 THEN Typed(ty, Recast(l, ty), r) ELSE Rejected

DivideType(l, r, ty) == IF IsNumeric(l.type) /\ IsNumeric(r.type)
                        THEN Typed(ty, Recast(l, ty), Recast(r, ty)) ELSE Rejected

PowerType(l, r) ==
    LET ty == IF IsA(l.type, {"Complex"}) THEN ComplexDecl ELSE RealDecl
    IN  IF IsNumeric(l.type) /\ IsNumeric(r.type) /\ ~IsA(r.type, {"Complex"})
        THEN Typed(ty, Recast(l, ty), Recast(r, RealDecl)) ELSE Rejected

(* BinaryExprType, without sets. *)
BinaryExprType(op, l, r) ==
    LET lty == l.type
        rty == r.type
        kinds == {lty.kind, rty.kind}
        string == StringDecl(MaxStringLen)
    IN  IF op \in Compares /\ kinds = {"Complex"}
        THEN IF op \in {"=", "<>"} THEN Typed(BoolDecl, l, r) ELSE Rejected
        ELSE IF op \in Compares /\ "String" \in kinds
        THEN Typed(BoolDecl, Recast(l, string), Recast(r, string))
        ELSE IF op \in ShortCircuits
        THEN IF {lty, rty} = {BoolDecl} THEN Typed(BoolDecl, l, r) ELSE Rejected
        ELSE IF op = "+" /\ IsStringLike(lty) /\ IsStringLike(rty) THEN Typed(string, l, r)
        ELSE IF op = "pow" /\ lty.kind = "Complex"
        THEN IF IsIntegral(rty) /\ rty.kind # "Char" THEN Typed(lty, l, Recast(r, RealDecl)) ELSE Rejected
        ELSE IF op = "/" THEN DivideType(l, r, IF "Complex" \in kinds THEN ComplexDecl ELSE RealDecl)
        ELSE IF op = "**" THEN PowerType(l, r)
        ELSE IF op \in {"=", "<>"} /\ lty.kind = "Pointer" /\ r.shape = "nil" THEN Typed(lty, l, Recast(r, lty))
        ELSE IF op \in {"=", "<>"} /\ rty.kind = "Pointer" /\ l.shape = "nil" THEN Typed(rty, Recast(l, rty), r)
        ELSE IF lty.kind = "Range" /\ IsIntegerExpr(r) THEN Typed(lty, l, r)
        ELSE IF rty.kind = "Range" /\ IsIntegerExpr(l) THEN Typed(rty, l, r)
        ELSE Undecided(l, r)

(* What Check<BinaryExprAST> demands of the operands. *)
OperandsAllowed(op, lty, rty) ==
    CASE op = "pow" -> IsNumeric(lty) /\ IsIntegral(rty) /\ rty.kind # "Char"
      [] op \in {"div", "mod", "and", "or", "xor"} ->
             IsIntegral(lty) /\ IsIntegral(rty) /\ "Char" \notin {lty.kind, rty.kind}
      [] op \in {"+", "-", "*"} -> IsNumeric(lty) /\ IsNumeric(rty)
      [] OTHER -> TRUE

CheckBinaryExpr(op, l, r) ==
    LET t == BinaryExprType(op, l, r)
        common == CompatibleType(l.type, r.type)
    IN  IF t.ty # Simple("undecided") THEN t
        ELSE IF ~OperandsAllowed(op, l.type, r.type) THEN Rejected
        ELSE IF op \in {"and", "or", "xor"} /\ {l.type, r.type} = {BoolDecl} THEN Typed(BoolDecl, l, r)
        ELSE IF common = NoType THEN Rejected
        ELSE IF IsCompound(common) THEN Typed(common, l, r)
        ELSE Typed(common, Recast(l, common), Recast(r, common))

(* Mutant: the right side stays as it is.                                   *)
CheckAssignOfTheSame(lty, n) == IF AssignableType(lty, n.type) = NoType THEN None ELSE n

(* Check<AssignExprAST>: the right side for a variable of the type lty.     *)
CheckAssign(lty, n) ==
    LET ty == AssignableType(lty, n.type)
    IN  IF lty.kind = "Pointer" /\ n.shape = "nil" THEN Recast(n, lty)
        ELSE IF lty.kind = "Range" /\ IsIntegerExpr(n)
        THEN IF \A m \in n.means : m \in lty.start .. lty.end THEN n ELSE None
        ELSE IF lty.kind = "Array" /\ IsCharArray(lty) /\ n.shape = "string"
        THEN IF Size(lty) >= Len(n.value) THEN n ELSE None
        ELSE IF ty = NoType THEN None ELSE Recast(n, ty)

(* Check<ForExprAST>: a limit of a loop over a variable of the type vty.    *)
CheckLimit(vty, n) ==
    LET ty == AssignableType(n.type, vty)
    IN  IF ~IsIntegral(vty) \/ ty = NoType THEN None ELSE Recast(n, ty)

(* Check<ArrayExprAST>. *)
IndexAllowed(range, n) ==
    IsIntegral(n.type) /\ (Type(range) = Type(n.type) \/ CompatibleType(n.type, range) # NoType)

-----------------------------------------------------------------------------
(* The code generated.                                                      *)
Stringish(n) == n.shape \in {"char", "string"} \/ IsA(n.type, {"Char", "String"})

Text(n) == IF n.llvm = "i8" THEN <<n.value>> ELSE n.value

StrConcat(s, t) == SubSeq(s \o t, 1, Min({MaxStringLen, Len(s \o t)}))

(* __StrCompare, __ArrCompare and the comparison of the result. *)
StrCompare(op, s, t) == IF op \in Compares THEN Bool(Holds(op, TextOrder(s, t))) ELSE ICE

(* Mutant: integers are compared as they are. *)
CompareUnsigned(op, a, b, llvm, isUnsigned) == Bool(Holds(op, a - b))

CompareInts(op, a, b, llvm, isUnsigned) ==
    Bool(Holds(op, IF isUnsigned \/ op \in {"=", "<>"} THEN a - b ELSE Signed(llvm, a) - Signed(llvm, b)))

PowerInt(a, b) == IF b >= 0 THEN Power(a, b)
                  ELSE IF a # -1 THEN 0 ELSE IF b % 2 = 1 THEN a ELSE 1

(* The program stops.                                                       *)
Traps(op, l, r) ==
    /\ op \in {"div", "mod"}
    /\ \/ r.value = 0
       \/ l.value = 2 ^ (Width[l.llvm] - 1) /\ Signed(r.llvm, r.value) = -1

IntegerBinExpr(op, a, b, llvm, isUnsigned) ==
    LET sa == Signed(llvm, a)
        sb == Signed(llvm, b)
    IN  CASE op \in Compares -> CompareInts(op, a, b, llvm, isUnsigned)
          [] op = "+" -> Wrapped(llvm, a + b)
          [] op = "-" -> Wrapped(llvm, a - b)
          [] op = "*" -> Wrapped(llvm, a * b)
          [] op = "div" -> Wrapped(llvm, Quotient(sa, sb))
          [] op = "mod" -> Wrapped(llvm, sa - sb * Quotient(sa, sb))
          [] op = "shr" -> Wrapped(llvm, a \div 2 ^ b)
          [] op = "shl" -> Wrapped(llvm, a * 2 ^ b)
          [] op \in {"and", "or", "xor"} -> Wrapped(llvm, OfBits(BitOp(op, Bits(a), Bits(b))))
          [] op = "pow" /\ llvm = "i32" -> Wrapped(llvm, PowerInt(sa, sb))
          [] OTHER -> ICE

DoubleBinExpr(op, x, y) ==
    CASE op \in Compares -> Bool(Holds(op, ROrder(x, y)))
      [] op \in {"+", "-", "*", "/", "pow", "**"} -> Double(ROp(op, x, y))
      [] OTHER -> ICE

(* __cpow. *)
CPow(x, y) == IF x = <<Whole(0), Whole(0)>> THEN x ELSE CPower(x, y)

ComplexBinExpr(op, l, r) ==
    LET x == l.value
        y == r.value
        norm == ROp("+", ROp("*", y[1], y[1]), ROp("*", y[2], y[2]))
        Complex(re, im) == [llvm |-> "complex", value |-> <<re, im>>]
    IN  CASE op \in {"+", "-"} -> Complex(ROp(op, x[1], y[1]), ROp(op, x[2], y[2]))
          [] op = "*" -> Complex(CTimes(x, y)[1], CTimes(x, y)[2])
          [] op = "/" -> Complex(ROp("/", ROp("+", ROp("*", x[1], y[1]), ROp("*", x[2], y[2])), norm),
                                 ROp("/", ROp("-", ROp("*", x[2], y[1]), ROp("*", x[1], y[2])), norm))
          [] op \in {"pow", "**"} -> Complex(CPow(x, y)[1], CPow(x, y)[2])
          [] op = "=" -> Bool(x[1] = y[1] /\ x[2] = y[2])
          [] op = "<>" -> Bool(x[1] # y[1] \/ x[2] # y[2])
          [] OTHER -> ICE

(* What ComplexBinExpr takes for its right operand. *)
ComplexRight(op) == IF op \in {"pow", "**"} THEN "double" ELSE "complex"

(* BinaryExprAST::CodeGen. *)
BinaryCodeGen(op, l, r) ==
    IF Stringish(l) /\ Stringish(r) /\ (op = "+" \/ {l.type.kind, r.type.kind} # {"Char"})
    THEN IF "ice" \in {l.llvm, r.llvm} THEN ICE
         ELSE IF op = "+" THEN [llvm |-> "string", value |-> StrConcat(Text(l), Text(r))]
         ELSE StrCompare(op, Text(l), Text(r))
    ELSE IF "ice" \in {l.llvm, r.llvm} THEN ICE
    ELSE IF IsArray(l.type) /\ IsArray(r.type) /\ op = "+"
    THEN [llvm |-> "string", value |-> StrConcat(l.value, r.value)]
    ELSE IF IsCharArray(l.type) /\ IsCharArray(r.type)
    THEN IF Size(l.type) = Size(r.type) THEN StrCompare(op, l.value, r.value) ELSE ICE
    ELSE IF op \in ShortCircuits
    THEN IF r.splits THEN ICE ELSE Bool(IF op = "and_then" THEN l.value = 1 /\ r.value = 1 ELSE l.value = 1 \/ r.value = 1)
    ELSE IF IsA(l.type, {"Complex"})
    THEN IF r.llvm = ComplexRight(op) THEN ComplexBinExpr(op, l, r) ELSE ICE
    ELSE IF l.llvm # r.llvm THEN ICE
    ELSE IF l.llvm = "ptr" /\ op \in {"=", "<>"} THEN Bool((op = "=") = (l.value = r.value))
    ELSE IF l.llvm \in DOMAIN Width THEN IntegerBinExpr(op, l.value, r.value, l.llvm, IsUnsigned(r.type))
    ELSE IF l.llvm = "double" THEN DoubleBinExpr(op, l.value, r.value)
    ELSE ICE

(* BinaryExprAST::Type before the semantics have seen it, when a unary      *)
(* operator in front takes its type.                                        *)
EarlyType(op, l, r) == IF op \in Compares THEN BoolDecl
                       ELSE IF op \in {"/", "**"} /\ IsIntegral(l.early) THEN RealDecl
                       ELSE l.early

-----------------------------------------------------------------------------
(* What is known to go wrong, a pair of operands or a place at a time.      *)
Kinds(l, r) == {l.type.kind, r.type.kind}

Negative(n) == n.llvm \in DOMAIN Width /\ Signed(n.llvm, n.value) < 0

(* What has no sign gets one on its way to a real number: an exponent, or a *)
(* subrange that meets a real number.                                       *)
SignGap(l, r) == /\ {"Real", "Complex"} \cap Kinds(l, r) # {}
                 /\ IsUnsigned(l.type) \/ IsUnsigned(r.type)

(* A call that becomes a complex number is made twice.                      *)
CallGap(ty, n) == Type(ty) = "Complex" /\ IsIntegral(n.type) /\ n.calls > 0

(* A subrange and a literal are let pass, of whatever types.                *)
OddLiteral(ty, n) == ty.kind = "Range" /\ IsIntegerExpr(n) /\ Type(ty) # Type(n.type)

(* And with any operator.                                                   *)
LiteralGap(op, ty, n) ==
    OddLiteral(ty, n) \/ (ty.kind = "Range" /\ IsIntegerExpr(n) /\ op \notin Compares /\ ~IsNumeric(ty))

(* A string is compared with anything; only what is text can be converted.  *)
OddText(n) == n.type.kind # "Char" /\ ~IsCharArray(n.type)

ComparisonGap(op, l, r) ==
    \/ "String" \in Kinds(l, r) /\ (OddText(l) \/ OddText(r))
    \/ "Complex" \in Kinds(l, r) /\ Kinds(l, r) # {"Complex"} /\ op \notin {"=", "<>"}  \* has no order
    \/ "Pointer" \in Kinds(l, r) /\ op \notin {"=", "<>"}    \* nor have pointers
    \/ \E n \in {l, r} : IsCompound(n.type) /\ ~IsCharArray(n.type)  \* compared by nothing
    \/ IsCharArray(l.type) /\ IsCharArray(r.type) /\ Size(l.type) # Size(r.type)

ConcatenationGap(l, r) ==
    /\ IsStringLike(l.type) /\ IsStringLike(r.type)
    /\ \/ "Range" \in Kinds(l, r)            \* of Char, which is no Char any more
       \/ Kinds(l, r) = {"Char", "Array"}    \* one of them Stringish, the other an array

(* Nothing is demanded of the operands of a shift.                         *)
ShiftGap(l, r) == ~({Type(l.type), Type(r.type)} \subseteq {"Integer", "LongInt"})

(* PowerInt is made of 32 bits, and 1 pow -1 is 0.                          *)
PowGap(l, r) == \/ "LongInt" \in {Type(l.type), Type(r.type)}
                \/ Type(l.type) = "Integer" /\ l.value = 1 /\ Negative(r)

(* The division is LLVM's, with the sign of the dividend and for what has *)
(* none, too.                                                              *)
DivisionGap(op, l, r) == \/ IsUnsigned(l.type)
                         \/ op = "mod" /\ Negative(l)

Gap(op, l, r) ==
    \/ CallGap(l.type, r) \/ CallGap(r.type, l) \/ SignGap(l, r)
    \/ LiteralGap(op, l.type, r) \/ LiteralGap(op, r.type, l)
    \/ op \in Compares /\ ComparisonGap(op, l, r)
    \/ op = "+" /\ ConcatenationGap(l, r)
    \/ op \in {"shl", "shr"} /\ ShiftGap(l, r)
    \/ op = "pow" /\ PowGap(l, r)
    \/ op \in {"div", "mod"} /\ DivisionGap(op, l, r)
    \/ op \in ShortCircuits /\ r.splits

(* A complex number has no minus, and an operand must not have changed its  *)
(* type since it was read (UpdateType).                                     *)
UnaryGap(op, n) == IsA(n.type, {"Complex"}) \/ n.early # n.type

AssignGap(ty, n) ==
    \/ OddLiteral(ty, n) \/ CallGap(ty, n)
    \/ ty.kind = "Real" /\ IsA(n.type, {"Complex"})           \* stored over what follows
    \/ ty.kind = "String" /\ OddText(n)
    \/ ty.kind = "Array" /\ ~SameAs(ty, n.type) /\ n.shape # "string" \* compared by the type of their index
    \/ ty.kind = "Array" /\ n.shape = "string" /\ Len(n.value) # Size(ty)  \* leaves the rest as it was

(* The question is whether the limit could be given the variable.           *)
LimitGap(ty, n) == LlvmType(ty) # LlvmType(n.type)

(* The size is one of 32 bits.                                              *)
IndexGap(range, check, n) == check /\ Type(n.type) = "LongInt"

-----------------------------------------------------------------------------
(* A variable, a literal or a call, of the type ty and with the meaning m.  *)
LeafNode(leaf) ==
    LET g == Represented(leaf.type, leaf.means)
        c == Truth(leaf.shape = "call")
    IN  [shape |-> leaf.shape, type |-> leaf.type, early |-> leaf.type, llvm |-> g.llvm, value |-> g.value,
         means |-> {leaf.means}, calls |-> c, made |-> c, splits |-> FALSE]

Init == /\ expr \in {LeafNode(leaf) : leaf \in Leaves}
        /\ ops = 0
        /\ result = None
        /\ verdict = "open"

Ends(v) == verdict' = v /\ UNCHANGED <<expr, ops, result>>

(* The right side of a short circuit runs when the left one has not decided. *)
RunsRight(op, l) == op \notin ShortCircuits \/ l.value = Truth(op = "and_then")

Splits(op, llvm, l, r) == l.splits \/ r.splits \/ op \in ShortCircuits \/ (op = "pow" /\ llvm = "i32")

(* What the operation means, as far as the type ty has it.                  *)
Meanings(op, l, r, ty) ==
    {m \in UNION {Meaning(op, l.type, a, r.type, b) : a \in l.means, b \in r.means} : Fits(ty, m)}

BinaryNode(op, l, r, t, g) ==
    LET ty == IF op \in Compares THEN BoolDecl ELSE t.ty
        right == Truth(RunsRight(op, l))
    IN  [shape |-> "other", type |-> ty, early |-> EarlyType(op, l, r), llvm |-> g.llvm, value |-> g.value,
         means |-> Meanings(op, l, r, ty),
         calls |-> l.calls + right * r.calls, made |-> t.l.made + right * t.r.made,
         splits |-> Splits(op, g.llvm, l, r)]

Binary(op, l, r) ==
    LET t == CheckBinaryExpr(op, l, r)
        g == BinaryCodeGen(op, t.l, t.r)
    IN  /\ Careful => ~Gap(op, l, r)
        /\ IF t.ty = NoType THEN Ends("rejected")
           ELSE IF "ice" \in {t.l.llvm, t.r.llvm} THEN Ends("ice")
           ELSE IF t.l.llvm = t.r.llvm /\ Traps(op, t.l, t.r) THEN Ends("stopped")
           ELSE IF g.llvm = "ice" THEN Ends("ice")
           ELSE expr' = BinaryNode(op, l, r, t, g) /\ ops' = ops + 1 /\ UNCHANGED <<result, verdict>>

SmallFraction(x) == x[1] \in -MaxReal .. MaxReal /\ x[2] \in 1 .. MaxReal

Small(n) == CASE n.llvm = "double"  -> SmallFraction(n.value)
              [] n.llvm = "complex" -> SmallFraction(n.value[1]) /\ SmallFraction(n.value[2])
              [] OTHER -> TRUE

Growing == verdict = "open" /\ ops < MaxOps /\ Small(expr)

BinaryExpr == \E op \in Ops, leaf \in Operands :
    Growing /\ (Binary(op, expr, LeafNode(leaf)) \/ Binary(op, LeafNode(leaf), expr))

(* Check<UnaryExprAST>. *)
UnaryAllowed(op, ty) == IF op = "not" THEN IsIntegral(ty) /\ ty.kind # "Char" ELSE IsNumeric(ty)

(* Mutant: not is the complement of a truth value, whatever the width.      *)
UnaryCodeGenOfTruth(op, n) ==
    CASE n.llvm \in DOMAIN Width -> [llvm |-> n.llvm, value |-> IF op = "-" THEN (-n.value) % 2 ^ Width[n.llvm] ELSE 1 - n.value]
      [] n.llvm = "double" /\ op = "-" -> Double(ROp("-", Whole(0), n.value))
      [] OTHER -> ICE

(* UnaryExprAST::CodeGen. *)
UnaryCodeGen(op, n) ==
    CASE n.llvm \in DOMAIN Width -> Wrapped(n.llvm, IF op = "-" THEN -n.value ELSE -n.value - 1)
      [] n.llvm = "double" /\ op = "-" -> Double(ROp("-", Whole(0), n.value))
      [] OTHER -> ICE

(* UpdateType: the type is the one that the operand had when it was read.   *)
UnaryExpr(op) ==
    LET g == UnaryCodeGen(op, expr)
    IN  /\ Growing
        /\ Careful => ~UnaryGap(op, expr)
        /\ IF ~UnaryAllowed(op, expr.type) THEN Ends("rejected")
           ELSE IF expr.early # expr.type \/ g.llvm = "ice" THEN Ends("ice")
           ELSE /\ expr' = [expr EXCEPT !.shape = "other", !.value = g.value,
                                !.means = {m \in UNION {UnaryMeaning(op, expr.type, a) : a \in @} : Fits(expr.type, m)}]
                /\ ops' = ops + 1
                /\ UNCHANGED <<result, verdict>>

Storing == verdict = "open" /\ ops <= MaxStored

Stores(node) == result' = node /\ verdict' = "done" /\ UNCHANGED <<expr, ops>>

(* The prefix of an array that a literal fills, before the end of the old   *)
(* contents.                                                                *)
Filled(ty, old, text) == text \o SubSeq(old, Len(text) + 1, Size(ty))

Old(ty) == [i \in 1 .. Size(ty) |-> 0]

(* AssignExprAST::CodeGen. *)
Stored(ty, n) ==
    IF ty.kind = "String" THEN MakeString(n)
    ELSE IF n.shape = "string" /\ IsCharArray(ty) THEN [llvm |-> "aggregate", value |-> Filled(ty, Old(ty), n.value)]
    ELSE [llvm |-> n.llvm, value |-> n.value]

Assign(ty) ==
    LET n == CheckAssign(ty, expr)
        g == Stored(ty, n)
    IN  /\ Storing
        /\ Careful => ~AssignGap(ty, expr)
        /\ IF n.shape = "none" THEN Ends("rejected")
           ELSE IF "ice" \in {n.llvm, g.llvm} THEN Ends("ice")
           ELSE Stores([n EXCEPT !.type = ty, !.llvm = g.llvm, !.value = g.value,
                            !.means = {m \in {Converted(ty, expr.type, a) : a \in expr.means} : Holding(ty, m)}])

(* The end of a for loop over a variable of the type, which is compared to  *)
(* the variable.                                                            *)
Limit(ty) ==
    LET n == CheckLimit(ty, expr)
    IN  /\ Storing
        /\ Careful => ~LimitGap(ty, expr)
        /\ IF n.shape = "none" THEN Ends("rejected")
           ELSE Stores([n EXCEPT !.shape = "limit", !.type = ty,
                            !.means = {m \in expr.means : LlvmType(ty) = n.llvm /\ Fits(ty, m)}])

Outside == -1

(* RangeReduceAST::CodeGen and RangeCheckAST::CodeGen: the index from zero. *)
Reduced(range, n) ==
    LET llvm == IF Width[n.llvm] < Width.i32 THEN "i32" ELSE n.llvm
        from0 == (n.value - range.start) % 2 ^ Width[n.llvm]
    IN  Wrapped(llvm, IF IsUnsigned(n.type) THEN from0 ELSE Signed(n.llvm, from0))

Index(range, check) ==
    LET g == Reduced(range, expr)
        inside == g.value < Size(range)
        right == {m \in expr.means : m \in range.start .. range.end}
        wrong == IF check THEN expr.means \ right ELSE {}
    IN  /\ Storing
        /\ Careful => ~IndexGap(range, check, expr)
        /\ IF ~IndexAllowed(range, expr) THEN Ends("rejected")
           ELSE IF check /\ g.llvm # "i32" THEN Ends("ice")
           ELSE Stores([expr EXCEPT !.shape = "index", !.type = IF g.llvm = "i32" THEN IntegerDecl ELSE Int64Decl, !.llvm = g.llvm,
                            !.value = IF check /\ ~inside THEN Outside ELSE g.value,
                            !.means = {m - range.start : m \in right} \cup {Outside : m \in wrong}])

Next == \/ BinaryExpr
        \/ \E op \in {"not", "-"} : UnaryExpr(op)
        \/ \E ty \in Targets : Assign(ty) \/ Limit(ty)
        \/ \E range \in Indexes, check \in BOOLEAN : Index(range, check)

Spec == Init /\ [][Next]_vars

-----------------------------------------------------------------------------
Shapes == {"variable", "call", "integer", "char", "string", "nil", "cast", "other", "limit", "index",
           "none"}

(* The types of the variables; an integer is one of its width.              *)
TypeOK == /\ ops \in 0 .. MaxOps
          /\ {expr.shape, result.shape} \subseteq Shapes
          /\ verdict \in {"open", "rejected", "ice", "stopped", "done"}
          /\ verdict = "done" <=> result.shape # "none"
          /\ \A n \in {expr.llvm} \cap DOMAIN Width : expr.value \in 0 .. 2 ^ Width[n] - 1

(* No expression that the semantics lets pass stops the compiler.           *)
AcceptedCompiles == verdict # "ice"

(* The code for an expression has the type that LLVM has for its type, and  *)
(* what is stored has that of the variable.                                 *)
TypesAreGenerated == /\ expr.llvm = LlvmType(expr.type)
                     /\ result.shape # "none" => result.llvm = LlvmType(result.type)

(* The value computed, stored or taken for an index is what the text means, *)
(* as long as that fits.                                                    *)
ComputesAsMeant ==
    /\ \A m \in expr.means : expr.value = Represented(expr.type, m).value
    /\ verdict = "done" => \A m \in result.means :
           result.value = IF result.shape = "index" THEN m ELSE Represented(result.type, m).value

(* A function called once in the text is called once.                       *)
CallsHappenOnce == expr.made = expr.calls /\ result.made = result.calls
=============================================================================
