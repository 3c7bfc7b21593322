--------------------------- MODULE MCExpressions ---------------------------
(* Small instances of Expressions: the types, variables, literals and calls *)
(* of a program.                                                            *)
EXTENDS Expressions

Leaf(shape, ty, m) == [shape |-> shape, type |-> ty, means |-> m]

Half == <<1, 2>>
MinusOne == <<-1, 1>>

Color == EnumDecl("color")
IntRange == RangeDecl(IntegerDecl, 0, 2)
CharRange == RangeDecl(CharDecl, 1, 3)
ColorRange == RangeDecl(Color, 0, 1)
Derived == PointerDecl("Class", "derived")
Base == PointerDecl("Class", "base")

MCOperands ==
    {Leaf("variable", CharDecl, 2), Leaf("call", CharDecl, 1), Leaf("char", CharDecl, 3),
     Leaf("variable", BoolDecl, 1), Leaf("call", BoolDecl, 0),
     Leaf("variable", IntegerDecl, -2), Leaf("call", IntegerDecl, 1), Leaf("integer", IntegerDecl, 2),
     Leaf("variable", Int64Decl, 5), Leaf("call", RealDecl, MinusOne), Leaf("variable", RealDecl, Half),
     Leaf("variable", ComplexDecl, <<Half, MinusOne>>),
     Leaf("call", StringDecl(MaxStringLen), <<3, 1>>), Leaf("string", CharArray(0, 1), <<1, 2>>)}

MCLeaves == MCOperands \cup
    {Leaf("variable", IntegerDecl, 3), Leaf("variable", IntegerDecl, 0),
     Leaf("variable", Int64Decl, -1), Leaf("call", ComplexDecl, <<MinusOne, Whole(0)>>),
     Leaf("variable", Color, 1), Leaf("integer", Color, 0),
     Leaf("variable", IntRange, 2), Leaf("variable", CharRange, 3), Leaf("variable", ColorRange, 1),
     Leaf("variable", StringDecl(3), <<1, 2, 3>>), Leaf("variable", StringDecl(1), <<2>>),
     Leaf("variable", CharArray(1, 2), <<1, 3>>), Leaf("variable", CharArray(1, 3), <<1, 3, 0>>),
     Leaf("variable", IntArray(1, 2), 0), Leaf("variable", RecordDecl("r"), 0),
     Leaf("variable", PointerDecl("Integer", ""), 1), Leaf("variable", Derived, 2), Leaf("variable", Base, 2),
     Leaf("nil", NilDecl, 0)}

MCOps == Compares \cup ShortCircuits
    \cup {"+", "-", "*", "/", "**", "pow", "div", "mod", "and", "or", "xor", "shl", "shr"}

MCTargets == {CharDecl, BoolDecl, IntegerDecl, Int64Decl, RealDecl, ComplexDecl, Color, IntRange, CharRange,
              StringDecl(3), StringDecl(MaxStringLen), CharArray(1, 2), CharArray(1, 3), IntArray(1, 2),
              PointerDecl("Integer", ""), Base, RecordDecl("r")}

MCIndexes == {RangeDecl(IntegerDecl, -1, 1), RangeDecl(IntegerDecl, 0, 3), CharRange, RangeDecl(Color, 0, 1)}
=============================================================================
