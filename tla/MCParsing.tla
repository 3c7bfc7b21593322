----------------------------- MODULE MCParsing ------------------------------
(* Parsing, with every nesting of three operators, of the statements two   *)
(* deep, and of what else is an expression.                                *)
EXTENDS Parsing

MCVariables == {"a", "b"}
MCPointers == {"p"}
MCArrays == [m |-> 2, v |-> 1]
MCFunctions == [f |-> 2, g |-> 0]
MCConstants == "c" :> 3 @@ "d" :> -2
MCLiterals == "1" :> 1 @@ "2" :> 2 @@ "7" :> 7
MCLabels == {"1"}
MCTokens == {"..", "-", "+", "(", ")", ";", ",", "a", "1", "else", "end", ":=", "not"}

-----------------------------------------------------------------------------
A == Leaf("a")
X(op, l, r) == Node(op, <<l, r>>)
Set(v, x) == Node("assign", <<v, x>>)
IfThen(c, s) == Node("if", <<c, s>>)
IfElse(c, s, t) == Node("if", <<c, s, t>>)

Operators == {"=", "-", "*", "div", "pow"}
Operands == <<Leaf("7"), Leaf("c"), Leaf("2"), Leaf("1")>>
Three ==
  LET w == Operands[1]  x == Operands[2]  y == Operands[3]  z == Operands[4]
  IN UNION {{X(o, w, X(q, x, X(r, y, z))), X(o, w, X(q, X(r, x, y), z)), X(o, X(q, w, x), X(r, y, z)),
             X(o, X(q, w, X(r, x, y)), z), X(o, X(q, X(r, w, x), y), z)} :
              o \in Operators, q \in Operators, r \in Operators}
Signs ==
  {X(o, Node("-", <<Leaf("c")>>), X(q, Leaf("2"), Node("-", <<Leaf("1")>>))) : o, q \in Operators}
    \cup {Node(s, <<X(o, Leaf("d"), Leaf("2"))>>) : o \in Operators, s \in {"-", "not"}}
    \cup {X(o, Node(s, <<Leaf("7")>>), Leaf("d")) : o \in Operators \cup {"and", "or", "shl", "xor"}, s \in {"-", "not"}}
Others ==
  LET e == X("+", A, Leaf("1"))
      f == Node("call f", <<e, Leaf("call g")>>)
  IN {f, Node("element m", <<f, e>>), Node("element v", <<Node("^", <<Leaf("p")>>)>>), Leaf("set"),
      Node("slice v", <<Node("..", <<Leaf("1"), A>>)>>), X("*", Node("not", <<f>>), Leaf("true")),
      X("in", e, Node("set", <<Leaf("1"), Node("..", <<e, f>>)>>)),
      X("and_then", X("or_else", A, f), Node("not", <<X("<>", A, Leaf("b"))>>))}

Simple == {Set(A, Leaf("1")), Leaf("call g"), Leaf("goto 1"), Empty}
Cond == X("<", A, Leaf("2"))
Around(inner) ==
  UNION {{IfThen(Cond, s), Node("while", <<A, s>>), Node("for to", <<A, Leaf("1"), Leaf("b"), s>>),
          Node("for in", <<A, Leaf("set"), s>>), Node("repeat", <<Sequence(<<s>>), Cond>>),
          Node("repeat", <<Sequence(<<Leaf("call g"), s>>), A>>),
          Sequence(<<Leaf("label 1"), s>>), Sequence(<<s, Set(Leaf("b"), A)>>),
          Node("case", <<A, Node("arm", <<Leaf("1"), Node("..", <<Leaf("-2"), Leaf("7")>>), s>>),
                         Node("otherwise", <<s>>)>>)} : s \in inner}
    \cup UNION {{IfElse(A, s, t), IfElse(A, t, s)} : s \in inner, t \in Simple}

InOut == {Leaf("writeln"), Node("read", <<A, Leaf("b")>>),
          Node("write", <<Node(":", <<Node(":", <<X("+", A, Leaf("1")), Leaf("7")>>), Leaf("2")>>), Leaf("b")>>)}

MCPrograms ==
  {Sequence(<<Set(A, e)>>) : e \in Three \cup Signs \cup Others}
    \cup {Sequence(<<s, t>>) : s \in InOut, t \in InOut}
    \cup {Sequence(<<s>>) : s \in Around(Simple) \cup Around(Around(Simple))}
=============================================================================
