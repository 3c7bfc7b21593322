---------------------------- MODULE PascalGrammar ----------------------------
(***************************************************************************)
(* How a tree is written in Pascal, with no more parentheses than its      *)
(* levels of operators ask for, and what a constant expression is worth    *)
(* where it is written into a program: what Parser is compared with.       *)
(***************************************************************************)
EXTENDS Trees

(* The levels of ISO 10206, the loosest first; unary operators bind the    *)
(* tightest, as only this compiler has it.                                 *)
Levels ==
  <<{"=", "<>", "<", "<=", ">", ">=", "in"},
    {"+", "-", "or", "or_else", "xor"},
    {"*", "/", "div", "mod", "and", "and_then", "shl", "shr", "><"},
    {"pow", "**"}>>
Unary == Len(Levels) + 1
Primary == Unary + 1

IsOperator(token) == \E i \in DOMAIN Levels : token \in Levels[i]
Level(tree) ==
  CASE Len(Children(tree)) = 2 /\ IsOperator(Label(tree)) ->
         CHOOSE i \in DOMAIN Levels : Label(tree) \in Levels[i]
    [] Len(Children(tree)) = 1 /\ Label(tree) \in {"-", "not"} -> Unary
    [] OTHER -> Primary

(* The name behind one of these words in a label.                          *)
NameOf(label, words, names) ==
  CHOOSE name \in names : \E w \in words : label = w \o " " \o name
Names(label, words, names) == \E name \in names, w \in words : label = w \o " " \o name

Separated(parts, separator) ==
  FlattenSeq([i \in DOMAIN parts |-> (IF i = 1 THEN <<>> ELSE <<separator>>) \o parts[i]])

-----------------------------------------------------------------------------
RECURSIVE Write(_), WriteStatement(_)

AtLevel(tree, level) ==
  IF Level(tree) >= level THEN Write(tree) ELSE <<"(">> \o Write(tree) \o <<")">>
List(trees) == Separated([i \in DOMAIN trees |-> Write(trees[i])], ",")

Write(tree) ==
  LET label == Label(tree)
      parts == Children(tree)
  IN CASE Level(tree) \in DOMAIN Levels ->
            AtLevel(parts[1], Level(tree)) \o <<label>> \o AtLevel(parts[2], Level(tree) + 1)
       [] Level(tree) = Unary -> <<label>> \o AtLevel(parts[1], Unary)
       [] label = "set" -> <<"[">> \o List(parts) \o <<"]">>
       [] label \in {"..", ":"} -> Write(parts[1]) \o <<label>> \o Write(parts[2])
       [] label = "^" -> Write(parts[1]) \o <<"^">>
       [] Names(label, {"element", "slice"}, DOMAIN Arrays) ->
            <<NameOf(label, {"element", "slice"}, DOMAIN Arrays), "[">> \o List(parts) \o <<"]">>
       [] Names(label, {"call"}, DOMAIN Functions) ->
            <<NameOf(label, {"call"}, DOMAIN Functions)>>
              \o (IF parts = <<>> THEN <<>> ELSE <<"(">> \o List(parts) \o <<")">>)
       [] OTHER -> <<label>>

-----------------------------------------------------------------------------
(* Statements.                                                             *)

Body(s) == Children(s)[Len(Children(s))]
Loops == {"while", "for to", "for downto", "for in"}
IsNested(s) == Label(s) \in Loops \cup {"if"}

(* A statement and what its last part ends in.                             *)
RECURSIVE Ends(_)
Ends(s) == {s} \cup (IF IsNested(s) THEN Ends(Body(s)) ELSE {})

Numeral(label) == IF Label(label) \in DOMAIN Literals THEN <<Label(label)>>
                  ELSE <<"-", CHOOSE n \in DOMAIN Literals : ToString(-Literals[n]) = Label(label)>>
WriteArm(arm) ==
  LET labels == Front(Children(arm))
      Bounds(label) == IF ~IsRange(label) THEN Numeral(label)
                       ELSE Numeral(Children(label)[1]) \o <<"..">> \o Numeral(Children(label)[2])
  IN (IF Label(arm) = "otherwise" THEN <<"otherwise">>
      ELSE Separated([i \in DOMAIN labels |-> Bounds(labels[i])], ",") \o <<":">>)
       \o WriteStatement(Body(arm))

WriteStatements(list) ==
  FlattenSeq([i \in DOMAIN list |-> WriteStatement(list[i]) \o
    (IF i = Len(list) \/ Names(Label(list[i]), {"label"}, Labels) THEN <<>> ELSE <<";">>)])

WriteStatement(s) ==
  LET label == Label(s)
      parts == Children(s)
  IN CASE s = Empty -> <<>>
       [] s # Empty /\ label = "block" -> <<"begin">> \o WriteStatements(parts) \o <<"end">>
       [] label = "assign" -> WriteStatement(parts[1]) \o <<":=">> \o Write(parts[2])
       [] label = "if" -> <<"if">> \o Write(parts[1]) \o <<"then">> \o WriteStatement(parts[2])
            \o (IF Len(parts) = 2 THEN <<>> ELSE <<"else">> \o WriteStatement(parts[3]))
       [] label = "while" -> <<"while">> \o Write(parts[1]) \o <<"do">> \o WriteStatement(parts[2])
       [] label \in {"for to", "for downto"} ->
            <<"for">> \o Write(parts[1]) \o <<":=">> \o Write(parts[2])
              \o <<IF label = "for to" THEN "to" ELSE "downto">> \o Write(parts[3])
              \o <<"do">> \o WriteStatement(parts[4])
       [] label = "for in" -> <<"for">> \o Write(parts[1]) \o <<"in">> \o Write(parts[2])
                                \o <<"do">> \o WriteStatement(parts[3])
       [] label = "repeat" -> <<"repeat">> \o WriteStatements(Children(parts[1]))
                                \o <<"until">> \o Write(parts[2])
       [] label = "case" -> <<"case">> \o Write(parts[1]) \o <<"of">>
            \o Separated([i \in 1 .. Len(parts) - 1 |-> WriteArm(parts[i + 1])], ";") \o <<"end">>
       [] label \in {"write", "writeln", "read", "readln"} ->
            <<label>> \o (IF parts = <<>> THEN <<>> ELSE <<"(">> \o List(parts) \o <<")">>)
       [] Names(label, {"label"}, Labels) -> <<NameOf(label, {"label"}, Labels), ":">>
       [] Names(label, {"goto"}, Labels) -> <<"goto", NameOf(label, {"goto"}, Labels)>>
       [] OTHER -> Write(s)

-----------------------------------------------------------------------------
(* The trees that are Pascal's.                                            *)

IsVariable(tree) ==
  \/ Label(tree) \in Variables \cup Pointers \cup DOMAIN Arrays \cup DOMAIN Functions \cup {"^"}
  \/ Names(Label(tree), {"element"}, DOMAIN Arrays)

RECURSIVE IsExpression(_), IsStatement(_)
IsExpression(tree) ==
  /\ Label(tree) # ":="
  /\ Label(tree) = "not" => Len(Children(tree)) = 1
  /\ \A i \in DOMAIN Children(tree) : IsExpression(Children(tree)[i])

(* An else goes to the nearest if.  (Behind then, else and do, what does   *)
(* nothing has to be in front of a semicolon or an end; ISO 7185 has it in *)
(* front of until and else too.)                                           *)
IsIf(cond, then, other) ==
  /\ IsExpression(cond) /\ IsStatement(then) /\ IsStatement(other)
  /\ \A s \in Ends(then) : Label(s) = "if" => Len(Children(s)) = 3
  /\ then = Empty \/ Empty \notin Ends(then)
IsRepeat(list, cond) ==
  /\ IsExpression(cond)
  /\ \A i \in DOMAIN list : IsStatement(list[i])
  /\ list = <<>> \/ Empty \notin Ends(Last(list))

IsStatement(s) ==
  LET label == Label(s)
      parts == Children(s)
      Expressions(list) == \A i \in DOMAIN list : IsExpression(list[i])
  IN CASE label = "block" -> \A i \in DOMAIN parts : IsStatement(parts[i])
       [] label = "assign" -> IsVariable(parts[1]) /\ IsExpression(parts[2])
       [] label = "if" /\ Len(parts) = 2 -> IsExpression(parts[1]) /\ IsStatement(parts[2])
       [] label = "if" /\ Len(parts) = 3 -> IsIf(parts[1], parts[2], parts[3])
       [] label \in Loops -> Expressions(Front(parts)) /\ IsStatement(Body(s))
       [] label = "repeat" -> IsRepeat(Children(parts[1]), parts[2])
       [] label = "case" -> /\ IsExpression(parts[1])
                            /\ Len(parts) > 1
                            /\ \A i \in 2 .. Len(parts) : IsStatement(Body(parts[i]))
       [] label \in {"write", "writeln", "read", "readln"} -> Expressions(parts)
       [] OTHER -> (Names(label, {"label", "goto"}, Labels))
                     \/ (Names(label, {"call"}, DOMAIN Functions) /\ Expressions(parts))

-----------------------------------------------------------------------------
(* What a constant expression is worth where it is an expression of the    *)
(* program: integers of IntBits bits (IntegerBinExpr, PowerInt).           *)

IntegerOps == {"+", "-", "*", "div", "mod", "pow", "and", "or", "xor", "shl"}

RECURSIVE IsConstant(_), Worth(_)
IsConstant(tree) ==
  \/ Label(tree) \in DOMAIN Literals \cup DOMAIN Constants
  \/ /\ Label(tree) \in IntegerOps
     /\ \A i \in DOMAIN Children(tree) : IsConstant(Children(tree)[i])

Quotient(l, r) == IF l >= 0 THEN l \div r ELSE -((-l) \div r)
BitsOf(l, r, Of(_, _)) == FoldSet(LAMBDA i, n :
  n + 2^i * Of((AsUnsigned(l, IntBits) \div 2^i) % 2, (AsUnsigned(r, IntBits) \div 2^i) % 2), 0, 0 .. IntBits - 1)
Power(l, r) ==
  FoldLeft(LAMBDA n, i : IF n = AsSigned(n, IntBits) THEN n * l ELSE n, 1, [i \in 1 .. r |-> i])
Exact(op, l, r) ==
  CASE op = "+" -> l + r
    [] op = "-" -> l - r
    [] op = "*" -> l * r
    [] op = "div" -> Quotient(l, r)
    [] op = "mod" -> l - r * Quotient(l, r)
    [] op = "pow" -> IF r >= 0 THEN Power(l, r) ELSE IF l = -1 THEN (IF r % 2 = 0 THEN 1 ELSE -1) ELSE 0
    [] op = "shl" -> l * 2^r
    [] op = "and" -> BitsOf(l, r, LAMBDA x, y : x * y)
    [] op = "or" -> BitsOf(l, r, LAMBDA x, y : x + y - x * y)
    [] op = "xor" -> BitsOf(l, r, LAMBDA x, y : (x + y) % 2)
Worth(tree) ==
  LET label == Label(tree)
      parts == Children(tree)
  IN CASE label \in DOMAIN Literals -> Literals[label]
       [] label \in DOMAIN Constants -> Constants[label]
       [] OTHER -> AsSigned(IF Len(parts) = 1 THEN -Worth(parts[1])
                            ELSE Exact(label, Worth(parts[1]), Worth(parts[2])), IntBits)

(* Where the two ways of evaluating may differ: a value that does not fit, *)
(* a division with a negative number, by nought or of it by nothing, a     *)
(* power of one or nought below nought, and a sign in front of a           *)
(* parenthesis.                                                            *)
RECURSIVE IsPlain(_)
IsPlain(tree) ==
  LET parts == Children(tree)
      l == Worth(parts[1])
      r == Worth(parts[2])
      Fits(n) == n = AsSigned(n, IntBits)
  IN CASE parts = <<>> -> TRUE
       [] Len(parts) = 1 -> Children(parts[1]) = <<>>
       [] Len(parts) = 2 ->
            /\ IsPlain(parts[1]) /\ IsPlain(parts[2])
            /\ Label(tree) \in {"div", "mod"} => l >= 0 /\ r > 0
            /\ Label(tree) = "pow" => r >= 0 \/ (l \notin {0, 1} /\ Fits(Power(l, -r)))
            /\ Label(tree) = "shl" => r \in 0 .. IntBits - 1
            /\ Fits(Exact(Label(tree), l, r))
=============================================================================
