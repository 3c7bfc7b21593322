------------------------------- MODULE Parser -------------------------------
(***************************************************************************)
(* The parser of expressions, constant expressions and statements          *)
(* (parser.cpp): functions that call each other and look at the current    *)
(* token, and sometimes at the next.  todo is what is left to do of the    *)
(* functions that have been called, the innermost first: calls, and steps  *)
(* of their bodies.  An action takes the first; it is named for the        *)
(* function.  made has the trees, and the constants, that were returned    *)
(* and not yet used.                                                       *)
(***************************************************************************)
EXTENDS Trees

VARIABLES
  text,        (* the tokens the lexer gives                               *)
  at,          (* the number of the current one                            *)
  todo, made,
  answer       (* "none" yet, "tree", "error" or "crash"                   *)

parser == <<text, at, todo, made, answer>>

Token(i) == IF i <= Len(text) THEN text[i] ELSE "eof"
CurrentToken == Token(at)
PeekToken == Token(at + 1)

Precedence(token) ==
  CASE token = "not" -> 60
    [] token \in {"pow", "**"} -> 50
    [] token \in {"and", "and_then", "><", "*", "shr", "shl", "div", "mod", "/"} -> 40
    [] token \in {"or_else", "or", "xor", "+", "-"} -> 10
    [] token \in {"in", "<", "<=", ">=", ">", "=", "<>"} -> 5
    [] token = ":=" -> 2
    [] OTHER -> -1

-----------------------------------------------------------------------------
(* Things to do.                                                           *)

Call(function) == <<<<function>>>>
CallWith(function, arg) == <<<<function, arg>>>>
NextToken == <<<<"NextToken">>>>
Expect(token) == <<<<"Expect", token>>>>
Make(label, n) == <<<<"Make", label, n>>>>
Error == <<<<"Error">>>>

(* An action that takes the step of this name, and what it has to do.      *)
Is(name) == answer = "none" /\ todo # <<>> /\ Head(todo)[1] = name
Arg == Head(todo)[2]
Do(items) == todo' = items \o Tail(todo) /\ UNCHANGED <<text, at, made, answer>>
Return(trees) == todo' = Tail(todo) /\ made' = trees /\ UNCHANGED <<text, at, answer>>
Give(tree) == Return(Append(made, tree))
Stop(how) == answer' = how /\ UNCHANGED <<text, at, todo, made>>

(* The last trees that were made, and those before them.                   *)
Top == Last(made)
Tops(n) == SubSeq(made, Len(made) - n + 1, Len(made))
Below(n) == SubSeq(made, 1, Len(made) - n)

Consume(n) == todo' = Tail(todo) /\ at' = at + n /\ UNCHANGED <<text, made, answer>>
TakeNext == Is("NextToken") /\ Consume(1)
TakeExpected == Is("Expect") /\ IF CurrentToken = Arg THEN Consume(1) ELSE Do(Error)
TakeAccepted == Is("AcceptToken") /\ Consume(IF CurrentToken = Arg THEN 1 ELSE 0)
MakeTree ==
  /\ Is("Make")
  /\ LET n == Head(todo)[3] IN Return(Append(Below(n), Node(Arg, Tops(n))))

(* A function that fails returns a null pointer, and so do its callers;    *)
(* but a case label is asked for its number, or its type, first, the end   *)
(* of a range in a set for its type, and the end of a range of indexes     *)
(* need not be there.                                                      *)
Catching == {"CaseLabel", "CaseRange", "Upper"}
Catches == {i \in DOMAIN todo : todo[i][1] \in Catching}
Fail ==
  /\ Is("Error") /\ Catches = {}
  /\ Stop("error")
FailCaught ==
  /\ Is("Error") /\ Catches # {}
  /\ LET i == CHOOSE k \in Catches : \A j \in Catches : k <= j
     IN IF todo[i][2] # "ParseIndex" THEN Stop("crash")
        ELSE /\ todo' = SubSeq(todo, i + 2, Len(todo))
             /\ made' = SubSeq(made, 1, todo[i][3])
             /\ UNCHANGED <<text, at, answer>>

(* Mutant: what is left to do is forgotten with the first tree.            *)
AnswerEarly == answer = "none" /\ Len(made) = 1 /\ Stop("tree")
Answer == answer = "none" /\ todo = <<>> /\ Stop("tree")

-----------------------------------------------------------------------------
(* Expressions.                                                            *)

ParseExpression ==
  Is("ParseExpression") /\ Do(Call("ParseExprElement") \o CallWith("ParseBinOpRHS", 0))

ParseBinOpRHS ==
  /\ Is("ParseBinOpRHS")
  /\ LET tokPrec == Precedence(CurrentToken)
     IN Do(IF tokPrec < Arg THEN <<>>
           ELSE NextToken \o Call("ParseExprElement") \o CallWith("Climb", tokPrec)
                  \o Make(CurrentToken, 2) \o CallWith("ParseBinOpRHS", Arg))

Tighter(tokPrec) == tokPrec < Precedence(CurrentToken)
(* Mutant: what is tighter takes the operators that are as tight with it.  *)
ClimbBack ==
  Is("Climb") /\ Do(IF Tighter(Arg) THEN CallWith("ParseBinOpRHS", Arg) ELSE <<>>)
Climb == Is("Climb") /\ Do(IF Tighter(Arg) THEN CallWith("ParseBinOpRHS", Arg + 1) ELSE <<>>)

(* The items of a list, which end in one tree: what parses an item, the    *)
(* terminator, and how many there are.                                     *)
ListFrom(Item, terminator, n) == <<<<"ParseSeparatedList", Item, terminator, n>>>>
ParseSeparatedList ==
  /\ Is("ParseSeparatedList")
  /\ Do(Call(Arg) \o <<<<"Separator", Arg, Head(todo)[3], Head(todo)[4] + 1>>>>)
(* Mutant: whatever is behind an item is taken for the comma.              *)
SeparatorOfAnyKind ==
  /\ Is("Separator")
  /\ LET n == Head(todo)[4]
     IN Do(IF CurrentToken = Head(todo)[3] THEN NextToken \o Make("list", n)
           ELSE NextToken \o ListFrom(Arg, Head(todo)[3], n))
Separator ==
  /\ Is("Separator")
  /\ LET terminator == Head(todo)[3]
         n == Head(todo)[4]
     IN Do(CASE CurrentToken = terminator -> NextToken \o Make("list", n)
             [] CurrentToken = "," -> NextToken \o ListFrom(Arg, terminator, n)
             [] OTHER -> Error)

(* An expression of a list between brackets, which may be a range.         *)
ParseRange ==
  /\ Is("ParseSetItem") \/ Is("ParseIndex")
  /\ Do(Call("ParseExpression") \o CallWith("UpTo", Head(todo)[1]))
UpTo ==
  /\ Is("UpTo")
  /\ Do(IF CurrentToken # ".." THEN <<>>
        ELSE NextToken \o Call("ParseExpression") \o <<<<"Upper", Arg, Len(made)>>>> \o Make("..", 2))
Upper == Is("Upper") /\ Do(<<>>)

(* An argument of write, with its width and precision.                     *)
ParseWriteArg ==
  Is("ParseWriteArg") /\ Do(Call("ParseExpression") \o Call("Width") \o Call("Width"))
Width ==
  Is("Width") /\ Do(IF CurrentToken = ":" THEN NextToken \o Call("ParseExpression") \o Make(":", 2) ELSE <<>>)

ParseSetExpr ==
  /\ Is("ParseSetExpr")
  /\ Do(NextToken \o (IF PeekToken = "]" THEN NextToken \o Make("set", 0)
                      ELSE ListFrom("ParseSetItem", "]", 0) \o CallWith("Rename", "set")))
Rename == Is("Rename") /\ Return(Append(Below(1), Node(Arg, Children(Top))))

(* The arguments behind the parenthesis: of which function, and how many.  *)
ParseArgs ==
  /\ Is("ParseArgs")
  /\ LET n == Head(todo)[3]
     IN Do(CASE CurrentToken = ")" -> NextToken \o Make("call " \o Arg, n)
             [] CurrentToken # ")" /\ n >= Functions[Arg] -> Error
             [] OTHER -> Call("ParseExpression") \o <<<<"BehindArg", Arg, n + 1>>>>)
BehindArg ==
  /\ Is("BehindArg")
  /\ LET args == <<<<"ParseArgs", Arg, Head(todo)[3]>>>>
     IN Do(CASE CurrentToken = "," -> NextToken \o args
             [] CurrentToken = ")" -> args
             [] OTHER -> Error)

(* The indexes of one or more pairs of brackets, and the array's.          *)
ParseArrayExpr ==
  Is("ParseArrayExpr") /\ Do(NextToken \o ListFrom("ParseIndex", "]", 0) \o CallWith("Indexed", Arg))
Indexed ==
  /\ Is("Indexed")
  /\ LET indexes == Children(Top)
         n == Len(indexes)
         isSlice == n = 1 /\ IsRange(indexes[1])
     IN CASE CurrentToken = "[" ->
               /\ made' = Below(1) \o indexes
               /\ todo' = NextToken \o ListFrom("ParseIndex", "]", n) \o todo
               /\ UNCHANGED <<text, at, answer>>
          [] CurrentToken # "[" /\ isSlice ->
               IF Arrays[Arg] = 1 THEN Return(Append(Below(2), Node("slice " \o Arg, indexes))) ELSE Do(Error)
          [] OTHER ->
               IF Arrays[Arg] = n THEN Return(Append(Below(2), Node("element " \o Arg, indexes))) ELSE Do(Error)

(* What is behind a name of this kind: brackets, an arrow.                 *)
ParseSelectors ==
  /\ Is("ParseSelectors")
  /\ Do(CASE CurrentToken = "[" /\ Arg = "array" ->
               CallWith("ParseArrayExpr", Label(Top)) \o CallWith("ParseSelectors", "value")
          [] CurrentToken = "^" /\ Arg = "pointer" ->
               NextToken \o Make("^", 1) \o CallWith("ParseSelectors", "value")
          [] (CurrentToken = "[" /\ Arg # "array") \/ (CurrentToken = "^" /\ Arg # "pointer") -> Error
          [] OTHER -> <<>>)

IsName(token) == token \in Variables \cup Pointers \cup DOMAIN Arrays \cup DOMAIN Functions
Kind(name) ==
  CASE name \in Variables -> "value" [] name \in Pointers -> "pointer" [] name \in DOMAIN Arrays -> "array"

ParseIdentifierExpr ==
  /\ Is("ParseIdentifierExpr")
  /\ Do(NextToken \o
        (IF CurrentToken \notin DOMAIN Functions
         THEN Make(CurrentToken, 0) \o CallWith("ParseSelectors", Kind(CurrentToken))
         ELSE (CASE PeekToken = ":=" -> Make(CurrentToken, 0)
                 [] PeekToken = "(" -> NextToken \o <<<<"ParseArgs", CurrentToken, 0>>>>
                 [] OTHER -> Make("call " \o CurrentToken, 0))
              \o CallWith("ParseSelectors", "value")))

(* A plus gives the operand itself.                                        *)
ParseUnaryOp ==
  /\ Is("ParseUnaryOp")
  /\ Do(NextToken \o Call("ParseExprElement") \o (IF CurrentToken = "+" THEN <<>> ELSE Make(CurrentToken, 1)))

ParseExprElement ==
  /\ Is("ParseExprElement")
  /\ Do(CASE CurrentToken \in DOMAIN Literals \cup DOMAIN Constants \cup {"true", "false"} ->
               NextToken \o Make(CurrentToken, 0)
          [] CurrentToken = "(" -> NextToken \o Call("ParseExpression") \o Expect(")")
          [] CurrentToken = "[" -> Call("ParseSetExpr")
          [] CurrentToken \in {"-", "+", "not"} -> Call("ParseUnaryOp")
          [] IsName(CurrentToken) -> Call("ParseIdentifierExpr")
          [] OTHER -> Error)

-----------------------------------------------------------------------------
(* Statements.  What is not there, and what does nothing, is Empty, and is *)
(* not counted among the statements of a list.                             *)

IsSemicolonOrEnd(token) == token \in {";", "end"}
SemicolonOrEnd == Call("ExpectSemicolonOrEnd")
ExpectSemicolonOrEnd ==
  Is("ExpectSemicolonOrEnd") /\ Do(IF CurrentToken = "end" THEN <<>> ELSE Expect(";"))

(* The statements that have been made, and one more unless it is Empty.    *)
CountStatement ==
  /\ Is("CountStatement")
  /\ LET n == Head(todo)[3]
     IN /\ todo' = CallWith(Arg, IF Top = Empty THEN n ELSE n + 1) \o Tail(todo)
        /\ made' = IF Top = Empty THEN Below(1) ELSE made
        /\ UNCHANGED <<text, at, answer>>
Count(list, n) == <<<<"CountStatement", list, n>>>>

ParseBlock == Is("ParseBlock") /\ Do(NextToken \o CallWith("ParseStatements", 0))
ParseStatements ==
  /\ Is("ParseStatements")
  /\ LET start == IF CurrentToken = ";" THEN at + 1 ELSE at
         past == IF CurrentToken = ";" THEN NextToken ELSE <<>>
     IN Do(CASE CurrentToken = "end" -> NextToken \o Make("block", Arg)
             [] CurrentToken # "end" /\ Token(start) \in DOMAIN Literals /\ Token(start + 1) = ":" ->
                  IF Token(start) \notin Labels THEN Error
                  ELSE past \o NextToken \o NextToken \o Make("label " \o Token(start), 0)
                         \o CallWith("ParseStatements", Arg + 1)
             [] OTHER -> past \o Call("ParseStatement") \o SemicolonOrEnd \o Count("ParseStatements", Arg))

ParseIfExpr ==
  Is("ParseIfExpr") /\ Do(NextToken \o Call("ParseExpression") \o Expect("then") \o Call("Then") \o Call("Else"))
Then == Is("Then") /\ Do(IF CurrentToken = "else" THEN Make("block", 0) ELSE Call("ParseStatement"))
Else ==
  Is("Else") /\ Do(IF CurrentToken = "else" THEN NextToken \o Call("ParseStatement") \o Make("if", 3)
                   ELSE Make("if", 2))

ParseForExpr ==
  /\ Is("ParseForExpr")
  /\ LET var == NextToken \o NextToken \o Make(PeekToken, 0) \o NextToken \o Call("ParseExpression")
     IN Do(CASE PeekToken \notin Variables \cup Pointers \cup DOMAIN Arrays -> Error
             [] IsName(PeekToken) /\ Token(at + 2) = ":=" -> var \o Call("ForTo")
             [] IsName(PeekToken) /\ Token(at + 2) = "in" -> var \o CallWith("ForBody", <<"for in", 3>>)
             [] OTHER -> Error)
ForTo ==
  Is("ForTo") /\ Do(IF CurrentToken \notin {"to", "downto"} THEN Error
                    ELSE NextToken \o Call("ParseExpression") \o CallWith("ForBody", <<"for " \o CurrentToken, 4>>))
ForBody == Is("ForBody") /\ Do(Expect("do") \o Call("ParseStatement") \o Make(Arg[1], Arg[2]))

ParseWhile ==
  /\ Is("ParseWhile")
  /\ Do(NextToken \o Call("ParseExpression") \o Expect("do") \o Call("ParseStatement") \o Make("while", 2))

(* A semicolon between the statements need not be there.                   *)
ParseRepeat == Is("ParseRepeat") /\ Do(NextToken \o CallWith("Repeated", 0))
(* Mutant: the semicolon is left to the next statement.                    *)
RepeatedToTheSemicolon ==
  /\ Is("Repeated")
  /\ Do(IF CurrentToken = "until"
        THEN NextToken \o Make("block", Arg) \o Call("ParseExpression") \o Make("repeat", 2)
        ELSE Call("ParseStatement") \o Count("Repeated", Arg))
Repeated ==
  /\ Is("Repeated")
  /\ Do(IF CurrentToken = "until"
        THEN NextToken \o Make("block", Arg) \o Call("ParseExpression") \o Make("repeat", 2)
        ELSE Call("ParseStatement") \o CallWith("AcceptToken", ";") \o Count("Repeated", Arg))

ParseGoto ==
  /\ Is("ParseGoto")
  /\ Do(IF PeekToken \in DOMAIN Literals /\ PeekToken \in Labels
        THEN NextToken \o NextToken \o Make("goto " \o PeekToken, 0) ELSE Error)

(* ParseWrite and ParseRead.                                               *)
ParseInOut ==
  /\ Is("ParseInOut")
  /\ Do(NextToken \o
        (CASE ~IsSemicolonOrEnd(PeekToken) ->
                Expect("(") \o ListFrom(Arg, ")", 0) \o CallWith("Rename", CurrentToken)
           [] IsSemicolonOrEnd(PeekToken) /\ CurrentToken \in {"writeln", "readln"} -> Make(CurrentToken, 0)
           [] OTHER -> Error))

ParsePrimary ==
  /\ Is("ParsePrimary")
  /\ Do(CASE IsName(CurrentToken) -> Call("ParseIdentifierExpr")
          [] CurrentToken = "if" -> Call("ParseIfExpr")
          [] CurrentToken = "for" -> Call("ParseForExpr")
          [] CurrentToken = "while" -> Call("ParseWhile")
          [] CurrentToken = "repeat" -> Call("ParseRepeat")
          [] CurrentToken = "case" -> Call("ParseCaseExpr")
          [] CurrentToken \in {"write", "writeln"} -> CallWith("ParseInOut", "ParseWriteArg")
          [] CurrentToken \in {"read", "readln"} -> CallWith("ParseInOut", "ParseExpression")
          [] CurrentToken = "goto" -> Call("ParseGoto")
          [] OTHER -> Error)

(* What is behind any statement but a block may be an assignment.          *)
ParseStatement ==
  /\ Is("ParseStatement")
  /\ Do(CASE CurrentToken = "begin" -> Call("ParseBlock")
          [] IsSemicolonOrEnd(CurrentToken) -> Make("block", 0)
          [] OTHER -> Call("ParsePrimary") \o Call("Assignment"))
Assignment ==
  Is("Assignment") /\ Do(IF CurrentToken = ":=" THEN NextToken \o Call("ParseExpression") \o Make("assign", 2) ELSE <<>>)

-----------------------------------------------------------------------------
(* Case: how many arms there are, how many labels of the next one, and the *)
(* kind all labels have.  The otherwise stands for the arm without labels  *)
(* it also is; behind it can only be what is behind a label.               *)

ParseCaseExpr ==
  /\ Is("ParseCaseExpr")
  /\ Do(NextToken \o Call("ParseExpression") \o Expect("of")
          \o CallWith("ParseArm", [arms |-> 0, labels |-> 0, kind |-> "any"]))

ParseArm ==
  /\ Is("ParseArm")
  /\ LET hasOther == \E i \in DOMAIN Tops(Arg.arms + Arg.labels) :
                       Label(Tops(Arg.arms + Arg.labels)[i]) = "otherwise"
     IN Do(CASE CurrentToken \notin {"otherwise", "else"} ->
                  CallWith("ParseConstExpr", {",", ":", ".."}) \o CallWith("CaseLabel", Arg)
             [] CurrentToken \in {"otherwise", "else"} /\ (Arg.labels > 0 \/ hasOther) -> Error
             [] OTHER -> NextToken \o Call("ParseStatement") \o Make("otherwise", 1) \o SemicolonOrEnd
                           \o CallWith("BehindLabel", [Arg EXCEPT !.arms = @ + 1]))

(* A constant that has been read is its kind and value.                    *)
Constant(kind, value) == <<kind, value>>
KindOf(c) == c[1]
IntConst(n) == Constant("integer", AsUnsigned(n, Bits))
BoolConst(b) == Constant("boolean", IF b THEN 1 ELSE 0)
AReal == Constant("real", 0)

(* ToInt, where it is stored into an int.                                  *)
IntOf(c) == AsSigned(c[2], IntBits)

MakeLabel(label, n, kind) ==
  /\ made' = Append(Below(n), label)
  /\ todo' = CallWith("BehindLabel", [Arg EXCEPT !.labels = @ + 1, !.kind = kind]) \o Tail(todo)
  /\ UNCHANGED <<text, at, answer>>
CaseLabel ==
  /\ Is("CaseLabel")
  /\ CASE KindOf(Top) = "real" -> Stop("crash")
       [] KindOf(Top) # "real" /\ Arg.kind \notin {"any", KindOf(Top)} -> Do(Error)
       [] KindOf(Top) # "real" /\ Arg.kind \in {"any", KindOf(Top)} /\ CurrentToken = ".." ->
            Do(NextToken \o CallWith("ParseConstExpr", {",", ":"}) \o CallWith("CaseRange", Arg))
       [] OTHER -> MakeLabel(Leaf(ToString(IntOf(Top))), 1, KindOf(Top))
CaseRange ==
  /\ Is("CaseRange")
  /\ LET low == Tops(2)[1]
     IN IF KindOf(low) # KindOf(Top) \/ IntOf(Top) <= IntOf(low) THEN Do(Error)
        ELSE MakeLabel(Node("..", <<Leaf(ToString(IntOf(low))), Leaf(ToString(IntOf(Top)))>>), 2, KindOf(low))

BehindLabel ==
  /\ Is("BehindLabel")
  /\ Do(CASE CurrentToken = "," -> NextToken \o CallWith("UntilEnd", Arg)
          [] CurrentToken = ":" ->
               NextToken \o Call("ParseStatement") \o Make("arm", Arg.labels + 1) \o SemicolonOrEnd
                 \o CallWith("UntilEnd", [Arg EXCEPT !.arms = @ + 1, !.labels = 0])
          [] CurrentToken = "end" -> CallWith("UntilEnd", Arg)
          [] OTHER -> Error)

(* The labels of no arm are forgotten.                                     *)
UntilEnd ==
  /\ Is("UntilEnd")
  /\ IF CurrentToken # "end" THEN Do(CallWith("ParseArm", Arg))
     ELSE /\ made' = Below(Arg.labels)
          /\ todo' = NextToken \o Make("case", Arg.arms + 1) \o Tail(todo)
          /\ UNCHANGED <<text, at, answer>>

-----------------------------------------------------------------------------
(* Constant expressions, evaluated as they are read (constants.cpp).  A    *)
(* word that stops the compiler is "crash" where a constant is expected,   *)
(* and "none" is the null pointer.                                         *)

None == Constant("none", 0)
Crash == Constant("crash", 0)

(* A constant expression goes on to a terminator: if there is another term *)
(* where there should be one, the one before it is forgotten.              *)
ParseConstExpr == Is("ParseConstExpr") /\ Do(Call("ParseConstTerm") \o CallWith("ConstExprRest", Arg))
ConstExprRest ==
  /\ Is("ConstExprRest")
  /\ Do(IF CurrentToken \in Arg THEN <<>> ELSE CallWith("ParseConstRHS", 0) \o CallWith("ConstExprAgain", Arg))
ConstExprAgain ==
  /\ Is("ConstExprAgain")
  /\ IF CurrentToken \in Arg THEN Do(<<>>)
     ELSE /\ todo' = CallWith("ParseConstExpr", Arg) \o Tail(todo)
          /\ made' = Below(1)
          /\ UNCHANGED <<text, at, answer>>

(* A number with a sign or not; a name with one: not is for what is        *)
(* boolean, and nothing to the number of a name.                           *)
SignedNumber(sign, n) == IntConst(CASE sign = "-" -> -n [] sign = "not" -> -n - 1 [] OTHER -> n)
SignedName(sign, n) == IntConst(IF sign = "-" THEN -n ELSE n)

(* A parenthesis behind a sign: the sign is forgotten.                     *)
ParseConstTerm ==
  /\ Is("ParseConstTerm")
  /\ LET isSigned == CurrentToken \in {"-", "+", "not"}
         sign == IF isSigned THEN CurrentToken ELSE "none"
         token == IF isSigned THEN PeekToken ELSE CurrentToken
         past == IF isSigned THEN NextToken ELSE <<>>
         Term(cd) == past \o NextToken \o CallWith("Const", cd)
     IN Do(CASE token = "(" -> past \o NextToken \o CallWith("ParseConstExpr", {")"}) \o Expect(")")
             [] token \in DOMAIN Literals -> Term(SignedNumber(sign, Literals[token]))
             [] token \in {"true", "false"} /\ sign \notin {"-", "+"} -> Term(BoolConst((token = "true") # isSigned))
             [] token \in DOMAIN Constants -> Term(SignedName(sign, Constants[token]))
             [] OTHER -> Error)
Const == Is("Const") /\ Give(Arg)

(* PowerToInt, in an int of the compiler: the reciprocal of the power      *)
(* where y is negative.                                                    *)
(* Mutant: tested behind the product, from one more.                       *)
MultipliedOnceMore(x, y) == FoldLeft(LAMBDA n, i : AsSigned(n * x, IntBits), 1, [i \in 1 .. y + 1 |-> i])
Multiplied(x, y) == FoldLeft(LAMBDA n, i : AsSigned(n * x, IntBits), 1, [i \in 1 .. y |-> i])
Reciprocal(n) == IF n \in {1, -1} THEN n ELSE 0
PowerToInt(x, y) ==
  CASE y >= 0 -> IntConst(Multiplied(x, y))
    [] y < 0 /\ Multiplied(x, -y) = 0 -> Crash
    [] OTHER -> IntConst(Reciprocal(Multiplied(x, -y)))

Bit(n, i) == (n \div 2^i) % 2
FromBits(Of(_)) == FoldSet(LAMBDA i, n : n + 2^i * Of(i), 0, 0 .. Bits - 1)
DoIntegerMath(op, l, r) ==
  CASE op = "+" -> IntConst(l + r)
    [] op = "-" -> IntConst(l - r)
    [] op = "*" -> IntConst(l * r)
    [] op = "div" -> IF r = 0 THEN Crash ELSE IntConst(l \div r)
    [] op = "mod" -> IF r = 0 THEN Crash ELSE IntConst(l % r)
    [] op = "and" -> IntConst(FromBits(LAMBDA i : Bit(l, i) * Bit(r, i)))
    [] op = "or" -> IntConst(FromBits(LAMBDA i : IF Bit(l, i) + Bit(r, i) > 0 THEN 1 ELSE 0))
    [] op = "xor" -> IntConst(FromBits(LAMBDA i : (Bit(l, i) + Bit(r, i)) % 2))
    [] op = "shl" -> IntConst(l * 2^(r % Bits))
    [] op = "shr" -> IntConst(l \div 2^(r % Bits))
    [] op = "pow" -> PowerToInt(AsSigned(l, IntBits), AsSigned(r, IntBits))
    [] op \in {"/", "**"} -> AReal
    [] OTHER -> None

(* Reals have no div, no bits, and no whole numbers for exponents; and it  *)
(* is their cast that fails if something else is to be a power.            *)
ParseConstEval(lhs, binOp, rhs) ==
  LET isReal == {KindOf(lhs), KindOf(rhs)} \subseteq {"integer", "real"}
  IN CASE KindOf(lhs) = "integer" /\ KindOf(rhs) = "integer" -> DoIntegerMath(binOp, lhs[2], rhs[2])
       [] binOp = "**" /\ ~isReal -> Crash
       [] isReal /\ KindOf(rhs) = "real" /\ binOp \in {"+", "-", "*", "/", "**"} -> AReal
       [] isReal /\ KindOf(rhs) = "integer" /\ KindOf(lhs) = "real"
            /\ binOp \in {"+", "-", "*", "/", "**", "pow"} -> AReal
       [] OTHER -> None

(* The operators that follow a constant.  What was not a constant is used  *)
(* for one if another operator follows.                                    *)
ParseConstRHS ==
  /\ Is("ParseConstRHS")
  /\ LET tokPrec == Precedence(CurrentToken)
     IN CASE tokPrec < Arg -> Do(IF Top = None THEN Error ELSE <<>>)
          [] tokPrec >= Arg /\ Top = None -> Stop("crash")
          [] OTHER -> Do(NextToken \o Call("ParseConstTerm") \o CallWith("ConstClimb", tokPrec)
                           \o CallWith("ParseConstEval", CurrentToken) \o CallWith("ParseConstRHS", Arg))
ConstClimb ==
  Is("ConstClimb") /\ Do(IF Tighter(Arg) THEN CallWith("ParseConstRHS", Arg + 1) ELSE <<>>)
ConstEval ==
  /\ Is("ParseConstEval")
  /\ LET cd == ParseConstEval(Tops(2)[1], Arg, Top)
     IN IF cd = Crash THEN Stop("crash") ELSE Return(Append(Below(2), cd))

-----------------------------------------------------------------------------
Next ==
  \/ TakeNext \/ TakeExpected \/ TakeAccepted \/ MakeTree \/ Fail \/ FailCaught \/ Answer
  \/ ParseExpression \/ ParseBinOpRHS \/ Climb \/ ParseSeparatedList \/ Separator
  \/ ParseRange \/ UpTo \/ Upper \/ ParseWriteArg \/ Width \/ ParseSetExpr \/ Rename
  \/ ParseArgs \/ BehindArg \/ ParseArrayExpr \/ Indexed \/ ParseSelectors
  \/ ParseIdentifierExpr \/ ParseUnaryOp \/ ParseExprElement
  \/ ExpectSemicolonOrEnd \/ CountStatement \/ ParseBlock \/ ParseStatements
  \/ ParseIfExpr \/ Then \/ Else \/ ParseForExpr \/ ForTo \/ ForBody \/ ParseWhile
  \/ ParseRepeat \/ Repeated \/ ParseGoto \/ ParseInOut \/ ParsePrimary
  \/ ParseStatement \/ Assignment
  \/ ParseCaseExpr \/ ParseArm \/ CaseLabel \/ CaseRange \/ BehindLabel \/ UntilEnd
  \/ ParseConstExpr \/ ConstExprRest \/ ConstExprAgain \/ ParseConstTerm \/ Const
  \/ ParseConstRHS \/ ConstClimb \/ ConstEval
=============================================================================
