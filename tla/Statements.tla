----------------------------- MODULE Statements -----------------------------
(***************************************************************************)
(* Which blocks expr.cpp makes of statements and expressions.  A statement *)
(* is a record with field s, an expression one with field e; an operator   *)
(* named for a class lists the calls of the builder that its CodeGen       *)
(* makes, in their order, with the names the code has for what they give.  *)
(*                                                                         *)
(* Variables are integers, and have Width bits; arrays and sets have names *)
(* of their own.  A word of a set is the set of its one bits.              *)
(***************************************************************************)
EXTENDS BasicBlocks

CONSTANTS
  MaxRangeInSwitch,  (* longer ranges of a case are compared: 32 in the code *)
  SetBits,           (* bits of a word of a set                            *)
  Arrays,            (* for each array the ranges of its indexes           *)
  Sets               (* for each set the range of its elements             *)

SizeOf(r) == r.hi - r.lo + 1
SetWords(r) == (SizeOf(r) + SetBits - 1) \div SetBits

-----------------------------------------------------------------------------
(* The calls.  Each is what is called, the name of the result if there is  *)
(* one, and the arguments: names of operands and blocks.                   *)

RECURSIVE Build(_, _)

(* The graph, and what the names stand for.                                *)
Named(made, name, what) == [made EXCEPT !.names = (name :> what) @@ @]
With(made, g) == [made EXCEPT !.g = g]
Value(made, name, instruction) ==
  Named(With(made, Yield(made.g, instruction)), name, Reg(Register(made.g)))
Targets(made, pairs) == [i \in DOMAIN pairs |-> <<made.names[pairs[i][1]], made.names[pairs[i][2]]>>]

(* The block of a label is created where the label is first met.           *)
CreateGotoTarget(g, label) ==
  IF g.label[label] # 0 THEN g ELSE [Create(g, 1) EXCEPT !.label[label] = Free(g)]

Apply(made, call) ==
  LET g == made.g
      Of(i) == made.names[call[i]]
  IN CASE call[1] = "expr" -> LET inner == Build(g, call[3])
                              IN Named(With(made, inner.g), call[2], inner.names["value"])
       [] call[1] = "stmt" -> With(made, Build(g, call[2]).g)
       [] call[1] = "const" -> Named(made, call[2], Const(call[3]))
       [] call[1] = "same" -> Named(made, call[2], Of(3))
       [] call[1] = "GetInsertBlock" -> Named(made, call[2], g.at)
       [] call[1] = "BasicBlock" -> Named(With(made, Create(g, 1)), call[2], Free(g))
       [] call[1] = "GotoTarget" -> LET h == CreateGotoTarget(g, call[3])
                                    IN Named(With(made, h), call[2], h.label[call[3]])
       [] call[1] = "SetInsertPoint" -> With(made, SetInsertPoint(g, Of(2)))
       [] call[1] = "Br" -> With(made, Terminate(g, Br(Of(2))))
       [] call[1] = "CondBr" -> With(made, Terminate(g, CondBr(Of(2), Of(3), Of(4))))
       [] call[1] = "Switch" ->
            With(made, Terminate(g, [to |-> "switch", on |-> Of(2), default |-> Of(3),
              cases |-> [i \in DOMAIN call[4] |-> <<call[4][i][1], made.names[call[4][i][2]]>>]]))
       [] call[1] \in {"range_error", "return"} -> With(made, Terminate(g, [to |-> call[1]]))
       [] call[1] = "PHI" ->
            Named(With(made, CreatePHI(g, Targets(made, call[3]))), call[2], Reg(Register(g)))
       [] call[1] = "addIncoming" -> With(made, AddIncoming(g, Of(2), Of(3), Of(4)))
       [] call[1] = "op" -> Value(made, call[2], [do |-> "op", op |-> call[3], l |-> Of(4), r |-> Of(5)])
       [] call[1] = "load" -> Value(made, call[2], [do |-> "load", var |-> call[3]])
       [] call[1] = "loadelem" -> Value(made, call[2], [do |-> "loadelem", var |-> call[3], l |-> Of(4)])
       [] call[1] = "store" -> With(made, Emit(g, [do |-> "store", var |-> call[2], val |-> Of(3)]))
       [] call[1] = "storeelem" ->
            With(made, Emit(g, [do |-> "storeelem", var |-> call[2], l |-> Of(3), val |-> Of(4)]))
       [] call[1] = "write" -> With(made, Emit(g, [do |-> "write", val |-> Of(2)]))

Constants == "0" :> Const(0) @@ "1" :> Const(1) @@ "2" :> Const(2) @@ "-1" :> Const(-1)
Build(g, calls) == FoldLeft(Apply, [g |-> g, names |-> Constants], calls)

BasicBlocks(names) == [i \in DOMAIN names |-> <<"BasicBlock", names[i]>>]
Begin(name) == <<<<"SetInsertPoint", name>>>>
GoTo(name) == <<<<"Br", name>>>>

RECURSIVE CodeGen(_), ExprCodeGen(_)
Expr(name, x) == <<<<"expr", name, ExprCodeGen(x)>>>>
Stmt(s) == <<<<"stmt", CodeGen(s)>>>>

-----------------------------------------------------------------------------
(* Expressions.  An operand is the name of its value.                      *)

(* Mutant: the block is asked for before the left side is generated.       *)
ShortCtEarly(x, onlyIf) ==
  <<<<"GetInsertBlock", "origin">>>> \o Expr("l", x.l)
    \o BasicBlocks(<<"rhsBB", "mergeBB">>)
    \o <<<<"op", "condl", onlyIf, "l", "0">>, <<"CondBr", "condl", "rhsBB", "mergeBB">>>>
    \o Begin("rhsBB") \o Expr("r", x.r) \o <<<<"op", "condr", "<>", "r", "0">>>>
    \o GoTo("mergeBB") \o Begin("mergeBB")
    \o <<<<"PHI", "value", <<<<IF x.e = "or_else" THEN "1" ELSE "0", "origin">>, <<"condr", "rhsBB">>>>>>>>

ShortCt(x, onlyIf) ==
  Expr("l", x.l) \o <<<<"GetInsertBlock", "origin">>>>
    \o BasicBlocks(<<"rhsBB", "mergeBB">>)
    \o <<<<"op", "condl", onlyIf, "l", "0">>, <<"CondBr", "condl", "rhsBB", "mergeBB">>>>
    \o Begin("rhsBB") \o Expr("r", x.r) \o <<<<"op", "condr", "<>", "r", "0">>>>
    \o GoTo("mergeBB") \o Begin("mergeBB")
    \o <<<<"PHI", "value", <<<<IF x.e = "or_else" THEN "1" ELSE "0", "origin">>, <<"condr", "rhsBB">>>>>>>>
ShortCtOr(x)  == ShortCt(x, "=")
ShortCtAnd(x) == ShortCt(x, "<>")

(* CreateTempAlloca gives PowerInt a variable of its own.                  *)
Res == "res"
PowerInt ==
  <<<<"GetInsertBlock", "origin">>>>
    \o BasicBlocks(<<"expNeg", "oddEven", "loop", "more", "moreOdd", "moreEven", "moreMerge", "done">>)
    \o <<<<"store", Res, "1">>,
         <<"op", "expneg", "<", "exp", "0">>, <<"CondBr", "expneg", "expNeg", "loop">>>>
    \o Begin("expNeg")
    \o <<<<"op", "isNeg1", "=", "base", "-1">>, <<"CondBr", "isNeg1", "oddEven", "done">>>>
    \o Begin("oddEven")
    \o <<<<"op", "isOdd", "odd", "exp", "1">>, <<"CondBr", "isOdd", "done", "loop">>>>
    \o Begin("loop")
    \o <<<<"PHI", "phiLoop", <<<<"exp", "origin">>, <<"exp", "oddEven">>>>>>,
         <<"op", "finished", "<=", "phiLoop", "0">>, <<"load", "curVal", Res>>,
         <<"CondBr", "finished", "done", "more">>>>
    \o Begin("more")
    \o <<<<"op", "isOdd1", "odd", "exp", "1">>, <<"CondBr", "isOdd1", "moreOdd", "moreEven">>>>
    \o Begin("moreOdd") \o <<<<"op", "valOdd", "*", "curVal", "base">>>> \o GoTo("moreMerge")
    \o Begin("moreEven")
    \o <<<<"op", "square", "*", "base", "base">>, <<"op", "valEven", "*", "curVal", "square">>>>
    \o GoTo("moreMerge") \o Begin("moreMerge")
    \o <<<<"PHI", "phiMerge", <<<<"valEven", "moreEven">>, <<"valOdd", "moreOdd">>>>>>,
         <<"PHI", "phiMerge2", <<<<"2", "moreEven">>, <<"1", "moreOdd">>>>>>,
         <<"store", Res, "phiMerge">>, <<"op", "left", "-", "phiLoop", "phiMerge2">>,
         <<"addIncoming", "phiLoop", "left", "moreMerge">>>>
    \o GoTo("loop") \o Begin("done")
    \o <<<<"PHI", "value", <<<<"0", "expNeg">>, <<"base", "oddEven">>, <<"curVal", "loop">>>>>>>>

(* The check leaves the reduced index as its value.                        *)
RangeReduce(x, r) ==
  Expr("index", x)
    \o (IF r.lo = 0 THEN <<>> ELSE <<<<"const", "lo", r.lo>>, <<"op", "index", "-", "index", "lo">>>>)
RangeCheck(x, r) ==
  RangeReduce(x, r)
    \o <<<<"const", "size", SizeOf(r)>>, <<"op", "cmp", "u>=", "index", "size">>>>
    \o BasicBlocks(<<"oorBlock", "contBlock">>) \o <<<<"CondBr", "cmp", "oorBlock", "contBlock">>>>
    \o Begin("oorBlock") \o <<<<"range_error">>>> \o Begin("contBlock")

IndexMul(ranges, i) ==
  FoldLeft(LAMBDA product, r : product * SizeOf(r), 1, SubSeq(ranges, i + 1, Len(ranges)))
Address(x) ==
  LET ranges == Arrays[x.a]
      Index(i) ==
        (IF x.checked THEN RangeCheck(x.ix[i], ranges[i]) ELSE RangeReduce(x.ix[i], ranges[i]))
          \o (IF IndexMul(ranges, i) = 1 THEN <<>>
              ELSE <<<<"const", "mul", IndexMul(ranges, i)>>, <<"op", "index", "*", "index", "mul">>>>)
          \o (IF i = 1 THEN <<<<"same", "at", "index">>>> ELSE <<<<"op", "at", "+", "at", "index">>>>)
  IN FlattenSeq([i \in DOMAIN x.ix |-> Index(i)])

BinaryExpr(x) ==
  IF x.op = "pow" THEN Expr("base", x.l) \o Expr("exp", x.r) \o PowerInt
  ELSE Expr("l", x.l) \o Expr("r", x.r) \o <<<<"op", "value", x.op, "l", "r">>>>

UnaryExpr(x) ==
  Expr("r", x.x)
    \o (IF x.e = "minus" THEN <<<<"op", "value", "-", "0", "r">>>> ELSE <<<<"op", "value", "=", "r", "0">>>>)

ExprCodeGen(x) ==
  CASE x.e = "integer"  -> <<<<"const", "value", Wrap(x.n)>>>>
    [] x.e = "variable" -> <<<<"load", "value", x.v>>>>
    [] x.e = "element"  -> Address(x) \o <<<<"loadelem", "value", x.a, "at">>>>
    [] x.e = "binary"   -> BinaryExpr(x)
    [] x.e \in {"minus", "not"} -> UnaryExpr(x)
    [] x.e = "or_else"  -> ShortCtOr(x)
    [] x.e = "and_then" -> ShortCtAnd(x)

-----------------------------------------------------------------------------
(* Statements.  Nothing is the statement that is not there.                *)

Nothing == [s |-> "nothing"]

Block(s) == FlattenSeq([i \in DOMAIN s.content |-> Stmt(s.content[i])])

(* The right hand side comes after the address: AssignExprAST::CodeGen.    *)
Assign(s) == Expr("x", s.x) \o <<<<"store", s.v, "x">>>>
AssignElement(s) == Address(s.to) \o Expr("x", s.x) \o <<<<"storeelem", s.to.a, "at", "x">>>>

Write(s) == Expr("x", s.x) \o <<<<"write", "x">>>>

If(s) ==
  LET elseBB == IF s.other = Nothing THEN "mergeBB" ELSE "elseBB"
  IN Expr("cond", s.cond) \o BasicBlocks(<<"thenBB", "mergeBB">>)
       \o (IF s.other = Nothing THEN <<>> ELSE BasicBlocks(<<"elseBB">>))
       \o <<<<"CondBr", "cond", "thenBB", elseBB>>>>
       \o Begin("thenBB") \o Stmt(s.then) \o GoTo("mergeBB")
       \o (IF s.other = Nothing THEN <<>> ELSE Begin("elseBB") \o Stmt(s.other) \o GoTo("mergeBB"))
       \o Begin("mergeBB")

(* Mutant: the test behind the body asks what the one before it asked.     *)
TestAgain(s) == (IF s.unsigned THEN "u" ELSE "") \o (IF s.down THEN ">=" ELSE "<=")
TestBefore(s) == (IF s.unsigned THEN "u" ELSE "") \o (IF s.down THEN ">=" ELSE "<=")
TestBehind(s) == (IF s.unsigned THEN "u" ELSE "") \o (IF s.down THEN ">" ELSE "<")

For(s) ==
  Expr("start", s.start) \o Expr("end", s.end) \o <<<<"store", s.var, "start">>>>
    \o BasicBlocks(<<"beforeBB", "loopBB", "continueBB", "afterBB">>)
    \o <<<<"load", "first", s.var>>>> \o GoTo("beforeBB") \o Begin("beforeBB")
    \o <<<<"op", "before", TestBefore(s), "first", "end">>, <<"CondBr", "before", "loopBB", "afterBB">>>>
    \o Begin("loopBB") \o <<<<"PHI", "i", <<<<"first", "beforeBB">>>>>>>> \o Stmt(s.body)
    \o <<<<"op", "behind", TestBehind(s), "i", "end">>>> \o GoTo("continueBB") \o Begin("continueBB")
    \o <<<<"op", "next", "+", "i", IF s.down THEN "-1" ELSE "1">>, <<"store", s.var, "next">>,
         <<"addIncoming", "i", "next", "continueBB">>, <<"CondBr", "behind", "loopBB", "afterBB">>>>
    \o Begin("afterBB")

(* A word is loaded before it is known to be one of the set's.  The phi of *)
(* the bits left expects loopBB in front of it, whatever the body added.   *)
GenForInSet(s) ==
  LET r == Sets[s.set]
  IN BasicBlocks(<<"beforeBB", "preOuter", "preLoop", "loopBB", "nextLoop", "afterBB">>)
       \o <<<<"const", "words", SetWords(r)>>, <<"const", "bits", SetBits>>, <<"const", "lo", r.lo>>>>
       \o GoTo("beforeBB") \o Begin("beforeBB") \o GoTo("preOuter") \o Begin("preOuter")
       \o <<<<"PHI", "idx", <<<<"0", "beforeBB">>>>>>, <<"loadelem", "bitset", s.set, "idx">>,
            <<"op", "cmp", "<", "idx", "words">>, <<"CondBr", "cmp", "preLoop", "afterBB">>>>
       \o Begin("preLoop")
       \o <<<<"op", "isZero", "isempty", "bitset", "0">>, <<"CondBr", "isZero", "nextLoop", "loopBB">>>>
       \o Begin("loopBB")
       \o <<<<"PHI", "left", <<<<"bitset", "preLoop">>>>>>,
            <<"op", "pos", "cttz", "left", "0">>, <<"op", "base", "*", "idx", "bits">>,
            <<"op", "element", "+", "pos", "base">>, <<"op", "sum", "+", "element", "lo">>,
            <<"store", s.var, "sum">>>>
       \o Stmt(s.body)
       \o <<<<"op", "rest", "dropbit", "left", "pos">>, <<"op", "isEmpty", "isempty", "rest", "0">>,
            <<"addIncoming", "left", "rest", "loopBB">>, <<"CondBr", "isEmpty", "nextLoop", "loopBB">>>>
       \o Begin("nextLoop")
       \o <<<<"op", "index", "+", "idx", "1">>, <<"addIncoming", "idx", "index", "nextLoop">>>>
       \o GoTo("preOuter") \o Begin("afterBB")

GenForInArr(s) ==
  LET r == Arrays[s.array][1]
  IN BasicBlocks(<<"beforeBB", "afterBB", "preLoop", "loopBB">>)
       \o <<<<"const", "lo", r.lo>>, <<"const", "hi", r.hi>>>>
       \o GoTo("beforeBB") \o Begin("beforeBB") \o GoTo("preLoop") \o Begin("preLoop")
       \o <<<<"PHI", "idx", <<<<"lo", "beforeBB">>>>>>, <<"op", "cmp", "<=", "idx", "hi">>,
            <<"CondBr", "cmp", "loopBB", "afterBB">>>>
       \o Begin("loopBB")
       \o <<<<"op", "calcIndex", "-", "idx", "lo">>, <<"loadelem", "val", s.array, "calcIndex">>,
            <<"store", s.var, "val">>>>
       \o Stmt(s.body)
       \o <<<<"op", "index", "+", "idx", "1">>, <<"addIncoming", "idx", "index", "loopBB">>>>
       \o GoTo("preLoop") \o Begin("afterBB")

While(s) ==
  BasicBlocks(<<"preBody", "bodyBB", "afterBB">>) \o GoTo("preBody") \o Begin("preBody")
    \o Expr("cond", s.cond)
    \o <<<<"op", "endCond", "=", "cond", "0">>, <<"CondBr", "endCond", "afterBB", "bodyBB">>>>
    \o Begin("bodyBB") \o Stmt(s.body) \o GoTo("preBody") \o Begin("afterBB")

Repeat(s) ==
  BasicBlocks(<<"bodyBB", "afterBB">>) \o GoTo("bodyBB") \o Begin("bodyBB")
    \o Stmt(s.body) \o Expr("cond", s.cond)
    \o <<<<"op", "endCond", "<>", "cond", "0">>, <<"CondBr", "endCond", "afterBB", "bodyBB">>>>
    \o Begin("afterBB")

-----------------------------------------------------------------------------
(* Case: an arm is [labels, body], a label a range [lo, hi].  The parser   *)
(* has the statement of otherwise twice, once as an arm without labels.    *)

Distance(r) == r.hi - r.lo
IsLong(r) == Distance(r) > MaxRangeInSwitch

(* A value below the range goes on to the next one, as does one above it.  *)
CompareLong(r, caseBB) ==
  BasicBlocks(<<"next", "maybe">>)
    \o <<<<"const", "lo", r.lo>>, <<"const", "hi", r.hi>>,
         <<"op", "lt", "<", "v", "lo">>, <<"CondBr", "lt", "next", "maybe">>>>
    \o Begin("maybe") \o <<<<"op", "gt", ">", "v", "hi">>, <<"CondBr", "gt", "next", caseBB>>>>
    \o Begin("next")

(* Mutant: the last value of a short range is not one of the switch's.     *)
ShortValuesOpen(r, caseBB) == [k \in 1 .. Distance(r) |-> <<r.lo + k - 1, caseBB>>]
ShortValues(r, caseBB) == [k \in 1 .. Distance(r) + 1 |-> <<r.lo + k - 1, caseBB>>]

Case(s) ==
  LET arms == IF s.otherwise = Nothing THEN s.arms
              ELSE Append(s.arms, [labels |-> <<>>, body |-> s.otherwise])
      defaultBB == IF s.otherwise = Nothing THEN "afterBB" ELSE "defaultBB"
      CaseBB(i) == "case" \o ToString(i)
      Each(Labels(_, _)) == FlattenSeq([i \in DOMAIN arms |->
        FlattenSeq([j \in DOMAIN arms[i].labels |-> Labels(arms[i].labels[j], CaseBB(i))])])
  IN Expr("v", s.x) \o <<<<"GetInsertBlock", "bb">>>> \o BasicBlocks(<<"afterBB">>)
       \o (IF s.otherwise = Nothing THEN <<>> ELSE BasicBlocks(<<"defaultBB">>))
       \o FlattenSeq([i \in DOMAIN arms |->
            BasicBlocks(<<CaseBB(i)>>) \o Begin(CaseBB(i)) \o Stmt(arms[i].body) \o GoTo("afterBB")])
       \o Begin("bb") \o Each(LAMBDA r, bb : IF IsLong(r) THEN CompareLong(r, bb) ELSE <<>>)
       \o <<<<"Switch", "v", defaultBB,
              Each(LAMBDA r, bb : IF IsLong(r) THEN <<>> ELSE ShortValues(r, bb))>>>>
       \o (IF s.otherwise = Nothing THEN <<>>
           ELSE Begin("defaultBB") \o Stmt(s.otherwise) \o GoTo("afterBB"))
       \o Begin("afterBB")

-----------------------------------------------------------------------------
Label(s) == <<<<"GotoTarget", "labelBB", s.label>>>> \o GoTo("labelBB") \o Begin("labelBB")

(* What follows a goto goes to a block that nothing leads to.              *)
Goto(s) ==
  <<<<"GotoTarget", "labelBB", s.label>>>> \o GoTo("labelBB")
    \o BasicBlocks(<<"dead">>) \o Begin("dead")

WithStatement(s) == Stmt(s.body)

CodeGen(s) ==
  CASE s.s = "nothing" -> <<>>
    [] s.s = "block"   -> Block(s)
    [] s.s = "assign"  -> Assign(s)
    [] s.s = "store"   -> AssignElement(s)
    [] s.s = "write"   -> Write(s)
    [] s.s = "if"      -> If(s)
    [] s.s = "for"     -> For(s)
    [] s.s = "for set" -> GenForInSet(s)
    [] s.s = "for array" -> GenForInArr(s)
    [] s.s = "while"   -> While(s)
    [] s.s = "repeat"  -> Repeat(s)
    [] s.s = "case"    -> Case(s)
    [] s.s = "label"   -> Label(s)
    [] s.s = "goto"    -> Goto(s)
    [] s.s = "with"    -> WithStatement(s)

(* FunctionAST::CodeGen of a procedure: CreateRetVoid behind the body.     *)
FunctionCodeGen(body, labels) ==
  Build(NewGraph(labels), CodeGen(body) \o <<<<"return">>>>).g
=============================================================================
