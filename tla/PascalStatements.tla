-------------------------- MODULE PascalStatements --------------------------
(***************************************************************************)
(* What the statements of Statements mean in Pascal.  Eval gives the value *)
(* of an expression, Run what a statement makes of a state of the program; *)
(* neither knows of blocks.  A record m is such a state: the value of each *)
(* variable, the elements of arrays and sets, what was written, and why    *)
(* the program is not going on with the next statement.                    *)
(***************************************************************************)
EXTENDS Integers, Sequences, SequencesExt

CONSTANTS ArrayRanges, SetRanges, MinInt, MaxInt

(* Why a program does not go on with the next statement: a label, which is *)
(* above zero and below Faults, or a fault, which an expression may have   *)
(* instead of a value.                                                     *)
GoesOn == 0
Faults == 1000
RangeError == 1001
OutOfFuel == 1002
Overflow == 1003
IsFault(n) == n > Faults

(* The value of a for loop's variable behind the loop.                     *)
Undefined == Faults

RECURSIVE Eval(_, _), Run(_, _), RunFrom(_, _, _)

-----------------------------------------------------------------------------
Number(n) == IF n \in MinInt .. MaxInt THEN n ELSE Overflow
Bool(b) == IF b THEN 1 ELSE 0
Abs(n) == IF n < 0 THEN -n ELSE n
Signum(n) == IF n < 0 THEN -1 ELSE 1

Calculate(op, l, r) ==
  CASE op = "+" -> Number(l + r)
    [] op = "-" -> Number(l - r)
    [] op = "*" -> Number(l * r)
    [] op = "div" -> Number(Signum(l) * Signum(r) * (Abs(l) \div Abs(r)))
    [] op = "mod" -> Signum(l) * (Abs(l) % Abs(r))
    [] op = "="  -> Bool(l = r)
    [] op = "<>" -> Bool(l # r)
    [] op = "<"  -> Bool(l < r)
    [] op = "<=" -> Bool(l <= r)
    [] op = ">"  -> Bool(l > r)
    [] op = ">=" -> Bool(l >= r)
    [] op = "pow" -> CASE r = 0 -> 1
                       [] r > 0 -> Number(l^r)
                       [] r < 0 /\ Abs(l) = 1 -> l^(-r)
                       [] r < 0 /\ Abs(l) # 1 -> 0
Apply(op, l, r) ==
  CASE IsFault(l) -> l
    [] ~IsFault(l) /\ IsFault(r) -> r
    [] OTHER -> Calculate(op, l, r)

(* An element is that of a sequence of indexes.                            *)
Faulty(values) == SelectSeq(values, IsFault)
Inside(is, ranges) == \A i \in DOMAIN is : ranges[i].lo <= is[i] /\ is[i] <= ranges[i].hi
Indexes(x, m) == [i \in DOMAIN x.ix |-> Eval(x.ix[i], m)]
IndexFault(is, ranges) ==
  CASE Faulty(is) # <<>> -> Head(Faulty(is))
    [] Faulty(is) = <<>> /\ ~Inside(is, ranges) -> RangeError
    [] OTHER -> GoesOn
Element(array, is, ranges) ==
  IF IndexFault(is, ranges) = GoesOn THEN array[is] ELSE IndexFault(is, ranges)

Not(n) == IF IsFault(n) THEN n ELSE 1 - n
Negative(n) == IF IsFault(n) THEN n ELSE Number(-n)

(* The right side counts unless the left one decides.                      *)
Unless(decides, l, r) == IF IsFault(l) \/ l = decides THEN l ELSE r

Eval(x, m) ==
  CASE x.e = "integer"  -> x.n
    [] x.e = "variable" -> m.env[x.v]
    [] x.e = "element"  -> Element(m.array[x.a], Indexes(x, m), ArrayRanges[x.a])
    [] x.e = "binary"   -> Apply(x.op, Eval(x.l, m), Eval(x.r, m))
    [] x.e = "minus"    -> Negative(Eval(x.x, m))
    [] x.e = "not"      -> Not(Eval(x.x, m))
    [] x.e = "and_then" -> Unless(0, Eval(x.l, m), Eval(x.r, m))
    [] x.e = "or_else"  -> Unless(1, Eval(x.l, m), Eval(x.r, m))

-----------------------------------------------------------------------------
Stopped(m, jump) == [m EXCEPT !.jump = jump]
Burn(m) == IF m.fuel = 0 THEN Stopped(m, OutOfFuel) ELSE [m EXCEPT !.fuel = @ - 1]

(* What a statement does with the value n of its expression.               *)
Assign(s, n, m) == IF IsFault(n) THEN Stopped(m, n) ELSE [m EXCEPT !.env[s.v] = n]
Write(n, m) == IF IsFault(n) THEN Stopped(m, n) ELSE [m EXCEPT !.output = Append(@, n)]
Store(to, is, n, m) ==
  CASE IndexFault(is, ArrayRanges[to]) # GoesOn -> Stopped(m, IndexFault(is, ArrayRanges[to]))
    [] IndexFault(is, ArrayRanges[to]) = GoesOn /\ IsFault(n) -> Stopped(m, n)
    [] OTHER -> [m EXCEPT !.array[to][is] = n]
Choose(n, yes, no, m) == IF IsFault(n) THEN Stopped(m, n) ELSE Run(IF n = 1 THEN yes ELSE no, m)

(* The body for each of these values of the variable, which is not defined *)
(* behind the loop unless a goto leaves it.                                *)
Left(s, m) == IF m.jump = GoesOn THEN [m EXCEPT !.env[s.var] = Undefined] ELSE m
Each(s, values, m) ==
  Left(s, FoldLeft(LAMBDA k, value : IF k.jump # GoesOn THEN k
                                     ELSE Run(s.body, [k EXCEPT !.env[s.var] = value]), m, values))

Ascending(lo, hi) == IF hi < lo THEN <<>> ELSE [i \in 1 .. hi - lo + 1 |-> lo + i - 1]
Values(s, lo, hi) == IF s.down THEN Reverse(Ascending(hi, lo)) ELSE Ascending(lo, hi)
For(s, lo, hi, m) ==
  IF IsFault(lo) \/ IsFault(hi) THEN Stopped(m, IF IsFault(lo) THEN lo ELSE hi)
  ELSE Each(s, Values(s, lo, hi), m)

While(s, n, m) ==
  CASE IsFault(n) -> Stopped(m, n)
    [] n = 0 -> m
    [] n = 1 -> Run(s, Run(s.body, Burn(m)))
Until(s, m) == IF m.jump # GoesOn THEN m ELSE Choose(Eval(s.cond, m), [s |-> "nothing"], s, m)

Covers(label, n) == label.lo <= n /\ n <= label.hi
Arms(s, n) == {i \in DOMAIN s.arms : \E j \in DOMAIN s.arms[i].labels : Covers(s.arms[i].labels[j], n)}
Case(s, n, m) ==
  CASE IsFault(n) -> Stopped(m, n)
    [] ~IsFault(n) /\ Arms(s, n) = {} -> Run(s.otherwise, m)
    [] OTHER -> Run(s.arms[CHOOSE i \in Arms(s, n) : TRUE].body, m)

Run(s, m) ==
  IF m.jump # GoesOn THEN m ELSE
  CASE s.s \in {"nothing", "label"} -> m
    [] s.s = "block"  -> RunFrom(s.content, 1, m)
    [] s.s = "assign" -> Assign(s, Eval(s.x, m), m)
    [] s.s = "store"  -> Store(s.to.a, Indexes(s.to, m), Eval(s.x, m), m)
    [] s.s = "write"  -> Write(Eval(s.x, m), m)
    [] s.s = "if"     -> Choose(Eval(s.cond, m), s.then, s.other, m)
    [] s.s = "for"    -> For(s, Eval(s.start, m), Eval(s.end, m), m)
    [] s.s = "for set" -> LET r == SetRanges[s.set]
                          IN Each(s, SelectSeq(Ascending(r.lo, r.hi), LAMBDA x : x \in m.set[s.set]), m)
    [] s.s = "for array" -> LET r == ArrayRanges[s.array][1]
                            IN Each(s, [i \in 1 .. r.hi - r.lo + 1 |-> m.array[s.array][<<r.lo + i - 1>>]], m)
    [] s.s = "while"  -> While(s, Eval(s.cond, m), m)
    [] s.s = "repeat" -> Until(s, Run(s.body, Burn(m)))
    [] s.s = "case"   -> Case(s, Eval(s.x, m), m)
    [] s.s = "goto"   -> Stopped(m, s.label)
    [] s.s = "with"   -> Run(s.body, m)

(* A block goes on behind a label of its own that is jumped to.            *)
LabelIn(content, label) == {k \in DOMAIN content : content[k].s = "label" /\ content[k].label = label}
RunFrom(content, i, m) ==
  CASE LabelIn(content, m.jump) # {} ->
         RunFrom(content, (CHOOSE k \in LabelIn(content, m.jump) : TRUE) + 1, Burn([m EXCEPT !.jump = GoesOn]))
    [] i > Len(content) \/ m.jump # GoesOn -> m
    [] OTHER -> RunFrom(content, i + 1, Run(content[i], m))
=============================================================================
