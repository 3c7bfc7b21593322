--------------------------- MODULE MCControlFlow ---------------------------
(* ControlFlow on integers of five bits, words of two bits, and programs   *)
(* that take each statement to the ends of its types.                      *)
EXTENDS ControlFlow, FiniteSetsExt

MCArrays == [a |-> <<[lo |-> -1, hi |-> 1]>>,
             b |-> <<[lo |-> 1, hi |-> 2], [lo |-> -1, hi |-> 1]>>]
MCSets == [s |-> [lo |-> -1, hi |-> 3]]

-----------------------------------------------------------------------------
(* Writing programs.                                                       *)

I(n) == [e |-> "integer", n |-> n]
V(v) == [e |-> "variable", v |-> v]
B(op, l, r) == [e |-> "binary", op |-> op, l |-> l, r |-> r]
And(l, r) == [e |-> "and_then", l |-> l, r |-> r]
Or(l, r) == [e |-> "or_else", l |-> l, r |-> r]
Not(x) == [e |-> "not", x |-> x]
Elem(a, ix) == [e |-> "element", a |-> a, ix |-> ix, checked |-> TRUE]
Set(v, x) == [s |-> "assign", v |-> v, x |-> x]
Put(x) == [s |-> "write", x |-> x]
Do(content) == [s |-> "block", content |-> content]
IfThen(c, then, other) == [s |-> "if", cond |-> c, then |-> then, other |-> other]
Loop(start, end, down, unsigned, body) ==
  [s |-> "for", var |-> "i", start |-> start, end |-> end, down |-> down,
   unsigned |-> unsigned, body |-> body]
CaseOf(x, arms, otherwise) == [s |-> "case", x |-> x, arms |-> arms, otherwise |-> otherwise]
Arm(labels, body) == [labels |-> labels, body |-> body]
To(lo, hi) == [lo |-> lo, hi |-> hi]
GotoL(l) == [s |-> "goto", label |-> l]
L(l) == [s |-> "label", label |-> l]

In(n, m, set) ==
  [env |-> [n |-> n, m |-> m, i |-> 0],
   array |-> [a |-> [is \in IndexesOf(MCArrays.a) |-> is[1] * 2],
              b |-> [is \in IndexesOf(MCArrays.b) |-> is[1] - is[2]]],
   set |-> [s |-> set]]
Some == {In(n, m, {}) : n \in {-16, -2, 0, 1, 2, 15}, m \in {-1, 1, 3}}
One == {In(1, 3, {})}
SomeSets == {In(0, 0, t) : t \in SUBSET (-1 .. 3)}

P(inputs, bodies) ==
  FoldSet(LAMBDA b, ps : Append(ps, [body |-> b, labels |-> {1, 2}, inputs |-> inputs]), <<>>, bodies)

-----------------------------------------------------------------------------
Signed == {-16, -15, 0, 14, 15}
Counted == {0, 1, 30, 31}
ForLoops ==
  {Loop(I(x), I(y), down, FALSE, b) :
     x, y \in Signed, down \in BOOLEAN, b \in {Put(V("i")), Set("n", V("i"))}}
    \cup {Loop(I(x), I(y), down, TRUE, Put(V("i"))) : x, y \in Counted, down \in BOOLEAN}

(* The bounds change, the body branches, leaves and repeats the loop.      *)
LoopBodies ==
  {Do(<<Set("m", B("-", V("m"), I(1))), Put(V("m"))>>),
   IfThen(B("=", V("i"), V("m")), Put(V("i")), Nothing),
   Do(<<IfThen(B("<", V("i"), V("m")), Set("m", V("i")), Put(V("m"))), Put(V("i"))>>),
   Do(<<Put(V("i")), IfThen(B(">=", V("i"), V("m")), GotoL(1), Nothing)>>),
   IfThen(And(B("<>", V("i"), V("m")), B(">", V("i"), I(0))), Put(V("i")), Nothing),
   CaseOf(V("i"), <<Arm(<<To(0, 1)>>, Put(V("m")))>>, Nothing)}
Nested ==
  {Do(<<Loop(V("n"), V("m"), down, FALSE, b), Put(V("n")), L(1), Put(V("m"))>>) :
     down \in BOOLEAN, b \in LoopBodies}

Conditions ==
  LET a == B("<", V("n"), I(3))  b == B("<>", V("m"), V("n"))  c == B(">", V("m"), I(0))
  IN {a, Not(a), And(a, b), Or(a, b), And(And(a, b), c), Or(And(a, Not(b)), c), Not(Or(b, c)),
      And(a, B("=", B("mod", V("m"), I(2)), B("div", V("n"), I(2))))}
Step == Do(<<Put(V("n")), Set("n", B("+", V("n"), I(1)))>>)
Branches ==
  {IfThen(c, Put(I(1)), o) : c \in Conditions, o \in {Nothing, Put(I(2))}}
    \cup {Do(<<[s |-> "while", cond |-> And(c, B("<", V("n"), I(5))), body |-> Step], Put(V("n"))>>) :
            c \in Conditions}
    \cup {[s |-> "repeat", cond |-> Or(c, B(">=", V("n"), I(5))), body |-> Step] : c \in Conditions}

Labels == {To(-16, -11), To(-3, 2), To(0, 0), To(0, 3), To(-2, -1), To(5, 7)}
Cases ==
  {CaseOf(V("n"), <<Arm(<<x>>, Put(I(1))), Arm(<<y>>, IfThen(B("=", V("m"), I(1)), Put(I(2)), Nothing))>>, o) :
     x \in Labels, y \in {To(-5, -4), To(4, 4)}, o \in {Nothing, Put(I(3))}}
    \cup {CaseOf(B("+", V("n"), I(-1)),
            <<Arm(<<To(-1, 2), To(-16, -16)>>, Set("n", I(0))), Arm(<<To(3, 7)>>, Put(V("n")))>>, Nothing)}

(* A base of one or nought to a power below nought is left out.            *)
Powers == {Put(B("pow", I(x), I(y))) : x \in {-2, -1, 2, 3}, y \in -3 .. 5}
            \cup {Put(B("pow", I(x), I(y))) : x \in {0, 1}, y \in 0 .. 3}
            \cup {Put(B("+", B("pow", I(2), V("m")), B("pow", I(-1), V("n"))))}

Jumps ==
  {Do(<<L(1), Step, IfThen(B("<", V("n"), V("m")), GotoL(1), Nothing), Put(V("m"))>>),
   Do(<<IfThen(B("<", V("n"), I(0)), GotoL(2), Nothing), Put(I(1)), GotoL(1), Put(I(3)),
        L(2), Put(I(2)), L(1), Put(V("n"))>>),
   Do(<<Loop(I(0), I(2), FALSE, FALSE,
          Loop(I(1), I(2), TRUE, FALSE,
            Do(<<L(2), Set("n", B("+", V("n"), I(1))), IfThen(B("<", V("n"), I(0)), GotoL(2), GotoL(1))>>))),
        L(1), Put(V("n"))>>)}

Elements ==
  {Put(Elem("a", <<V("n")>>)), Put(Elem("b", <<V("n"), V("m")>>)), Put(Elem("b", <<V("m"), V("n")>>)),
   Put(Elem("a", <<Elem("a", <<V("n")>>)>>)),
   Do(<<[s |-> "store", to |-> Elem("b", <<V("n"), V("m")>>), x |-> I(5)], Put(I(1))>>),
   Do(<<Put(I(4)), [s |-> "store", to |-> Elem("a", <<V("m")>>), x |-> Elem("a", <<V("n")>>)]>>),
   IfThen(B("=", Elem("a", <<V("n")>>), I(2)), Put(I(1)), Nothing),
   Loop(I(-1), V("n"), FALSE, FALSE, Put(Elem("a", <<V("i")>>)))}

ForIns ==
  {[s |-> "for set", set |-> "s", var |-> "i", body |-> b] :
     b \in {Put(V("i")), Do(<<Put(V("i")), Set("n", B("+", V("n"), V("i")))>>)}}
ForArrays ==
  {[s |-> "for array", array |-> "a", var |-> "i", body |-> [s |-> "with", body |-> Put(V("i"))]],
   Do(<<[s |-> "for array", array |-> "a", var |-> "i", body |-> Set("n", B("+", V("n"), V("i")))],
        Put(V("n"))>>)}

MCPrograms ==
  P(One, ForLoops) \o P(Some, Nested \cup Branches \cup Cases \cup Jumps \cup Elements \cup ForArrays)
    \o P(Some, Powers) \o P(SomeSets, ForIns)
=============================================================================
