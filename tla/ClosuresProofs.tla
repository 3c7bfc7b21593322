--------------------------- MODULE ClosuresProofs ---------------------------
(***************************************************************************)
(* What Closures promises of every program, whatever its nesting and its   *)
(* calls, and of every order of the map.                                   *)
(***************************************************************************)
EXTENDS Closures, TLAPS, WellFoundedInduction

(* What the lemmas about a program need of it.                             *)
Fixed == prog \in Program /\ Nested(prog)

LEMMA LeastIndex ==
  ASSUME NEW T, T \subseteq Nat, T # {}
  PROVE  \E i \in T : \A j \in T : i <= j
  <1>1. \E i \in T : \A j \in T : ~(<<j, i>> \in OpToRel(<, Nat))
    BY WFMin, NatLessThanWellFounded, Zenon
  <1>2. PICK i \in T : \A j \in T : ~(<<j, i>> \in OpToRel(<, Nat))
    BY <1>1
  <1>3. ASSUME NEW j \in T
        PROVE  i <= j
    <2>1. i \in Nat /\ j \in Nat
      OBVIOUS
    <2>2. ~(j < i)
      BY <1>2, <2>1, Zenon DEF OpToRel
    <2>3. QED  BY <2>1, <2>2
  <1>4. QED  BY <1>2, <1>3

LEMMA ProgramTypes ==
  ASSUME Fixed, NEW f \in Functions
  PROVE  /\ prog.above[f] \in Seq(Functions)
         /\ prog.locals[f] \subseteq Variables
         /\ prog.names[f] \subseteq Variables
         /\ prog.calls[f] \subseteq Functions
  BY DEF Fixed, Program

LEMMA AboveTypes ==
  ASSUME Fixed, NEW f \in Functions
  PROVE  /\ Len(prog.above[f]) \in Nat
         /\ DOMAIN prog.above[f] = 1 .. Len(prog.above[f])
         /\ \A i \in DOMAIN prog.above[f] : prog.above[f][i] \in Functions
  BY ProgramTypes

(* The functions around the i-th function around f.                        *)
LEMMA AboveAbove ==
  ASSUME Fixed, NEW f \in Functions, NEW i \in DOMAIN prog.above[f]
  PROVE  /\ prog.above[f][i] # f
         /\ Len(prog.above[prog.above[f][i]]) = Len(prog.above[f]) - i
         /\ \A j \in 1 .. Len(prog.above[f]) - i :
              prog.above[prog.above[f][i]][j] = prog.above[f][i + j]
  <1>1. prog.above[f][i] \in Functions
    BY AboveTypes
  <1>2. /\ prog.above[f][i] # f
        /\ Len(prog.above[prog.above[f][i]]) = Len(prog.above[f]) - i
        /\ \A j \in DOMAIN prog.above[prog.above[f][i]] :
             prog.above[prog.above[f][i]][j] = prog.above[f][i + j]
    BY DEF Fixed, Nested
  <1>3. QED  BY <1>1, <1>2, AboveTypes

-----------------------------------------------------------------------------
(* Nesting is transitive, so an outer text holds the inner one.            *)
LEMMA WithinTransitive ==
  ASSUME Fixed, NEW f \in Functions, NEW g \in Within(f), NEW k \in Within(g)
  PROVE  k \in Within(f)
  <1>1. g \in Functions /\ k \in Functions
    BY DEF Within
  <1>2. CASE g = f \/ k = g
    BY <1>2
  <1>3. CASE g # f /\ k # g
    <2>1. PICK i \in DOMAIN prog.above[g] : f = prog.above[g][i]
      BY <1>3 DEF Within, Enclosing
    <2>2. PICK j \in DOMAIN prog.above[k] : g = prog.above[k][j]
      BY <1>3 DEF Within, Enclosing
    <2>3. /\ i \in 1 .. Len(prog.above[g]) /\ j \in 1 .. Len(prog.above[k])
          /\ Len(prog.above[g]) \in Nat /\ Len(prog.above[k]) \in Nat
      BY <1>1, <2>1, <2>2, AboveTypes
    <2>4. /\ Len(prog.above[g]) = Len(prog.above[k]) - j
          /\ \A n \in 1 .. Len(prog.above[k]) - j : prog.above[g][n] = prog.above[k][j + n]
      BY <1>1, <2>2, AboveAbove
    <2>5. j + i \in DOMAIN prog.above[k] /\ prog.above[g][i] = prog.above[k][j + i]
      BY <1>1, <2>3, <2>4, AboveTypes
    <2>6. QED  BY <1>1, <2>1, <2>5 DEF Within, Enclosing
  <1>4. QED  BY <1>2, <1>3

LEMMA InnerText ==
  ASSUME Fixed, NEW f \in Functions, NEW g \in Within(f)
  PROVE  TextUses(g) \subseteq TextUses(f)
  BY WithinTransitive DEF TextUses

LEMMA TextTypes ==
  ASSUME Fixed, NEW f \in Functions
  PROVE  TextUses(f) \subseteq Variables /\ TextCalls(f) \subseteq Functions
  BY ProgramTypes DEF TextUses, TextCalls, Within

LEMMA SubsWithin ==
  ASSUME Fixed, NEW f \in Functions, NEW g \in Subs(f)
  PROVE  /\ g \in Functions /\ g \in Within(f)
         /\ 1 \in DOMAIN prog.above[g] /\ prog.above[g][1] = f
  <1>1. g \in Functions /\ prog.above[g] # <<>> /\ prog.above[g][1] = f
    BY DEF Subs
  <1>2. 1 \in DOMAIN prog.above[g]
    <2>1. prog.above[g] \in Seq(Functions)
      BY <1>1, ProgramTypes
    <2>2. QED  BY <1>1, <2>1
  <1>3. QED  BY <1>1, <1>2 DEF Within, Enclosing

-----------------------------------------------------------------------------
(* Resolve finds the nearest declaration.                                  *)
LEMMA NearestDeclarer ==
  ASSUME Fixed, NEW f \in Functions, NEW x, Declarers(f, x) # {}
  PROVE  \E i \in Declarers(f, x) :
           (\A j \in Declarers(f, x) : i <= j) /\ Resolve(f, x) = prog.above[f][i]
  <1>1. Declarers(f, x) \subseteq Nat
    BY AboveTypes DEF Declarers
  <1>2. \E i \in Declarers(f, x) : \A j \in Declarers(f, x) : i <= j
    BY <1>1, LeastIndex
  <1>3. QED  BY <1>2 DEF Resolve

LEMMA ResolveAt ==
  ASSUME Fixed, NEW f \in Functions, NEW x, NEW i \in Declarers(f, x),
         \A j \in Declarers(f, x) : i <= j
  PROVE  Resolve(f, x) = prog.above[f][i]
  <1>1. Declarers(f, x) \subseteq Nat
    BY AboveTypes DEF Declarers
  <1>2. PICK k \in Declarers(f, x) :
          (\A j \in Declarers(f, x) : k <= j) /\ Resolve(f, x) = prog.above[f][k]
    BY NearestDeclarer
  <1>3. k = i
    BY <1>1, <1>2
  <1>4. QED  BY <1>2, <1>3

LEMMA ResolveTypes ==
  ASSUME Fixed, NEW f \in Functions, NEW x, Resolve(f, x) \in Functions
  PROVE  Declarers(f, x) # {}
  BY ClosuresAssumption DEF Resolve

(* What a function means by a name and does not find inside f is what f    *)
(* means by it.                                                            *)
LEMMA OuterMeaning ==
  ASSUME Fixed, NEW f \in Functions, NEW g \in Within(f), NEW x,
         x \notin prog.locals[g], Resolve(g, x) \in Enclosing(prog, f)
  PROVE  x \notin prog.locals[f] /\ Resolve(f, x) = Resolve(g, x)
         /\ Resolve(g, x) \in Functions
  <1>0. g \in Functions /\ Resolve(g, x) \in Functions
    BY AboveTypes DEF Within, Enclosing
  <1>1. CASE g = f
    BY <1>0, <1>1
  <1>2. CASE g # f
    <2>1. PICK i \in DOMAIN prog.above[g] : f = prog.above[g][i]
      BY <1>2 DEF Within, Enclosing
    <2>2. PICK m \in Declarers(g, x) :
            (\A j \in Declarers(g, x) : m <= j) /\ Resolve(g, x) = prog.above[g][m]
      BY <1>0, NearestDeclarer, ResolveTypes
    <2>3. PICK k \in DOMAIN prog.above[f] : Resolve(g, x) = prog.above[f][k]
      BY DEF Enclosing
    <2>4. m \in DOMAIN prog.above[g] /\ x \in prog.locals[prog.above[g][m]]
      BY <2>2 DEF Declarers
    <2>5. /\ Len(prog.above[f]) \in Nat /\ Len(prog.above[g]) \in Nat
          /\ DOMAIN prog.above[f] = 1 .. Len(prog.above[f])
          /\ DOMAIN prog.above[g] = 1 .. Len(prog.above[g])
      BY <1>0, AboveTypes
    <2>6. /\ Len(prog.above[f]) = Len(prog.above[g]) - i
          /\ \A j \in 1 .. Len(prog.above[g]) - i : prog.above[f][j] = prog.above[g][i + j]
      BY <1>0, <2>1, AboveAbove
    <2>7. Len(prog.above[Resolve(g, x)]) = Len(prog.above[g]) - m
      BY <1>0, <2>2, <2>4, AboveAbove
    <2>8. Len(prog.above[Resolve(g, x)]) = Len(prog.above[f]) - k
      BY <2>3, AboveAbove
    <2>n. i \in Nat /\ m \in Nat /\ k \in Nat
      BY <2>1, <2>3, <2>4, <2>5
    <2>9. m = i + k
      BY <2>5, <2>6, <2>7, <2>8, <2>n
    <2>10. x \notin prog.locals[f]
      <3>1. SUFFICES ASSUME x \in prog.locals[f] PROVE FALSE
        OBVIOUS
      <3>2. i \in Declarers(g, x)
        BY <2>1, <3>1 DEF Declarers
      <3>3. QED  BY <2>1, <2>2, <2>3, <2>5, <2>9, <3>2
    <2>11. k \in Declarers(f, x)
      BY <2>2, <2>3, <2>4 DEF Declarers
    <2>12. ASSUME NEW j \in Declarers(f, x)
           PROVE  k <= j
      <3>1. j \in DOMAIN prog.above[f] /\ x \in prog.locals[prog.above[f][j]]
        BY DEF Declarers
      <3>n. j \in Nat /\ j \in 1 .. Len(prog.above[g]) - i
        BY <2>5, <2>6, <3>1
      <3>2. prog.above[f][j] = prog.above[g][i + j] /\ i + j \in DOMAIN prog.above[g]
        BY <2>1, <2>5, <2>6, <2>n, <3>n
      <3>3. i + j \in Declarers(g, x)
        BY <3>1, <3>2 DEF Declarers
      <3>4. QED  BY <2>1, <2>2, <2>3, <2>5, <2>9, <3>1, <3>3
    <2>13. QED  BY <1>0, <2>3, <2>10, <2>11, <2>12, ResolveAt
  <1>3. QED  BY <1>1, <1>2

-----------------------------------------------------------------------------
(* The inductive invariant.  TextUses of a function only ever loses the    *)
(* function's own declarations, wherever the recursion has got to; that is *)
(* all the first three conjuncts say, of useMap, of the loop's copy and of *)
(* what SetUsedVars has stored.                                            *)
Seen == \A f \in Functions : TextUses(f) \ prog.locals[f] \subseteq useMap[f]

Copied == current # Global => TextUses(current) \ prog.locals[current] \subseteq uses

Stored ==
  \A f \in Functions \ (todo \cup {current}) :
    \A x \in TextUses(f) \ prog.locals[f] :
      Resolve(f, x) \in Functions => <<x, Resolve(f, x)>> \in used[f]

Resolved ==
  \A f \in Functions : \A xd \in used[f] :
    xd[1] \notin prog.locals[f] /\ xd[2] = Resolve(f, xd[1])

FramesOk == \A i \in DOMAIN stack : stack[i].subs \subseteq Subs(stack[i].fn)

IInv == TypeOK /\ Seen /\ Copied /\ Stored /\ Resolved /\ FramesOk

LEMMA FixedProgram ==
  ASSUME TypeOK
  PROVE  Fixed
  BY DEF TypeOK, Fixed

(* The operators on the program do not change while it does not.           *)
LEMMA SameProgram ==
  ASSUME prog' = prog
  PROVE  /\ \A f : TextUses(f)' = TextUses(f)
         /\ \A f : Subs(f)' = Subs(f)
         /\ \A f, x : Resolve(f, x)' = Resolve(f, x)
  BY DEF TextUses, Within, Enclosing, Subs, Resolve, Declarers

LEMMA ElementType ==
  ASSUME NEW S, NEW s \in Seq(S), NEW i \in DOMAIN s
  PROVE  s[i] \in S
  OBVIOUS

LEMMA FrontType ==
  ASSUME NEW S, NEW s \in Seq(S), s # <<>>
  PROVE  /\ SubSeq(s, 1, Len(s) - 1) \in Seq(S)
         /\ \A i \in DOMAIN SubSeq(s, 1, Len(s) - 1) :
              i \in DOMAIN s /\ SubSeq(s, 1, Len(s) - 1)[i] = s[i]
  <1>1. Len(s) \in Nat \ {0} /\ DOMAIN s = 1 .. Len(s)
    OBVIOUS
  <1>l. Len(s) - 1 \in Nat
    BY <1>1
  <1>2. PICK n \in Nat : n = Len(s) - 1
    BY <1>l, Zenon
  <1>3. \A i \in 1 .. n : i \in DOMAIN s /\ s[i] \in S
    BY <1>1, <1>2, ElementType
  <1>4. SubSeq(s, 1, n) \in Seq(S) /\ Len(SubSeq(s, 1, n)) = n
    BY <1>1, <1>2, <1>3
  <1>5. \A i \in 1 .. n : SubSeq(s, 1, n)[i] = s[i]
    BY <1>1, <1>2
  <1>6. DOMAIN SubSeq(s, 1, n) = 1 .. n
    BY <1>4
  <1>7. QED  BY <1>2, <1>3, <1>4, <1>5, <1>6

(* The top frame.                                                          *)
LEMMA TopTypes ==
  ASSUME TypeOK, FramesOk, stack # <<>>
  PROVE  /\ Len(stack) \in DOMAIN stack
         /\ Top.fn \in Functions /\ Top.subs \subseteq Subs(Top.fn)
         /\ Top.subs \subseteq Functions
  <1>1. stack \in Seq([fn : Functions, subs : SUBSET Functions])
    BY DEF TypeOK
  <1>2. Len(stack) \in DOMAIN stack
    BY <1>1
  <1>3. stack[Len(stack)] \in [fn : Functions, subs : SUBSET Functions]
    BY <1>1, <1>2, ElementType
  <1>4. QED  BY <1>2, <1>3 DEF Top, FramesOk

LEMMA FrameTypes ==
  ASSUME NEW f \in Functions
  PROVE  /\ Frame(f) \in [fn : Functions, subs : SUBSET Functions]
         /\ Frame(f).fn = f /\ Frame(f).subs = Subs(f)
  BY DEF Frame, Subs

LEMMA CalledTypes ==
  ASSUME TypeOK, NEW f \in Functions
  PROVE  CalledUses(f) \subseteq Variables
  BY FixedProgram, TextTypes DEF CalledUses, TypeOK

(* Entering a function leaves useMap and processed typed, and nothing is   *)
(* taken away from useMap.                                                 *)
LEMMA PushKeeps ==
  ASSUME TypeOK, NEW f \in Functions, Push(f)
  PROVE  /\ useMap' \in [Functions -> SUBSET Variables]
         /\ processed' \in [Functions -> BOOLEAN]
         /\ useMap'[f] = useMap[f] \cup CalledUses(f)
         /\ \A g \in Functions \ {f} : useMap'[g] = useMap[g]
  <1>1. useMap \in [Functions -> SUBSET Variables] /\ processed \in [Functions -> BOOLEAN]
    BY DEF TypeOK
  <1>2. PICK u : u = useMap[f] \cup CalledUses(f)
    OBVIOUS
  <1>3. u \in SUBSET Variables
    BY <1>1, <1>2, CalledTypes
  <1>4. useMap' = [useMap EXCEPT ![f] = u] /\ processed' = [processed EXCEPT ![f] = TRUE]
    BY <1>2 DEF Push
  <1>5. QED  BY <1>1, <1>2, <1>3, <1>4

LEMMA InitInvariant == Init => IInv
  <1> SUFFICES ASSUME Init PROVE IInv
    OBVIOUS
  <1>1. prog \in Program /\ Nested(prog)
    BY ClosuresAssumption DEF Init
  <1>2. \A f \in Functions : TextUses(f) \subseteq Variables
    BY <1>1, TextTypes DEF Fixed
  <1>3. TypeOK
    BY <1>1, <1>2 DEF Init, TypeOK
  <1>4. QED
    BY <1>3 DEF Init, IInv, Seen, Copied, Stored, Resolved, FramesOk

(* A step inside the recursion that takes from useMap at most the          *)
(* declarations of the function it is at.                                  *)
LEMMA RecursionStep ==
  ASSUME IInv, UNCHANGED <<prog, todo, current, uses, used>>,
         useMap' \in [Functions -> SUBSET Variables],
         processed' \in [Functions -> BOOLEAN],
         stack' \in Seq([fn : Functions, subs : SUBSET Functions]),
         \A i \in DOMAIN stack' : stack'[i].subs \subseteq Subs(stack'[i].fn),
         \A f \in Functions : useMap[f] \ prog.locals[f] \subseteq useMap'[f]
  PROVE  IInv'
  <1>1. TypeOK'
    BY DEF IInv, TypeOK
  <1>2. Seen'
    BY SameProgram DEF IInv, Seen
  <1>3. Copied' /\ Stored' /\ Resolved'
    BY SameProgram DEF IInv, Copied, Stored, Resolved
  <1>4. FramesOk'
    BY SameProgram DEF FramesOk
  <1>5. QED  BY <1>1, <1>2, <1>3, <1>4 DEF IInv

LEMMA AddDoneSubInvariant ==
  ASSUME IInv, AddDoneSub
  PROVE  IInv'
  <1>1. /\ Len(stack) \in DOMAIN stack
        /\ Top.fn \in Functions /\ Top.subs \subseteq Subs(Top.fn)
        /\ Top.subs \subseteq Functions
    BY TopTypes DEF IInv, AddDoneSub
  <1>2. PICK s \in Top.subs :
          /\ useMap' = [useMap EXCEPT ![Top.fn] = @ \cup useMap[s]]
          /\ stack' = [stack EXCEPT ![Len(stack)].subs = @ \ {s}]
    BY DEF AddDoneSub
  <1>3. UNCHANGED <<prog, todo, current, uses, used, processed>>
    BY DEF AddDoneSub
  <1>4. /\ useMap \in [Functions -> SUBSET Variables] /\ processed \in [Functions -> BOOLEAN]
        /\ stack \in Seq([fn : Functions, subs : SUBSET Functions])
    BY DEF IInv, TypeOK
  <1>5. PICK top : top = Top.fn
    OBVIOUS
  <1>6. /\ useMap' \in [Functions -> SUBSET Variables]
        /\ \A f \in Functions : useMap[f] \subseteq useMap'[f]
    <2>1. PICK u : u = useMap[top] \cup useMap[s]
      OBVIOUS
    <2>2. u \in SUBSET Variables
      BY <1>1, <1>4, <1>5, <2>1
    <2>3. useMap' = [useMap EXCEPT ![top] = u]
      BY <1>2, <1>5, <2>1
    <2>4. QED  BY <1>1, <1>4, <1>5, <2>1, <2>2, <2>3
  <1>7. /\ stack' \in Seq([fn : Functions, subs : SUBSET Functions])
        /\ \A i \in DOMAIN stack' : stack'[i].subs \subseteq Subs(stack'[i].fn)
    <2>1. PICK r : r = [fn |-> top, subs |-> Top.subs \ {s}]
      OBVIOUS
    <2>2. r \in [fn : Functions, subs : SUBSET Functions]
      BY <1>1, <1>5, <2>1
    <2>3. stack[Len(stack)] \in [fn : Functions, subs : SUBSET Functions]
      BY <1>1, <1>4, ElementType
    <2>t. PICK t : t = stack[Len(stack)]
      OBVIOUS
    <2>d. r = [fn |-> t.fn, subs |-> t.subs \ {s}]
      BY <1>5, <2>1, <2>t DEF Top
    <2>e. [t EXCEPT !.subs = @ \ {s}] = [fn |-> t.fn, subs |-> t.subs \ {s}]
      BY <2>3, <2>t
    <2>4. [stack[Len(stack)] EXCEPT !.subs = @ \ {s}] = r
      BY <2>t, <2>d, <2>e
    <2>5. stack' = [stack EXCEPT ![Len(stack)] = r]
      BY <1>2, <2>4
    <2>6. stack' \in Seq([fn : Functions, subs : SUBSET Functions])
      BY <1>1, <1>4, <2>2, <2>5
    <2>7. ASSUME NEW i \in DOMAIN stack'
          PROVE  stack'[i].subs \subseteq Subs(stack'[i].fn)
      <3>1. CASE i = Len(stack)
        BY <1>1, <1>5, <2>1, <2>5, <3>1
      <3>2. CASE i # Len(stack)
        BY <2>5, <3>2 DEF IInv, FramesOk
      <3>3. QED  BY <3>1, <3>2
    <2>8. QED  BY <2>6, <2>7
  <1>8. QED  BY <1>3, <1>4, <1>6, <1>7, RecursionStep

LEMMA EnterSubInvariant ==
  ASSUME IInv, EnterSub
  PROVE  IInv'
  <1>1. Top.subs \subseteq Functions
    BY TopTypes DEF IInv, EnterSub
  <1>2. PICK s \in Top.subs : Push(s) /\ stack' = Append(stack, Frame(s))
    BY DEF EnterSub
  <1>3. UNCHANGED <<prog, todo, current, uses, used>>
    BY DEF EnterSub
  <1>4. /\ useMap' \in [Functions -> SUBSET Variables]
        /\ processed' \in [Functions -> BOOLEAN]
        /\ \A f \in Functions : useMap[f] \subseteq useMap'[f]
    BY <1>1, <1>2, PushKeeps DEF IInv
  <1>5. /\ stack' \in Seq([fn : Functions, subs : SUBSET Functions])
        /\ \A i \in DOMAIN stack' : stack'[i].subs \subseteq Subs(stack'[i].fn)
    <2>1. PICK r : r = Frame(s)
      OBVIOUS
    <2>2. /\ r \in [fn : Functions, subs : SUBSET Functions]
          /\ r.subs \subseteq Subs(r.fn)
      BY <1>1, <2>1, FrameTypes
    <2>3. stack \in Seq([fn : Functions, subs : SUBSET Functions])
      BY DEF IInv, TypeOK
    <2>4. stack' = Append(stack, r)
      BY <1>2, <2>1
    <2>5. stack' \in Seq([fn : Functions, subs : SUBSET Functions])
      BY <2>2, <2>3, <2>4
    <2>6. ASSUME NEW i \in DOMAIN stack'
          PROVE  stack'[i] = r \/ (i \in DOMAIN stack /\ stack'[i] = stack[i])
      BY <2>2, <2>3, <2>4
    <2>7. QED  BY <2>2, <2>5, <2>6 DEF IInv, FramesOk
  <1>6. QED  BY <1>3, <1>4, <1>5, RecursionStep

LEMMA LeaveInvariant ==
  ASSUME IInv, Leave
  PROVE  IInv'
  <1>1. Top.fn \in Functions /\ stack # <<>>
    BY TopTypes DEF IInv, Leave
  <1>2. /\ useMap' = [useMap EXCEPT ![Top.fn] = @ \ prog.locals[Top.fn]]
        /\ stack' = SubSeq(stack, 1, Len(stack) - 1)
        /\ UNCHANGED <<prog, processed, todo, current, uses, used>>
    BY DEF Leave
  <1>3. /\ useMap \in [Functions -> SUBSET Variables] /\ processed \in [Functions -> BOOLEAN]
        /\ stack \in Seq([fn : Functions, subs : SUBSET Functions])
    BY DEF IInv, TypeOK
  <1>4. /\ useMap' \in [Functions -> SUBSET Variables]
        /\ \A f \in Functions : useMap[f] \ prog.locals[f] \subseteq useMap'[f]
    <2>1. PICK top : top = Top.fn
      OBVIOUS
    <2>2. PICK u : u = useMap[top] \ prog.locals[top]
      OBVIOUS
    <2>3. useMap' = [useMap EXCEPT ![top] = u] /\ u \in SUBSET Variables
      BY <1>1, <1>2, <1>3, <2>1, <2>2
    <2>4. QED  BY <1>1, <1>3, <2>1, <2>2, <2>3
  <1>5. /\ stack' \in Seq([fn : Functions, subs : SUBSET Functions])
        /\ \A i \in DOMAIN stack' : i \in DOMAIN stack /\ stack'[i] = stack[i]
    <2>1. PICK r : r = SubSeq(stack, 1, Len(stack) - 1)
      OBVIOUS
    <2>2. /\ r \in Seq([fn : Functions, subs : SUBSET Functions])
          /\ \A i \in DOMAIN r : i \in DOMAIN stack /\ r[i] = stack[i]
      BY <1>1, <1>3, <2>1, FrontType
    <2>3. QED  BY <1>2, <2>1, <2>2
  <1>6. \A i \in DOMAIN stack' : stack'[i].subs \subseteq Subs(stack'[i].fn)
    BY <1>5 DEF IInv, FramesOk
  <1>7. QED  BY <1>2, <1>3, <1>4, <1>5, <1>6, RecursionStep

LEMMA TakeInvariant ==
  ASSUME IInv, NEW f \in Functions, Take(f)
  PROVE  IInv'
  <1>1. /\ current = Global /\ current' = f /\ uses' = useMap[f] /\ todo' = todo \ {f}
        /\ UNCHANGED <<prog, used>>
    BY DEF Take
  <1>2. /\ useMap \in [Functions -> SUBSET Variables] /\ processed \in [Functions -> BOOLEAN]
        /\ stack \in Seq([fn : Functions, subs : SUBSET Functions])
    BY DEF IInv, TypeOK
  <1>3. /\ useMap' \in [Functions -> SUBSET Variables]
        /\ processed' \in [Functions -> BOOLEAN]
        /\ \A g \in Functions : useMap[g] \subseteq useMap'[g]
    <2>1. CASE processed[f]
      BY <1>2, <2>1 DEF Take
    <2>2. CASE ~processed[f]
      <3>1. Push(f)
        BY <2>2 DEF Take
      <3>2. QED  BY <3>1, PushKeeps DEF IInv
    <2>3. QED  BY <2>1, <2>2
  <1>4. /\ stack' \in Seq([fn : Functions, subs : SUBSET Functions])
        /\ \A i \in DOMAIN stack' : stack'[i].subs \subseteq Subs(stack'[i].fn)
    <2>1. CASE processed[f]
      BY <1>2, <2>1 DEF Take, IInv, FramesOk
    <2>2. CASE ~processed[f]
      <3>1. stack' = <<Frame(f)>>
        BY <2>2 DEF Take
      <3>2. QED  BY <3>1, FrameTypes
    <2>3. QED  BY <2>1, <2>2
  <1>5. TypeOK'
    BY <1>1, <1>2, <1>3, <1>4 DEF IInv, TypeOK
  <1>6. Seen'
    BY <1>1, <1>3, SameProgram DEF IInv, Seen
  <1>7. Copied'
    BY <1>1, SameProgram DEF IInv, Seen, Copied
  <1>8. Stored'
    <2>1. Functions \ (todo' \cup {current'}) \subseteq Functions \ (todo \cup {current})
      BY <1>1, ClosuresAssumption
    <2>2. QED  BY <1>1, <2>1, SameProgram DEF IInv, Stored
  <1>9. Resolved'
    BY <1>1, SameProgram DEF IInv, Resolved
  <1>10. FramesOk'
    BY <1>1, <1>4, SameProgram DEF FramesOk
  <1>11. QED  BY <1>5, <1>6, <1>7, <1>8, <1>9, <1>10 DEF IInv

LEMMA SetUsedVarsInvariant ==
  ASSUME IInv, SetUsedVars
  PROVE  IInv'
  <1>1. /\ current \in Functions /\ current' = Global /\ uses' = {}
        /\ UNCHANGED <<prog, useMap, processed, todo, stack>>
    BY DEF SetUsedVars, IInv, TypeOK
  <1>2. PICK c : c = {xd \in (uses \ prog.locals[current]) \X Functions :
                        xd[2] = Resolve(current, xd[1])}
    OBVIOUS
  <1>3. used' = [used EXCEPT ![current] = c]
    BY <1>2 DEF SetUsedVars
  <1>4. used \in [Functions -> SUBSET (Variables \X Functions)] /\ uses \in SUBSET Variables
    BY DEF IInv, TypeOK
  <1>5. c \in SUBSET (Variables \X Functions)
    BY <1>2, <1>4
  <1>6. used' \in [Functions -> SUBSET (Variables \X Functions)]
    BY <1>3, <1>4, <1>5
  <1>7. /\ used'[current] = c
        /\ \A f \in Functions \ {current} : used'[f] = used[f]
    BY <1>1, <1>3, <1>4
  <1>8. TypeOK'
    BY <1>1, <1>6 DEF IInv, TypeOK
  <1>9. Seen' /\ Copied' /\ FramesOk'
    BY <1>1, SameProgram DEF IInv, Seen, Copied, FramesOk
  <1>10. ASSUME NEW x \in TextUses(current) \ prog.locals[current],
                Resolve(current, x) \in Functions
         PROVE  <<x, Resolve(current, x)>> \in c
    <2>1. x \in uses
      BY <1>1, ClosuresAssumption DEF IInv, Copied
    <2>2. QED  BY <1>2, <1>10, <2>1
  <1>11. Stored'
    BY <1>1, <1>7, <1>10, SameProgram DEF IInv, Stored
  <1>12. Resolved'
    <2>1. \A xd \in c : xd[1] \notin prog.locals[current] /\ xd[2] = Resolve(current, xd[1])
      BY <1>2
    <2>2. QED  BY <1>1, <1>7, <2>1, SameProgram DEF IInv, Resolved
  <1>13. QED  BY <1>8, <1>9, <1>11, <1>12 DEF IInv

LEMMA Invariant == Spec => []IInv
  <1>1. Init => IInv
    BY InitInvariant
  <1>2. IInv /\ [Next]_vars => IInv'
    <2> SUFFICES ASSUME IInv, [Next]_vars PROVE IInv'
      OBVIOUS
    <2>1. ASSUME NEW f \in Functions, Take(f) PROVE IInv'
      BY <2>1, TakeInvariant
    <2>2. CASE AddDoneSub
      BY <2>2, AddDoneSubInvariant
    <2>3. CASE EnterSub
      BY <2>3, EnterSubInvariant
    <2>4. CASE Leave
      BY <2>4, LeaveInvariant
    <2>5. CASE SetUsedVars
      BY <2>5, SetUsedVarsInvariant
    <2>6. CASE UNCHANGED vars
      BY <2>6, SameProgram
         DEF vars, IInv, TypeOK, Seen, Copied, Stored, Resolved, FramesOk
    <2>7. QED  BY <2>1, <2>2, <2>3, <2>4, <2>5, <2>6 DEF Next
  <1>3. QED  BY <1>1, <1>2, PTL DEF Spec

(* Every variable of BuildClosures keeps its type, for every program and   *)
(* every order: a closure never holds what no function declares.           *)
THEOREM TypeCorrect == Spec => []TypeOK
  <1>1. IInv => TypeOK
    BY DEF IInv
  <1>2. QED  BY <1>1, Invariant, PTL

(* For every program and every order of the map, a function's closure      *)
(* holds every variable of an outer function that its text names, and the  *)
(* right one of that name (BuildClosures of callgraph.cpp).                *)
THEOREM Captured == Spec => []UsesAreCaptured
  <1>1. ASSUME IInv
        PROVE  UsesAreCaptured
    <2>0. Fixed
      BY <1>1, FixedProgram DEF IInv
    <2>1. ASSUME NEW f \in Functions \ (todo \cup {current}), NEW g \in Within(f),
                 NEW x \in prog.names[g] \ prog.locals[g],
                 Resolve(g, x) \in Enclosing(prog, f)
          PROVE  <<x, Resolve(g, x)>> \in used[f]
      <3>1. x \in TextUses(f)
        BY <2>1 DEF TextUses
      <3>2. x \notin prog.locals[f] /\ Resolve(f, x) = Resolve(g, x)
            /\ Resolve(g, x) \in Functions
        BY <2>0, <2>1, OuterMeaning
      <3>3. QED  BY <1>1, <2>1, <3>1, <3>2 DEF IInv, Stored
    <2>2. QED  BY <2>1 DEF UsesAreCaptured
  <1>2. QED  BY <1>1, Invariant, PTL

-----------------------------------------------------------------------------
(* In a program that calls inwards, nothing but a function's text and      *)
(* names that are no function's local variable ever reaches its entry.     *)
NoLocal == {x \in Variables : \A k \in Functions : x \notin prog.locals[k]}

OnlyText   == \A f \in Functions : useMap[f] \subseteq TextUses(f) \cup NoLocal
OnlyCopied == current # Global => uses \subseteq TextUses(current) \cup NoLocal
OnlyStored == \A f \in Functions : \A xd \in used[f] : xd[1] \in TextUses(f)

OnlyOwn == CallsInward => OnlyText /\ OnlyCopied /\ OnlyStored

LEMMA SameCalls ==
  ASSUME prog' = prog
  PROVE  /\ CallsInward' <=> CallsInward
         /\ NoLocal' = NoLocal
         /\ \A f : TextUses(f)' = TextUses(f)
  BY SameProgram DEF CallsInward, NoNamesake, NoLocal

(* What a function's calls add to its entry is its own text again.         *)
LEMMA CalledOwn ==
  ASSUME TypeOK, CallsInward, OnlyText, NEW f \in Functions
  PROVE  CalledUses(f) \subseteq TextUses(f) \cup NoLocal
  <1>0. Fixed
    BY FixedProgram
  <1>1. ASSUME NEW g \in TextCalls(f), NEW x \in useMap[g] \ prog.locals[g]
        PROVE  x \in TextUses(f) \cup NoLocal
    <2>1. PICK k \in Within(f) : g \in prog.calls[k]
      BY DEF TextCalls
    <2>2. k \in Functions /\ g \in Functions
      BY <1>0, <2>1, ProgramTypes DEF Within
    <2>3. x \in TextUses(g) \/ x \in NoLocal
      BY <1>1, <2>2 DEF OnlyText
    <2>4. CASE g = k
      BY <1>0, <2>1, <2>3, <2>4, InnerText
    <2>5. CASE g \in Subs(k)
      <3>1. g \in Within(f)
        BY <1>0, <2>1, <2>2, <2>5, SubsWithin, WithinTransitive
      <3>2. QED  BY <1>0, <2>3, <3>1, InnerText
    <2>6. CASE prog.above[g] = <<>> /\ NoNamesake(g)
      <3>1. x \in Variables
        BY <1>0, <2>2, <2>3, TextTypes DEF NoLocal
      <3>2. x \in NoLocal
        BY <1>1, <2>3, <2>6, <3>1 DEF NoNamesake, NoLocal
      <3>3. QED  BY <3>2
    <2>7. QED  BY <2>1, <2>2, <2>4, <2>5, <2>6 DEF CallsInward
  <1>2. QED  BY <1>1 DEF CalledUses

LEMMA OwnStep ==
  ASSUME IInv, OnlyOwn, [Next]_vars
  PROVE  OnlyOwn'
  <1> SUFFICES ASSUME CallsInward' PROVE (OnlyText /\ OnlyCopied /\ OnlyStored)'
    BY DEF OnlyOwn
  <1>0. /\ prog' = prog /\ CallsInward /\ OnlyText /\ OnlyCopied /\ OnlyStored
        /\ TypeOK /\ Fixed /\ FramesOk
    <2>1. prog' = prog
      BY DEF Next, Take, AddDoneSub, EnterSub, Leave, SetUsedVars, vars
    <2>2. QED  BY <2>1, SameCalls, FixedProgram DEF OnlyOwn, IInv
  <1>u. useMap \in [Functions -> SUBSET Variables]
    BY <1>0 DEF TypeOK
  <1>p. ASSUME NEW f \in Functions, Push(f)
        PROVE  OnlyText'
    BY <1>0, <1>p, PushKeeps, CalledOwn, SameCalls DEF OnlyText
  <1>1. ASSUME NEW f \in Functions, Take(f)
        PROVE  (OnlyText /\ OnlyCopied /\ OnlyStored)'
    <2>1. current' = f /\ uses' = useMap[f] /\ used' = used
      BY <1>1 DEF Take
    <2>2. OnlyText'
      <3>1. CASE processed[f]
        BY <1>0, <1>1, <3>1, SameCalls DEF Take, OnlyText
      <3>2. CASE ~processed[f]
        BY <1>1, <1>p, <3>2 DEF Take
      <3>3. QED  BY <3>1, <3>2
    <2>3. QED  BY <1>0, <1>1, <2>1, <2>2, SameCalls DEF OnlyText, OnlyCopied, OnlyStored
  <1>2. CASE AddDoneSub
    <2>1. /\ Top.fn \in Functions /\ Top.subs \subseteq Subs(Top.fn)
      BY <1>0, <1>2, TopTypes DEF AddDoneSub
    <2>2. PICK s \in Top.subs : useMap' = [useMap EXCEPT ![Top.fn] = @ \cup useMap[s]]
      BY <1>2 DEF AddDoneSub
    <2>3. PICK top : top = Top.fn
      OBVIOUS
    <2>4. s \in Functions /\ TextUses(s) \subseteq TextUses(top)
      BY <1>0, <2>1, <2>2, <2>3, SubsWithin, InnerText
    <2>5. useMap[s] \subseteq TextUses(top) \cup NoLocal
      BY <1>0, <2>4 DEF OnlyText
    <2>6. OnlyText'
      BY <1>0, <1>u, <2>1, <2>2, <2>3, <2>5, SameCalls DEF OnlyText
    <2>7. QED  BY <1>0, <1>2, <2>6, SameCalls DEF AddDoneSub, OnlyCopied, OnlyStored
  <1>3. CASE EnterSub
    <2>1. Top.subs \subseteq Functions
      BY <1>0, <1>3, TopTypes DEF EnterSub
    <2>2. OnlyText'
      BY <1>3, <1>p, <2>1 DEF EnterSub
    <2>3. QED  BY <1>0, <1>3, <2>2, SameCalls DEF EnterSub, OnlyCopied, OnlyStored
  <1>4. CASE Leave
    <2>1. Top.fn \in Functions
      BY <1>0, <1>4, TopTypes DEF Leave
    <2>2. useMap' = [useMap EXCEPT ![Top.fn] = @ \ prog.locals[Top.fn]]
      BY <1>4 DEF Leave
    <2>3. OnlyText'
      BY <1>0, <1>u, <2>1, <2>2, SameCalls DEF OnlyText
    <2>4. QED  BY <1>0, <1>4, <2>3, SameCalls DEF Leave, OnlyCopied, OnlyStored
  <1>5. CASE SetUsedVars
    <2>1. /\ current \in Functions /\ current' = Global
          /\ useMap' = useMap
      BY <1>0, <1>5 DEF SetUsedVars, TypeOK
    <2>2. PICK c : c = {xd \in (uses \ prog.locals[current]) \X Functions :
                          xd[2] = Resolve(current, xd[1])}
      OBVIOUS
    <2>3. used' = [used EXCEPT ![current] = c] /\ used \in [Functions -> SUBSET (Variables \X Functions)]
      BY <1>0, <1>5, <2>2 DEF SetUsedVars, TypeOK
    <2>4. ASSUME NEW xd \in c
          PROVE  xd[1] \in TextUses(current)
      <3>1. xd[1] \in uses /\ xd[2] = Resolve(current, xd[1]) /\ xd[2] \in Functions
        BY <2>2
      <3>2. xd[1] \in TextUses(current) \/ xd[1] \in NoLocal
        BY <1>0, <2>1, <3>1, ClosuresAssumption DEF OnlyCopied
      <3>3. Declarers(current, xd[1]) # {}
        BY <1>0, <2>1, <3>1, ResolveTypes
      <3>4. xd[1] \notin NoLocal
        BY <1>0, <2>1, <3>3, AboveTypes DEF Declarers, NoLocal
      <3>5. QED  BY <3>2, <3>4
    <2>5. OnlyStored'
      BY <1>0, <2>1, <2>3, <2>4, SameCalls DEF OnlyStored
    <2>6. QED  BY <1>0, <2>1, <2>5, SameCalls DEF OnlyText, OnlyCopied
  <1>6. CASE UNCHANGED vars
    BY <1>0, <1>6, SameCalls DEF vars, OnlyText, OnlyCopied, OnlyStored
  <1>7. QED  BY <1>1, <1>2, <1>3, <1>4, <1>5, <1>6 DEF Next

(* A name that is in a function's closure has one value there.             *)
LEMMA ValueOfCaptured ==
  ASSUME IInv, NEW f \in Functions, NEW x, NEW d \in Functions, <<x, d>> \in used[f]
  PROVE  ValueIn(f, x) = d
  <1>1. x \notin prog.locals[f] /\ d = Resolve(f, x)
    BY DEF IInv, Resolved
  <1>2. \A e \in Functions : <<x, e>> \in used[f] => e = d
    BY <1>1 DEF IInv, Resolved
  <1>3. QED  BY <1>1, <1>2 DEF ValueIn

(* In a program that calls inwards, every call passes every variable of    *)
(* the callee's closure, the right one, whichever order the map had        *)
(* (AddClosureArg of callgraph.cpp, the closure's fields in expr.cpp).     *)
THEOREM ClosuresArePassed == Spec => []InwardCallsPassClosures
  <1>1. Init => OnlyOwn
    BY DEF Init, OnlyOwn, OnlyText, OnlyCopied, OnlyStored
  <1>2. IInv /\ OnlyOwn /\ [Next]_vars => OnlyOwn'
    BY OwnStep
  <1>3. ASSUME IInv, OnlyOwn, Done, CallsInward,
               NEW f \in Functions, NEW g \in prog.calls[f], NEW xd \in used[g]
        PROVE  ValueIn(f, xd[1]) = xd[2]
    <2>0. Fixed /\ OnlyStored /\ g \in Functions
      BY <1>3, FixedProgram, ProgramTypes DEF IInv, OnlyOwn
    <2>1. PICK x \in Variables, d \in Functions : xd = <<x, d>>
      BY <1>3, <2>0 DEF IInv, TypeOK
    <2>2. /\ x \in TextUses(g) /\ x \notin prog.locals[g] /\ d = Resolve(g, x)
      BY <1>3, <2>0, <2>1 DEF IInv, Resolved, OnlyStored
    <2>3. PICK m \in Declarers(g, x) :
            (\A j \in Declarers(g, x) : m <= j) /\ d = prog.above[g][m]
      BY <2>0, <2>2, NearestDeclarer, ResolveTypes
    <2>4. m \in DOMAIN prog.above[g] /\ x \in prog.locals[prog.above[g][m]]
      BY DEF Declarers
    <2>5. CASE g = f
      BY <1>3, <2>1, <2>5, ValueOfCaptured
    <2>6. CASE g \in Subs(f)
      <3>1. /\ g \in Within(f) /\ 1 \in DOMAIN prog.above[g] /\ prog.above[g][1] = f
        BY <2>0, <2>6, SubsWithin
      <3>2. CASE x \in prog.locals[f]
        <4>1. 1 \in Declarers(g, x)
          BY <3>1, <3>2 DEF Declarers
        <4>2. m \in Nat \ {0}
          BY <2>0, <2>4, AboveTypes
        <4>3. m = 1
          BY <2>3, <4>1, <4>2
        <4>4. QED  BY <2>1, <2>3, <3>1, <3>2, <4>3 DEF ValueIn
      <3>3. CASE x \notin prog.locals[f]
        <4>1. d \in Enclosing(prog, f)
          <5>1. m # 1
            BY <2>4, <3>1, <3>3
          <5>2. /\ DOMAIN prog.above[g] = 1 .. Len(prog.above[g]) /\ Len(prog.above[g]) \in Nat
                /\ DOMAIN prog.above[f] = 1 .. Len(prog.above[f])
            BY <2>0, AboveTypes
          <5>3. /\ Len(prog.above[f]) = Len(prog.above[g]) - 1
                /\ \A j \in 1 .. Len(prog.above[g]) - 1 : prog.above[f][j] = prog.above[g][1 + j]
            BY <2>0, <3>1, AboveAbove
          <5>4. PICK n \in 1 .. Len(prog.above[g]) - 1 : m = 1 + n
            <6>1. m \in Nat /\ m - 1 \in 1 .. Len(prog.above[g]) - 1
              BY <2>4, <5>1, <5>2
            <6>2. m = 1 + (m - 1)
              BY <6>1
            <6>3. QED  BY <6>1, <6>2
          <5>5. n \in DOMAIN prog.above[f] /\ prog.above[f][n] = d
            BY <2>3, <5>2, <5>3, <5>4
          <5>6. QED  BY <5>5 DEF Enclosing
        <4>2. Resolve(f, x) = d
          BY <2>0, <2>2, <3>1, <4>1, OuterMeaning
        <4>3. x \in TextUses(f)
          BY <2>0, <2>2, <3>1, InnerText
        <4>4. f \notin todo \cup {current}
          BY <1>3, ClosuresAssumption DEF Done
        <4>5. <<x, d>> \in used[f]
          BY <1>3, <3>3, <4>2, <4>3, <4>4 DEF IInv, Stored
        <4>6. QED  BY <1>3, <2>1, <4>5, ValueOfCaptured
      <3>4. QED  BY <3>2, <3>3
    <2>7. CASE prog.above[g] = <<>>
      BY <2>0, <2>4, <2>7, AboveTypes
    <2>8. QED  BY <1>3, <2>5, <2>6, <2>7 DEF CallsInward
  <1>4. IInv /\ OnlyOwn => InwardCallsPassClosures
    BY <1>3 DEF InwardCallsPassClosures, ClosuresPassed, Passed
  <1>5. QED  BY <1>1, <1>2, <1>4, Invariant, PTL DEF Spec
=============================================================================
