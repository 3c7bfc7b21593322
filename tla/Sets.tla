-------------------------------- MODULE Sets --------------------------------
(***************************************************************************)
(* The statements on sets as semantics.cpp types them, expr.cpp compiles   *)
(* them and runtime/set.c runs them, over variables whose types have       *)
(* ranges of their own.  BinarySetUpdate makes the two sides of an         *)
(* operator the same range; an assignment converts to its variable's.      *)
(***************************************************************************)
EXTENDS SetWords

CONSTANTS
  Variables,    (* the set variables                                       *)
  Ranges,       (* the ranges their types may have                         *)
  ItemLists,    (* what is listed between brackets: sets of items          *)
  Elements,     (* what may be looked up                                   *)
  ListsFit,     (* programs list only elements of the variable's type      *)
  Junk          (* a word found in memory that nothing has written         *)

(* Range and SetDecl refuse a range that ends before it starts, and one of *)
(* more than MaxSetSize elements; a single item is a range of one.         *)
ASSUME SetsAssumption ==
  /\ \A r \in Ranges : /\ r \in [lo : Int, hi : Int]
                       /\ Size(r) \in 1 .. MaxSetWords * SetBits
  /\ \A items \in ItemLists : \A i \in items :
       /\ i \in [lo : Int, hi : Int, single : BOOLEAN]
       /\ i.single => i.lo = i.hi
  /\ Elements \subseteq Int
  /\ ListsFit \in BOOLEAN
  /\ Junk \in Word

Copies      == [op : {"copy"}, to : Variables, left : Variables]
Operations  == [op : {"Union", "Intersect", "Diff", "SymDiff"},
                to : Variables, left : Variables, right : Variables]
Comparisons == [op : {"=", "<>", "<=", ">="}, left : Variables, right : Variables]
Tests       == [op : {"in"}, left : Variables, element : Elements]
Lists       == [op : {"list"}, to : Variables, constant : BOOLEAN,
                items : ItemLists]
Statements  == Copies \cup Operations \cup Comparisons \cup Tests \cup Lists

VARIABLES
  range,      (* the range of each variable's type                         *)
  words,      (* the array each variable is                                *)
  overrun,    (* something was written outside of the variable             *)
  last,       (* the statement done last                                   *)
  found       (* what the last condition was found to be                   *)

vars == <<range, words, overrun, last, found>>

Init ==
  /\ range \in [Variables -> Ranges]
  /\ words = [v \in Variables |-> Encode(range[v], {})]
  /\ overrun = FALSE
  /\ last = [op |-> "none"]
  /\ found = FALSE

-----------------------------------------------------------------------------
(* Which programs are run.  Each line names what the code gets wrong       *)
(* outside it (see the hazards).                                           *)

(* No element is listed that the variable's type does not have.            *)
Fits(r, items) == \A i \in items : r.lo <= i.lo /\ i.lo <= i.hi /\ i.hi <= r.hi

(* The element looked up is one of the type's.                             *)
Known(r, x) == x \in r.lo .. r.hi

(* A conversion to a range around r none of whose words begins with the    *)
(* last element of either, or lies below the word r starts in with a part  *)
(* of r in it.                                                             *)
Converts(l, r) ==
  l = r \/ /\ l.lo <= r.lo /\ r.hi <= l.hi
           /\ \A p \in Indexes(l) :
                LET i == l.lo + p * SetBits
                IN i \notin {l.hi, r.hi} /\ ~(i < Floor(r.lo) /\ i + SetBits > r.lo)

(* An assignment that does not change the number of words.                 *)
Assigns(l, r) == Converts(l, r) /\ SetWords(l) = SetWords(r)

-----------------------------------------------------------------------------
(* AssignSet stores the value as it is, over whatever the variable is.     *)
Store(v, w) ==
  /\ words' = [words EXCEPT ![v] =
                 [i \in Indexes(range[v]) |-> IF i \in DOMAIN w THEN w[i] ELSE @[i]]]
  /\ overrun' = (overrun \/ ~(DOMAIN w \subseteq Indexes(range[v])))

(* TypeCastAST: the cast of an operand gives the address of the converted  *)
(* array, that of a value to assign loads it as long as the source is.     *)
Cast(l, r, w) == IF l = r THEN w ELSE [p \in Indexes(l) |->
                   IF p \in Reached(l) THEN ConvertSet(l, r, w)[p] ELSE Junk]
CastValue(l, r, w) == IF l = r THEN w ELSE [p \in Indexes(r) |->
                        IF p \in Indexes(l) THEN Cast(l, r, w)[p] ELSE Junk]

List(s) ==
  /\ ListsFit => Fits(range[s.to], s.items)
  /\ LET r == range[s.to]
     IN IF s.constant /\ PastElems(r, s.items)
        THEN overrun' = TRUE /\ UNCHANGED words
        ELSE Store(s.to, IF s.constant THEN MakeConstantSetArray(r, s.items)
                         ELSE SetFromItems(r, s.items))
  /\ last' = s
  /\ UNCHANGED <<range, found>>

Copy(s) ==
  /\ Assigns(range[s.to], range[s.left])
  /\ Store(s.to, CastValue(range[s.to], range[s.left], words[s.left]))
  /\ last' = s
  /\ UNCHANGED <<range, found>>

(* BinarySetUpdate: the range of both sides, and the type of the result,   *)
(* which is that of the right side.                                        *)
Joint(x, y) ==
  [lo |-> Min({range[x].lo, range[y].lo}), hi |-> Max({range[x].hi, range[y].hi})]
Operand(x, u) == Cast(u, range[x], words[x])

Operate(s) ==
  /\ range[s.left] = range[s.right]
  /\ Assigns(range[s.to], range[s.right])
  /\ LET u == Joint(s.left, s.right)
         result == SetOperation(s.op, Operand(s.left, u), Operand(s.right, u))
     IN Store(s.to, CastValue(range[s.to], range[s.right], result))
  /\ last' = s
  /\ UNCHANGED <<range, found>>

Compare(s) ==
  /\ LET u == Joint(s.left, s.right)
     IN /\ Converts(u, range[s.left]) /\ Converts(u, range[s.right])
        /\ found' = SetComparison(s.op, Operand(s.left, u), Operand(s.right, u))
  /\ last' = s
  /\ UNCHANGED <<range, words, overrun>>

Test(s) ==
  /\ Known(range[s.left], s.element)
  /\ found' \in InSet(range[s.left], words[s.left], s.element)
  /\ last' = s
  /\ UNCHANGED <<range, words, overrun>>

Next ==
  \/ \E s \in Lists : List(s)
  \/ \E s \in Copies : Copy(s)
  \/ \E s \in Operations : Operate(s)
  \/ \E s \in Comparisons : Compare(s)
  \/ \E s \in Tests : Test(s)

Spec == Init /\ [][Next]_vars

-----------------------------------------------------------------------------
(* Properties.                                                             *)

TypeOK ==
  /\ range \in [Variables -> Ranges]
  /\ \A v \in Variables : words[v] \in Layout(range[v])
  /\ overrun \in BOOLEAN /\ found \in BOOLEAN

(* No statement writes outside of its variable, and no bit of a variable   *)
(* is set that stands for none of its values: equality compares whole      *)
(* words, and a for loop over the set takes every bit.                     *)
SetsAreClean == ~overrun /\ \A v \in Variables : Clean(range[v], words[v])

(* Through any sequence of list, copy, operation, comparison and test the  *)
(* variables hold what Pascal says, and every condition is what it says,   *)
(* whatever the ranges of the types are.                                   *)
Pascal == INSTANCE PascalSets WITH
            value <- [v \in Variables |-> Decode(range[v], words[v])]
ImplementsPascalSets == Pascal!Spec
=============================================================================
