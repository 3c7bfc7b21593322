------------------------------ MODULE SetWords ------------------------------
(***************************************************************************)
(* How lacsap keeps a set: an array of words of SetBits bits, the bit for  *)
(* element x being bit (x - lo) of the array, where lo..hi is the range of *)
(* the set's type (types.h, SetDecl).  A word is the set of its one bits.  *)
(* The operators are those the code generator emits and those of           *)
(* runtime/set.c; Decode gives the set an array stands for.                *)
(***************************************************************************)
EXTENDS Integers, FiniteSets, FiniteSetsExt

CONSTANTS
  SetBits,      (* bits of a word: 32 in the code                          *)
  MaxSetWords   (* words of the largest set: 16 in the code                *)

ASSUME SetWordsAssumption == SetBits \in Nat \ {0} /\ MaxSetWords \in Nat \ {0}

Bits == 0 .. SetBits - 1
Word == SUBSET Bits

-----------------------------------------------------------------------------
(* SetDecl: the array of a set of lo..hi.                                  *)

Size(r) == r.hi - r.lo + 1
SetWords(r) == (Size(r) + SetBits - 1) \div SetBits
Indexes(r) == 0 .. SetWords(r) - 1
Layout(r) == [Indexes(r) -> Word]
Decode(r, w) == {x \in r.lo .. r.hi : (x - r.lo) % SetBits \in w[(x - r.lo) \div SetBits]}

(* The array with the bits of these offsets, those past the array left out.*)
WithOffsets(r, offsets) ==
  [i \in Indexes(r) |-> {b \in Bits : i * SetBits + b \in offsets}]
Encode(r, s) == WithOffsets(r, {x - r.lo : x \in s})

(* No bit is set that stands for no element.                               *)
Clean(r, w) == w = Encode(r, Decode(r, w))

-----------------------------------------------------------------------------
(* SetExprAST: an item is [lo, hi, single].                                *)

(* MakeConstantSetArray: an element outside the range is left out; of a    *)
(* range the part from 0 to Size, which is one bit more than the set has.  *)
ConstantOffsets(r, item) ==
  IF item.single THEN {item.lo - r.lo} \cap 0 .. Size(r) - 1
  ELSE Max({0, item.lo - r.lo}) .. Min({Size(r), item.hi - r.lo})

AllConstantOffsets(r, items) == UNION {ConstantOffsets(r, i) : i \in items}
MakeConstantSetArray(r, items) == WithOffsets(r, AllConstantOffsets(r, items))

(* Its array of MaxSetWords words is written past the end.                 *)
PastElems(r, items) ==
  \E o \in AllConstantOffsets(r, items) : o >= MaxSetWords * SetBits

(* Mutant: the loop takes one more than the end.                              *)
DynamicOffsetsToEnd(r, item) ==
  IF item.single THEN {item.lo - r.lo} ELSE item.lo - r.lo .. item.hi - r.lo + 1

(* Address, for items that are not all constant: the loop of a range sets  *)
(* its first bit before it looks at the end.                               *)
DynamicOffsets(r, item) ==
  IF item.single THEN {item.lo - r.lo}
  ELSE item.lo - r.lo .. Max({item.lo - r.lo, item.hi - r.lo})

(* A set of one word has no index, so the bit wraps.                       *)
WordIndex(r, o) == IF SetWords(r) = 1 THEN 0 ELSE o \div SetBits
DynamicBits(r, items) ==
  {<<WordIndex(r, o), o % SetBits>> : o \in UNION {DynamicOffsets(r, i) : i \in items}}
SetFromItems(r, items) ==
  [i \in Indexes(r) |-> {b \in Bits : <<i, b>> \in DynamicBits(r, items)}]

-----------------------------------------------------------------------------
(* runtime/set.c and SetOperation, word by word.                           *)

SetUnion(a, b)     == [i \in DOMAIN a |-> a[i] \cup b[i]]
SetDiff(a, b)      == [i \in DOMAIN a |-> a[i] \ b[i]]
SetIntersect(a, b) == [i \in DOMAIN a |-> a[i] \cap b[i]]
SetSymDiff(a, b)   == [i \in DOMAIN a |-> (a[i] \ b[i]) \cup (b[i] \ a[i])]
SetEqual(a, b)     == a = b
SetContains(a, b)  == \A i \in DOMAIN a : a[i] \cap b[i] = a[i]

SetOperation(op, a, b) ==
  CASE op = "Union"     -> SetUnion(a, b)
    [] op = "Diff"      -> SetDiff(a, b)
    [] op = "Intersect" -> SetIntersect(a, b)
    [] op = "SymDiff"   -> SetSymDiff(a, b)

(* SetCodeGen: the comparisons, two of them with the sides exchanged.      *)
SetComparison(op, a, b) ==
  CASE op = "="  -> SetEqual(a, b)
    [] op = "<>" -> ~SetEqual(a, b)
    [] op = "<=" -> SetContains(a, b)
    [] op = ">=" -> SetContains(b, a)
    [] op = ">"  -> ~SetContains(a, b)
    [] op = "<"  -> ~SetContains(b, a)

(* SetCodeGen, 'x in s': the word's index is compared with the number of   *)
(* elements; a set of one word has index 0 whatever x is.  Past the array  *)
(* the result is whatever is there.                                        *)
InSet(r, w, x) ==
  LET o == x - r.lo
  IN CASE SetWords(r) = 1 -> {(o % SetBits \in w[0])}
       [] SetWords(r) > 1 /\ o < 0 -> {FALSE}
       [] SetWords(r) > 1 /\ o >= 0 /\ o \div SetBits > Size(r) -> {FALSE}
       [] SetWords(r) > 1 /\ o >= 0 /\ o \div SetBits <= Size(r) ->
            IF o \div SetBits \in Indexes(r) THEN {(o % SetBits \in w[o \div SetBits])}
            ELSE BOOLEAN

-----------------------------------------------------------------------------
(* ConvertSet: the words of a set over r as a set over l.                  *)

Floor(x) == (x \div SetBits) * SetBits
ShiftRight(word, n) == {b - n : b \in {b \in word : b >= n}}
(* Mutant: the word keeps what is shifted out of it.                       *)
ShiftLeftUncut(word, n) == {b + n : b \in word}
ShiftLeft(word, n)  == {b + n : b \in {b \in word : b + n < SetBits}}

(* Mutant: the part that is in the next word is not fetched.               *)
ConvertedWordAlone(l, r, w, i) ==
  IF i > r.lo THEN ShiftRight(w[(i - r.lo) \div SetBits], (i - r.lo) % SetBits)
  ELSE ShiftLeft(w[0], r.lo - i)

ConvertedWord(l, r, w, i) ==
  LET index == i - r.lo
      sp == index \div SetBits
      shift == index % SetBits
  IN CASE i > r.lo ->
            ShiftRight(w[sp], shift)
              \cup (IF shift > 0 /\ sp + 1 < SetWords(r)
                    THEN ShiftLeft(w[sp + 1], SetBits - shift) ELSE {})
       [] i <= r.lo -> ShiftLeft(w[0], r.lo - i)

(* The loop takes the words that start before l's last element, and has    *)
(* something to fetch where one of r's elements can be.  Words the loop    *)
(* does not reach are not written.                                         *)
Reached(l) == {p \in Indexes(l) : l.lo + p * SetBits < l.hi}
ConvertSet(l, r, w) ==
  [p \in Reached(l) |->
     LET i == l.lo + p * SetBits
     IN IF i >= Floor(r.lo) /\ i < r.hi THEN ConvertedWord(l, r, w, i) ELSE {}]
=============================================================================
