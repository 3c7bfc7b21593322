------------------------------- MODULE MCSets -------------------------------
(* Sets with words of two bits: ranges of one to three words that start on *)
(* a word and next to one, below zero and above.                           *)
EXTENDS Sets, TLC

R(lo, hi) == [lo |-> lo, hi |-> hi]
MCRanges == {R(1, 2), R(0, 2), R(0, 3), R(1, 3), R(-1, 2)}
MCElements == -2 .. 6
One(x) == [lo |-> x, hi |-> x, single |-> TRUE]
To(x, y) == [lo |-> x, hi |-> y, single |-> FALSE]
MCItemLists ==
  {{}, {One(0), One(1)}, {One(3), To(1, 2)}, {To(2, 4), One(5)}}
    \cup {{One(x)} : x \in {-1, 0, 1, 3, 5}}
    \cup {{To(x, x + n)} : x \in -1 .. 2, n \in {1, 3}}
Symmetric == Permutations(Variables)
=============================================================================
