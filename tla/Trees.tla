------------------------------- MODULE Trees --------------------------------
(***************************************************************************)
(* What a text of tokens is made of: the names the parser finds declared,  *)
(* and the trees it makes.  A token is a string; "eof" is the one the      *)
(* lexer gives behind the last.                                            *)
(***************************************************************************)
EXTENDS Integers, Sequences, FiniteSets, SequencesExt, TLC

CONSTANTS
  Variables,   (* names of plain variables                                 *)
  Pointers,    (* names of variables that are pointers to a plain value    *)
  Arrays,      (* for each name of an array how many indexes it has        *)
  Functions,   (* for each name of a function how many parameters it has   *)
  Constants,   (* for each name of a constant what it stands for           *)
  Literals,    (* for each whole number as a token the number              *)
  Labels,      (* those of them that are declared as labels                *)
  Bits,        (* how many bits an integer constant has: 64                *)
  IntBits      (* how many an integer of the program has: 32               *)

ASSUME LabelsAreNumbers == Labels \subseteq DOMAIN Literals
ASSUME Widths == IntBits \in Nat \ {0} /\ Bits \in Nat /\ Bits >= IntBits

(* An integer as that many bits, without and with a sign.                  *)
AsUnsigned(n, bits) == n % 2^bits
AsSigned(n, bits) == ((n + 2^(bits - 1)) % 2^bits) - 2^(bits - 1)

(* A tree is what its root is called and its subtrees.                     *)
Node(label, children) == <<label, children>>
Leaf(label) == <<label, <<>>>>
Label(tree) == tree[1]
Children(tree) == tree[2]

Empty == Leaf("block")
IsRange(tree) == Label(tree) = ".."

(* Statements that do nothing are not counted in a sequence.               *)
Sequence(statements) == Node("block", SelectSeq(statements, LAMBDA s : s # Empty))
=============================================================================
