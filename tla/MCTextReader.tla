---------------------------- MODULE MCTextReader ----------------------------
(* Small instances of TextReader: every file of up to MaxLen bytes over an *)
(* alphabet with one byte of each class the code tells apart.              *)
EXTENDS TextReader

CONSTANTS Alphabet, MaxLen

MCContents == UNION {[1 .. n -> Alphabet] : n \in 0 .. MaxLen}
=============================================================================
