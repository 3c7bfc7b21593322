----------------------------- MODULE PascalText -----------------------------
(***************************************************************************)
(* What the input half of the runtime promises to a Pascal program: a text *)
(* file is a sequence of bytes with one position in it, and every input    *)
(* operation is one step that answers from that position and moves it.     *)
(* There is no buffer here.  TextReader is the code with its two levels of *)
(* buffering; it is shown to implement this module.                        *)
(*                                                                         *)
(* pos counts the bytes the program has consumed.  result is the last      *)
(* operation with the values it stored into the program's variables.       *)
(***************************************************************************)
EXTENDS Integers, Sequences

CONSTANTS
  Contents,   (* the byte sequences the file may hold                      *)
  StrSize     (* sizeof(buffer) in readstr, also 2^8: the range of len     *)

VARIABLES content, pos, result

vars == <<content, pos, result>>

NL    == 10
SPACE == 32
Minus == 45
Plus  == 43
Zero  == 48
EOF   == -1

IsBlank(c) == c \in {9, NL, 11, 12, 13, SPACE}
IsDigit(c) == c \in Zero .. Zero + 9

End    == Len(content)
At(p)  == IF p < End THEN content[p + 1] ELSE EOF
AtEnd  == pos = End

-----------------------------------------------------------------------------
(* Where a scan that starts at position p stops.                           *)

BlanksEnd(p) ==
  CHOOSE q \in p .. End : /\ ~IsBlank(At(q))
                          /\ \A i \in p .. q - 1 : IsBlank(At(i))

DigitsEnd(p) ==
  CHOOSE q \in p .. End : /\ ~IsDigit(At(q))
                          /\ \A i \in p .. q - 1 : IsDigit(At(i))

LineEnd(p) ==
  CHOOSE q \in p .. End : /\ At(q) \in {NL, EOF}
                          /\ \A i \in p .. q - 1 : At(i) # NL

(* The decimal value of the digits at positions p .. q - 1.                *)
Decimal(p, q) ==
  LET value[i \in p .. q] ==
        IF i = p THEN 0 ELSE 10 * value[i - 1] + (At(i - 1) - Zero)
  IN  value[q]

Bytes(p, q) == SubSeq(content, p + 1, q)

-----------------------------------------------------------------------------
Answer(op, values) == result' = [op |-> op, values |-> values]

Truth(b) == <<IF b THEN 1 ELSE 0>>

Eof ==
  /\ Answer("eof", Truth(AtEnd))
  /\ UNCHANGED <<content, pos>>

Eoln ==
  /\ Answer("eoln", Truth(At(pos) \in {NL, EOF}))
  /\ UNCHANGED <<content, pos>>

(* At the end of the file the program is given the byte -1.                *)
ReadChar ==
  /\ Answer("char", <<At(pos)>>)
  /\ pos' = IF AtEnd THEN pos ELSE pos + 1
  /\ UNCHANGED content

(* Blanks (line ends are blanks), one optional sign, the longest run of    *)
(* digits.  No digit at all reads as zero.                                 *)
ReadInt ==
  LET b    == BlanksEnd(pos)
      d    == IF At(b) \in {Minus, Plus} THEN b + 1 ELSE b
      e    == DigitsEnd(d)
      sign == IF At(b) = Minus THEN -1 ELSE 1
  IN  /\ Answer("int", <<sign * Decimal(d, e)>>)
      /\ pos' = e
      /\ UNCHANGED content

(* The rest of the line, at most StrSize bytes of it; the length byte of   *)
(* the string wraps when all StrSize bytes are taken.                      *)
ReadString ==
  LET e == IF LineEnd(pos) - pos < StrSize THEN LineEnd(pos) ELSE pos + StrSize
  IN  /\ Answer("str", SubSeq(Bytes(pos, e), 1, (e - pos) % StrSize))
      /\ pos' = e
      /\ UNCHANGED content

(* A character array takes the whole rest of the line, whatever its size;  *)
(* at the end of the file it is given the byte -1.                         *)
ReadChars ==
  /\ Answer("chars", IF AtEnd THEN <<EOF>> ELSE Bytes(pos, LineEnd(pos)))
  /\ pos' = LineEnd(pos)
  /\ UNCHANGED content

ReadLn ==
  /\ Answer("nl", <<>>)
  /\ pos' = IF LineEnd(pos) < End THEN LineEnd(pos) + 1 ELSE End
  /\ UNCHANGED content

Get ==
  /\ ~AtEnd
  /\ Answer("get", Truth(pos + 1 < End))
  /\ pos' = pos + 1
  /\ UNCHANGED content

Reset ==
  /\ Answer("reset", <<>>)
  /\ pos' = 0
  /\ UNCHANGED content

Init ==
  /\ content \in Contents
  /\ pos = 0
  /\ result = [op |-> "none", values |-> <<>>]

Next ==
  \/ Eof \/ Eoln \/ ReadChar \/ ReadInt \/ ReadString
  \/ ReadChars \/ ReadLn \/ Get \/ Reset

Spec == Init /\ [][Next]_vars
=============================================================================
