-------------------------- MODULE PascalCharacters --------------------------
(***************************************************************************)
(* What the lexer and its specification both take as given: the classes of *)
(* characters (cctype), the conversions of the C library (stdlib) and the  *)
(* table of symbols of Pascal (token.cpp, lexer.cpp).                      *)
(*                                                                         *)
(* A character is a string of length one.  The keyword __LINE__ counts as  *)
(* one letter.  The ranges of int, long and uint64_t are the powers of two *)
(* 2^IntBits and 2^LongBits, so that a small instance has numbers at their *)
(* limits.                                                                 *)
(***************************************************************************)
EXTENDS Integers, Sequences, FiniteSets

CONSTANTS
  IntBits, LongBits,  (* 32 and 64 in the code                             *)
  MaxExponent         (* a double has no larger exponent: 308 in the code  *)

ASSUME CharacterAssumption ==
  /\ IntBits \in Nat \ {0}
  /\ LongBits \in Nat \ {0}
  /\ MaxExponent \in Nat

EOF  == "EOF"
LINE == "__LINE__"
NL         == "\n"
BLANK      == " "
LBRACE     == "{"
RBRACE     == "}"
UNDERSCORE == "_"
DQUOTE     == "\""
COMMA      == ","
SEMICOLON  == ";"

DigitChars == <<"0", "1", "2", "3", "4", "5", "6", "7", "8", "9", "a", "b", "c", "d",
                "e", "f", "g", "h", "i", "j", "k", "l", "m", "n", "o", "p", "q", "r",
                "s", "t", "u", "v", "w", "x", "y", "z">>

(* ValidForBase: the digits of a base.                                     *)
DigitSets == [base \in 0 .. 36 |-> {DigitChars[d] : d \in 1 .. base}]
DigitsOf(base) == DigitSets[base]
DigitValue(c)  == (CHOOSE d \in 1 .. 36 : DigitChars[d] = c) - 1

Space     == {BLANK, NL}
Digit     == DigitsOf(10)
Letter    == (DigitsOf(36) \ Digit) \cup {LINE}
WordStart == Letter \cup {UNDERSCORE}
WordChar  == WordStart \cup Digit
Quote     == {"'", DQUOTE}
Sign      == {"+", "-"}

(* The symbols of the two switches of GetToken and of its table of single  *)
(* characters, with the kinds of their tokens.                             *)
Table(rows) == [key \in {r[1] : r \in rows} |-> (CHOOSE r \in rows : r[1] = key)[2]]
Pair ==
  Table({<<<<".", ".">>, "DotDot">>,         <<<<".", ")">>, "RightSquare">>,
         <<<<"<", "=">>, "LessOrEqual">>,    <<<<"<", ">">>, "NotEqual">>,
         <<<<">", "=">>, "GreaterOrEqual">>, <<<<">", "<">>, "SymDiff">>,
         <<<<":", "=">>, "Assign">>,         <<<<"(", ".">>, "LeftSquare">>,
         <<<<"*", "*">>, "Power">>})
Single ==
  Table({<<".", "Period">>,   <<"<", "LessThan">>,  <<">", "GreaterThan">>,
         <<":", "Colon">>,    <<"(", "LeftParen">>, <<")", "RightParen">>,
         <<"+", "Plus">>,     <<"-", "Minus">>,     <<"*", "Multiply">>,
         <<"/", "Divide">>,   <<COMMA, "Comma">>,   <<SEMICOLON, "Semicolon">>,
         <<"=", "Equal">>,    <<"[", "LeftSquare">>, <<"]", "RightSquare">>,
         <<"^", "Uparrow">>,  <<"@", "At">>})

(* A part of the table of keywords; an identifier is any other word.       *)
Keyword == Table({<<<<LINE>>, "LineNumber">>, <<<<"o", "f">>, "Of">>})

-----------------------------------------------------------------------------
(* strtoull and strtol: an optional blank or sign, then digits.  whole     *)
(* says that nothing is left over, range that the value does not fit.      *)
Converted(num, base, max) ==
  LET body  == IF num # <<>> /\ num[1] \in Space \cup Sign THEN Tail(num) ELSE num
      n     == Len(body)
      whole == n > 0 /\ \A k \in 1 .. n : body[k] \in DigitsOf(base)
      value[k \in 0 .. n] ==
        CASE k = 0 -> 0
          [] k > 0 /\ value[k - 1] > max -> max + 1
          [] OTHER -> base * value[k - 1] + DigitValue(body[k])
      v     == IF whole THEN value[n] ELSE 0
  IN  [whole |-> whole,
       range |-> v > max,
       value |-> CASE v > max                            -> max
                   [] ~(v > max) /\ v > 0 /\ num[1] = "-" -> 2 ^ LongBits - v
                   [] OTHER                              -> v]

MaxU64  == 2 ^ LongBits - 1
MaxLong == 2 ^ (LongBits - 1) - 1
StrToULL(num, base) == Converted(num, base, MaxU64)

(* strtol stored into an int, as SafeConvert does with the base.           *)
IntOf(v) ==
  LET low == v % 2 ^ IntBits
  IN  IF low >= 2 ^ (IntBits - 1) THEN low - 2 ^ IntBits ELSE low
BaseOf(num) == IntOf(Converted(num, 10, MaxLong).value)

(* What strtol returns for a number out of range is no base: -1 as an int. *)
ASSUME BaseAssumption == IntOf(MaxLong) \notin 2 .. 36

(* strtod takes all of it: an optional blank or sign, digits with a point  *)
(* among, before or after them or without one, and an exponent that has a  *)
(* digit.  (The spellings of infinities and hexadecimal numbers, which a   *)
(* base of 30 and more could bring here, are left out.)                    *)
Mantissa(s) ==
  /\ \E k \in 1 .. Len(s) : s[k] \in Digit
  /\ Cardinality({k \in 1 .. Len(s) : s[k] = "."}) <= 1
  /\ \A k \in 1 .. Len(s) : s[k] \in Digit \cup {"."}
IsReal(num) ==
  LET body == IF num # <<>> /\ num[1] \in Space \cup Sign THEN Tail(num) ELSE num
  IN  \/ Mantissa(body)
      \/ \E k \in 1 .. Len(body) :
           /\ body[k] = "e"
           /\ Mantissa(SubSeq(body, 1, k - 1))
           /\ Converted(SubSeq(body, k + 1, Len(body)), 10, MaxExponent).whole

(* The exponent is beyond a double: strtod then sets errno.                *)
IsHuge(num) ==
  \E k \in 1 .. Len(num) :
    num[k] = "e" /\ Converted(SubSeq(num, k + 1, Len(num)), 10, MaxExponent).range
=============================================================================
