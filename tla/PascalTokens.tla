---------------------------- MODULE PascalTokens ----------------------------
(***************************************************************************)
(* What the front of the compiler promises to its parser: the text is a    *)
(* sequence of characters, at is the first that has not been used, and the *)
(* parser takes one token after the other.  Where a token, a comment or a  *)
(* run of blanks ends is defined on the text as a whole; there is no       *)
(* character or token of lookahead.  Lexer is shown to implement this      *)
(* module.                                                                 *)
(***************************************************************************)
EXTENDS PascalCharacters

CONSTANTS Texts    (* the texts the source file may hold                   *)

VARIABLES
  text,
  at,
  token,     (* the parser's current token                                 *)
  erange     (* a conversion has gone out of range: errno is never reset   *)

vars == <<text, at, token, erange>>

NoToken == [kind |-> "None", value |-> <<>>, line |-> 0]

(* The characters of a text t, one by one and those from i up to j.        *)
End(t)         == Len(t) + 1
Char(t, i)     == IF i < End(t) THEN t[i] ELSE EOF
Chars(t, i, j) == SubSeq(t, i, j - 1)
LineOf(t, i)   == 1 + Cardinality({k \in 1 .. i - 1 : Char(t, k) = NL})

(* The first position from i on that has a character of S, and the first   *)
(* that does not.                                                          *)
First(t, i, S) ==
  CHOOSE j \in i .. End(t) : /\ j = End(t) \/ Char(t, j) \in S
                             /\ \A k \in i .. j - 1 : Char(t, k) \notin S
RunEnd(t, i, S) ==
  CHOOSE j \in i .. End(t) : /\ Char(t, j) \notin S
                             /\ \A k \in i .. j - 1 : Char(t, k) \in S
After(t, i) == IF i < End(t) THEN i + 1 ELSE End(t)

-----------------------------------------------------------------------------
(* Comments and blanks.  One that is not closed runs to the end.           *)

StartsComment(t, i) ==
  Char(t, i) = LBRACE \/ <<Char(t, i), Char(t, i + 1)>> \in {<<"(", "*">>, <<"/", "/">>}
StarBefore(t, j) == Char(t, j - 2) = "*" /\ Char(t, j - 1) = ")"
StarEnd(t, i) ==
  CHOOSE j \in i .. End(t) : /\ j = End(t) \/ (StarBefore(t, j) /\ j - 2 >= i)
                             /\ \A k \in i + 2 .. j - 1 : ~StarBefore(t, k)
CommentEnd(t, i) ==
  CASE Char(t, i) = LBRACE -> After(t, First(t, i, {RBRACE}))
    [] Char(t, i) = "(" -> StarEnd(t, i + 2)
    [] Char(t, i) = "/" -> First(t, i, {NL})

(* Where the next token begins.  A comment right behind a comment may also *)
(* be taken for a token: the lexer looks for each kind of comment once     *)
(* between two runs of blanks.                                             *)
Skipped(t, i) ==
  LET skip[j \in 1 .. End(t)] ==
        CASE Char(t, j) \in Space -> skip[RunEnd(t, j, Space)]
          [] StartsComment(t, j)  -> skip[CommentEnd(t, j)]
          [] OTHER                -> j
  IN  skip[i]
Starts(t, i) ==
  {Skipped(t, i)} \cup
  {j \in i + 1 .. Skipped(t, i) - 1 :
     /\ StartsComment(t, j)
     /\ \E k \in i .. j - 1 : StartsComment(t, k) /\ CommentEnd(t, k) = j}

-----------------------------------------------------------------------------
(* The tokens that begin at i, each with the position where it ends.       *)

Found(kind, value, end) == [kind |-> kind, value |-> value, end |-> end]

Word(t, i) ==
  LET e == RunEnd(t, i, WordChar)
      w == Chars(t, i, e)
  IN  IF w \in DOMAIN Keyword THEN Found(Keyword[w], <<>>, e) ELSE Found("Identifier", w, e)

(* A string ends at a quote that is not doubled; of a doubled quote one is *)
(* left.                                                                   *)
QuotesIn(t, i, j) == Cardinality({k \in i .. j : Char(t, k) = Char(t, i)})
IsKept(t, i, k)   == Char(t, k) = Char(t, i) => QuotesIn(t, i, k) % 2 = 0
StringEnds(t, i) ==
  {j \in i + 1 .. First(t, i, {NL}) - 1 : /\ Char(t, j) = Char(t, i)
                                          /\ Char(t, j + 1) # Char(t, i)
                                          /\ IsKept(t, i, j)}
Nth(K, n) == CHOOSE k \in K : Cardinality({m \in K : m <= k}) = n
StringValue(t, i, e) ==
  LET kept == {k \in i + 1 .. e - 1 : IsKept(t, i, k)}
  IN  [n \in 1 .. Cardinality(kept) |-> Char(t, Nth(kept, n))]
String(t, i) ==
  LET ends  == StringEnds(t, i)
      e     == CHOOSE j \in ends : \A k \in ends : j <= k
      value == StringValue(t, i, e)
  IN  IF ends = {} THEN Found("UntermString", <<>>, First(t, i, {NL}))
      ELSE Found(IF Len(value) = 1 THEN "Char" ELSE "StringLiteral", value, e + 1)

(* The integer part: digits, after a base or not.  Its own digits begin at *)
(* from; the first character behind # is not looked at; base 0 is not one. *)
IntegerEnd(t, p) ==
  RunEnd(t, p.at, DigitsOf(p.base) \cup IF p.base = 10 THEN {} ELSE {"#"})
NewBase(t, p) == BaseOf(Chars(t, p.from, IntegerEnd(t, p)))
HasBase(t, p) == p.base = 10 /\ Char(t, IntegerEnd(t, p)) = "#"
Behind(t, p)  == [at   |-> After(t, After(t, IntegerEnd(t, p))),
                  base |-> NewBase(t, p),
                  from |-> IntegerEnd(t, p) + 1]
NoBase(t, p)  == [at |-> IntegerEnd(t, p) + 1, base |-> 0, from |-> IntegerEnd(t, p) + 1]
IntegerFrom(t, p0) ==
  LET scan[p \in [at : 1 .. End(t), base : 0 .. 36, from : 1 .. End(t)]] ==
        IF ~HasBase(t, p) THEN [p EXCEPT !.at = IntegerEnd(t, p)]
        ELSE IF NewBase(t, p) \notin 2 .. 36 THEN NoBase(t, p)
        ELSE scan[Behind(t, p)]
  IN  scan[p0]
IntegerPart(t, i) ==
  IF Char(t, i) = "$" THEN IntegerFrom(t, [at |-> i + 2, base |-> 16, from |-> i + 1])
                      ELSE IntegerFrom(t, [at |-> i + 1, base |-> 10, from |-> i])

(* Fractions and exponents follow each other in turn.  A point before a    *)
(* point or a parenthesis belongs to the next symbol.                      *)
HasFraction(t, p) ==
  /\ Char(t, p.at) = "." /\ p.last # "fraction" /\ p.base # 16
  /\ Char(t, p.at + 1) \notin {".", ")"}
HasExponent(t, p) == Char(t, p.at) = "e" /\ p.last # "exponent"
FractionEnd(t, j) == RunEnd(t, j + 1, Digit)
ExponentEnd(t, j) == RunEnd(t, IF Char(t, j + 1) \in Sign THEN j + 2 ELSE j + 1, Digit)
PartsFrom(t, p0) ==
  LET parts[p \in [at : 1 .. End(t), base : 0 .. 36,
                   last : {"integer", "fraction", "exponent"}]] ==
        CASE HasFraction(t, p) ->
               parts[[p EXCEPT !.at = FractionEnd(t, p.at), !.last = "fraction"]]
          [] HasExponent(t, p) ->
               parts[[p EXCEPT !.at = ExponentEnd(t, p.at), !.last = "exponent"]]
          [] OTHER -> p.at
  IN  parts[p0]
PartsEnd(t, i, base) == PartsFrom(t, [at |-> i, base |-> base, last |-> "integer"])

(* A number with a fraction or an exponent is real, and loses its base.    *)
(* The largest integer is refused once a number has been out of range.     *)
Number(t, i, ranged) ==
  LET int == IntegerPart(t, i)
      e   == PartsEnd(t, int.at, int.base)
      num == Chars(t, int.from, e)
      u   == StrToULL(num, int.base)
      refused == ~u.whole \/ u.range \/ (u.value = MaxU64 /\ ranged)
  IN  CASE int.base = 0 -> Found("Unknown", <<>>, int.at)
        [] int.base # 0 /\ e > int.at ->
             Found(IF IsReal(num) THEN "Real" ELSE "Overflow",
                   IF IsReal(num) THEN num ELSE <<>>, e)
        [] OTHER -> Found(IF refused THEN "Overflow" ELSE "Integer",
                          IF refused THEN <<>> ELSE <<u.value>>, e)

TokenAt(t, i, ranged) ==
  LET c == Char(t, i)
      p == <<c, Char(t, i + 1)>>
  IN  CASE c = EOF            -> Found("EndOfFile", <<>>, i)
        [] p \in DOMAIN Pair  -> Found(Pair[p], <<>>, i + 2)
        [] c \in DOMAIN Single /\ p \notin DOMAIN Pair -> Found(Single[c], <<>>, i + 1)
        [] c \in Quote        -> String(t, i)
        [] c \in WordStart    -> Word(t, i)
        [] c \in Digit \/ (c = "$" /\ Char(t, i + 1) \in DigitsOf(16)) -> Number(t, i, ranged)
        [] OTHER              -> Found("Unknown", <<>>, i)

-----------------------------------------------------------------------------
Init ==
  /\ text \in Texts
  /\ at = 1
  /\ token = NoToken
  /\ erange = FALSE

(* Its line is one of those between the end of the last token and its own. *)
NextToken ==
  \E i \in Starts(text, at) :
    LET t == TokenAt(text, i, erange)
    IN  /\ at' = t.end
        /\ \E line \in LineOf(text, at) ..
                       LineOf(text, IF t.kind = "Unknown" THEN i + 2 ELSE i) :
             token' = IF t.kind = "LineNumber"
                        THEN [kind |-> "Integer", value |-> <<line>>, line |-> line]
                        ELSE [kind |-> t.kind, value |-> t.value, line |-> line]
        /\ erange' \in {erange, erange \/ t.kind \in {"Overflow", "Real", "Unknown"}}
        /\ UNCHANGED text

(* An error message in a last line that has no line end loses the rest of  *)
(* it.  A dollar at the end of a line that is asked for again is taken to  *)
(* be in the next one.                                                     *)
LoseLastLine ==
  /\ \A k \in at .. Len(text) : text[k] = NL => text[at] = "$" /\ k = at + 1
  /\ \E n \in at - 1 .. Len(text) : text' = SubSeq(text, 1, n)
  /\ UNCHANGED <<at, token, erange>>

Next == NextToken \/ LoseLastLine
Spec == Init /\ [][Next]_vars
=============================================================================
