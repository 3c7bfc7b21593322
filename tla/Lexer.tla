-------------------------------- MODULE Lexer --------------------------------
(***************************************************************************)
(* The front of the compiler: FileSource (source.cpp), the Lexer           *)
(* (lexer.cpp) and the parser's two tokens (NextToken, PeekToken and       *)
(* PrintError of parser.cpp).                                              *)
(*                                                                         *)
(* The lexer is never more than one character ahead: curChar is the first  *)
(* character that is not used, and nextChar the one behind it when it has  *)
(* been peeked at; curValid says how many of them have been read.  The     *)
(* parser is never more than one token ahead.  An error message prints the *)
(* line it is about, and for that moves the stream back and forth again.   *)
(*                                                                         *)
(* Characters are those of PascalCharacters; a byte 255, which is EOF once *)
(* stored into a char, is not among them.  Columns are left out.           *)
(***************************************************************************)
EXTENDS PascalCharacters

CONSTANTS
  Texts,     (* the texts the source file may hold                         *)
  MaxErrors  (* the error after this one ends the compiler: 30 in the code *)

(* What a character is before one is read.                                 *)
Unread == "unread"

ASSUME LexerAssumption ==
  /\ Texts \subseteq Seq(STRING)
  /\ \A t \in Texts : EOF \notin {t[k] : k \in 1 .. Len(t)}
  /\ {EOF, Unread} \subseteq STRING
  /\ MaxErrors \in Nat

VARIABLES
  text,           (* what the stream delivers: the file, or less of it     *)
  lexer,          (* the Lexer, its FileSource, and errno: see LexerState  *)
  curToken, nextToken, nextTokenValid,
  errCnt,
  status,         (* "running", or "quit" after too many errors            *)
  before,         (* history: the lexer as it was before nextToken         *)
  start,          (* history: the position of curToken's first character   *)
  nextStart       (* history: and of nextToken's                           *)

vars == <<text, lexer, curToken, nextToken, nextTokenValid, errCnt, status,
          before, start, nextStart>>

NoToken == [kind |-> "None", value |-> <<>>, line |-> 0]

(* pos characters have been got, the end of the file counting as one.      *)
LexerState ==
  [pos : Nat, line : Nat, cur : STRING, next : STRING, valid : 0 .. 2,
   errno : {"0", "ERANGE"}]

(* The position of the first character that is not used.                   *)
At(s) == s.pos - s.valid + 1
LineAt(p) == 1 + Cardinality({k \in 1 .. p - 1 : text[k] = NL})

-----------------------------------------------------------------------------
(* FileSource::Get, and the character it returns.                          *)
Char(s) == IF s.pos < Len(text) THEN text[s.pos + 1] ELSE EOF
Got(s)  == [s EXCEPT !.pos = IF @ > Len(text) THEN @ ELSE @ + 1,
                     !.line = IF Char(s) = NL THEN @ + 1 ELSE @]

NextChar(s) ==
  IF s.valid > 1 THEN [s EXCEPT !.cur = s.next, !.valid = @ - 1]
                 ELSE [Got(s) EXCEPT !.cur = Char(s)]
CurChar(s) ==
  IF s.valid = 0 THEN [NextChar(s) EXCEPT !.valid = 1] ELSE s
(* Mutant: it is not looked whether a character has been peeked at.        *)
PeekUnchecked(s) == [Got(s) EXCEPT !.next = Char(s), !.valid = @ + 1]
PeekChar(s) ==
  IF s.valid > 1 THEN s ELSE [Got(s) EXCEPT !.next = Char(s), !.valid = @ + 1]

(* While the current character is in S, or is not, go on to the next.      *)
SkipWhile(s, S) ==
  LET skip[t \in LexerState] == IF t.cur \in S THEN skip[NextChar(t)] ELSE t IN skip[s]
SkipUntil(s, S) ==
  LET skip[t \in LexerState] == IF t.cur \in S \cup {EOF} THEN t ELSE skip[NextChar(t)]
  IN  skip[s]

-----------------------------------------------------------------------------
(* The comments and blanks before a token: one pass of the loop looks for  *)
(* each kind of comment once, and a pass that ends at a blank is followed  *)
(* by another.                                                             *)

BraceComment(s) ==
  IF s.cur = LBRACE THEN NextChar(SkipUntil(NextChar(s), {RBRACE})) ELSE s

InStarComment[s \in LexerState] ==
  CASE s.cur = EOF -> NextChar(NextChar(s))
    [] s.cur = "*" -> IF PeekChar(s).next = ")" THEN NextChar(NextChar(PeekChar(s)))
                      ELSE InStarComment[NextChar(PeekChar(s))]
    [] OTHER       -> InStarComment[NextChar(s)]
StarComment(s) ==
  IF s.cur # "(" THEN s
  ELSE IF PeekChar(s).next = "*" THEN InStarComment[NextChar(NextChar(PeekChar(s)))]
  ELSE PeekChar(s)

LineComment(s) ==
  IF s.cur # "/" THEN s
  ELSE IF PeekChar(s).next = "/" THEN SkipUntil(PeekChar(s), {NL})
  ELSE PeekChar(s)

Pass(s) == LineComment(StarComment(BraceComment(SkipWhile(s, Space))))
Skip[s \in LexerState] == IF s.cur \in Space THEN Skip[Pass(s)] ELSE s

-----------------------------------------------------------------------------
Token(kind, value, s) == [kind |-> kind, value |-> value, s |-> s]

(* Mutant: a symbol of one character is not passed.                       *)
OneStays(s) == Token(Single[s.cur], <<>>, s)

(* The symbols that peek at a second character, and the others.            *)
OneCharacter(s) == Token(Single[s.cur], <<>>, NextChar(s))
Symbol(s) ==
  IF s.valid > 1 /\ <<s.cur, s.next>> \in DOMAIN Pair
    THEN Token(Pair[<<s.cur, s.next>>], <<>>, NextChar(NextChar(s)))
    ELSE OneCharacter(s)
HasPairs(c) == \E p \in DOMAIN Pair : p[1] = c

(* StringToken and the words: what they have read, and where they are.     *)
WordState   == [s : LexerState, str : Seq(STRING)]
StringState == [s : LexerState, str : Seq(STRING), quote : Quote]
Kept(w)     == [w EXCEPT !.s = NextChar(@), !.str = Append(@, w.s.cur)]

InString[q \in StringState] ==
  CASE q.s.cur \in {NL, EOF} -> Token("UntermString", <<>>, q.s)
    [] q.s.cur = q.quote ->
         IF PeekChar(q.s).next = q.quote THEN InString[Kept([q EXCEPT !.s = NextChar(PeekChar(@))])]
         ELSE Token(IF Len(q.str) = 1 THEN "Char" ELSE "StringLiteral", q.str,
                    NextChar(PeekChar(q.s)))
    [] OTHER -> InString[Kept(q)]

InWord[w \in WordState] ==
  CASE w.s.cur \in WordChar     -> InWord[Kept(w)]
    [] w.s.cur \notin WordChar /\ w.str \in DOMAIN Keyword -> Token(Keyword[w.str], <<>>, w.s)
    [] OTHER                    -> Token("Identifier", w.str, w.s)

-----------------------------------------------------------------------------
(* NumberToken: its local variables, and the three states of its loop.     *)
NumState ==
  [s : LexerState, num : Seq(STRING), base : Nat, isFloat : BOOLEAN,
   state : {"Intpart", "Fraction", "Exponent"}]

Taken(n) == [n EXCEPT !.s = NextChar(@), !.num = Append(@, n.s.cur)]
Digits[n \in NumState] == IF n.s.cur \in Digit THEN Digits[Taken(n)] ELSE n

WithRange(s, range) == IF range THEN [s EXCEPT !.errno = "ERANGE"] ELSE s

(* A # ends the base and takes whatever comes behind it; base 0 stands for *)
(* a base that is refused.                                                 *)
Based(n) ==
  [n EXCEPT !.s = WithRange(NextChar(@), Converted(n.num, 10, MaxLong).range),
            !.base = IF BaseOf(n.num) \in 2 .. 36 THEN BaseOf(n.num) ELSE 0]
Intpart[n \in NumState] ==
  CASE n.base = 10 /\ n.s.cur = "#" ->
         IF Based(n).base = 0 THEN Based(n) ELSE Intpart[Taken([Based(n) EXCEPT !.num = <<>>])]
    [] n.s.cur \in DigitsOf(n.base) \/ (n.base # 10 /\ n.s.cur = "#") -> Intpart[Taken(n)]
    [] OTHER -> n

(* Mutant: the second point of .. is not looked for.                       *)
FractionTakesPoint(n) == Digits[[Taken(n) EXCEPT !.isFloat = TRUE]]
Fraction(n) ==
  IF n.s.next \in {".", ")"} THEN n ELSE Digits[[Taken(n) EXCEPT !.isFloat = TRUE]]

Signed(n)   == IF n.s.cur \in Sign THEN Taken(n) ELSE n
Exponent(n) == Digits[Signed([Taken(n) EXCEPT !.isFloat = TRUE])]

ConvertFloat(n) ==
  IF IsReal(n.num) THEN Token("Real", n.num, WithRange(n.s, IsHuge(n.num)))
                   ELSE Token("Overflow", <<>>, n.s)
SafeConvert(u, s) ==
  IF ~u.whole \/ (u.value = MaxU64 /\ s.errno = "ERANGE")
    THEN Token("Overflow", <<>>, s)
    ELSE Token("Integer", <<u.value>>, s)
ConvertInt(n) ==
  SafeConvert(StrToULL(n.num, n.base), WithRange(n.s, StrToULL(n.num, n.base).range))

Parts[n \in NumState] ==
  CASE n.s.cur = "." /\ n.state # "Fraction" /\ n.base # 16 ->
         Parts[Fraction([n EXCEPT !.s = PeekChar(@), !.state = "Fraction"])]
    [] n.s.cur = "e" /\ n.state # "Exponent" -> Parts[Exponent([n EXCEPT !.state = "Exponent"])]
    [] OTHER -> IF n.isFloat THEN ConvertFloat(n) ELSE ConvertInt(n)
InParts(n) == IF n.base = 0 THEN Token("Unknown", <<>>, n.s) ELSE Parts[n]

NumberToken(s, base) ==
  InParts(Intpart[Taken([s |-> s, num |-> <<>>, base |-> base, isFloat |-> FALSE,
                         state |-> "Intpart"])])

-----------------------------------------------------------------------------
(* GetToken: the character that begins the token decides.                  *)
Scanned(s) ==
  CASE s.cur = EOF             -> Token("EndOfFile", <<>>, s)
    [] s.cur \in DOMAIN Single -> Symbol(IF HasPairs(s.cur) THEN PeekChar(s) ELSE s)
    [] s.cur \in Quote         -> InString[[s |-> NextChar(s), str |-> <<>>, quote |-> s.cur]]
    [] s.cur \in WordStart     -> InWord[[s |-> s, str |-> <<>>]]
    [] s.cur \in Digit         -> NumberToken(s, 10)
    [] s.cur = "$" -> IF PeekChar(s).next \in DigitsOf(16)
                        THEN NumberToken(NextChar(PeekChar(s)), 16)
                        ELSE Token("Unknown", <<>>, PeekChar(s))
    [] OTHER                   -> Token("Unknown", <<>>, s)

(* Its location was taken before the blanks and comments were skipped.     *)
Located(line, first, t) ==
  [token |-> IF t.kind = "LineNumber"
               THEN [kind |-> "Integer", value |-> <<line>>, line |-> line]
               ELSE [kind |-> t.kind, value |-> t.value, line |-> line],
   s     |-> t.s,
   start |-> first]
Answer(line, s) == Located(line, At(s), Scanned(s))
GetToken == Answer(CurChar(lexer).line, Skip[Pass(CurChar(lexer))])

-----------------------------------------------------------------------------
Running == status = "running"

Init ==
  /\ text \in Texts
  /\ lexer = [pos |-> 0, line |-> 1, cur |-> Unread, next |-> Unread, valid |-> 0,
              errno |-> "0"]
  /\ curToken = NoToken
  /\ nextToken = NoToken
  /\ nextTokenValid = FALSE
  /\ errCnt = 0
  /\ status = "running"
  /\ before = lexer
  /\ start = 0
  /\ nextStart = 0

NextToken ==
  /\ Running
  /\ IF nextTokenValid
       THEN /\ curToken' = nextToken
            /\ start' = nextStart
            /\ UNCHANGED lexer
       ELSE \E t \in {GetToken} :
              curToken' = t.token /\ start' = t.start /\ lexer' = t.s
  /\ nextTokenValid' = FALSE
  /\ UNCHANGED <<text, nextToken, errCnt, status, before, nextStart>>

PeekToken ==
  /\ Running
  /\ ~nextTokenValid
  /\ \E t \in {GetToken} :
       nextToken' = t.token /\ nextStart' = t.start /\ lexer' = t.s
  /\ nextTokenValid' = TRUE
  /\ before' = lexer
  /\ UNCHANGED <<text, curToken, errCnt, status, start>>

(* FileSource::PrintSource goes to the start of the line, reads to its     *)
(* end, and back.  If the end of the file is met instead, the stream is in *)
(* its failed state and stays there: it does not go back, and delivers     *)
(* nothing more.  A stream that had met the end before stays there too.    *)
Terminated(line) == Cardinality({k \in 1 .. Len(text) : text[k] = NL}) >= line
(* Mutant: the stream does not go back to where it was.                   *)
PrintAndStay(line) ==
  text' = IF lexer.pos <= Len(text) THEN SubSeq(text, 1, lexer.pos) ELSE text
PrintSource(line) ==
  text' = IF ~Terminated(line) /\ lexer.pos <= Len(text) THEN SubSeq(text, 1, lexer.pos) ELSE text

(* PrintError, for the current token: one without a location, before the   *)
(* first token, is only counted.                                           *)
PrintError ==
  /\ Running
  /\ errCnt <= MaxErrors
  /\ errCnt' = errCnt + 1
  /\ IF curToken.line = 0
       THEN UNCHANGED <<text, status>>
       ELSE /\ PrintSource(curToken.line)
            /\ status' = IF errCnt + 1 > MaxErrors THEN "quit" ELSE status
  /\ UNCHANGED <<lexer, curToken, nextToken, nextTokenValid, before, start, nextStart>>

Next == NextToken \/ PeekToken \/ PrintError
Spec == Init /\ [][Next]_vars

-----------------------------------------------------------------------------
(* Every variable has its type: no more than one character of lookahead,   *)
(* and no more characters than the file has.                               *)
TokenKinds ==
  {Pair[p] : p \in DOMAIN Pair} \cup {Single[c] : c \in DOMAIN Single} \cup
  {Keyword[w] : w \in DOMAIN Keyword} \cup
  {"Identifier", "Integer", "Real", "Char", "StringLiteral", "Overflow",
   "UntermString", "Unknown", "EndOfFile"}
IsToken(t) ==
  \/ t = NoToken
  \/ t.kind \in TokenKinds \ {"LineNumber"} /\ t.line \in 1 .. Len(text) + 1
TypeOK ==
  /\ lexer \in LexerState
  /\ lexer.valid <= lexer.pos
  /\ lexer.pos <= Len(text) + 1
  /\ IsToken(curToken)
  /\ IsToken(nextToken)
  /\ nextTokenValid \in BOOLEAN
  /\ errCnt \in 0 .. MaxErrors + 1
  /\ status \in {"running", "quit"}

(* The parser gets the tokens of the text, one after the other, whatever   *)
(* it peeks at and whatever errors it reports in between: no character is  *)
(* used twice or passed over.                                              *)
Tokens == INSTANCE PascalTokens WITH
  at     <- At(IF nextTokenValid THEN before ELSE lexer),
  token  <- curToken,
  erange <- (IF nextTokenValid THEN before ELSE lexer).errno = "ERANGE"
ImplementsPascalTokens == Tokens!Spec

(* A token uses up characters of the text, so that a parser that goes on   *)
(* asking gets to the end of it, or to a character that begins nothing,    *)
(* which the lexer never passes.                                           *)
Foreign(c) ==
  c \notin Space \cup DOMAIN Single \cup Quote \cup WordStart \cup Digit \cup {LBRACE, EOF}
TokensAdvance ==
  [][LET scanned == IF nextTokenValid' THEN nextToken' ELSE curToken'
     IN  \/ At(lexer') > At(lexer)
         \/ scanned.kind = "EndOfFile"
         \/ scanned.kind = "Unknown" /\ Foreign(lexer'.cur)]_lexer

(* An error message loses nothing of a text whose last line is ended.      *)
ErrorsLoseNothing == [][text # <<>> => text[Len(text)] # NL]_text
=============================================================================
