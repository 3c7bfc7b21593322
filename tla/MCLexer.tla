------------------------------- MODULE MCLexer -------------------------------
(* Small instances of Lexer: every text of up to a length over an alphabet *)
(* for each part of the lexer, and numbers put together from fragments.    *)
EXTENDS Lexer

CONSTANTS CommentLength, SymbolLength, StringLength, NumberLength, LineLength, MixedLength

Over(A, n) == UNION {[1 .. k -> A] : k \in 0 .. n}

CommentTexts == Over({LBRACE, RBRACE, "(", "*", ")", "/", "a", NL}, CommentLength)
SymbolTexts  == Over({".", "<", ">", ":", "(", ")", "*", "1", "?"}, SymbolLength)
StringTexts  == Over({"'", DQUOTE, "a", NL, COMMA}, StringLength)

(* In an instance with IntBits = 7 and LongBits = 12: 4095 is the largest  *)
(* number, 4096 is out of range, and 130 is 2 as an int.                   *)
Fragments ==
  {<<"1">>, <<"e">>, <<".">>, <<"#">>, <<"$">>, <<"-">>, <<"1", "6">>, <<"1", "0">>,
   <<"1", "3", "0">>, <<"4", "0", "9", "5">>, <<"4", "0", "9", "6">>, <<"a">>, <<BLANK>>}
NumberTexts ==
  LET texts[n \in 0 .. NumberLength] ==
        IF n = 0 THEN {<<>>}
        ELSE texts[n - 1] \cup {t \o f : t \in texts[n - 1], f \in Fragments}
  IN  texts[NumberLength]
LineTexts == Over({LINE, "o", "f", SEMICOLON, BLANK, NL}, LineLength)
MixedTexts == Over({"$", NL, "a", "'", "(", "*", ".", LBRACE}, MixedLength)

MCTexts ==
  CommentTexts \cup SymbolTexts \cup StringTexts \cup NumberTexts \cup LineTexts \cup MixedTexts
=============================================================================
