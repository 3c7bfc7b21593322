----------------------- MODULE LexerRefinementProofs -----------------------
(***************************************************************************)
(* That the parser gets the tokens of the text: Lexer, which reads one     *)
(* character after the other and is never more than one ahead, implements  *)
(* PascalTokens, where a token is read off the text as a whole.            *)
(***************************************************************************)
EXTENDS LexerProofs

-----------------------------------------------------------------------------
(* The text as PascalTokens sees it.  U is the text, or as much of it as   *)
(* an error message may leave.                                             *)

IsText(U) == U \in Seq(STRING) /\ \A k \in 1 .. Len(U) : U[k] # EOF

LEMMA LeastOf ==
  ASSUME NEW i \in Nat, NEW n \in Nat, NEW T, n \in T, n >= i
  PROVE  \E j \in i .. n : j \in T /\ \A k \in i .. j - 1 : k \notin T
  <1>1. PICK A : A = {j \in i .. n : j \in T}
    OBVIOUS
  <1>2. A \subseteq Nat /\ A # {}
    BY <1>1
  <1>3. PICK j \in A : \A k \in A : <<k, j>> \notin OpToRel(<, Nat)
    BY <1>2, WFMin, NatLessThanWellFounded, Zenon
  <1>4. \A k \in A : k \in Nat /\ ~(k < j)
    BY <1>2, <1>3 DEF OpToRel
  <1>5. j \in i .. n /\ j \in T
    BY <1>1, <1>3
  <1>6. ASSUME NEW k \in i .. j - 1 PROVE k \notin T
    <2>1. k \in i .. n /\ k < j
      BY <1>5, <1>6
    <2>2. QED  BY <1>1, <1>4, <2>1
  <1>7. QED  BY <1>5, <1>6

LEMMA CharIs ==
  ASSUME NEW U, IsText(U)
  PROVE  /\ U \in Seq(STRING) /\ Len(U) \in Nat /\ Tokens!End(U) = Len(U) + 1
         /\ \A k \in 1 .. Len(U) : Tokens!Char(U, k) = U[k] /\ U[k] # EOF /\ U[k] \in STRING
         /\ \A k \in Nat : k > Len(U) => Tokens!Char(U, k) = EOF
         /\ Tokens!EOF = EOF
  BY DEF IsText, Tokens!Char, Tokens!End, Tokens!EOF, EOF

LEMMA FirstIs ==
  ASSUME NEW U, IsText(U), NEW i \in 1 .. Len(U) + 1, NEW S,
         NEW j \in i .. Len(U) + 1, j = Len(U) + 1 \/ Tokens!Char(U, j) \in S,
         \A k \in i .. j - 1 : Tokens!Char(U, k) \notin S
  PROVE  Tokens!First(U, i, S) = j
  <1>1. Len(U) \in Nat /\ Tokens!End(U) = Len(U) + 1
    BY CharIs
  <1>2. ASSUME NEW l \in i .. Len(U) + 1, l = Len(U) + 1 \/ Tokens!Char(U, l) \in S,
               \A k \in i .. l - 1 : Tokens!Char(U, k) \notin S
        PROVE  l = j
    <2>1. CASE l < j
      BY <1>1, <1>2, <2>1
    <2>2. CASE j < l
      BY <1>1, <1>2, <2>2
    <2>3. QED  BY <1>1, <2>1, <2>2
  <1>3. QED  BY <1>1, <1>2 DEF Tokens!First

LEMMA FirstExists ==
  ASSUME NEW U, IsText(U), NEW i \in 1 .. Len(U) + 1, NEW S
  PROVE  /\ Tokens!First(U, i, S) \in i .. Len(U) + 1
         /\ \/ Tokens!First(U, i, S) = Len(U) + 1
            \/ Tokens!Char(U, Tokens!First(U, i, S)) \in S
         /\ \A k \in i .. Tokens!First(U, i, S) - 1 : Tokens!Char(U, k) \notin S
  <1>1. PICK T : T = {k \in i .. Len(U) + 1 : k = Len(U) + 1 \/ Tokens!Char(U, k) \in S}
    OBVIOUS
  <1>2. Len(U) + 1 \in T /\ Len(U) + 1 >= i /\ i \in Nat /\ Len(U) + 1 \in Nat
    BY <1>1, CharIs
  <1>3. PICK j \in i .. Len(U) + 1 : j \in T /\ \A k \in i .. j - 1 : k \notin T
    BY <1>2, LeastOf
  <1>4. \A k \in i .. j - 1 : Tokens!Char(U, k) \notin S
    BY <1>1, <1>2, <1>3
  <1>5. Tokens!First(U, i, S) = j
    BY <1>1, <1>3, <1>4, FirstIs
  <1>6. QED  BY <1>1, <1>3, <1>4, <1>5

(* One step to the first character of S.                                   *)
LEMMA FirstStep ==
  ASSUME NEW U, IsText(U), NEW S, NEW i \in 1 .. Len(U) + 1
  PROVE  /\ i = Len(U) + 1 \/ Tokens!Char(U, i) \in S => Tokens!First(U, i, S) = i
         /\ i <= Len(U) /\ Tokens!Char(U, i) \notin S =>
              Tokens!First(U, i, S) = Tokens!First(U, i + 1, S)
  <1>1. Len(U) \in Nat
    BY CharIs
  <1>2. ASSUME i = Len(U) + 1 \/ Tokens!Char(U, i) \in S PROVE Tokens!First(U, i, S) = i
    <2>1. i \in i .. Len(U) + 1 /\ \A k \in i .. i - 1 : Tokens!Char(U, k) \notin S
      BY <1>1
    <2>2. QED  BY <1>2, <2>1, FirstIs
  <1>3. ASSUME i <= Len(U), Tokens!Char(U, i) \notin S
        PROVE  Tokens!First(U, i, S) = Tokens!First(U, i + 1, S)
    <2>1. PICK h, j : h = i + 1 /\ j = Tokens!First(U, h, S)
      OBVIOUS
    <2>2. h \in 1 .. Len(U) + 1
      BY <1>1, <1>3, <2>1
    <2>3. /\ j \in h .. Len(U) + 1 /\ (j = Len(U) + 1 \/ Tokens!Char(U, j) \in S)
          /\ \A k \in h .. j - 1 : Tokens!Char(U, k) \notin S
      BY <2>1, <2>2, FirstExists
    <2>4. j \in i .. Len(U) + 1 /\ \A k \in i .. j - 1 : k = i \/ k \in h .. j - 1
      BY <1>1, <1>3, <2>1, <2>3
    <2>5. \A k \in i .. j - 1 : Tokens!Char(U, k) \notin S
      BY <1>3, <2>3, <2>4
    <2>6. QED  BY <2>1, <2>3, <2>4, <2>5, FirstIs
  <1>4. QED  BY <1>2, <1>3

LEMMA RunEndIs ==
  ASSUME NEW U, IsText(U), NEW i \in 1 .. Len(U) + 1, NEW S,
         NEW j \in i .. Len(U) + 1, Tokens!Char(U, j) \notin S,
         \A k \in i .. j - 1 : Tokens!Char(U, k) \in S
  PROVE  Tokens!RunEnd(U, i, S) = j
  <1>1. Len(U) \in Nat /\ Tokens!End(U) = Len(U) + 1
    BY CharIs
  <1>2. ASSUME NEW l \in i .. Len(U) + 1, Tokens!Char(U, l) \notin S,
               \A k \in i .. l - 1 : Tokens!Char(U, k) \in S
        PROVE  l = j
    <2>1. CASE l < j
      BY <1>1, <1>2, <2>1
    <2>2. CASE j < l
      BY <1>1, <1>2, <2>2
    <2>3. QED  BY <1>1, <2>1, <2>2
  <1>3. QED  BY <1>1, <1>2 DEF Tokens!RunEnd

LEMMA RunEndExists ==
  ASSUME NEW U, IsText(U), NEW i \in 1 .. Len(U) + 1, NEW S, EOF \notin S
  PROVE  /\ Tokens!RunEnd(U, i, S) \in i .. Len(U) + 1
         /\ Tokens!Char(U, Tokens!RunEnd(U, i, S)) \notin S
         /\ \A k \in i .. Tokens!RunEnd(U, i, S) - 1 : Tokens!Char(U, k) \in S
  <1>1. PICK T : T = {k \in i .. Len(U) + 1 : Tokens!Char(U, k) \notin S}
    OBVIOUS
  <1>2. Len(U) + 1 \in T /\ Len(U) + 1 >= i /\ i \in Nat /\ Len(U) + 1 \in Nat
    BY <1>1, CharIs
  <1>3. PICK j \in i .. Len(U) + 1 : j \in T /\ \A k \in i .. j - 1 : k \notin T
    BY <1>2, LeastOf
  <1>4. \A k \in i .. j - 1 : Tokens!Char(U, k) \in S
    BY <1>1, <1>2, <1>3
  <1>5. Tokens!RunEnd(U, i, S) = j
    BY <1>1, <1>3, <1>4, RunEndIs
  <1>6. QED  BY <1>1, <1>3, <1>4, <1>5

LEMMA RunEndStep ==
  ASSUME NEW U, IsText(U), NEW S, EOF \notin S, NEW i \in 1 .. Len(U) + 1
  PROVE  /\ Tokens!Char(U, i) \notin S => Tokens!RunEnd(U, i, S) = i
         /\ Tokens!Char(U, i) \in S => /\ i <= Len(U)
                                       /\ Tokens!RunEnd(U, i, S) = Tokens!RunEnd(U, i + 1, S)
  <1>1. Len(U) \in Nat
    BY CharIs
  <1>2. ASSUME Tokens!Char(U, i) \notin S PROVE Tokens!RunEnd(U, i, S) = i
    <2>1. i \in i .. Len(U) + 1 /\ \A k \in i .. i - 1 : Tokens!Char(U, k) \in S
      BY <1>1
    <2>2. QED  BY <1>2, <2>1, RunEndIs
  <1>3. ASSUME Tokens!Char(U, i) \in S
        PROVE  i <= Len(U) /\ Tokens!RunEnd(U, i, S) = Tokens!RunEnd(U, i + 1, S)
    <2>1. PICK h, j : h = i + 1 /\ j = Tokens!RunEnd(U, h, S)
      OBVIOUS
    <2>2. i <= Len(U) /\ h \in 1 .. Len(U) + 1
      BY <1>1, <1>3, <2>1, CharIs
    <2>3. /\ j \in h .. Len(U) + 1 /\ Tokens!Char(U, j) \notin S
          /\ \A k \in h .. j - 1 : Tokens!Char(U, k) \in S
      BY <2>1, <2>2, RunEndExists
    <2>4. j \in i .. Len(U) + 1 /\ \A k \in i .. j - 1 : k = i \/ k \in h .. j - 1
      BY <1>1, <2>1, <2>2, <2>3
    <2>5. \A k \in i .. j - 1 : Tokens!Char(U, k) \in S
      BY <1>3, <2>3, <2>4
    <2>6. QED  BY <2>1, <2>2, <2>3, <2>4, <2>5, RunEndIs
  <1>4. QED  BY <1>2, <1>3

LEMMA StarEndIs ==
  ASSUME NEW U, IsText(U), NEW i \in 1 .. Len(U) + 1,
         NEW j \in i .. Len(U) + 1,
         j = Len(U) + 1 \/ (Tokens!StarBefore(U, j) /\ j - 2 >= i),
         \A k \in i + 2 .. j - 1 : ~Tokens!StarBefore(U, k)
  PROVE  Tokens!StarEnd(U, i) = j
  <1>1. Len(U) \in Nat /\ Tokens!End(U) = Len(U) + 1
    BY CharIs
  <1>2. ASSUME NEW l \in i .. Len(U) + 1,
               l = Len(U) + 1 \/ (Tokens!StarBefore(U, l) /\ l - 2 >= i),
               \A k \in i + 2 .. l - 1 : ~Tokens!StarBefore(U, k)
        PROVE  l = j
    <2>1. CASE l < j
      BY <1>1, <1>2, <2>1
    <2>2. CASE j < l
      BY <1>1, <1>2, <2>2
    <2>3. QED  BY <1>1, <2>1, <2>2
  <1>3. QED  BY <1>1, <1>2 DEF Tokens!StarEnd

LEMMA StarEndExists ==
  ASSUME NEW U, IsText(U), NEW i \in 1 .. Len(U) + 1
  PROVE  /\ Tokens!StarEnd(U, i) \in i .. Len(U) + 1
         /\ \/ Tokens!StarEnd(U, i) = Len(U) + 1
            \/ Tokens!StarBefore(U, Tokens!StarEnd(U, i)) /\ Tokens!StarEnd(U, i) - 2 >= i
         /\ \A k \in i + 2 .. Tokens!StarEnd(U, i) - 1 : ~Tokens!StarBefore(U, k)
  <1>1. PICK T : T = {k \in i .. Len(U) + 1 :
                        k = Len(U) + 1 \/ (Tokens!StarBefore(U, k) /\ k - 2 >= i)}
    OBVIOUS
  <1>2. Len(U) + 1 \in T /\ Len(U) + 1 >= i /\ i \in Nat /\ Len(U) + 1 \in Nat
    BY <1>1, CharIs
  <1>3. PICK j \in i .. Len(U) + 1 : j \in T /\ \A k \in i .. j - 1 : k \notin T
    BY <1>2, LeastOf
  <1>4. ASSUME NEW k \in i + 2 .. j - 1 PROVE ~Tokens!StarBefore(U, k)
    <2>1. k \in i .. j - 1 /\ k \in i .. Len(U) + 1 /\ k - 2 >= i
      BY <1>2, <1>4
    <2>2. QED  BY <1>1, <1>3, <2>1
  <1>5. Tokens!StarEnd(U, i) = j
    BY <1>1, <1>3, <1>4, StarEndIs
  <1>6. QED  BY <1>1, <1>3, <1>4, <1>5

LEMMA StarEndStep ==
  ASSUME NEW U, IsText(U), NEW i \in 1 .. Len(U) + 1
  PROVE  /\ i = Len(U) + 1 => Tokens!StarEnd(U, i) = i
         /\ Tokens!Char(U, i) = "*" /\ Tokens!Char(U, i + 1) = ")" =>
              Tokens!StarEnd(U, i) = i + 2
         /\ i <= Len(U) /\ ~(Tokens!Char(U, i) = "*" /\ Tokens!Char(U, i + 1) = ")") =>
              Tokens!StarEnd(U, i) = Tokens!StarEnd(U, i + 1)
  <1>1. Len(U) \in Nat /\ EOF # "*" /\ EOF # ")"
    BY CharIs DEF EOF
  <1>2. ASSUME i = Len(U) + 1 PROVE Tokens!StarEnd(U, i) = i
    <2>1. i \in i .. Len(U) + 1 /\ \A k \in i + 2 .. i - 1 : ~Tokens!StarBefore(U, k)
      BY <1>1
    <2>2. QED  BY <1>2, <2>1, StarEndIs
  <1>3. ASSUME Tokens!Char(U, i) = "*", Tokens!Char(U, i + 1) = ")"
        PROVE  Tokens!StarEnd(U, i) = i + 2
    <2>1. i <= Len(U) /\ i + 1 <= Len(U)
      BY <1>1, <1>3, CharIs
    <2>2. PICK j : j = i + 2
      OBVIOUS
    <2>3. /\ j \in i .. Len(U) + 1 /\ j - 2 >= i /\ j - 2 = i /\ j - 1 = i + 1
          /\ \A k \in i + 2 .. j - 1 : ~Tokens!StarBefore(U, k)
      BY <1>1, <2>1, <2>2
    <2>4. Tokens!StarBefore(U, j)
      BY <1>3, <2>3 DEF Tokens!StarBefore
    <2>5. QED  BY <2>2, <2>3, <2>4, StarEndIs
  <1>4. ASSUME i <= Len(U), ~(Tokens!Char(U, i) = "*" /\ Tokens!Char(U, i + 1) = ")")
        PROVE  Tokens!StarEnd(U, i) = Tokens!StarEnd(U, i + 1)
    <2>1. PICK h, j : h = i + 1 /\ j = Tokens!StarEnd(U, h)
      OBVIOUS
    <2>2. h \in 1 .. Len(U) + 1
      BY <1>1, <1>4, <2>1
    <2>3. /\ j \in h .. Len(U) + 1
          /\ j = Len(U) + 1 \/ (Tokens!StarBefore(U, j) /\ j - 2 >= h)
          /\ \A k \in h + 2 .. j - 1 : ~Tokens!StarBefore(U, k)
      BY <2>1, <2>2, StarEndExists
    <2>4. /\ j \in i .. Len(U) + 1 /\ (j - 2 >= h => j - 2 >= i)
          /\ \A k \in i + 2 .. j - 1 : k = i + 2 \/ k \in h + 2 .. j - 1
          /\ i + 2 - 2 = i /\ i + 2 - 1 = i + 1
      BY <1>1, <1>4, <2>1, <2>2, <2>3
    <2>5. ~Tokens!StarBefore(U, i + 2)
      BY <1>4, <2>4 DEF Tokens!StarBefore
    <2>6. \A k \in i + 2 .. j - 1 : ~Tokens!StarBefore(U, k)
      BY <2>3, <2>4, <2>5
    <2>7. QED  BY <2>1, <2>3, <2>4, <2>6, StarEndIs
  <1>5. QED  BY <1>2, <1>3, <1>4

-----------------------------------------------------------------------------
(* The lexer has got p characters: U is the text, or a part of it that has *)
(* them all.                                                               *)
Shows(U, p) ==
  /\ U \in Seq(STRING)
  /\ Len(U) <= Len(text)
  /\ \A k \in 1 .. Len(U) : U[k] = text[k]
  /\ p > Len(U) => U = text

LEMMA ShowsIs ==
  ASSUME IsText(text), NEW U, NEW p \in Nat, Shows(U, p)
  PROVE  /\ IsText(U) /\ Len(U) \in Nat /\ Len(U) <= Len(text)
         /\ \A k \in Nat \ {0} : k <= p => Tokens!Char(U, k) = CharAt(k)
         /\ p <= Len(text) + 1 => p <= Len(U) + 1
         /\ p > Len(text) => U = text
         /\ \A q \in Nat : q <= p => Shows(U, q)
  <1>1. Len(U) \in Nat /\ Len(text) \in Nat /\ Len(U) <= Len(text)
    BY DEF Shows, IsText
  <1>2. IsText(U)
    BY <1>1 DEF Shows, IsText
  <1>3. ASSUME NEW k \in Nat \ {0}, k <= p PROVE Tokens!Char(U, k) = CharAt(k)
    <2>1. CASE k <= Len(U)
      BY <1>1, <1>2, <2>1, CharIs DEF CharAt, Shows
    <2>2. CASE k > Len(U)
      <3>1. U = text
        BY <1>1, <1>3, <2>2 DEF Shows
      <3>2. Tokens!Char(U, k) = EOF
        BY <1>2, <2>2, CharIs
      <3>3. QED  BY <1>1, <2>2, <3>1, <3>2 DEF CharAt
    <2>3. QED  BY <1>1, <2>1, <2>2
  <1>4. /\ p <= Len(text) + 1 => p <= Len(U) + 1
        /\ p > Len(text) => U = text
    BY <1>1 DEF Shows
  <1>5. \A q \in Nat : q <= p => Shows(U, q)
    BY <1>1 DEF Shows
  <1>6. QED  BY <1>1, <1>2, <1>3, <1>4, <1>5

(* What U has where a lexer is that has got no more than p characters.     *)
LEMMA HereIs ==
  ASSUME IsText(text), NEW s, Synced(s), NEW U, Shows(U, s.pos)
  PROVE  /\ IsText(U) /\ Len(U) \in Nat /\ At(s) \in 1 .. Len(U) + 1
         /\ Tokens!Char(U, At(s)) = s.cur
         /\ s.valid = 2 => Tokens!Char(U, At(s) + 1) = s.next /\ At(s) <= Len(U)
         /\ s.cur = EOF <=> At(s) = Len(U) + 1
         /\ s.cur = EOF => At(s) = Len(text) + 1
  <1>1. /\ s.pos \in Nat /\ s.pos <= Len(text) + 1 /\ s.valid \in 1 .. 2 /\ Len(text) \in Nat
        /\ At(s) \in 1 .. Len(text) + 1 /\ At(s) = s.pos - s.valid + 1 /\ s.cur = CharAt(At(s))
    BY SyncedIs DEF Synced, IsText
  <1>2. /\ IsText(U) /\ Len(U) \in Nat /\ Len(U) <= Len(text)
        /\ \A k \in Nat \ {0} : k <= s.pos => Tokens!Char(U, k) = CharAt(k)
        /\ s.pos <= Len(U) + 1 /\ (s.pos > Len(text) => U = text)
    BY <1>1, ShowsIs
  <1>3. At(s) \in 1 .. Len(U) + 1 /\ Tokens!Char(U, At(s)) = s.cur
    BY <1>1, <1>2
  <1>4. ASSUME s.valid = 2
        PROVE  Tokens!Char(U, At(s) + 1) = s.next /\ At(s) <= Len(U)
    <2>1. At(s) + 1 = s.pos /\ s.next = CharAt(At(s) + 1)
      BY <1>1, <1>4 DEF Synced
    <2>2. QED  BY <1>1, <1>2, <2>1
  <1>5. s.cur = EOF <=> At(s) = Len(U) + 1
    BY <1>2, <1>3, CharIs
  <1>6. s.cur = EOF => At(s) = Len(text) + 1
    <2>1. s.cur = EOF => ~(At(s) \in 1 .. Len(text))
      BY <1>1 DEF CharAt, IsText
    <2>2. QED  BY <1>1, <2>1
  <1>7. QED  BY <1>2, <1>3, <1>4, <1>5, <1>6

LEMMA ShowsBack ==
  ASSUME IsText(text), NEW s, Synced(s), NEW t, Onward(s, t), NEW U, Shows(U, t.pos)
  PROVE  Shows(U, s.pos)
  <1>1. s.pos \in Nat /\ t.pos \in Nat /\ s.pos <= t.pos
    BY SyncedIs DEF Onward, IsText
  <1>2. QED  BY <1>1, ShowsIs

(* What a lexer finds that goes on from s0.                                *)
LEMMA OnwardHere ==
  ASSUME IsText(text), NEW s0, Synced(s0), NEW s, Onward(s0, s)
  PROVE  /\ text \in Seq(STRING) /\ Synced(s) /\ s \in LexerState
         /\ s.cur # EOF => /\ Onward(s0, NextChar(s)) /\ Onward(s, NextChar(s))
                           /\ NextChar(s) \in LexerState
                           /\ At(NextChar(s)) = At(s) + 1 /\ NextChar(s).errno = s.errno
         /\ s.cur # EOF => /\ Onward(s0, PeekChar(s)) /\ Onward(s, PeekChar(s))
                           /\ PeekChar(s) \in LexerState
                           /\ PeekChar(s).cur = s.cur /\ At(PeekChar(s)) = At(s)
                           /\ PeekChar(s).valid = 2 /\ PeekChar(s).errno = s.errno
  <1>1. text \in Seq(STRING) /\ Synced(s) /\ s \in LexerState
    BY SyncedIs DEF IsText, Onward
  <1>2. ASSUME s.cur # EOF
        PROVE  /\ Onward(s0, NextChar(s)) /\ Onward(s, NextChar(s))
               /\ NextChar(s) \in LexerState
               /\ At(NextChar(s)) = At(s) + 1 /\ NextChar(s).errno = s.errno
    <2>1. At(s) <= Len(text)
      BY <1>1, <1>2, SyncedIs
    <2>2. Onward(s, NextChar(s)) /\ At(NextChar(s)) = At(s) + 1 /\ NextChar(s).errno = s.errno
      BY <1>1, <2>1, SyncedNext
    <2>3. Onward(s0, NextChar(s))
      BY <1>1, <2>2, OnwardTwice
    <2>4. NextChar(s) \in LexerState
      BY <1>1, NextIs
    <2>5. QED  BY <2>2, <2>3, <2>4
  <1>3. ASSUME s.cur # EOF
        PROVE  /\ Onward(s0, PeekChar(s)) /\ Onward(s, PeekChar(s))
               /\ PeekChar(s) \in LexerState
               /\ PeekChar(s).cur = s.cur /\ At(PeekChar(s)) = At(s)
               /\ PeekChar(s).valid = 2 /\ PeekChar(s).errno = s.errno
    <2>1. /\ Onward(s, PeekChar(s)) /\ At(PeekChar(s)) = At(s)
          /\ PeekChar(s).cur = s.cur /\ PeekChar(s).errno = s.errno /\ PeekChar(s).valid = 2
      BY <1>1, <1>3, SyncedPeek
    <2>2. Onward(s0, PeekChar(s))
      BY <1>1, <2>1, OnwardTwice
    <2>3. PeekChar(s) \in LexerState
      BY <1>1, PeekIs
    <2>4. QED  BY <2>1, <2>2, <2>3
  <1>4. QED  BY <1>1, <1>2, <1>3

-----------------------------------------------------------------------------
(* Blanks and comments end where PascalTokens says.                        *)

LEMMA WhileEndsAt ==
  ASSUME IsText(text), NEW S, EOF \notin S, NEW s0, Synced(s0), NEW U,
         NEW t, t = SkipWhile(s0, S), Shows(U, t.pos)
  PROVE  Tokens!RunEnd(U, At(s0), S) = At(t)
  <1>1. PICK P : P = {s \in LexerState :
                        /\ Onward(s0, s)
                        /\ Shows(U, s.pos) =>
                             Tokens!RunEnd(U, At(s0), S) = Tokens!RunEnd(U, At(s), S)}
    OBVIOUS
  <1>2. text \in Seq(STRING) /\ s0 \in P /\ P \subseteq LexerState
    BY <1>1, SyncedIs DEF IsText
  <1>3. ASSUME NEW s \in P, s.cur \in S
        PROVE  NextChar(s) \in P
    <2>1. PICK u : u = NextChar(s)
      OBVIOUS
    <2>2. Onward(s0, s) /\ s.cur # EOF
      BY <1>1, <1>3
    <2>3. Onward(s0, u) /\ Onward(s, u) /\ u \in LexerState /\ At(u) = At(s) + 1 /\ Synced(s)
      BY <2>1, <2>2, OnwardHere
    <2>4. ASSUME Shows(U, u.pos)
          PROVE  Tokens!RunEnd(U, At(s0), S) = Tokens!RunEnd(U, At(u), S)
      <3>1. Shows(U, s.pos)
        BY <2>3, <2>4, ShowsBack
      <3>2. IsText(U) /\ At(s) \in 1 .. Len(U) + 1 /\ Tokens!Char(U, At(s)) \in S
        BY <1>3, <2>3, <3>1, HereIs
      <3>3. Tokens!RunEnd(U, At(s), S) = Tokens!RunEnd(U, At(s) + 1, S)
        BY <3>2, RunEndStep
      <3>4. QED  BY <1>1, <2>3, <3>1, <3>3
    <2>5. QED  BY <1>1, <2>1, <2>3, <2>4
  <1>4. t \in P /\ t.cur \notin S
    BY <1>2, <1>3, SkipWhileEnds
  <1>5. Synced(t)
    BY <1>1, <1>4 DEF Onward
  <1>6. IsText(U) /\ At(t) \in 1 .. Len(U) + 1 /\ Tokens!Char(U, At(t)) \notin S
    BY <1>4, <1>5, HereIs
  <1>7. Tokens!RunEnd(U, At(t), S) = At(t)
    BY <1>6, RunEndStep
  <1>8. QED  BY <1>1, <1>4, <1>7

LEMMA UntilEndsAt ==
  ASSUME IsText(text), NEW S, NEW s0, Synced(s0), NEW U,
         NEW t, t = SkipUntil(s0, S), Shows(U, t.pos)
  PROVE  Tokens!First(U, At(s0), S) = At(t)
  <1>1. PICK P : P = {s \in LexerState :
                        /\ Onward(s0, s)
                        /\ Shows(U, s.pos) =>
                             Tokens!First(U, At(s0), S) = Tokens!First(U, At(s), S)}
    OBVIOUS
  <1>2. text \in Seq(STRING) /\ s0 \in P /\ P \subseteq LexerState
    BY <1>1, SyncedIs DEF IsText
  <1>3. ASSUME NEW s \in P, s.cur \notin S \cup {EOF}
        PROVE  NextChar(s) \in P
    <2>1. PICK u : u = NextChar(s)
      OBVIOUS
    <2>2. Onward(s0, s) /\ s.cur # EOF
      BY <1>1, <1>3
    <2>3. Onward(s0, u) /\ Onward(s, u) /\ u \in LexerState /\ At(u) = At(s) + 1 /\ Synced(s)
      BY <2>1, <2>2, OnwardHere
    <2>4. ASSUME Shows(U, u.pos)
          PROVE  Tokens!First(U, At(s0), S) = Tokens!First(U, At(u), S)
      <3>1. Shows(U, s.pos)
        BY <2>3, <2>4, ShowsBack
      <3>2. /\ IsText(U) /\ At(s) \in 1 .. Len(U) + 1 /\ Tokens!Char(U, At(s)) \notin S
            /\ Len(U) \in Nat /\ At(s) # Len(U) + 1
        BY <1>3, <2>2, <2>3, <3>1, HereIs
      <3>3. Tokens!First(U, At(s), S) = Tokens!First(U, At(s) + 1, S)
        BY <3>2, FirstStep
      <3>4. QED  BY <1>1, <2>3, <3>1, <3>3
    <2>5. QED  BY <1>1, <2>1, <2>3, <2>4
  <1>4. t \in P /\ t.cur \in S \cup {EOF}
    BY <1>2, <1>3, SkipUntilEnds
  <1>5. Synced(t)
    BY <1>1, <1>4 DEF Onward
  <1>6. /\ IsText(U) /\ At(t) \in 1 .. Len(U) + 1
        /\ At(t) = Len(U) + 1 \/ Tokens!Char(U, At(t)) \in S
    BY <1>4, <1>5, HereIs
  <1>7. Tokens!First(U, At(t), S) = At(t)
    BY <1>6, FirstStep
  <1>8. QED  BY <1>1, <1>4, <1>7

LEMMA StarEndsAt ==
  ASSUME IsText(text), NEW s0, Synced(s0), NEW U, NEW t, t = InStarComment[s0], Shows(U, t.pos)
  PROVE  Tokens!StarEnd(U, At(s0)) = At(t)
  <1>1. PICK P : P = {s \in LexerState :
                        /\ Onward(s0, s)
                        /\ Shows(U, s.pos) =>
                             Tokens!StarEnd(U, At(s0)) = Tokens!StarEnd(U, At(s))}
    OBVIOUS
  <1>2. text \in Seq(STRING) /\ s0 \in P /\ P \subseteq LexerState /\ EOF # "*" /\ EOF # ")"
    BY <1>1, SyncedIs DEF IsText, EOF
  <1>3. ASSUME NEW s \in P, s.cur # EOF, NEW u, Onward(s, u), Onward(s0, u), u \in LexerState,
               At(u) = At(s) + 1,
               s.cur # "*" \/ (s.valid = 2 /\ s.next # ")")
        PROVE  u \in P
    <2>1. Onward(s0, s) /\ Synced(s)
      BY <1>1 DEF Onward
    <2>2. ASSUME Shows(U, u.pos)
          PROVE  Tokens!StarEnd(U, At(s0)) = Tokens!StarEnd(U, At(u))
      <3>1. Shows(U, s.pos)
        BY <1>3, <2>1, <2>2, ShowsBack
      <3>2. /\ IsText(U) /\ At(s) \in 1 .. Len(U) + 1 /\ Len(U) \in Nat /\ At(s) # Len(U) + 1
            /\ ~(Tokens!Char(U, At(s)) = "*" /\ Tokens!Char(U, At(s) + 1) = ")")
        BY <1>3, <2>1, <3>1, HereIs
      <3>3. Tokens!StarEnd(U, At(s)) = Tokens!StarEnd(U, At(s) + 1)
        BY <3>2, StarEndStep
      <3>4. QED  BY <1>1, <1>3, <3>1, <3>3
    <2>3. QED  BY <1>1, <1>3, <2>2
  <1>4. ASSUME NEW s \in P, s.cur # EOF, s.cur # "*"
        PROVE  NextChar(s) \in P
    <2>1. Onward(s0, s)
      BY <1>1
    <2>2. /\ Onward(s, NextChar(s)) /\ Onward(s0, NextChar(s)) /\ NextChar(s) \in LexerState
          /\ At(NextChar(s)) = At(s) + 1
      BY <1>4, <2>1, OnwardHere
    <2>3. QED  BY <1>3, <1>4, <2>2
  <1>5. ASSUME NEW s \in P, s.cur = "*"
        PROVE  /\ PeekChar(s) \in P /\ PeekChar(s).cur = "*" /\ PeekChar(s).valid = 2
               /\ Onward(s0, PeekChar(s)) /\ At(PeekChar(s)) = At(s)
    <2>1. Onward(s0, s) /\ Synced(s)
      BY <1>1 DEF Onward
    <2>2. PICK v : v = PeekChar(s)
      OBVIOUS
    <2>3. /\ Onward(s0, v) /\ Onward(s, v) /\ v \in LexerState /\ v.cur = "*"
          /\ At(v) = At(s) /\ v.valid = 2
      BY <1>2, <1>5, <2>1, <2>2, OnwardHere
    <2>4. Shows(U, v.pos) => Shows(U, s.pos)
      BY <2>1, <2>3, ShowsBack
    <2>5. QED  BY <1>1, <2>2, <2>3, <2>4
  <1>6. ASSUME NEW s \in P, s.cur = "*", PeekChar(s).next # ")"
        PROVE  NextChar(PeekChar(s)) \in P
    <2>1. PICK v, u : v = PeekChar(s) /\ u = NextChar(v)
      OBVIOUS
    <2>2. v \in P /\ v.cur = "*" /\ v.valid = 2 /\ v.next # ")" /\ Onward(s0, v)
      BY <1>5, <1>6, <2>1
    <2>3. Onward(s0, u) /\ Onward(v, u) /\ u \in LexerState /\ At(u) = At(v) + 1
      BY <1>2, <2>1, <2>2, OnwardHere
    <2>4. u \in P
      BY <1>2, <1>3, <2>2, <2>3
    <2>5. QED  BY <2>1, <2>4
  <1>7. PICK s \in P : \/ s.cur = EOF /\ InStarComment[s0] = NextChar(NextChar(s))
                       \/ /\ s.cur = "*" /\ PeekChar(s).next = ")"
                          /\ InStarComment[s0] = NextChar(NextChar(PeekChar(s)))
    BY <1>2, <1>4, <1>6, InStarCommentEnds
  <1>8. CASE s.cur = EOF
    <2>1. PICK u : u = NextChar(s)
      OBVIOUS
    <2>2. t = NextChar(u)
      BY <1>2, <1>7, <1>8, <2>1
    <2>3. Synced(s) /\ Onward(s0, s) /\ Len(text) \in Nat
      BY <1>1, <1>2 DEF Onward
    <2>4. s.pos \in Nat /\ At(s) \in Nat /\ s.valid \in 1 .. 2 /\ At(s) = s.pos - s.valid + 1
      BY <1>2, <2>3, SyncedIs
    <2>5. At(s) > Len(text)
      <3>1. At(s) \in 1 .. Len(text) => CharAt(At(s)) # EOF
        BY DEF CharAt, IsText
      <3>2. s.cur = CharAt(At(s)) /\ At(s) \in 1 .. Len(text) + 1
        BY <1>2, <2>3, SyncedIs
      <3>3. QED  BY <1>8, <2>3, <3>1, <3>2
    <2>6. Onward(s, u) /\ At(u) = At(s)
      BY <1>2, <2>1, <2>3, <2>5, SyncedNext
    <2>7. Onward(u, t) /\ At(t) = At(s)
      BY <1>2, <2>2, <2>5, <2>6, SyncedNext DEF Onward
    <2>8. Shows(U, s.pos)
      <3>1. Shows(U, u.pos)
        BY <2>6, <2>7, ShowsBack DEF Onward
      <3>2. QED  BY <2>3, <2>6, <3>1, ShowsBack
    <2>9. IsText(U) /\ At(s) = Len(U) + 1 /\ At(s) \in 1 .. Len(U) + 1
      BY <1>8, <2>3, <2>8, HereIs
    <2>10. Tokens!StarEnd(U, At(s)) = At(s)
      BY <2>9, StarEndStep
    <2>11. QED  BY <1>1, <1>7, <2>7, <2>8, <2>10
  <1>9. CASE s.cur # EOF
    <2>1. PICK v, w : v = PeekChar(s) /\ w = NextChar(v)
      OBVIOUS
    <2>2. t = NextChar(w) /\ s.cur = "*" /\ v.next = ")"
      BY <1>7, <1>9, <2>1
    <2>3. v \in P /\ v.cur = "*" /\ v.valid = 2 /\ Onward(s0, v) /\ Synced(v)
      BY <1>5, <2>1, <2>2 DEF Onward
    <2>4. Onward(s0, w) /\ Onward(v, w) /\ At(w) = At(v) + 1 /\ w \in LexerState /\ w.cur = ")"
      <3>1. v \in LexerState
        BY <1>2, <2>3
      <3>2. w.cur = v.next
        BY <1>2, <2>1, <2>3, <3>1, NextIs
      <3>3. QED  BY <1>2, <2>1, <2>2, <2>3, <3>2, OnwardHere
    <2>5. Onward(w, t) /\ At(t) = At(w) + 1
      BY <1>2, <2>2, <2>4, OnwardHere
    <2>6. Shows(U, v.pos)
      <3>1. Shows(U, w.pos)
        BY <2>4, <2>5, ShowsBack DEF Onward
      <3>2. QED  BY <2>3, <2>4, <3>1, ShowsBack
    <2>7. /\ IsText(U) /\ At(v) \in 1 .. Len(U) + 1
          /\ Tokens!Char(U, At(v)) = "*" /\ Tokens!Char(U, At(v) + 1) = ")"
      BY <2>2, <2>3, <2>6, HereIs
    <2>8. Tokens!StarEnd(U, At(v)) = At(v) + 2
      BY <2>7, StarEndStep
    <2>9. At(t) = At(v) + 2
      BY <2>4, <2>5, <2>7
    <2>10. QED  BY <1>1, <2>3, <2>6, <2>8, <2>9
  <1>10. QED  BY <1>8, <1>9

LEMMA SameCharacters ==
  /\ Tokens!EOF = EOF /\ Tokens!NL = NL /\ Tokens!LBRACE = LBRACE /\ Tokens!RBRACE = RBRACE
  /\ Tokens!Space = Space
  /\ EOF \notin Space /\ LBRACE \notin Space /\ "(" \notin Space /\ "/" \notin Space
  /\ LBRACE # "(" /\ LBRACE # "/" /\ LBRACE # RBRACE /\ EOF # RBRACE
  /\ NL # "/" /\ NL # EOF /\ EOF # LBRACE /\ EOF # "(" /\ EOF # "/" /\ EOF # "*"
  /\ NL \in Space
  BY DEF EOF, NL, LBRACE, RBRACE, BLANK, Space, Tokens!EOF, Tokens!NL, Tokens!LBRACE,
         Tokens!RBRACE, Tokens!BLANK, Tokens!Space

LEMMA StartsCommentIs ==
  ASSUME NEW U, NEW i
  PROVE  Tokens!StartsComment(U, i) <=>
           \/ Tokens!Char(U, i) = LBRACE
           \/ Tokens!Char(U, i) = "(" /\ Tokens!Char(U, i + 1) = "*"
           \/ Tokens!Char(U, i) = "/" /\ Tokens!Char(U, i + 1) = "/"
  BY SameCharacters DEF Tokens!StartsComment

LEMMA CommentEndIs ==
  ASSUME NEW U, NEW i
  PROVE  /\ Tokens!Char(U, i) = LBRACE =>
              Tokens!CommentEnd(U, i) = Tokens!After(U, Tokens!First(U, i, {RBRACE}))
         /\ Tokens!Char(U, i) = "(" => Tokens!CommentEnd(U, i) = Tokens!StarEnd(U, i + 2)
         /\ Tokens!Char(U, i) = "/" => Tokens!CommentEnd(U, i) = Tokens!First(U, i, {NL})
  BY SameCharacters DEF Tokens!CommentEnd

LEMMA CommentIs ==
  ASSUME NEW U, IsText(U), NEW i \in 1 .. Len(U) + 1, Tokens!StartsComment(U, i)
  PROVE  /\ Tokens!CommentEnd(U, i) \in i + 1 .. Len(U) + 1
         /\ Tokens!Char(U, i) \notin Space /\ i <= Len(U)
  <1>1. Len(U) \in Nat /\ Tokens!End(U) = Len(U) + 1
    BY CharIs
  <1>2. Tokens!Char(U, i) \in {LBRACE, "(", "/"}
    BY StartsCommentIs
  <1>3. Tokens!Char(U, i) \notin Space /\ Tokens!Char(U, i) # EOF /\ i <= Len(U)
    BY <1>1, <1>2, SameCharacters, CharIs
  <1>4. CASE Tokens!Char(U, i) = LBRACE
    <2>1. PICK j : j = Tokens!First(U, i, {RBRACE})
      OBVIOUS
    <2>2. /\ j \in i .. Len(U) + 1
          /\ j = Len(U) + 1 \/ Tokens!Char(U, j) \in {RBRACE}
      BY <2>1, FirstExists
    <2>3. Tokens!After(U, j) = IF j < Len(U) + 1 THEN j + 1 ELSE Len(U) + 1
      BY <1>1 DEF Tokens!After
    <2>4. Tokens!After(U, j) \in i + 1 .. Len(U) + 1
      BY <1>1, <1>3, <2>2, <2>3
    <2>5. QED  BY <1>3, <1>4, <2>1, <2>4, CommentEndIs
  <1>5. CASE Tokens!Char(U, i) = "("
    <2>1. Tokens!Char(U, i + 1) = "*"
      BY <1>5, StartsCommentIs, SameCharacters
    <2>2. i + 1 <= Len(U)
      BY <1>1, <2>1, CharIs, SameCharacters
    <2>3. PICK h : h = i + 2
      OBVIOUS
    <2>4. Tokens!StarEnd(U, h) \in h .. Len(U) + 1
      BY <1>1, <2>2, <2>3, StarEndExists
    <2>5. Tokens!StarEnd(U, h) \in i + 1 .. Len(U) + 1
      BY <1>1, <2>3, <2>4
    <2>6. QED  BY <1>3, <1>5, <2>3, <2>5, CommentEndIs
  <1>6. CASE Tokens!Char(U, i) = "/"
    <2>1. PICK h : h = i + 1
      OBVIOUS
    <2>2. Tokens!First(U, i, {NL}) = Tokens!First(U, h, {NL})
      BY <1>3, <1>6, <2>1, SameCharacters, FirstStep
    <2>3. Tokens!First(U, h, {NL}) \in h .. Len(U) + 1
      BY <1>1, <1>3, <2>1, FirstExists
    <2>4. QED  BY <1>3, <1>6, <2>1, <2>2, <2>3, CommentEndIs
  <1>7. QED  BY <1>2, <1>4, <1>5, <1>6

SkippedLoop(f, U) ==
  f = [j \in 1 .. Tokens!End(U) |->
         CASE Tokens!Char(U, j) \in Tokens!Space -> f[Tokens!RunEnd(U, j, Tokens!Space)]
           [] Tokens!StartsComment(U, j)         -> f[Tokens!CommentEnd(U, j)]
           [] OTHER                              -> j]

LEMMA SkippedIs ==
  ASSUME NEW U, IsText(U), NEW i \in 1 .. Len(U) + 1
  PROVE  /\ Tokens!Char(U, i) \in Space =>
              Tokens!Skipped(U, i) = Tokens!Skipped(U, Tokens!RunEnd(U, i, Space))
         /\ Tokens!StartsComment(U, i) =>
              Tokens!Skipped(U, i) = Tokens!Skipped(U, Tokens!CommentEnd(U, i))
         /\ Tokens!Char(U, i) \notin Space /\ ~Tokens!StartsComment(U, i) =>
              Tokens!Skipped(U, i) = i
         /\ Tokens!Skipped(U, i) \in i .. Len(U) + 1
  <1>1. Len(U) \in Nat /\ Tokens!End(U) = Len(U) + 1
    BY CharIs
  <1>2. PICK S, stop, next, out, m :
          /\ S = 1 .. Len(U) + 1
          /\ stop = {j \in S : Tokens!Char(U, j) \notin Space /\ ~Tokens!StartsComment(U, j)}
          /\ next = [j \in S |-> IF Tokens!Char(U, j) \in Space THEN Tokens!RunEnd(U, j, Space)
                                 ELSE Tokens!CommentEnd(U, j)]
          /\ out = [j \in S |-> j]
          /\ m = [j \in S |-> Len(U) + 1 - j]
    OBVIOUS
  <1>3. ASSUME NEW j \in S, j \notin stop
        PROVE  next[j] \in j + 1 .. Len(U) + 1
    <2>1. CASE Tokens!Char(U, j) \in Space
      <3>1. PICK h : h = j + 1
        OBVIOUS
      <3>2. j <= Len(U) /\ Tokens!RunEnd(U, j, Space) = Tokens!RunEnd(U, h, Space)
        BY <1>2, <2>1, <3>1, SameCharacters, RunEndStep
      <3>3. Tokens!RunEnd(U, h, Space) \in h .. Len(U) + 1
        <4>1. h \in 1 .. Len(U) + 1
          BY <1>1, <1>2, <3>1, <3>2
        <4>2. QED  BY <4>1, SameCharacters, RunEndExists
      <3>4. QED  BY <1>2, <2>1, <3>1, <3>2, <3>3
    <2>2. CASE Tokens!Char(U, j) \notin Space
      BY <1>2, <1>3, <2>2, CommentIs
    <2>3. QED  BY <2>1, <2>2
  <1>4. ASSUME NEW f PROVE SkippedLoop(f, U) <=> Loops(S, stop, next, out, f)
    <2>1. ASSUME NEW j \in S
          PROVE  (CASE Tokens!Char(U, j) \in Tokens!Space -> f[Tokens!RunEnd(U, j, Tokens!Space)]
                    [] Tokens!StartsComment(U, j)         -> f[Tokens!CommentEnd(U, j)]
                    [] OTHER                              -> j)
                 = (IF j \in stop THEN out[j] ELSE f[next[j]])
      <3>1. CASE Tokens!Char(U, j) \in Space
        <4>1. ~Tokens!StartsComment(U, j)
          BY <1>2, <3>1, CommentIs
        <4>2. QED  BY <1>2, <3>1, <4>1, SameCharacters
      <3>2. CASE Tokens!Char(U, j) \notin Space /\ Tokens!StartsComment(U, j)
        BY <1>2, <3>2, SameCharacters
      <3>3. CASE Tokens!Char(U, j) \notin Space /\ ~Tokens!StartsComment(U, j)
        BY <1>2, <3>3, SameCharacters
      <3>4. QED  BY <3>1, <3>2, <3>3
    <2>2. [j \in 1 .. Tokens!End(U) |->
             CASE Tokens!Char(U, j) \in Tokens!Space -> f[Tokens!RunEnd(U, j, Tokens!Space)]
               [] Tokens!StartsComment(U, j)         -> f[Tokens!CommentEnd(U, j)]
               [] OTHER                              -> j]
          = [j \in S |-> IF j \in stop THEN out[j] ELSE f[next[j]]]
      BY <1>1, <1>2, <2>1
    <2>3. QED  BY <2>2 DEF SkippedLoop, Loops
  <1>5. PICK f : f = CHOOSE g : SkippedLoop(g, U)
    OBVIOUS
  <1>6. Loops(S, stop, next, out, f)
    <2>1. \A j \in S \ stop : next[j] \in S
      BY <1>1, <1>2, <1>3
    <2>2. \E g : Loops(S, stop, next, out, g)
      BY <2>1, LoopExists
    <2>3. \E g : SkippedLoop(g, U)
      BY <1>4, <2>2
    <2>4. SkippedLoop(f, U)
      BY <1>5, <2>3
    <2>5. QED  BY <1>4, <2>4
  <1>7. \A j : Tokens!Skipped(U, j) = f[j]
    BY <1>5 DEF Tokens!Skipped, SkippedLoop
  <1>8. \A j \in S : f[j] = IF j \in stop THEN j ELSE f[next[j]]
    BY <1>2, <1>6 DEF Loops
  <1>9. f[i] \in i .. Len(U) + 1
    <2>1. PICK P : P = i .. Len(U) + 1
      OBVIOUS
    <2>2. P \subseteq S /\ i \in P
      BY <1>1, <1>2, <2>1
    <2>3. \A j \in P \ stop : next[j] \in P
      BY <1>1, <1>2, <1>3, <2>1, <2>2
    <2>4. \A j \in P : m[j] \in Nat
      BY <1>1, <1>2, <2>1, <2>2
    <2>5. \A j \in P \ stop : m[next[j]] < m[j]
      <3>1. ASSUME NEW j \in P \ stop PROVE m[next[j]] < m[j]
        <4>1. j \in S /\ next[j] \in S /\ next[j] \in j + 1 .. Len(U) + 1
          BY <1>1, <1>2, <1>3, <2>2
        <4>2. m[next[j]] = Len(U) + 1 - next[j] /\ m[j] = Len(U) + 1 - j
          BY <1>2, <4>1
        <4>3. QED  BY <1>1, <1>2, <4>1, <4>2
      <3>2. QED  BY <3>1
    <2>6. PICK s0 : s0 = i
      OBVIOUS
    <2>7. s0 \in P /\ P \subseteq S
      BY <2>2, <2>6
    <2>8. \E t \in P \cap stop : f[s0] = out[t]
      BY <1>6, <2>3, <2>4, <2>5, <2>7, LoopEnds
    <2>9. QED  BY <1>2, <2>1, <2>2, <2>6, <2>8
  <1>10. ASSUME Tokens!Char(U, i) \in Space
         PROVE  Tokens!Skipped(U, i) = Tokens!Skipped(U, Tokens!RunEnd(U, i, Space))
    BY <1>2, <1>7, <1>8, <1>10
  <1>11. ASSUME Tokens!StartsComment(U, i)
         PROVE  Tokens!Skipped(U, i) = Tokens!Skipped(U, Tokens!CommentEnd(U, i))
    <2>1. Tokens!Char(U, i) \notin Space
      BY <1>11, CommentIs
    <2>2. QED  BY <1>2, <1>7, <1>8, <1>11, <2>1
  <1>12. ASSUME Tokens!Char(U, i) \notin Space, ~Tokens!StartsComment(U, i)
         PROVE  Tokens!Skipped(U, i) = i
    BY <1>2, <1>7, <1>8, <1>12
  <1>13. QED  BY <1>7, <1>9, <1>10, <1>11, <1>12

(* From i to j there is a comment, or nothing at all.                      *)
Commented(U, i, j) ==
  i = j \/ (Tokens!StartsComment(U, i) /\ Tokens!CommentEnd(U, i) = j)

LEMMA BraceEndsAt ==
  ASSUME IsText(text), NEW s, Synced(s), NEW U, NEW t, t = BraceComment(s), Shows(U, t.pos)
  PROVE  /\ Onward(s, t) /\ Commented(U, At(s), At(t))
         /\ At(t) = At(s) => Tokens!Char(U, At(t)) # LBRACE
  <1>1. text \in Seq(STRING) /\ s \in LexerState /\ At(s) \in Nat
    BY SyncedIs DEF IsText
  <1>2. CASE s.cur # LBRACE
    <2>1. t = s
      BY <1>2 DEF BraceComment
    <2>2. Tokens!Char(U, At(s)) = s.cur
      BY <2>1, HereIs
    <2>3. QED  BY <1>1, <1>2, <2>1, <2>2, SyncedIs DEF Commented
  <1>3. CASE s.cur = LBRACE
    <2>1. PICK u, v : u = NextChar(s) /\ v = SkipUntil(u, {RBRACE})
      OBVIOUS
    <2>2. t = NextChar(v)
      BY <1>3, <2>1 DEF BraceComment
    <2>3. s.cur # EOF /\ Onward(s, s)
      BY <1>1, <1>3, SameCharacters, SyncedIs
    <2>4. Onward(s, u) /\ u \in LexerState /\ At(u) = At(s) + 1 /\ Synced(u)
      BY <2>1, <2>3, OnwardHere DEF Onward
    <2>5. Onward(u, v) /\ v \in LexerState /\ v.cur \in {RBRACE, EOF} /\ Synced(v)
      <3>1. Onward(u, v) /\ v \in LexerState /\ v.cur \in {RBRACE} \cup {EOF}
        BY <1>1, <2>1, <2>4, SkipUntilIs
      <3>2. QED  BY <3>1 DEF Onward
    <2>6. Onward(v, t) /\ Onward(s, v)
      BY <1>1, <2>2, <2>4, <2>5, SyncedNext, OnwardTwice
    <2>7. Shows(U, v.pos) /\ Shows(U, s.pos)
      <3>1. Shows(U, v.pos)
        BY <2>5, <2>6, ShowsBack
      <3>2. QED  BY <2>6, <3>1, ShowsBack
    <2>8. /\ IsText(U) /\ Len(U) \in Nat /\ At(s) \in 1 .. Len(U) + 1
          /\ Tokens!Char(U, At(s)) = LBRACE /\ At(s) # Len(U) + 1
      BY <1>3, <2>3, <2>7, HereIs
    <2>9. Tokens!First(U, At(s), {RBRACE}) = At(v)
      <3>1. Tokens!First(U, At(s) + 1, {RBRACE}) = At(v)
        BY <2>1, <2>4, <2>7, UntilEndsAt
      <3>2. QED  BY <2>8, <3>1, SameCharacters, FirstStep
    <2>10. At(v) \in 1 .. Len(U) + 1 /\ (v.cur = EOF <=> At(v) = Len(U) + 1)
           /\ (v.cur = EOF => At(v) = Len(text) + 1) /\ Len(text) \in Nat
      BY <1>1, <2>5, <2>7, HereIs
    <2>11. At(t) = Tokens!After(U, At(v))
      <3>1. Tokens!After(U, At(v)) = IF At(v) < Len(U) + 1 THEN At(v) + 1 ELSE Len(U) + 1
        BY <2>8, CharIs DEF Tokens!After
      <3>2. CASE v.cur = EOF
        <4>1. At(t) = At(v)
          BY <1>1, <2>2, <2>5, <2>10, <3>2, SyncedNext
        <4>2. QED  BY <2>8, <2>10, <3>1, <3>2, <4>1
      <3>3. CASE v.cur # EOF
        <4>1. At(t) = At(v) + 1
          BY <2>2, <2>5, <2>6, <3>3, OnwardHere
        <4>2. QED  BY <2>8, <2>10, <3>1, <3>3, <4>1
      <3>4. QED  BY <3>2, <3>3
    <2>12. Tokens!StartsComment(U, At(s)) /\ Tokens!CommentEnd(U, At(s)) = At(t)
      BY <2>8, <2>9, <2>11, StartsCommentIs, CommentEndIs
    <2>13. Onward(s, t)
      BY <1>1, <2>6, OnwardTwice
    <2>14. At(t) # At(s)
      BY <2>8, <2>12, CommentIs
    <2>15. QED  BY <2>12, <2>13, <2>14 DEF Commented
  <1>4. QED  BY <1>2, <1>3

LEMMA StarCommentEndsAt ==
  ASSUME IsText(text), NEW s, Synced(s), NEW U, NEW t, t = StarComment(s), Shows(U, t.pos)
  PROVE  /\ Onward(s, t) /\ Commented(U, At(s), At(t))
         /\ At(t) = At(s) => /\ t.cur = s.cur
                             /\ ~(Tokens!Char(U, At(t)) = "(" /\ Tokens!Char(U, At(t) + 1) = "*")
  <1>1. text \in Seq(STRING) /\ s \in LexerState /\ At(s) \in Nat /\ Onward(s, s)
    BY SyncedIs DEF IsText
  <1>2. CASE s.cur # "("
    <2>1. t = s
      BY <1>2 DEF StarComment
    <2>2. Tokens!Char(U, At(s)) = s.cur
      BY <2>1, HereIs
    <2>3. QED  BY <1>1, <1>2, <2>1, <2>2, SyncedIs DEF Commented
  <1>3. CASE s.cur = "("
    <2>1. PICK u : u = PeekChar(s)
      OBVIOUS
    <2>2. /\ Onward(s, u) /\ u \in LexerState /\ At(u) = At(s) /\ u.cur = "(" /\ u.valid = 2
          /\ Synced(u) /\ u.cur # EOF
      BY <1>1, <1>3, <2>1, SameCharacters, OnwardHere DEF Onward
    <2>3. CASE u.next # "*"
      <3>1. t = u
        BY <1>3, <2>1, <2>3 DEF StarComment
      <3>2. Tokens!Char(U, At(u)) = u.cur /\ Tokens!Char(U, At(u) + 1) = u.next
        BY <2>2, <3>1, HereIs
      <3>3. QED  BY <1>3, <2>2, <2>3, <3>1, <3>2 DEF Commented
    <2>4. CASE u.next = "*"
      <3>1. PICK v, w : v = NextChar(u) /\ w = NextChar(v)
        OBVIOUS
      <3>2. t = InStarComment[w]
        BY <1>3, <2>1, <2>4, <3>1 DEF StarComment
      <3>3. Onward(u, v) /\ v \in LexerState /\ At(v) = At(u) + 1 /\ v.cur = "*" /\ Synced(v)
        <4>1. v.cur = "*"
          BY <1>1, <2>2, <2>4, <3>1, NextIs
        <4>2. QED  BY <2>2, <3>1, <4>1, OnwardHere DEF Onward
      <3>4. /\ Onward(v, w) /\ Onward(u, w) /\ w \in LexerState /\ At(w) = At(v) + 1
            /\ Synced(w)
        BY <2>2, <3>1, <3>3, SameCharacters, OnwardHere DEF Onward
      <3>5. Onward(w, t)
        BY <1>1, <3>2, <3>4, InStarCommentLeads DEF Leads
      <3>6. Onward(s, t) /\ Onward(u, t)
        BY <1>1, <2>2, <3>4, <3>5, OnwardTwice
      <3>7. Shows(U, u.pos)
        BY <2>2, <3>6, ShowsBack
      <3>8. /\ IsText(U) /\ At(u) \in 1 .. Len(U) + 1 /\ Tokens!Char(U, At(u)) = "("
            /\ Tokens!Char(U, At(u) + 1) = "*"
        BY <2>2, <2>4, <3>7, HereIs
      <3>9. Tokens!StarEnd(U, At(w)) = At(t)
        BY <3>2, <3>4, StarEndsAt
      <3>10. At(w) = At(u) + 2
        BY <1>1, <2>2, <3>3, <3>4
      <3>11. Tokens!StartsComment(U, At(u)) /\ Tokens!CommentEnd(U, At(u)) = At(t)
        BY <3>8, <3>9, <3>10, StartsCommentIs, CommentEndIs
      <3>12. At(t) # At(s)
        BY <1>1, <2>2, <3>8, <3>11, CommentIs
      <3>13. QED  BY <2>2, <3>6, <3>11, <3>12 DEF Commented
    <2>5. QED  BY <2>3, <2>4
  <1>4. QED  BY <1>2, <1>3

LEMMA LineCommentEndsAt ==
  ASSUME IsText(text), NEW s, Synced(s), NEW U, NEW t, t = LineComment(s), Shows(U, t.pos)
  PROVE  /\ Onward(s, t) /\ Commented(U, At(s), At(t))
         /\ At(t) = At(s) => /\ t.cur = s.cur
                             /\ ~(Tokens!Char(U, At(t)) = "/" /\ Tokens!Char(U, At(t) + 1) = "/")
  <1>1. text \in Seq(STRING) /\ s \in LexerState /\ At(s) \in Nat /\ Onward(s, s)
    BY SyncedIs DEF IsText
  <1>2. CASE s.cur # "/"
    <2>1. t = s
      BY <1>2 DEF LineComment
    <2>2. Tokens!Char(U, At(s)) = s.cur
      BY <2>1, HereIs
    <2>3. QED  BY <1>1, <1>2, <2>1, <2>2, SyncedIs DEF Commented
  <1>3. CASE s.cur = "/"
    <2>1. PICK u : u = PeekChar(s)
      OBVIOUS
    <2>2. /\ Onward(s, u) /\ u \in LexerState /\ At(u) = At(s) /\ u.cur = "/" /\ u.valid = 2
          /\ Synced(u) /\ u.cur # EOF
      BY <1>1, <1>3, <2>1, SameCharacters, OnwardHere DEF Onward
    <2>3. CASE u.next # "/"
      <3>1. t = u
        BY <1>3, <2>1, <2>3 DEF LineComment
      <3>2. Tokens!Char(U, At(u)) = u.cur /\ Tokens!Char(U, At(u) + 1) = u.next
        BY <2>2, <3>1, HereIs
      <3>3. QED  BY <1>3, <2>2, <2>3, <3>1, <3>2 DEF Commented
    <2>4. CASE u.next = "/"
      <3>1. t = SkipUntil(u, {NL})
        BY <1>3, <2>1, <2>4 DEF LineComment
      <3>2. Onward(u, t)
        BY <1>1, <2>2, <3>1, SkipUntilIs
      <3>3. Onward(s, t)
        BY <1>1, <2>2, <3>2, OnwardTwice
      <3>4. Shows(U, u.pos)
        BY <2>2, <3>2, ShowsBack
      <3>5. /\ IsText(U) /\ At(u) \in 1 .. Len(U) + 1 /\ Tokens!Char(U, At(u)) = "/"
            /\ Tokens!Char(U, At(u) + 1) = "/"
        BY <2>2, <2>4, <3>4, HereIs
      <3>6. Tokens!First(U, At(u), {NL}) = At(t)
        BY <2>2, <3>1, UntilEndsAt
      <3>7. Tokens!StartsComment(U, At(u)) /\ Tokens!CommentEnd(U, At(u)) = At(t)
        BY <3>5, <3>6, StartsCommentIs, CommentEndIs
      <3>8. At(t) # At(s)
        BY <1>1, <2>2, <3>5, <3>7, CommentIs
      <3>9. QED  BY <2>2, <3>3, <3>7, <3>8 DEF Commented
    <2>5. QED  BY <2>3, <2>4
  <1>4. QED  BY <1>2, <1>3

(* At j there is no comment, unless right behind another one.              *)
Uncommented(U, i, j) ==
  \/ ~Tokens!StartsComment(U, j)
  \/ \E k \in i .. j - 1 : Tokens!StartsComment(U, k) /\ Tokens!CommentEnd(U, k) = j

LEMMA CommentedIs ==
  ASSUME NEW U, IsText(U), NEW i \in 1 .. Len(U) + 1, NEW j, Commented(U, i, j)
  PROVE  /\ Tokens!Skipped(U, i) = Tokens!Skipped(U, j)
         /\ i # j => /\ Tokens!StartsComment(U, i) /\ Tokens!CommentEnd(U, i) = j
                     /\ j \in i + 1 .. Len(U) + 1
  <1>1. CASE i = j
    BY <1>1
  <1>2. CASE i # j
    BY <1>2, CommentIs, SkippedIs DEF Commented
  <1>3. QED  BY <1>1, <1>2

LEMMA PassEndsAt ==
  ASSUME IsText(text), NEW s, Synced(s), NEW U, NEW t, t = Pass(s), Shows(U, t.pos)
  PROVE  /\ Onward(s, t)
         /\ Tokens!Skipped(U, At(s)) = Tokens!Skipped(U, At(t))
         /\ Uncommented(U, At(s), At(t))
  <1>1. PICK s1, s2, s3 : /\ s1 = SkipWhile(s, Space) /\ s2 = BraceComment(s1)
                          /\ s3 = StarComment(s2)
    OBVIOUS
  <1>2. t = LineComment(s3)
    BY <1>1 DEF Pass
  <1>3. text \in Seq(STRING) /\ s \in LexerState /\ EOF \notin Space
    BY SyncedIs, SameCharacters DEF IsText
  <1>4. Onward(s, s1) /\ s1 \in LexerState /\ Synced(s1)
    BY <1>1, <1>3, SkipWhileIs DEF Onward
  <1>5. Onward(s1, s2) /\ s2 \in LexerState /\ Synced(s2)
    BY <1>1, <1>3, <1>4, BraceCommentLeads DEF Leads, Onward
  <1>6. Onward(s2, s3) /\ s3 \in LexerState /\ Synced(s3)
    BY <1>1, <1>3, <1>5, StarCommentLeads DEF Leads, Onward
  <1>7. Onward(s3, t) /\ Synced(t)
    BY <1>2, <1>3, <1>6, LineCommentLeads DEF Leads, Onward
  <1>8. Shows(U, s3.pos) /\ Shows(U, s2.pos) /\ Shows(U, s1.pos) /\ Shows(U, s.pos)
    <2>1. Shows(U, s3.pos)
      BY <1>6, <1>7, ShowsBack
    <2>2. Shows(U, s2.pos)
      BY <1>5, <1>6, <2>1, ShowsBack
    <2>3. Shows(U, s1.pos)
      BY <1>4, <1>5, <2>2, ShowsBack
    <2>4. Shows(U, s.pos)
      BY <1>4, <2>3, ShowsBack
    <2>5. QED  BY <2>1, <2>2, <2>3, <2>4
  <1>9. PICK i0, i1, i2, i3, j :
          i0 = At(s) /\ i1 = At(s1) /\ i2 = At(s2) /\ i3 = At(s3) /\ j = At(t)
    OBVIOUS
  <1>10. /\ IsText(U) /\ Len(U) \in Nat /\ i0 \in 1 .. Len(U) + 1 /\ i1 \in 1 .. Len(U) + 1
         /\ i2 \in 1 .. Len(U) + 1 /\ i3 \in 1 .. Len(U) + 1 /\ j \in 1 .. Len(U) + 1
    BY <1>4, <1>5, <1>6, <1>7, <1>8, <1>9, HereIs
  <1>11. i0 <= i1 /\ i1 <= i2 /\ i2 <= i3 /\ i3 <= j
    BY <1>4, <1>5, <1>6, <1>7, <1>9, <1>10 DEF Onward
  <1>12. Tokens!Skipped(U, i0) = Tokens!Skipped(U, i1)
    <2>1. Tokens!RunEnd(U, i0, Space) = i1
      BY <1>1, <1>3, <1>8, <1>9, WhileEndsAt
    <2>2. CASE Tokens!Char(U, i0) \in Space
      BY <1>10, <2>1, <2>2, SkippedIs
    <2>3. CASE Tokens!Char(U, i0) \notin Space
      BY <1>3, <1>10, <2>1, <2>3, RunEndStep
    <2>4. QED  BY <2>2, <2>3
  <1>13. Commented(U, i1, i2) /\ (i2 = i1 => Tokens!Char(U, i2) # LBRACE)
    BY <1>1, <1>4, <1>8, <1>9, BraceEndsAt
  <1>14. /\ Commented(U, i2, i3)
         /\ i3 = i2 => ~(Tokens!Char(U, i3) = "(" /\ Tokens!Char(U, i3 + 1) = "*")
    BY <1>1, <1>5, <1>8, <1>9, StarCommentEndsAt
  <1>15. /\ Commented(U, i3, j)
         /\ j = i3 => ~(Tokens!Char(U, j) = "/" /\ Tokens!Char(U, j + 1) = "/")
    BY <1>2, <1>6, <1>9, LineCommentEndsAt
  <1>16. Tokens!Skipped(U, i0) = Tokens!Skipped(U, j)
    BY <1>10, <1>12, <1>13, <1>14, <1>15, CommentedIs
  <1>17. ASSUME NEW k \in {i1, i2, i3}, k # j, Commented(U, k, j)
         PROVE  Uncommented(U, i0, j)
    <2>1. Tokens!StartsComment(U, k) /\ Tokens!CommentEnd(U, k) = j /\ k \in i0 .. j - 1
      BY <1>10, <1>11, <1>17, CommentedIs
    <2>2. QED  BY <2>1 DEF Uncommented
  <1>18. Uncommented(U, i0, j)
    <2>1. CASE i3 # j
      BY <1>15, <1>17, <2>1
    <2>2. CASE i3 = j /\ i2 # j
      BY <1>14, <1>17, <2>2
    <2>3. CASE i3 = j /\ i2 = j /\ i1 # j
      BY <1>13, <1>17, <2>3
    <2>4. CASE i3 = j /\ i2 = j /\ i1 = j
      <3>1. ~Tokens!StartsComment(U, j)
        BY <1>13, <1>14, <1>15, <2>4, StartsCommentIs
      <3>2. QED  BY <3>1 DEF Uncommented
    <2>5. QED  BY <2>1, <2>2, <2>3, <2>4
  <1>19. Onward(s, t)
    BY <1>3, <1>4, <1>5, <1>6, <1>7, OnwardTwice
  <1>20. QED  BY <1>9, <1>16, <1>18, <1>19

(* The first token begins where PascalTokens says.                         *)
LEMMA SkipEndsAt ==
  ASSUME IsText(text), NEW s0, Synced(s0), NEW U, NEW t, t = Skip[Pass(s0)], Shows(U, t.pos)
  PROVE  At(t) \in Tokens!Starts(U, At(s0))
  <1>1. PICK P : P = {s \in LexerState :
                        /\ Onward(s0, s)
                        /\ Shows(U, s.pos) =>
                             /\ Tokens!Skipped(U, At(s0)) = Tokens!Skipped(U, At(s))
                             /\ Uncommented(U, At(s0), At(s))}
    OBVIOUS
  <1>2. text \in Seq(STRING) /\ s0 \in LexerState /\ At(s0) \in Nat
    BY SyncedIs DEF IsText
  <1>3. \A s \in P : s \in LexerState /\ Synced(s)
    BY <1>1 DEF Onward
  <1>4. ASSUME NEW s \in LexerState, Onward(s0, s),
               Shows(U, s.pos) => Tokens!Skipped(U, At(s0)) = Tokens!Skipped(U, At(s))
        PROVE  Pass(s) \in P
    <2>1. PICK u : u = Pass(s)
      OBVIOUS
    <2>2. Synced(s) /\ Onward(s, u) /\ u \in LexerState
      BY <1>2, <1>4, <2>1, PassLeads DEF Leads, Onward
    <2>3. Onward(s0, u)
      BY <1>2, <1>4, <2>2, OnwardTwice
    <2>4. ASSUME Shows(U, u.pos)
          PROVE  /\ Tokens!Skipped(U, At(s0)) = Tokens!Skipped(U, At(u))
                 /\ Uncommented(U, At(s0), At(u))
      <3>1. Shows(U, s.pos)
        BY <2>2, <2>4, ShowsBack
      <3>2. Tokens!Skipped(U, At(s)) = Tokens!Skipped(U, At(u)) /\ Uncommented(U, At(s), At(u))
        BY <2>1, <2>2, <2>4, PassEndsAt
      <3>3. At(s0) <= At(s) /\ At(s) \in Nat /\ At(u) \in Nat
        BY <1>2, <1>4, <2>2, SyncedIs DEF Onward
      <3>4. Uncommented(U, At(s0), At(u))
        <4>1. At(s) .. At(u) - 1 \subseteq At(s0) .. At(u) - 1
          BY <1>2, <3>3
        <4>2. QED  BY <3>2, <4>1 DEF Uncommented
      <3>5. QED  BY <1>4, <3>1, <3>2, <3>4
    <2>5. QED  BY <1>1, <2>1, <2>2, <2>3, <2>4
  <1>5. PICK s1 : s1 = Pass(s0)
    OBVIOUS
  <1>6. Onward(s0, s0)
    BY <1>2, SyncedIs
  <1>7. s1 \in P /\ Synced(s1)
    BY <1>2, <1>3, <1>4, <1>5, <1>6
  <1>8. \A s \in P : s.cur \in Space => Pass(s) \in P
    BY <1>1, <1>4
  <1>9. t \in P /\ t.cur \notin Space
    BY <1>2, <1>3, <1>5, <1>7, <1>8, SkipLoopEnds
  <1>10. PICK i, j : i = At(s0) /\ j = At(t)
    OBVIOUS
  <1>11. /\ Tokens!Skipped(U, i) = Tokens!Skipped(U, j) /\ Uncommented(U, i, j)
         /\ Onward(s0, t) /\ Synced(t)
    BY <1>1, <1>9, <1>10 DEF Onward
  <1>12. /\ IsText(U) /\ Len(U) \in Nat /\ j \in 1 .. Len(U) + 1 /\ i \in Nat /\ i <= j
         /\ Tokens!Char(U, j) \notin Space
    BY <1>2, <1>9, <1>10, <1>11, HereIs DEF Onward
  <1>13. CASE ~Tokens!StartsComment(U, j)
    <2>1. Tokens!Skipped(U, j) = j
      BY <1>12, <1>13, SkippedIs
    <2>2. QED  BY <1>10, <1>11, <2>1 DEF Tokens!Starts
  <1>14. CASE Tokens!StartsComment(U, j)
    <2>1. PICK k \in i .. j - 1 : Tokens!StartsComment(U, k) /\ Tokens!CommentEnd(U, k) = j
      BY <1>11, <1>14 DEF Uncommented
    <2>2. PICK h : h = Tokens!CommentEnd(U, j)
      OBVIOUS
    <2>3. h \in j + 1 .. Len(U) + 1 /\ Tokens!Skipped(U, j) = Tokens!Skipped(U, h)
      BY <1>12, <1>14, <2>2, CommentIs, SkippedIs
    <2>4. h \in 1 .. Len(U) + 1
      BY <1>12, <2>3
    <2>5. Tokens!Skipped(U, h) \in h .. Len(U) + 1
      BY <1>12, <2>4, SkippedIs
    <2>6. j \in i + 1 .. Tokens!Skipped(U, i) - 1
      BY <1>11, <1>12, <2>1, <2>3, <2>5
    <2>7. QED  BY <1>10, <1>14, <2>1, <2>6 DEF Tokens!Starts
  <1>15. QED  BY <1>13, <1>14

-----------------------------------------------------------------------------
(* Words.                                                                  *)

LEMMA CharsIs ==
  ASSUME NEW U, IsText(U), NEW i \in 1 .. Len(U) + 1
  PROVE  /\ Tokens!Chars(U, i, i) = <<>>
         /\ \A j \in i .. Len(U) : Tokens!Chars(U, i, j + 1) =
                                     Append(Tokens!Chars(U, i, j), Tokens!Char(U, j))
         /\ \A j \in i .. Len(U) + 1 : /\ Tokens!Chars(U, i, j) \in Seq(STRING)
                                       /\ Len(Tokens!Chars(U, i, j)) = j - i
  <1>1. U \in Seq(STRING) /\ Len(U) \in Nat
    BY CharIs
  <1>2. ASSUME NEW j \in i .. Len(U) + 1
        PROVE  /\ Tokens!Chars(U, i, j) \in Seq(STRING)
               /\ Len(Tokens!Chars(U, i, j)) = j - i
               /\ \A k \in 1 .. j - i : Tokens!Chars(U, i, j)[k] = U[i + k - 1]
    <2>1. PICK n : n = j - 1
      OBVIOUS
    <2>2. n \in i - 1 .. Len(U) /\ n - i + 1 = j - i
      BY <1>1, <2>1
    <2>3. PICK c : c = SubSeq(U, i, n)
      OBVIOUS
    <2>4. c \in Seq(STRING) /\ Len(c) = j - i /\ \A k \in 1 .. j - i : c[k] = U[i + k - 1]
      <3>1. i \in Int /\ n \in Int /\ \A k \in i .. n : U[k] \in STRING
        BY <1>1, <2>2
      <3>2. /\ c \in Seq(STRING) /\ Len(c) = (IF i <= n THEN n - i + 1 ELSE 0)
            /\ \A k \in 1 .. n - i + 1 : c[k] = U[i + k - 1]
        BY <2>3, <3>1, SubSeqProperties
      <3>3. QED  BY <1>1, <2>2, <3>1, <3>2
    <2>5. c = Tokens!Chars(U, i, j)
      BY <2>1, <2>3 DEF Tokens!Chars
    <2>6. QED  BY <2>4, <2>5
  <1>3. Tokens!Chars(U, i, i) = <<>>
    <2>1. Tokens!Chars(U, i, i) \in Seq(STRING) /\ Len(Tokens!Chars(U, i, i)) = 0
      BY <1>1, <1>2
    <2>2. QED  BY <2>1, EmptySeq
  <1>4. ASSUME NEW j \in i .. Len(U)
        PROVE  Tokens!Chars(U, i, j + 1) = Append(Tokens!Chars(U, i, j), Tokens!Char(U, j))
    <2>1. PICK a, b, c : a = Tokens!Chars(U, i, j) /\ b = Tokens!Chars(U, i, j + 1)
                         /\ c = Tokens!Char(U, j)
      OBVIOUS
    <2>2. /\ a \in Seq(STRING) /\ Len(a) = j - i /\ \A k \in 1 .. j - i : a[k] = U[i + k - 1]
      <3>1. j \in i .. Len(U) + 1
        BY <1>1
      <3>2. QED  BY <1>2, <2>1, <3>1
    <2>3. j + 1 \in i .. Len(U) + 1 /\ j + 1 - i = j - i + 1 /\ j \in 1 .. Len(U)
      BY <1>1
    <2>4. /\ b \in Seq(STRING) /\ Len(b) = j + 1 - i
          /\ \A k \in 1 .. j + 1 - i : b[k] = U[i + k - 1]
      BY <1>2, <2>1, <2>3
    <2>5. c = U[j] /\ c \in STRING
      BY <2>1, <2>3, CharIs
    <2>6. /\ Append(a, c) \in Seq(STRING) /\ Len(Append(a, c)) = Len(a) + 1
          /\ \A k \in 1 .. Len(a) : Append(a, c)[k] = a[k]
          /\ Append(a, c)[Len(a) + 1] = c
      BY <2>2, <2>5, AppendProperties
    <2>7. ASSUME NEW k \in 1 .. Len(b) PROVE b[k] = Append(a, c)[k]
      <3>1. CASE k \in 1 .. j - i
        BY <1>1, <2>2, <2>3, <2>4, <2>6, <3>1
      <3>2. CASE k = j - i + 1
        <4>1. i + k - 1 = j /\ k \in 1 .. j + 1 - i /\ k = Len(a) + 1
          BY <1>1, <2>2, <2>3, <3>2
        <4>2. b[k] = U[i + k - 1]
          BY <2>4, <4>1
        <4>3. Append(a, c)[k] = c
          BY <2>6, <4>1
        <4>4. U[i + k - 1] = U[j]
          BY <4>1
        <4>5. QED  BY <2>5, <4>2, <4>3, <4>4, Zenon
      <3>3. k \in 1 .. j - i \/ k = j - i + 1
        <4>1. k \in 1 .. j + 1 - i
          BY <2>4, <2>7
        <4>2. QED  BY <1>1, <4>1
      <3>4. QED  BY <3>1, <3>2, <3>3
    <2>8. b = Append(a, c)
      BY <2>2, <2>3, <2>4, <2>6, <2>7, SeqEqual
    <2>9. QED  BY <2>1, <2>8
  <1>5. QED  BY <1>2, <1>3, <1>4

LEMMA SameWords == Tokens!WordChar = WordChar /\ Tokens!Keyword = Keyword
  <1>1. Tokens!DigitSets = DigitSets
    BY DEF Tokens!DigitSets, DigitSets, Tokens!DigitChars, DigitChars
  <1>2. Tokens!DigitsOf(10) = DigitsOf(10) /\ Tokens!DigitsOf(36) = DigitsOf(36)
    BY <1>1 DEF Tokens!DigitsOf, DigitsOf
  <1>3. Tokens!Digit = Digit /\ Tokens!LINE = LINE /\ Tokens!UNDERSCORE = UNDERSCORE
    BY <1>2 DEF Tokens!Digit, Digit, Tokens!LINE, LINE, Tokens!UNDERSCORE, UNDERSCORE
  <1>4. Tokens!WordChar = WordChar
    BY <1>2, <1>3 DEF Tokens!WordChar, WordChar, Tokens!WordStart, WordStart, Tokens!Letter, Letter
  <1>5. Tokens!Keyword = Keyword
    BY <1>3 DEF Tokens!Keyword, Keyword, Tokens!Table, Table
  <1>6. QED  BY <1>4, <1>5

LEMMA WordEndsAt ==
  ASSUME IsText(text), NEW s0, Synced(s0), NEW U,
         NEW t, t = InWord[[s |-> s0, str |-> <<>>]], Shows(U, t.s.pos)
  PROVE  Tokens!Word(U, At(s0)) = Tokens!Found(t.kind, t.value, At(t.s))
  <1>1. PICK i, w0 : i = At(s0) /\ w0 = [s |-> s0, str |-> <<>>]
    OBVIOUS
  <1>2. PICK P : P = {w \in WordState :
                        /\ Onward(s0, w.s)
                        /\ Shows(U, w.s.pos) =>
                             /\ Tokens!RunEnd(U, i, WordChar) = Tokens!RunEnd(U, At(w.s), WordChar)
                             /\ Tokens!Chars(U, i, At(w.s)) = w.str}
    OBVIOUS
  <1>3. text \in Seq(STRING) /\ s0 \in LexerState /\ Onward(s0, s0) /\ EOF \notin WordChar
    BY SyncedIs, Characters DEF IsText
  <1>4. \A w \in P : w \in WordState /\ Onward(s0, w.s) /\ Synced(w.s)
    BY <1>2 DEF Onward
  <1>5. w0 \in P
    <2>1. w0 \in WordState /\ w0.s = s0 /\ w0.str = <<>>
      BY <1>1, <1>3 DEF WordState
    <2>2. Shows(U, s0.pos) => Tokens!Chars(U, i, i) = <<>>
      BY <1>1, HereIs, CharsIs
    <2>3. QED  BY <1>1, <1>2, <1>3, <2>1, <2>2
  <1>6. ASSUME NEW w \in P, w.s.cur \in WordChar
        PROVE  Kept(w) \in P
    <2>1. PICK k, u : k = Kept(w) /\ u = NextChar(w.s)
      OBVIOUS
    <2>2. w \in WordState /\ Onward(s0, w.s) /\ Synced(w.s) /\ w.s.cur # EOF
      BY <1>3, <1>4, <1>6
    <2>3. k \in WordState /\ k.s = u /\ k.str = Append(w.str, w.s.cur)
      BY <1>3, <2>1, <2>2, KeptIs
    <2>4. Onward(s0, u) /\ Onward(w.s, u) /\ At(u) = At(w.s) + 1
      BY <2>1, <2>2, OnwardHere
    <2>5. ASSUME Shows(U, u.pos)
          PROVE  /\ Tokens!RunEnd(U, i, WordChar) = Tokens!RunEnd(U, At(u), WordChar)
                 /\ Tokens!Chars(U, i, At(u)) = k.str
      <3>1. Shows(U, w.s.pos) /\ Shows(U, s0.pos)
        <4>1. Shows(U, w.s.pos)
          BY <2>2, <2>4, <2>5, ShowsBack
        <4>2. QED  BY <2>2, <4>1, ShowsBack
      <3>2. /\ IsText(U) /\ At(w.s) \in 1 .. Len(U) + 1 /\ Tokens!Char(U, At(w.s)) = w.s.cur
            /\ Len(U) \in Nat /\ At(w.s) # Len(U) + 1
        BY <2>2, <3>1, HereIs
      <3>3. i \in 1 .. Len(U) + 1 /\ i <= At(w.s)
        BY <1>1, <2>2, <3>1, HereIs DEF Onward
      <3>4. Tokens!RunEnd(U, At(w.s), WordChar) = Tokens!RunEnd(U, At(w.s) + 1, WordChar)
        BY <1>3, <1>6, <3>2, RunEndStep
      <3>5. At(w.s) \in i .. Len(U)
        BY <3>2, <3>3
      <3>6. Tokens!Chars(U, i, At(w.s) + 1) = Append(Tokens!Chars(U, i, At(w.s)), w.s.cur)
        BY <3>2, <3>3, <3>5, CharsIs
      <3>7. QED  BY <1>2, <2>3, <2>4, <3>1, <3>4, <3>6
    <2>6. QED  BY <1>2, <2>1, <2>3, <2>4, <2>5
  <1>7. PICK w \in P : w.s.cur \notin WordChar /\ InWord[w0] = WordIs(w)
    BY <1>3, <1>4, <1>5, <1>6, InWordEnds
  <1>8. t = WordIs(w) /\ t.s = w.s
    BY <1>1, <1>7, TokenIs DEF WordIs
  <1>9. PICK e : e = At(w.s)
    OBVIOUS
  <1>10. /\ Tokens!RunEnd(U, i, WordChar) = Tokens!RunEnd(U, e, WordChar)
         /\ Tokens!Chars(U, i, e) = w.str /\ Synced(w.s) /\ Shows(U, w.s.pos)
    BY <1>2, <1>4, <1>7, <1>8, <1>9
  <1>11. IsText(U) /\ e \in 1 .. Len(U) + 1 /\ Tokens!Char(U, e) \notin WordChar
    BY <1>7, <1>9, <1>10, HereIs
  <1>12. Tokens!RunEnd(U, i, WordChar) = e
    BY <1>3, <1>10, <1>11, RunEndStep
  <1>13. Tokens!Word(U, i) =
           IF w.str \in DOMAIN Keyword THEN Tokens!Found(Keyword[w.str], <<>>, e)
           ELSE Tokens!Found("Identifier", w.str, e)
    BY <1>10, <1>12, SameWords DEF Tokens!Word
  <1>14. CASE w.str \in DOMAIN Keyword
    <2>1. t.kind = Keyword[w.str] /\ t.value = <<>>
      BY <1>8, <1>14, TokenIs DEF WordIs
    <2>2. QED  BY <1>1, <1>8, <1>9, <1>13, <1>14, <2>1
  <1>15. CASE w.str \notin DOMAIN Keyword
    <2>1. t.kind = "Identifier" /\ t.value = w.str
      BY <1>8, <1>15, TokenIs DEF WordIs
    <2>2. QED  BY <1>1, <1>8, <1>9, <1>13, <1>15, <2>1
  <1>16. QED  BY <1>14, <1>15

-----------------------------------------------------------------------------
(* Strings.                                                                *)

LEMMA SameCardinality == \A S : Tokens!Cardinality(S) = Cardinality(S)
  BY Zenon DEF Tokens!Cardinality, Cardinality

NthOf(K, n) == CHOOSE k \in K : Cardinality({m \in K : m <= k}) = n
IsLast(K, a, L) ==
  K \subseteq Nat /\ IsFiniteSet(K) /\ a \in Nat /\ L = K \cup {a} /\ \A k \in K : k < a

(* A last member does not change the order of the others.                  *)
LEMMA NthIs ==
  ASSUME NEW K, NEW a, NEW L, IsLast(K, a, L)
  PROVE  /\ Cardinality(K) \in Nat /\ Cardinality(L) = Cardinality(K) + 1
         /\ \A n \in 1 .. Cardinality(K) : NthOf(L, n) = NthOf(K, n)
         /\ NthOf(L, Cardinality(K) + 1) = a
  <1>1. PICK N : N = Cardinality(K)
    OBVIOUS
  <1>2. /\ K \subseteq Nat /\ IsFiniteSet(K) /\ a \in Nat /\ L = K \cup {a}
        /\ \A k \in K : k < a
    BY DEF IsLast
  <1>3. N \in Nat /\ a \notin K
    BY <1>2, <1>1, FS_CardinalityType
  <1>4. Cardinality(L) = N + 1
    BY <1>2, <1>1, <1>3, FS_AddElement
  <1>5. ASSUME NEW k \in K
        PROVE  /\ {m \in L : m <= k} = {m \in K : m <= k}
               /\ Cardinality({m \in K : m <= k}) \in Nat
               /\ Cardinality({m \in K : m <= k}) <= N
    <2>1. {m \in L : m <= k} = {m \in K : m <= k}
      <3>1. k \in Nat /\ k < a /\ ~(a <= k)
        BY <1>2, <1>5
      <3>2. QED  BY <1>2, <3>1
    <2>2. PICK M : M = {m \in K : m <= k}
      OBVIOUS
    <2>3. M \subseteq K
      BY <2>2
    <2>4. IsFiniteSet(M) /\ Cardinality(M) <= N
      BY <1>2, <1>1, <2>3, FS_Subset
    <2>5. QED  BY <2>1, <2>2, <2>4, FS_CardinalityType
  <1>6. {m \in L : m <= a} = L
    <2>1. \A m \in L : m <= a
      BY <1>2
    <2>2. QED  BY <2>1
  <1>7. ASSUME NEW n \in 1 .. N PROVE NthOf(L, n) = NthOf(K, n)
    <2>1. \A k : k \in L /\ Cardinality({m \in L : m <= k}) = n
                   <=> k \in K /\ Cardinality({m \in K : m <= k}) = n
      <3>1. ASSUME NEW k \in K
            PROVE  Cardinality({m \in L : m <= k}) = Cardinality({m \in K : m <= k})
        BY <1>5
      <3>2. Cardinality({m \in L : m <= a}) # n
        <4>1. Cardinality({m \in L : m <= a}) = N + 1
          BY <1>4, <1>6, Zenon
        <4>2. n # N + 1
          BY <1>3
        <4>3. QED  BY <4>1, <4>2, Zenon
      <3>3. QED  BY <1>2, <1>3, <3>1, <3>2
    <2>2. QED  BY <2>1 DEF NthOf
  <1>8. NthOf(L, N + 1) = a
    <2>1. a \in L /\ Cardinality({m \in L : m <= a}) = N + 1
      BY <1>2, <1>4, <1>6
    <2>2. \A k \in L : Cardinality({m \in L : m <= k}) = N + 1 => k = a
      <3>1. ASSUME NEW k \in K PROVE Cardinality({m \in L : m <= k}) # N + 1
        <4>1. PICK c : c = Cardinality({m \in L : m <= k})
          OBVIOUS
        <4>2. c \in Nat /\ c <= N
          BY <1>5, <4>1
        <4>3. QED  BY <1>3, <4>1, <4>2
      <3>2. QED  BY <1>2, <3>1
    <2>3. QED  BY <2>1, <2>2 DEF NthOf
  <1>9. QED  BY <1>1, <1>3, <1>4, <1>7, <1>8

LEMMA QuotesStep ==
  ASSUME NEW U, IsText(U), NEW i \in 1 .. Len(U) + 1, NEW a \in Nat, a >= i
  PROVE  /\ Tokens!QuotesIn(U, i, i) = 1
         /\ Tokens!QuotesIn(U, i, a) \in Nat
         /\ Tokens!Char(U, a + 1) = Tokens!Char(U, i) =>
              Tokens!QuotesIn(U, i, a + 1) = Tokens!QuotesIn(U, i, a) + 1
         /\ Tokens!Char(U, a + 1) # Tokens!Char(U, i) =>
              Tokens!QuotesIn(U, i, a + 1) = Tokens!QuotesIn(U, i, a)
  <1>1. i \in Nat
    BY CharIs
  <1>2. PICK A, B, c : /\ A = {k \in i .. a : Tokens!Char(U, k) = Tokens!Char(U, i)}
                       /\ B = {k \in i .. a + 1 : Tokens!Char(U, k) = Tokens!Char(U, i)}
                       /\ c = Tokens!Char(U, a + 1)
    OBVIOUS
  <1>3. IsFiniteSet(A)
    <2>1. IsFiniteSet(i .. a) /\ A \subseteq i .. a
      BY <1>1, <1>2, FS_Interval
    <2>2. QED  BY <2>1, FS_Subset
  <1>4. Cardinality(A) \in Nat /\ a + 1 \notin A
    BY <1>1, <1>2, <1>3, FS_CardinalityType
  <1>5. c = Tokens!Char(U, i) => B = A \cup {a + 1}
    <2>1. i .. a + 1 = (i .. a) \cup {a + 1}
      BY <1>1
    <2>2. QED  BY <1>2, <2>1
  <1>6. c # Tokens!Char(U, i) => B = A
    <2>1. i .. a + 1 = (i .. a) \cup {a + 1}
      BY <1>1
    <2>2. QED  BY <1>2, <2>1
  <1>7. c = Tokens!Char(U, i) => Cardinality(B) = Cardinality(A) + 1
    BY <1>3, <1>4, <1>5, FS_AddElement
  <1>8. Tokens!QuotesIn(U, i, i) = 1
    <2>1. {k \in i .. i : Tokens!Char(U, k) = Tokens!Char(U, i)} = {i}
      <3>1. i .. i = {i}
        BY <1>1
      <3>2. QED  BY <3>1
    <2>2. QED  BY <2>1, SameCardinality, FS_Singleton DEF Tokens!QuotesIn
  <1>9. Tokens!QuotesIn(U, i, a) = Cardinality(A) /\ Tokens!QuotesIn(U, i, a + 1) = Cardinality(B)
    BY <1>2, SameCardinality, Zenon DEF Tokens!QuotesIn
  <1>10. QED  BY <1>2, <1>4, <1>6, <1>7, <1>8, <1>9

LEMMA ValueIs ==
  ASSUME NEW U, NEW i, NEW e, NEW K, K = {k \in i + 1 .. e - 1 : Tokens!IsKept(U, i, k)}
  PROVE  Tokens!StringValue(U, i, e) =
           [n \in 1 .. Cardinality(K) |-> Tokens!Char(U, NthOf(K, n))]
  <1>1. \A n : NthOf(K, n) = Tokens!Nth(K, n)
    BY SameCardinality DEF NthOf, Tokens!Nth
  <1>2. Tokens!StringValue(U, i, e) =
          [n \in 1 .. Tokens!Cardinality(K) |-> Tokens!Char(U, Tokens!Nth(K, n))]
    BY Zenon DEF Tokens!StringValue
  <1>3. QED  BY <1>1, <1>2, SameCardinality

LEMMA ValueStep ==
  ASSUME NEW U, IsText(U), NEW i \in 1 .. Len(U) + 1, NEW a \in Nat, a > i
  PROVE  /\ Tokens!StringValue(U, i, i + 1) = <<>>
         /\ ~Tokens!IsKept(U, i, a) =>
              Tokens!StringValue(U, i, a + 1) = Tokens!StringValue(U, i, a)
         /\ Tokens!IsKept(U, i, a) /\ Tokens!StringValue(U, i, a) \in Seq(STRING)
              /\ Tokens!Char(U, a) \in STRING =>
                Tokens!StringValue(U, i, a + 1) =
                  Append(Tokens!StringValue(U, i, a), Tokens!Char(U, a))
  <1>1. i \in Nat
    BY CharIs
  <1>2. PICK K, L, c : /\ K = {k \in i + 1 .. a - 1 : Tokens!IsKept(U, i, k)}
                       /\ L = {k \in i + 1 .. a : Tokens!IsKept(U, i, k)}
                       /\ c = Tokens!Char(U, a)
    OBVIOUS
  <1>3. K \subseteq Nat /\ IsFiniteSet(K) /\ \A k \in K : k < a
    <2>1. IsFiniteSet(i + 1 .. a - 1) /\ K \subseteq i + 1 .. a - 1
      <3>1. i + 1 \in Int /\ a - 1 \in Int
        BY <1>1
      <3>2. QED  BY <1>2, <3>1, FS_Interval
    <2>2. IsFiniteSet(K)
      BY <2>1, FS_Subset
    <2>3. QED  BY <1>1, <1>2, <2>2
  <1>4. i + 1 .. a = (i + 1 .. a - 1) \cup {a} /\ a + 1 - 1 = a
    BY <1>1
  <1>5. PICK f, g : /\ f = [n \in 1 .. Cardinality(K) |-> Tokens!Char(U, NthOf(K, n))]
                    /\ g = [n \in 1 .. Cardinality(L) |-> Tokens!Char(U, NthOf(L, n))]
    OBVIOUS
  <1>6. Tokens!StringValue(U, i, a) = f /\ Tokens!StringValue(U, i, a + 1) = g
    <2>1. L = {k \in i + 1 .. a + 1 - 1 : Tokens!IsKept(U, i, k)}
      BY <1>2, <1>4
    <2>2. Tokens!StringValue(U, i, a) = f
      BY <1>2, <1>5, ValueIs
    <2>3. Tokens!StringValue(U, i, a + 1) = g
      <3>1. PICK h : h = a + 1
        OBVIOUS
      <3>2. L = {k \in i + 1 .. h - 1 : Tokens!IsKept(U, i, k)}
        BY <2>1, <3>1
      <3>3. Tokens!StringValue(U, i, h) =
              [n \in 1 .. Cardinality(L) |-> Tokens!Char(U, NthOf(L, n))]
        <4>1. PICK V : V = {k \in i + 1 .. h - 1 : Tokens!IsKept(U, i, k)}
          OBVIOUS
        <4>2. Tokens!StringValue(U, i, h) =
                [n \in 1 .. Cardinality(V) |-> Tokens!Char(U, NthOf(V, n))]
          BY <4>1, ValueIs
        <4>3. V = L
          BY <3>2, <4>1
        <4>4. QED  BY <4>2, <4>3
      <3>4. QED  BY <1>5, <3>1, <3>3, Zenon
    <2>4. QED  BY <2>2, <2>3
  <1>7. Tokens!StringValue(U, i, i + 1) = <<>>
    <2>1. {k \in i + 1 .. i + 1 - 1 : Tokens!IsKept(U, i, k)} = {}
      BY <1>1
    <2>2. PICK M, j : M = {} /\ j = i + 1
      OBVIOUS
    <2>3. M = {k \in i + 1 .. j - 1 : Tokens!IsKept(U, i, k)} /\ Cardinality(M) = 0
      BY <2>1, <2>2, FS_EmptySet
    <2>4. Tokens!StringValue(U, i, j) = [n \in 1 .. 0 |-> Tokens!Char(U, NthOf(M, n))]
      BY <2>3, ValueIs
    <2>5. [n \in 1 .. 0 |-> Tokens!Char(U, NthOf(M, n))] = <<>>
      OBVIOUS
    <2>6. QED  BY <2>2, <2>4, <2>5
  <1>8. ASSUME ~Tokens!IsKept(U, i, a) PROVE f = g
    BY <1>2, <1>4, <1>5, <1>8
  <1>9. ASSUME Tokens!IsKept(U, i, a), f \in Seq(STRING), c \in STRING
        PROVE  g = Append(f, c)
    <2>1. L = K \cup {a}
      BY <1>2, <1>4, <1>9
    <2>2. PICK N : N = Cardinality(K)
      OBVIOUS
    <2>3. /\ N \in Nat /\ Cardinality(L) = N + 1
          /\ \A n \in 1 .. N : NthOf(L, n) = NthOf(K, n)
          /\ NthOf(L, N + 1) = a
      <3>1. PICK h : h = a
        OBVIOUS
      <3>2. h \in Nat /\ L = K \cup {h} /\ (\A k \in K : k < h)
        BY <1>3, <2>1, <3>1
      <3>3. /\ Cardinality(K) \in Nat /\ Cardinality(L) = Cardinality(K) + 1
            /\ \A n \in 1 .. Cardinality(K) : NthOf(L, n) = NthOf(K, n)
            /\ NthOf(L, Cardinality(K) + 1) = h
        <4>1. IsLast(K, h, L)
          BY <1>3, <3>2 DEF IsLast
        <4>2. QED  BY <4>1, NthIs
      <3>4. QED  BY <2>2, <3>1, <3>3
    <2>4. g = [n \in 1 .. N + 1 |-> Tokens!Char(U, NthOf(L, n))]
      BY <1>5, <2>3
    <2>5. f = [n \in 1 .. N |-> Tokens!Char(U, NthOf(K, n))]
      BY <1>5, <2>2
    <2>6. Len(f) = N
      BY <1>9, <2>3, <2>5
    <2>7. PICK h : h = Append(f, c)
      OBVIOUS
    <2>8. /\ h \in Seq(STRING) /\ Len(h) = N + 1
          /\ \A n \in 1 .. N : h[n] = f[n]
          /\ h[N + 1] = c
      <3>1. /\ h \in Seq(STRING) /\ Len(h) = Len(f) + 1
            /\ \A n \in 1 .. Len(f) : h[n] = f[n]
            /\ h[Len(f) + 1] = c
        BY <1>9, <2>7, AppendProperties
      <3>2. QED  BY <2>6, <3>1, Zenon
    <2>9. h = [n \in 1 .. N + 1 |-> h[n]]
      BY <2>8
    <2>10. \A n \in 1 .. N + 1 : Tokens!Char(U, NthOf(L, n)) = h[n]
      <3>1. ASSUME NEW n \in 1 .. N + 1, n # N + 1
            PROVE  Tokens!Char(U, NthOf(L, n)) = h[n]
        <4>1. n \in 1 .. N
          BY <2>3, <3>1
        <4>2. NthOf(L, n) = NthOf(K, n) /\ f[n] = Tokens!Char(U, NthOf(K, n)) /\ h[n] = f[n]
          BY <2>3, <2>5, <2>8, <4>1
        <4>3. QED  BY <4>2, Zenon
      <3>2. Tokens!Char(U, NthOf(L, N + 1)) = h[N + 1]
        BY <1>2, <2>3, <2>8, Zenon
      <3>3. QED  BY <3>1, <3>2
    <2>11. g = h
      BY <2>4, <2>9, <2>10
    <2>12. QED  BY <2>7, <2>11
  <1>10. QED  BY <1>2, <1>6, <1>7, <1>8, <1>9

(* At a the string that begins at i has not ended: str is what it has up   *)
(* to there.                                                               *)
EndsString(U, i, j) ==
  /\ Tokens!Char(U, j) = Tokens!Char(U, i) /\ Tokens!Char(U, j + 1) # Tokens!Char(U, i)
  /\ Tokens!IsKept(U, i, j)
InQuotes(U, i, a, str) ==
  /\ a \in i + 1 .. Len(U) + 1
  /\ \A k \in i .. a - 1 : Tokens!Char(U, k) # NL
  /\ Tokens!QuotesIn(U, i, a - 1) % 2 = 1
  /\ \A j \in i + 1 .. a - 1 : ~EndsString(U, i, j)
  /\ Tokens!StringValue(U, i, a) = str

LEMMA QuoteOpens ==
  ASSUME NEW U, IsText(U), NEW i \in 1 .. Len(U), Tokens!Char(U, i) # NL
  PROVE  InQuotes(U, i, i + 1, <<>>)
  <1>1. PICK a : a = i + 1
    OBVIOUS
  <1>2. /\ Len(U) \in Nat /\ i \in Nat /\ a \in i + 1 .. Len(U) + 1 /\ a - 1 = i /\ a > i
        /\ i \in 1 .. Len(U) + 1 /\ a \in Nat /\ i >= i
    BY <1>1, CharIs
  <1>3. \A k \in i .. a - 1 : Tokens!Char(U, k) # NL
    BY <1>2
  <1>4. Tokens!QuotesIn(U, i, i) = 1
    BY <1>2, QuotesStep
  <1>5. Tokens!QuotesIn(U, i, a - 1) % 2 = 1
    BY <1>2, <1>4
  <1>6. \A j \in i + 1 .. a - 1 : ~EndsString(U, i, j)
    BY <1>2
  <1>7. Tokens!StringValue(U, i, a) = <<>>
    BY <1>1, <1>2, ValueStep
  <1>8. QED  BY <1>1, <1>2, <1>3, <1>5, <1>6, <1>7 DEF InQuotes

LEMMA QuotesGoOn ==
  ASSUME NEW U, IsText(U), NEW i \in 1 .. Len(U), NEW str \in Seq(STRING), NEW a,
         InQuotes(U, i, a, str), a <= Len(U), Tokens!Char(U, a) # NL
  PROVE  /\ Tokens!Char(U, a) # Tokens!Char(U, i) =>
              InQuotes(U, i, a + 1, Append(str, Tokens!Char(U, a)))
         /\ Tokens!Char(U, a) = Tokens!Char(U, i) /\ Tokens!Char(U, a + 1) = Tokens!Char(U, i) =>
              InQuotes(U, i, a + 2, Append(str, Tokens!Char(U, i)))
  <1>1. PICK b, c, n : b = a + 1 /\ c = a + 2 /\ n = Tokens!QuotesIn(U, i, a - 1)
    OBVIOUS
  <1>2. /\ a \in i + 1 .. Len(U) + 1
        /\ \A k \in i .. a - 1 : Tokens!Char(U, k) # NL
        /\ n % 2 = 1
        /\ \A j \in i + 1 .. a - 1 : ~EndsString(U, i, j)
        /\ Tokens!StringValue(U, i, a) = str
    BY <1>1 DEF InQuotes
  <1>3. /\ Len(U) \in Nat /\ i \in Nat /\ a \in Nat /\ a - 1 \in Nat /\ a - 1 >= i /\ a - 1 + 1 = a
        /\ b \in Nat /\ b > i /\ a > i /\ a >= i /\ b - 1 = a /\ c - 1 = b /\ b + 1 = c
        /\ i \in 1 .. Len(U) + 1 /\ b \in i + 1 .. Len(U) + 1 /\ a \in 1 .. Len(U)
        /\ i .. b - 1 = (i .. a - 1) \cup {a} /\ i + 1 .. b - 1 = (i + 1 .. a - 1) \cup {a}
        /\ i .. c - 1 = (i .. a - 1) \cup {a, b}
        /\ i + 1 .. c - 1 = (i + 1 .. a - 1) \cup {a, b}
    <2>1. Len(U) \in Nat /\ i \in Nat
      BY CharIs
    <2>2. a \in Nat /\ a > i /\ i \in 1 .. Len(U) + 1 /\ a \in 1 .. Len(U)
      BY <1>2, <2>1
    <2>3. /\ a - 1 \in Nat /\ a - 1 >= i /\ a - 1 + 1 = a
          /\ b \in Nat /\ b > i /\ a > i /\ a >= i /\ b - 1 = a /\ c - 1 = b /\ b + 1 = c
          /\ b \in i + 1 .. Len(U) + 1
      BY <1>1, <2>1, <2>2
    <2>4. i .. a = (i .. a - 1) \cup {a} /\ i + 1 .. a = (i + 1 .. a - 1) \cup {a}
      BY <2>1, <2>2
    <2>5. i .. b = (i .. a) \cup {b} /\ i + 1 .. b = (i + 1 .. a) \cup {b}
      BY <1>1, <2>1, <2>2
    <2>6. i .. b = (i .. a - 1) \cup {a, b} /\ i + 1 .. b = (i + 1 .. a - 1) \cup {a, b}
      BY <2>4, <2>5
    <2>7. QED  BY <2>1, <2>2, <2>3, <2>4, <2>6
  <1>4. n \in Nat
    <2>1. PICK h : h = a - 1
      OBVIOUS
    <2>2. h \in Nat /\ h >= i /\ n = Tokens!QuotesIn(U, i, h)
      BY <1>1, <1>3, <2>1
    <2>3. QED  BY <1>3, <2>2, QuotesStep
  <1>5. /\ Tokens!Char(U, a) = Tokens!Char(U, i) => Tokens!QuotesIn(U, i, a) = n + 1
        /\ Tokens!Char(U, a) # Tokens!Char(U, i) => Tokens!QuotesIn(U, i, a) = n
    <2>1. PICK h : h = a - 1
      OBVIOUS
    <2>2. h \in Nat /\ h >= i /\ n = Tokens!QuotesIn(U, i, h) /\ h + 1 = a
      BY <1>1, <1>3, <2>1
    <2>3. /\ Tokens!Char(U, h + 1) = Tokens!Char(U, i) => Tokens!QuotesIn(U, i, h + 1) = n + 1
          /\ Tokens!Char(U, h + 1) # Tokens!Char(U, i) => Tokens!QuotesIn(U, i, h + 1) = n
      BY <1>3, <2>2, QuotesStep
    <2>4. QED  BY <2>2, <2>3
  <1>6. Tokens!IsKept(U, i, a)
    <2>1. (n + 1) % 2 = 0
      BY <1>2, <1>4
    <2>2. QED  BY <1>5, <2>1 DEF Tokens!IsKept
  <1>7. Tokens!Char(U, a) \in STRING
    BY <1>3, CharIs
  <1>8. Tokens!StringValue(U, i, b) = Append(str, Tokens!Char(U, a))
    BY <1>1, <1>2, <1>3, <1>6, <1>7, ValueStep
  <1>9. ASSUME Tokens!Char(U, a) # Tokens!Char(U, i)
        PROVE  InQuotes(U, i, b, Append(str, Tokens!Char(U, a)))
    <2>1. \A k \in i .. b - 1 : Tokens!Char(U, k) # NL
      BY <1>2, <1>3
    <2>2. Tokens!QuotesIn(U, i, b - 1) % 2 = 1
      BY <1>2, <1>3, <1>5, <1>9
    <2>3. \A j \in i + 1 .. b - 1 : ~EndsString(U, i, j)
      BY <1>2, <1>3, <1>9 DEF EndsString
    <2>4. QED  BY <1>3, <1>8, <2>1, <2>2, <2>3 DEF InQuotes
  <1>10. ASSUME Tokens!Char(U, a) = Tokens!Char(U, i), Tokens!Char(U, b) = Tokens!Char(U, i)
         PROVE  InQuotes(U, i, c, Append(str, Tokens!Char(U, i)))
    <2>1. Tokens!QuotesIn(U, i, b) = n + 2
      <3>1. Tokens!QuotesIn(U, i, a) = n + 1
        BY <1>5, <1>10
      <3>2. Tokens!QuotesIn(U, i, a + 1) = Tokens!QuotesIn(U, i, a) + 1
        BY <1>1, <1>3, <1>10, QuotesStep
      <3>3. QED  BY <1>1, <1>4, <3>1, <3>2
    <2>2. (n + 2) % 2 = 1
      BY <1>2, <1>4
    <2>3. ~Tokens!IsKept(U, i, b)
      BY <1>10, <2>1, <2>2 DEF Tokens!IsKept
    <2>4. Tokens!StringValue(U, i, c) = Tokens!StringValue(U, i, b)
      <3>1. Tokens!StringValue(U, i, b + 1) = Tokens!StringValue(U, i, b)
        BY <1>3, <2>3, ValueStep
      <3>2. QED  BY <1>3, <3>1
    <2>5. b <= Len(U) /\ c \in i + 1 .. Len(U) + 1
      <3>1. Tokens!Char(U, b) # EOF
        BY <1>3, <1>10, CharIs
      <3>2. b <= Len(U)
        BY <1>3, <3>1, CharIs
      <3>3. QED  BY <1>1, <1>3, <3>2
    <2>6. \A k \in i .. c - 1 : Tokens!Char(U, k) # NL
      BY <1>2, <1>3, <1>10
    <2>7. Tokens!QuotesIn(U, i, c - 1) % 2 = 1
      BY <1>3, <2>1, <2>2
    <2>8. \A j \in i + 1 .. c - 1 : ~EndsString(U, i, j)
      <3>1. ~EndsString(U, i, a)
        BY <1>1, <1>10 DEF EndsString
      <3>2. ~EndsString(U, i, b)
        BY <2>3 DEF EndsString
      <3>3. QED  BY <1>2, <1>3, <3>1, <3>2
    <2>9. Tokens!StringValue(U, i, c) = Append(str, Tokens!Char(U, i))
      BY <1>8, <1>10, <2>4
    <2>10. QED  BY <2>5, <2>6, <2>7, <2>8, <2>9 DEF InQuotes
  <1>11. QED  BY <1>1, <1>9, <1>10

LEMMA SameStrings == Tokens!Quote = Quote /\ NL \notin Quote /\ EOF \notin Quote
  <1>1. Tokens!Quote = Quote
    BY DEF Tokens!Quote, Quote, Tokens!DQUOTE, DQUOTE
  <1>2. QED  BY <1>1, NotQuote

LEMMA StringEndsAt ==
  ASSUME IsText(text), NEW s0, Synced(s0), s0.cur \in Quote, NEW U,
         NEW t, t = InString[[s |-> NextChar(s0), str |-> <<>>, quote |-> s0.cur]],
         Shows(U, t.s.pos)
  PROVE  Tokens!String(U, At(s0)) = Tokens!Found(t.kind, t.value, At(t.s))
  <1>1. PICK i, q0, c : /\ i = At(s0) /\ c = s0.cur
                        /\ q0 = [s |-> NextChar(s0), str |-> <<>>, quote |-> s0.cur]
    OBVIOUS
  <1>2. PICK P : P = {q \in StringState :
                        /\ Onward(s0, q.s) /\ q.quote = c
                        /\ Shows(U, q.s.pos) => InQuotes(U, i, At(q.s), q.str)}
    OBVIOUS
  <1>3. text \in Seq(STRING) /\ s0 \in LexerState /\ Onward(s0, s0) /\ c # EOF /\ c # NL
    BY <1>1, SyncedIs, SameStrings DEF IsText
  <1>4. \A q \in P : q \in StringState /\ Onward(s0, q.s) /\ Synced(q.s) /\ q.quote = c
    BY <1>2 DEF Onward
  <1>5. ASSUME Shows(U, s0.pos)
        PROVE  /\ IsText(U) /\ Len(U) \in Nat /\ i \in 1 .. Len(U) /\ Tokens!Char(U, i) = c
    <2>1. /\ IsText(U) /\ Len(U) \in Nat /\ i \in 1 .. Len(U) + 1 /\ Tokens!Char(U, i) = c
          /\ i # Len(U) + 1
      BY <1>1, <1>3, <1>5, HereIs
    <2>2. QED  BY <2>1
  <1>6. q0 \in P
    <2>1. PICK u : u = NextChar(s0)
      OBVIOUS
    <2>2. Onward(s0, u) /\ u \in LexerState /\ At(u) = i + 1
      BY <1>1, <1>3, <2>1, OnwardHere
    <2>3. q0 \in StringState /\ q0.s = u /\ q0.str = <<>> /\ q0.quote = c
      BY <1>1, <2>1, <2>2 DEF StringState
    <2>4. Shows(U, u.pos) => InQuotes(U, i, i + 1, <<>>)
      <3>1. Shows(U, u.pos) => Shows(U, s0.pos)
        BY <2>2, ShowsBack
      <3>2. QED  BY <1>3, <1>5, <3>1, QuoteOpens
    <2>5. QED  BY <1>2, <2>2, <2>3, <2>4
  <1>7. ASSUME NEW q \in P, NEW u, Onward(s0, u), Onward(q.s, u), Shows(U, u.pos)
        PROVE  /\ IsText(U) /\ Len(U) \in Nat /\ i \in 1 .. Len(U) /\ Tokens!Char(U, i) = c
               /\ Shows(U, q.s.pos) /\ At(q.s) \in 1 .. Len(U) + 1
               /\ Tokens!Char(U, At(q.s)) = q.s.cur /\ (q.s.cur # EOF => At(q.s) <= Len(U))
               /\ InQuotes(U, i, At(q.s), q.str) /\ q.str \in Seq(STRING)
    <2>1. Shows(U, q.s.pos) /\ Shows(U, s0.pos)
      <3>1. Shows(U, q.s.pos)
        BY <1>4, <1>7, ShowsBack
      <3>2. QED  BY <1>7, <3>1, ShowsBack
    <2>2. IsText(U) /\ Len(U) \in Nat /\ i \in 1 .. Len(U) /\ Tokens!Char(U, i) = c
      BY <1>5, <2>1
    <2>3. /\ At(q.s) \in 1 .. Len(U) + 1 /\ Tokens!Char(U, At(q.s)) = q.s.cur
          /\ q.s.cur # EOF => At(q.s) # Len(U) + 1
      BY <1>4, <2>1, HereIs
    <2>4. q.s.cur # EOF => At(q.s) <= Len(U)
      BY <2>2, <2>3
    <2>5. InQuotes(U, i, At(q.s), q.str) /\ q.str \in Seq(STRING)
      BY <1>2, <1>4, <2>1 DEF StringState
    <2>6. QED  BY <2>1, <2>2, <2>3, <2>4, <2>5
  <1>8. ASSUME NEW q \in P, q.s.cur # q.quote, q.s.cur \notin {NL, EOF}
        PROVE  Kept(q) \in P
    <2>1. PICK k, u : k = Kept(q) /\ u = NextChar(q.s)
      OBVIOUS
    <2>2. q \in StringState /\ Onward(s0, q.s) /\ Synced(q.s) /\ q.s.cur # EOF /\ q.quote = c
      BY <1>4, <1>8
    <2>3. k \in StringState /\ k.s = u /\ k.str = Append(q.str, q.s.cur) /\ k.quote = c
      BY <1>3, <2>1, <2>2, KeptIs
    <2>4. Onward(s0, u) /\ Onward(q.s, u) /\ At(u) = At(q.s) + 1
      BY <2>1, <2>2, OnwardHere
    <2>5. ASSUME Shows(U, u.pos) PROVE InQuotes(U, i, At(u), k.str)
      <3>1. PICK a : a = At(q.s)
        OBVIOUS
      <3>2. /\ IsText(U) /\ i \in 1 .. Len(U) /\ Tokens!Char(U, i) = c
            /\ Tokens!Char(U, a) = q.s.cur /\ a <= Len(U)
            /\ InQuotes(U, i, a, q.str) /\ q.str \in Seq(STRING)
        BY <1>7, <2>2, <2>4, <2>5, <3>1
      <3>3. Tokens!Char(U, a) # NL /\ Tokens!Char(U, a) # Tokens!Char(U, i)
        BY <1>8, <2>2, <3>2
      <3>4. InQuotes(U, i, a + 1, Append(q.str, Tokens!Char(U, a)))
        BY <3>2, <3>3, QuotesGoOn
      <3>5. QED  BY <2>3, <2>4, <3>1, <3>2, <3>4
    <2>6. QED  BY <1>2, <2>1, <2>3, <2>4, <2>5
  <1>9. ASSUME NEW q \in P, q.s.cur = q.quote, PeekChar(q.s).next = q.quote
        PROVE  Doubled(q) \in P
    <2>1. PICK k, u, v, w : /\ k = Doubled(q) /\ u = PeekChar(q.s) /\ v = NextChar(u)
                            /\ w = NextChar(v)
      OBVIOUS
    <2>2. /\ q \in StringState /\ Onward(s0, q.s) /\ Synced(q.s) /\ q.s.cur = c /\ q.quote = c
          /\ q.s.cur # EOF
      BY <1>3, <1>4, <1>9
    <2>3. /\ Onward(s0, u) /\ Onward(q.s, u) /\ u \in LexerState /\ u.cur = c /\ u.next = c
          /\ At(u) = At(q.s) /\ u.valid = 2 /\ Synced(u)
      BY <1>3, <1>9, <2>1, <2>2, OnwardHere DEF Onward
    <2>4. /\ Onward(s0, v) /\ Onward(u, v) /\ v \in LexerState /\ v.cur = c
          /\ At(v) = At(u) + 1 /\ Synced(v)
      <3>1. v.cur = c
        BY <1>3, <2>1, <2>3, NextIs
      <3>2. QED  BY <1>3, <2>1, <2>3, <3>1, OnwardHere DEF Onward
    <2>5. Onward(s0, w) /\ Onward(v, w) /\ w \in LexerState /\ At(w) = At(v) + 1
      BY <1>3, <2>1, <2>4, OnwardHere
    <2>6. k \in StringState /\ k.s = w /\ k.str = Append(q.str, c) /\ k.quote = c
      BY <1>3, <2>1, <2>2, <2>4, DoubledIs
    <2>7. ASSUME Shows(U, w.pos) PROVE InQuotes(U, i, At(w), k.str)
      <3>1. PICK a : a = At(q.s)
        OBVIOUS
      <3>2. Shows(U, u.pos)
        <4>1. Shows(U, v.pos)
          BY <2>4, <2>5, <2>7, ShowsBack
        <4>2. QED  BY <2>3, <2>4, <4>1, ShowsBack
      <3>3. /\ IsText(U) /\ i \in 1 .. Len(U) /\ Tokens!Char(U, i) = c
            /\ Tokens!Char(U, a) = c /\ a <= Len(U) /\ Len(U) \in Nat /\ a \in 1 .. Len(U) + 1
            /\ InQuotes(U, i, a, q.str) /\ q.str \in Seq(STRING)
        BY <1>7, <2>2, <2>3, <3>1, <3>2
      <3>4. Tokens!Char(U, a + 1) = c
        BY <2>3, <3>1, <3>2, HereIs
      <3>5. InQuotes(U, i, a + 2, Append(q.str, c))
        BY <1>3, <3>3, <3>4, QuotesGoOn
      <3>6. At(w) = a + 2
        BY <2>3, <2>4, <2>5, <3>1, <3>3
      <3>7. QED  BY <2>6, <3>5, <3>6
    <2>8. QED  BY <1>2, <2>1, <2>5, <2>6, <2>7
  <1>10. PICK q \in P :
           \/ q.s.cur \in {NL, EOF} /\ t = Token("UntermString", <<>>, q.s)
           \/ /\ q.s.cur = q.quote /\ q.s.cur # EOF /\ PeekChar(q.s).next # q.quote
              /\ t = StringIs(q)
    <2>1. /\ P \subseteq StringState /\ \A q \in P : Onward(s0, q.s)
      BY <1>4
    <2>2. \E q \in P :
            \/ q.s.cur \in {NL, EOF} /\ InString[q0] = Token("UntermString", <<>>, q.s)
            \/ /\ q.s.cur = q.quote /\ q.s.cur # EOF /\ PeekChar(q.s).next # q.quote
               /\ InString[q0] = StringIs(q)
      BY <1>3, <1>6, <1>8, <1>9, <2>1, InStringEnds
    <2>3. QED  BY <1>1, <2>2
  <1>11. q \in StringState /\ Onward(s0, q.s) /\ Synced(q.s) /\ q.quote = c /\ Onward(q.s, q.s)
    BY <1>3, <1>4, <1>10, SyncedIs
  <1>12. PICK a : a = At(q.s)
    OBVIOUS
  <1>13. CASE q.s.cur \in {NL, EOF}
    <2>1. t = Token("UntermString", <<>>, q.s)
      BY <1>3, <1>10, <1>11, <1>13
    <2>2. t.kind = "UntermString" /\ t.value = <<>> /\ t.s = q.s
      BY <2>1, TokenIs
    <2>3. /\ IsText(U) /\ Len(U) \in Nat /\ i \in 1 .. Len(U)
          /\ a \in 1 .. Len(U) + 1
          /\ Tokens!Char(U, a) = q.s.cur /\ InQuotes(U, i, a, q.str)
      BY <1>7, <1>11, <1>12, <2>2
    <2>4. a = Len(U) + 1 \/ Tokens!Char(U, a) \in {NL}
      <3>1. q.s.cur = EOF => a = Len(U) + 1
        BY <1>11, <1>12, <2>2, HereIs
      <3>2. QED  BY <1>13, <2>3, <3>1
    <2>5. Tokens!First(U, i, {NL}) = a
      <3>1. a \in i .. Len(U) + 1 /\ \A k \in i .. a - 1 : Tokens!Char(U, k) \notin {NL}
        BY <2>3 DEF InQuotes
      <3>2. i \in 1 .. Len(U) + 1
        BY <2>3
      <3>3. QED  BY <2>3, <2>4, <3>1, <3>2, FirstIs
    <2>6. Tokens!StringEnds(U, i) = {}
      <3>1. \A j \in i + 1 .. a - 1 : ~EndsString(U, i, j)
        BY <2>3 DEF InQuotes
      <3>2. QED  BY <2>5, <3>1, SameCharacters DEF Tokens!StringEnds, EndsString
    <2>7. Tokens!String(U, i) = Tokens!Found("UntermString", <<>>, a)
      BY <2>5, <2>6, SameCharacters DEF Tokens!String
    <2>8. QED  BY <1>1, <1>12, <2>2, <2>7
  <1>14. CASE q.s.cur \notin {NL, EOF}
    <2>1. PICK u, v, k : /\ u = PeekChar(q.s) /\ v = NextChar(u)
                         /\ k = IF Len(q.str) = 1 THEN "Char" ELSE "StringLiteral"
      OBVIOUS
    <2>2. t = Token(k, q.str, v) /\ q.s.cur = c /\ u.next # c
      BY <1>10, <1>11, <1>14, <2>1 DEF StringIs
    <2>3. t.kind = k /\ t.value = q.str /\ t.s = v
      BY <2>2, TokenIs
    <2>4. /\ Onward(s0, u) /\ Onward(q.s, u) /\ u.cur = c /\ At(u) = a /\ u.valid = 2
          /\ Synced(u)
      BY <1>3, <1>11, <1>12, <2>1, <2>2, OnwardHere DEF Onward
    <2>5. Onward(u, v) /\ At(v) = a + 1
      BY <1>3, <2>1, <2>4, OnwardHere
    <2>6. Shows(U, u.pos)
      BY <2>3, <2>4, <2>5, ShowsBack
    <2>7. /\ IsText(U) /\ Len(U) \in Nat /\ i \in 1 .. Len(U) /\ Tokens!Char(U, i) = c
          /\ a <= Len(U) /\ a \in 1 .. Len(U) + 1
          /\ Tokens!Char(U, a) = c /\ InQuotes(U, i, a, q.str)
      BY <1>3, <1>7, <1>11, <1>12, <2>2, <2>4, <2>6
    <2>8. Tokens!Char(U, a + 1) # c
      BY <2>2, <2>4, <2>6, HereIs
    <2>9. /\ a \in i + 1 .. Len(U) + 1
          /\ \A j \in i .. a - 1 : Tokens!Char(U, j) # NL
          /\ Tokens!QuotesIn(U, i, a - 1) % 2 = 1
          /\ \A j \in i + 1 .. a - 1 : ~EndsString(U, i, j)
          /\ Tokens!StringValue(U, i, a) = q.str
      BY <2>7 DEF InQuotes
    <2>10. PICK ends, f : ends = Tokens!StringEnds(U, i) /\ f = Tokens!First(U, i, {NL})
      OBVIOUS
    <2>11. f \in i .. Len(U) + 1 /\ (f = Len(U) + 1 \/ Tokens!Char(U, f) \in {NL})
      <3>1. i \in 1 .. Len(U) + 1
        BY <2>7
      <3>2. QED  BY <2>7, <2>10, <3>1, FirstExists
    <2>12. f > a
      <3>1. f # a
        BY <1>3, <2>7, <2>11
      <3>2. ~(f \in i .. a - 1)
        BY <2>7, <2>9, <2>11
      <3>3. QED  BY <2>7, <2>11, <3>1, <3>2
    <2>13. Tokens!IsKept(U, i, a)
      <3>1. PICK h, n : h = a - 1 /\ n = Tokens!QuotesIn(U, i, h)
        OBVIOUS
      <3>2. h \in Nat /\ h >= i /\ h + 1 = a /\ i \in 1 .. Len(U) + 1 /\ n % 2 = 1
        BY <2>7, <2>9, <3>1
      <3>3. n \in Nat /\ Tokens!QuotesIn(U, i, h + 1) = n + 1
        BY <2>7, <3>1, <3>2, QuotesStep
      <3>4. (n + 1) % 2 = 0
        BY <3>2, <3>3
      <3>5. QED  BY <3>2, <3>3, <3>4 DEF Tokens!IsKept
    <2>14. ends = {j \in i + 1 .. f - 1 : EndsString(U, i, j)}
      BY <2>10, SameCharacters DEF Tokens!StringEnds, EndsString
    <2>15. a \in ends
      <3>1. EndsString(U, i, a)
        BY <2>7, <2>8, <2>13 DEF EndsString
      <3>2. a \in i + 1 .. f - 1
        BY <2>7, <2>9, <2>11, <2>12
      <3>3. QED  BY <2>14, <3>1, <3>2
    <2>16. \A j \in ends : j \in Nat /\ a <= j
      <3>1. ASSUME NEW j \in ends PROVE j \in Nat /\ a <= j
        <4>1. j \in i + 1 .. f - 1 /\ EndsString(U, i, j)
          BY <2>14, <3>1
        <4>2. ~(j \in i + 1 .. a - 1)
          BY <2>9, <4>1
        <4>3. QED  BY <2>7, <2>11, <4>1, <4>2
      <3>2. QED  BY <3>1
    <2>17. (CHOOSE j \in ends : \A m \in ends : j <= m) = a
      <3>1. \A j \in ends : (\A m \in ends : j <= m) => j = a
        <4>1. ASSUME NEW j \in ends, \A m \in ends : j <= m PROVE j = a
          <5>1. j \in Nat /\ a <= j /\ j <= a /\ a \in Nat
            BY <2>15, <2>16, <4>1
          <5>2. QED  BY <5>1
        <4>2. QED  BY <4>1
      <3>2. QED  BY <2>15, <2>16, <3>1
    <2>18. Tokens!String(U, i) = Tokens!Found(k, q.str, a + 1)
      BY <2>1, <2>9, <2>10, <2>15, <2>17 DEF Tokens!String
    <2>19. QED  BY <1>1, <2>3, <2>5, <2>18
  <1>15. QED  BY <1>13, <1>14

-----------------------------------------------------------------------------
(* Numbers.                                                                *)

LEMMA SameDigits ==
  /\ \A b : Tokens!DigitsOf(b) = DigitsOf(b)
  /\ \A c : Tokens!DigitValue(c) = DigitValue(c)
  /\ Tokens!Digit = Digit /\ Tokens!Sign = Sign
  <1>1. Tokens!DigitChars = DigitChars
    BY DEF Tokens!DigitChars, DigitChars
  <1>2. \A b : Tokens!DigitsOf(b) = DigitsOf(b)
    BY <1>1 DEF Tokens!DigitsOf, DigitsOf, Tokens!DigitSets, DigitSets
  <1>3. \A c : Tokens!DigitValue(c) = DigitValue(c)
    BY <1>1 DEF Tokens!DigitValue, DigitValue
  <1>4. QED  BY <1>2 , <1>3 DEF Tokens!Digit, Digit, Tokens!Sign, Sign

LEMMA SameConversions ==
  /\ \A num, base, max : Tokens!Converted(num, base, max) = Converted(num, base, max)
  /\ \A num, base : Tokens!StrToULL(num, base) = StrToULL(num, base)
  /\ \A num : Tokens!BaseOf(num) = BaseOf(num)
  /\ \A num : Tokens!IsReal(num) = IsReal(num)
  /\ Tokens!MaxU64 = MaxU64
  <1>1. \A num, base, max : Tokens!Converted(num, base, max) = Converted(num, base, max)
    BY SMT DEF Tokens!Converted, Converted, Tokens!DigitsOf, DigitsOf, Tokens!DigitSets, DigitSets,
             Tokens!DigitChars, DigitChars, Tokens!DigitValue, DigitValue, Tokens!Space, Space,
             Tokens!Sign, Sign, Tokens!BLANK, BLANK, Tokens!NL, NL
  <1>2. Tokens!MaxU64 = MaxU64 /\ Tokens!MaxLong = MaxLong
    BY DEF Tokens!MaxU64, MaxU64, Tokens!MaxLong, MaxLong
  <1>3. \A num, base : Tokens!StrToULL(num, base) = StrToULL(num, base)
    BY <1>1, <1>2 DEF Tokens!StrToULL, StrToULL
  <1>4. \A num : Tokens!BaseOf(num) = BaseOf(num)
    BY <1>1, <1>2 DEF Tokens!BaseOf, BaseOf, Tokens!IntOf, IntOf
  <1>5. ASSUME NEW num PROVE Tokens!IsReal(num) = IsReal(num)
    <2>1. Tokens!Space = Space /\ Tokens!Sign = Sign /\ Tokens!Digit = Digit
      BY SameDigits, SameCharacters
    <2>2. \A s : Tokens!Mantissa(s) = Mantissa(s)
      BY <2>1, SameCardinality DEF Tokens!Mantissa, Mantissa
    <2>3. PICK body : body = IF num # <<>> /\ num[1] \in Space \cup Sign THEN Tail(num) ELSE num
      OBVIOUS
    <2>4. IsReal(num) = (\/ Mantissa(body)
                         \/ \E k \in 1 .. Len(body) :
                              /\ body[k] = "e"
                              /\ Mantissa(SubSeq(body, 1, k - 1))
                              /\ Converted(SubSeq(body, k + 1, Len(body)), 10, MaxExponent).whole)
      BY <2>3 DEF IsReal
    <2>5. Tokens!IsReal(num) = (\/ Tokens!Mantissa(body)
                                \/ \E k \in 1 .. Len(body) :
                                     /\ body[k] = "e"
                                     /\ Tokens!Mantissa(SubSeq(body, 1, k - 1))
                                     /\ Tokens!Converted(SubSeq(body, k + 1, Len(body)), 10,
                                                         MaxExponent).whole)
      BY <2>1, <2>3 DEF Tokens!IsReal
    <2>6. QED  BY <1>1, <2>2, <2>4, <2>5
  <1>6. QED  BY <1>1, <1>2, <1>3, <1>4, <1>5

Scan(U) == [at : 1 .. Len(U) + 1, base : 0 .. 36, from : 1 .. Len(U) + 1]
RunOf(base) == DigitsOf(base) \cup IF base = 10 THEN {} ELSE {"#"}

LEMMA RunOfIs ==
  ASSUME NEW base \in 0 .. 36
  PROVE  /\ EOF \notin RunOf(base) /\ (base = 10 => "#" \notin RunOf(base))
         /\ \A c : c \in RunOf(base) <=> c \in DigitsOf(base) \/ (base # 10 /\ c = "#")
  <1>1. EOF \notin DigitsOf(base) /\ "#" # EOF
    BY Characters DEF EOF
  <1>2. "#" \notin DigitsOf(base)
    <2>1. DigitsOf(base) \subseteq Alphanumeric
      BY DigitsAre
    <2>2. QED  BY <2>1, Zenon DEF Alphanumeric
  <1>3. QED  BY <1>1, <1>2 DEF RunOf

LEMMA IntegerEndIs ==
  ASSUME NEW U, IsText(U), NEW p \in Scan(U)
  PROVE  /\ p.at \in 1 .. Len(U) + 1 /\ p.base \in 0 .. 36 /\ p.from \in 1 .. Len(U) + 1
         /\ Tokens!IntegerEnd(U, p) = Tokens!RunEnd(U, p.at, RunOf(p.base))
         /\ Tokens!IntegerEnd(U, p) \in p.at .. Len(U) + 1
         /\ Tokens!HasBase(U, p) => Tokens!IntegerEnd(U, p) <= Len(U)
  <1>1. p.at \in 1 .. Len(U) + 1 /\ p.base \in 0 .. 36 /\ p.from \in 1 .. Len(U) + 1
    BY DEF Scan
  <1>2. Tokens!IntegerEnd(U, p) = Tokens!RunEnd(U, p.at, RunOf(p.base))
    BY SameDigits DEF Tokens!IntegerEnd, RunOf
  <1>3. PICK h, e, S : h = p.at /\ e = Tokens!IntegerEnd(U, p) /\ S = RunOf(p.base)
    OBVIOUS
  <1>4. e \in h .. Len(U) + 1
    <2>1. h \in 1 .. Len(U) + 1 /\ EOF \notin S /\ e = Tokens!RunEnd(U, h, S)
      BY <1>1, <1>2, <1>3, RunOfIs
    <2>2. QED  BY <2>1, RunEndExists
  <1>5. ASSUME Tokens!HasBase(U, p) PROVE e <= Len(U)
    <2>1. Tokens!Char(U, e) = "#" /\ "#" # EOF
      BY <1>3, <1>5 DEF Tokens!HasBase, EOF
    <2>2. QED  BY <1>1, <1>3, <1>4, <2>1, CharIs
  <1>6. QED  BY <1>1, <1>2, <1>3, <1>4, <1>5

LEMMA BehindIs ==
  ASSUME NEW U, IsText(U), NEW p \in Scan(U), Tokens!HasBase(U, p),
         Tokens!NewBase(U, p) \in 2 .. 36
  PROVE  Tokens!Behind(U, p) \in Scan(U)
  <1>1. PICK e, b : e = Tokens!IntegerEnd(U, p) /\ b = Tokens!NewBase(U, p)
    OBVIOUS
  <1>2. Len(U) \in Nat /\ Tokens!End(U) = Len(U) + 1 /\ e \in 1 .. Len(U) /\ b \in 0 .. 36
    <2>1. Len(U) \in Nat /\ Tokens!End(U) = Len(U) + 1
      BY CharIs
    <2>2. p.at \in 1 .. Len(U) + 1 /\ e \in p.at .. Len(U) + 1 /\ e <= Len(U)
      BY <1>1, IntegerEndIs
    <2>3. b \in 2 .. 36
      BY <1>1
    <2>4. QED  BY <2>1, <2>2, <2>3
  <1>3. \A j \in 1 .. Len(U) + 1 : Tokens!After(U, j) \in 1 .. Len(U) + 1
    BY <1>2 DEF Tokens!After
  <1>4. PICK h : h = Tokens!After(U, Tokens!After(U, e))
    OBVIOUS
  <1>5. h \in 1 .. Len(U) + 1
    BY <1>2, <1>3, <1>4
  <1>6. Tokens!Behind(U, p) = [at |-> h, base |-> b, from |-> e + 1]
    BY <1>1, <1>4 DEF Tokens!Behind
  <1>7. e + 1 \in 1 .. Len(U) + 1
    BY <1>2
  <1>8. QED  BY <1>2, <1>5, <1>6, <1>7 DEF Scan

IntegerLoop(f, U) ==
  f = [p \in [at : 1 .. Tokens!End(U), base : 0 .. 36, from : 1 .. Tokens!End(U)] |->
         IF ~Tokens!HasBase(U, p) THEN [p EXCEPT !.at = Tokens!IntegerEnd(U, p)]
         ELSE IF Tokens!NewBase(U, p) \notin 2 .. 36 THEN Tokens!NoBase(U, p)
         ELSE f[Tokens!Behind(U, p)]]

LEMMA IntegerIs ==
  ASSUME NEW U, IsText(U), NEW p \in Scan(U)
  PROVE  /\ ~Tokens!HasBase(U, p) =>
              Tokens!IntegerFrom(U, p) = [p EXCEPT !.at = Tokens!IntegerEnd(U, p)]
         /\ Tokens!HasBase(U, p) /\ Tokens!NewBase(U, p) \notin 2 .. 36 =>
              Tokens!IntegerFrom(U, p) = Tokens!NoBase(U, p)
         /\ Tokens!HasBase(U, p) /\ Tokens!NewBase(U, p) \in 2 .. 36 =>
              Tokens!IntegerFrom(U, p) = Tokens!IntegerFrom(U, Tokens!Behind(U, p))
  <1>1. Tokens!End(U) = Len(U) + 1
    BY CharIs
  <1>2. PICK stop, next, out :
          /\ stop = {q \in Scan(U) : ~Tokens!HasBase(U, q) \/ Tokens!NewBase(U, q) \notin 2 .. 36}
          /\ next = [q \in Scan(U) |-> Tokens!Behind(U, q)]
          /\ out = [q \in Scan(U) |-> IF ~Tokens!HasBase(U, q)
                                        THEN [q EXCEPT !.at = Tokens!IntegerEnd(U, q)]
                                        ELSE Tokens!NoBase(U, q)]
    OBVIOUS
  <1>3. ASSUME NEW f PROVE IntegerLoop(f, U) <=> Loops(Scan(U), stop, next, out, f)
    <2>1. ASSUME NEW q \in Scan(U)
          PROVE  (IF ~Tokens!HasBase(U, q) THEN [q EXCEPT !.at = Tokens!IntegerEnd(U, q)]
                  ELSE IF Tokens!NewBase(U, q) \notin 2 .. 36 THEN Tokens!NoBase(U, q)
                  ELSE f[Tokens!Behind(U, q)])
                 = (IF q \in stop THEN out[q] ELSE f[next[q]])
      BY <1>2
    <2>2. [q \in Scan(U) |->
             IF ~Tokens!HasBase(U, q) THEN [q EXCEPT !.at = Tokens!IntegerEnd(U, q)]
             ELSE IF Tokens!NewBase(U, q) \notin 2 .. 36 THEN Tokens!NoBase(U, q)
             ELSE f[Tokens!Behind(U, q)]]
          = [q \in Scan(U) |-> IF q \in stop THEN out[q] ELSE f[next[q]]]
      BY <2>1
    <2>3. Scan(U) = [at : 1 .. Tokens!End(U), base : 0 .. 36, from : 1 .. Tokens!End(U)]
      BY <1>1 DEF Scan
    <2>4. QED  BY <2>2, <2>3 DEF IntegerLoop, Loops
  <1>4. PICK f : f = CHOOSE g : IntegerLoop(g, U)
    OBVIOUS
  <1>5. Loops(Scan(U), stop, next, out, f)
    <2>1. \A q \in Scan(U) \ stop : next[q] \in Scan(U)
      BY <1>2, BehindIs
    <2>2. PICK S : S = Scan(U)
      OBVIOUS
    <2>3. \E g : Loops(S, stop, next, out, g)
      BY <2>1, <2>2, LoopExists
    <2>4. \E g : IntegerLoop(g, U)
      BY <1>3, <2>2, <2>3
    <2>5. IntegerLoop(f, U)
      BY <1>4, <2>4
    <2>6. QED  BY <1>3, <2>5
  <1>6. \A q : Tokens!IntegerFrom(U, q) = f[q]
    BY <1>4 DEF Tokens!IntegerFrom, IntegerLoop
  <1>7. f[p] = IF p \in stop THEN out[p] ELSE f[next[p]]
    BY <1>5 DEF Loops
  <1>8. QED  BY <1>2, <1>6, <1>7

(* One step of the integer part.                                           *)
LEMMA IntegerStep ==
  ASSUME NEW U, IsText(U), NEW p \in Scan(U), Tokens!Char(U, p.at) \in RunOf(p.base)
  PROVE  /\ p.at <= Len(U) /\ [p EXCEPT !.at = p.at + 1] \in Scan(U)
         /\ Tokens!IntegerFrom(U, p) = Tokens!IntegerFrom(U, [p EXCEPT !.at = p.at + 1])
  <1>1. PICK q : q = [p EXCEPT !.at = p.at + 1]
    OBVIOUS
  <1>2. /\ p.at \in 1 .. Len(U) + 1 /\ p.base \in 0 .. 36 /\ p.from \in 1 .. Len(U) + 1
        /\ Tokens!IntegerEnd(U, p) = Tokens!RunEnd(U, p.at, RunOf(p.base))
    BY IntegerEndIs
  <1>3. PICK a, S : a = p.at /\ S = RunOf(p.base)
    OBVIOUS
  <1>4. EOF \notin S /\ a \in 1 .. Len(U) + 1 /\ Tokens!Char(U, a) \in S
    BY <1>2, <1>3, RunOfIs
  <1>5. a <= Len(U) /\ Tokens!RunEnd(U, a, S) = Tokens!RunEnd(U, a + 1, S)
    BY <1>4, RunEndStep
  <1>6. a + 1 \in 1 .. Len(U) + 1 /\ Len(U) \in Nat
    BY <1>4, <1>5, CharIs
  <1>7. q \in Scan(U) /\ q.at = a + 1 /\ q.base = p.base /\ q.from = p.from
    BY <1>1, <1>3, <1>6 DEF Scan
  <1>8. Tokens!IntegerEnd(U, q) = Tokens!IntegerEnd(U, p)
    BY <1>2, <1>3, <1>5, <1>7, IntegerEndIs
  <1>9. /\ Tokens!HasBase(U, q) <=> Tokens!HasBase(U, p)
        /\ Tokens!NewBase(U, q) = Tokens!NewBase(U, p)
        /\ Tokens!NoBase(U, q) = Tokens!NoBase(U, p)
    BY <1>7, <1>8 DEF Tokens!HasBase, Tokens!NewBase, Tokens!NoBase
  <1>10. Tokens!Behind(U, q) = Tokens!Behind(U, p)
    BY <1>8, <1>9 DEF Tokens!Behind
  <1>11. PICK e : e = Tokens!IntegerEnd(U, p)
    OBVIOUS
  <1>12. [q EXCEPT !.at = e] = [p EXCEPT !.at = e]
    BY <1>1 DEF Scan
  <1>13. Tokens!IntegerFrom(U, p) = Tokens!IntegerFrom(U, q)
    <2>1. CASE ~Tokens!HasBase(U, p)
      <3>1. Tokens!IntegerFrom(U, p) = [p EXCEPT !.at = e]
        BY <1>11, <2>1, IntegerIs
      <3>2. Tokens!IntegerFrom(U, q) = [q EXCEPT !.at = e]
        BY <1>7, <1>8, <1>9, <1>11, <2>1, IntegerIs
      <3>3. QED  BY <1>12, <3>1, <3>2
    <2>2. CASE Tokens!HasBase(U, p) /\ Tokens!NewBase(U, p) \notin 2 .. 36
      BY <1>7, <1>9, <2>2, IntegerIs
    <2>3. CASE Tokens!HasBase(U, p) /\ Tokens!NewBase(U, p) \in 2 .. 36
      BY <1>7, <1>9, <1>10, <2>3, IntegerIs
    <2>4. QED  BY <2>1, <2>2, <2>3
  <1>14. QED  BY <1>1, <1>3, <1>5, <1>7, <1>13

(* And the end of it.                                                      *)
LEMMA IntegerStops ==
  ASSUME NEW U, IsText(U), NEW p \in Scan(U), Tokens!Char(U, p.at) \notin RunOf(p.base)
  PROVE  /\ Tokens!IntegerEnd(U, p) = p.at
         /\ Tokens!HasBase(U, p) <=> p.base = 10 /\ Tokens!Char(U, p.at) = "#"
         /\ ~Tokens!HasBase(U, p) => Tokens!IntegerFrom(U, p) = p
  <1>1. /\ p.at \in 1 .. Len(U) + 1 /\ p.base \in 0 .. 36
        /\ Tokens!IntegerEnd(U, p) = Tokens!RunEnd(U, p.at, RunOf(p.base))
    BY IntegerEndIs
  <1>2. PICK a, S : a = p.at /\ S = RunOf(p.base)
    OBVIOUS
  <1>3. EOF \notin S /\ a \in 1 .. Len(U) + 1 /\ Tokens!Char(U, a) \notin S
    BY <1>1, <1>2, RunOfIs
  <1>4. Tokens!RunEnd(U, a, S) = a
    BY <1>3, RunEndStep
  <1>5. Tokens!IntegerEnd(U, p) = a
    BY <1>1, <1>2, <1>4
  <1>6. [p EXCEPT !.at = a] = p
    BY <1>2 DEF Scan
  <1>7. ~Tokens!HasBase(U, p) => Tokens!IntegerFrom(U, p) = p
    BY <1>5, <1>6, IntegerIs
  <1>8. QED  BY <1>2, <1>5, <1>7 DEF Tokens!HasBase

(* The characters of a number that n has taken: those of U from f on, or   *)
(* the end of the file, taken for a character when # is the last one.      *)
NumIs(U, n, f) ==
  \/ f \in 1 .. At(n.s) /\ n.num = Tokens!Chars(U, f, At(n.s))
  \/ f = Len(U) + 1 /\ At(n.s) = Len(U) + 1 /\ n.num = <<EOF>>

LEMMA NumTakes ==
  ASSUME IsText(text), NEW n, Synced(n.s), n.s.cur # EOF, NEW f, NEW U,
         Shows(U, n.s.pos), NumIs(U, n, f),
         NEW k, k.s = NextChar(n.s), k.num = Append(n.num, n.s.cur)
  PROVE  /\ NumIs(U, k, f) /\ At(k.s) = At(n.s) + 1
         /\ At(n.s) \in 1 .. Len(U) /\ f \in 1 .. Len(U) + 1
         /\ Tokens!Char(U, At(n.s)) = n.s.cur
  <1>1. PICK a, c : a = At(n.s) /\ c = n.s.cur
    OBVIOUS
  <1>2. /\ IsText(U) /\ Len(U) \in Nat /\ a \in 1 .. Len(U) + 1 /\ Tokens!Char(U, a) = c
        /\ a # Len(U) + 1
    BY <1>1, HereIs
  <1>3. a \in 1 .. Len(U)
    BY <1>2
  <1>4. f \in 1 .. a /\ n.num = Tokens!Chars(U, f, a)
    BY <1>1, <1>2 DEF NumIs
  <1>5. At(k.s) = a + 1
    <2>1. Onward(n.s, n.s)
      BY SyncedIs DEF IsText
    <2>2. QED  BY <1>1, <2>1, OnwardHere
  <1>6. f \in 1 .. Len(U) + 1 /\ a \in f .. Len(U)
    BY <1>2, <1>3, <1>4
  <1>7. Tokens!Chars(U, f, a + 1) = Append(Tokens!Chars(U, f, a), c)
    BY <1>2, <1>6, CharsIs
  <1>8. f \in 1 .. a + 1
    BY <1>3, <1>4
  <1>9. NumIs(U, k, f)
    BY <1>1, <1>4, <1>5, <1>7, <1>8 DEF NumIs
  <1>10. QED  BY <1>1, <1>2, <1>3, <1>5, <1>6, <1>9

ScanOf(n, f) == [at |-> At(n.s), base |-> n.base, from |-> f]

LEMMA ScanOfIs ==
  ASSUME IsText(text), NEW n, Synced(n.s), n.base \in 2 .. 36, NEW U, Shows(U, n.s.pos),
         NEW f, NumIs(U, n, f)
  PROVE  /\ IsText(U) /\ ScanOf(n, f) \in Scan(U)
         /\ ScanOf(n, f).at = At(n.s) /\ ScanOf(n, f).base = n.base /\ ScanOf(n, f).from = f
         /\ Tokens!Char(U, At(n.s)) = n.s.cur
         /\ n.s.cur \in RunOf(n.base) <=> HasInteger(n)
         /\ f \in 1 .. Len(U) + 1
  <1>1. /\ IsText(U) /\ Len(U) \in Nat /\ At(n.s) \in 1 .. Len(U) + 1
        /\ Tokens!Char(U, At(n.s)) = n.s.cur
    BY HereIs
  <1>2. f \in 1 .. Len(U) + 1 /\ n.base \in 0 .. 36
    BY <1>1 DEF NumIs
  <1>3. ScanOf(n, f) \in Scan(U)
    BY <1>1, <1>2 DEF ScanOf, Scan
  <1>4. n.s.cur \in RunOf(n.base) <=> HasInteger(n)
    <2>1. PICK b, c : b = n.base /\ c = n.s.cur
      OBVIOUS
    <2>2. b \in 0 .. 36
      BY <1>2, <2>1
    <2>3. c \in RunOf(b) <=> c \in DigitsOf(b) \/ (b # 10 /\ c = "#")
      BY <2>2, RunOfIs
    <2>4. QED  BY <2>1, <2>3 DEF HasInteger
  <1>5. QED  BY <1>1, <1>2, <1>3, <1>4 DEF ScanOf

(* The scan p0 leads to where n is.                                        *)
IntegerAgrees(U, p0, n) ==
  \E f : NumIs(U, n, f) /\ Tokens!IntegerFrom(U, p0) = Tokens!IntegerFrom(U, ScanOf(n, f))

LEMMA IntegerTakes ==
  ASSUME IsText(text), NEW n \in NumState, Synced(n.s), n.base \in 2 .. 36, HasInteger(n),
         NEW U, Shows(U, Taken(n).s.pos), NEW p0, Shows(U, n.s.pos) => IntegerAgrees(U, p0, n)
  PROVE  IntegerAgrees(U, p0, Taken(n))
  <1>1. PICK k : k = Taken(n)
    OBVIOUS
  <1>2. n.s.cur # EOF /\ text \in Seq(STRING)
    <2>1. "#" # EOF /\ n.base \in 0 .. 36
      BY DEF EOF
    <2>2. QED  BY <2>1, Characters DEF HasInteger, IsText
  <1>3. k.s = NextChar(n.s) /\ k.num = Append(n.num, n.s.cur) /\ k.base = n.base
    BY <1>1, <1>2, TakenIs
  <1>4. Shows(U, n.s.pos)
    <2>1. Onward(n.s, k.s)
      BY <1>2, <1>3, SyncedNext
    <2>2. QED  BY <1>1, <2>1, ShowsBack
  <1>5. PICK f : NumIs(U, n, f) /\ Tokens!IntegerFrom(U, p0) = Tokens!IntegerFrom(U, ScanOf(n, f))
    BY <1>4 DEF IntegerAgrees
  <1>6. NumIs(U, k, f) /\ At(k.s) = At(n.s) + 1
    BY <1>2, <1>3, <1>4, <1>5, NumTakes
  <1>7. PICK p : p = ScanOf(n, f)
    OBVIOUS
  <1>8. /\ IsText(U) /\ p \in Scan(U) /\ p.at = At(n.s) /\ p.base = n.base
        /\ Tokens!Char(U, p.at) \in RunOf(p.base)
    <2>1. /\ IsText(U) /\ ScanOf(n, f) \in Scan(U)
          /\ ScanOf(n, f).at = At(n.s) /\ ScanOf(n, f).base = n.base
          /\ Tokens!Char(U, At(n.s)) = n.s.cur /\ n.s.cur \in RunOf(n.base)
      BY <1>4, <1>5, ScanOfIs
    <2>2. QED  BY <1>7, <2>1
  <1>9. Tokens!IntegerFrom(U, p) = Tokens!IntegerFrom(U, [p EXCEPT !.at = p.at + 1])
    BY <1>8, IntegerStep
  <1>10. [p EXCEPT !.at = p.at + 1] = ScanOf(k, f)
    BY <1>3, <1>6, <1>7, <1>8 DEF ScanOf
  <1>11. QED  BY <1>1, <1>5, <1>6, <1>7, <1>9, <1>10 DEF IntegerAgrees

(* A # behind the digits of a base.                                        *)
LEMMA BaseEnds ==
  ASSUME IsText(text), NEW n \in NumState, Synced(n.s), IsBased(n), NEW U,
         NEW f, NumIs(U, n, f), Shows(U, n.s.pos)
  PROVE  /\ At(n.s) \in 1 .. Len(U) /\ f \in 1 .. Len(U) + 1 /\ IsText(U)
         /\ Tokens!IntegerEnd(U, ScanOf(n, f)) = At(n.s) /\ ScanOf(n, f) \in Scan(U)
         /\ Tokens!HasBase(U, ScanOf(n, f)) /\ Tokens!NewBase(U, ScanOf(n, f)) = BaseOf(n.num)
  <1>1. n.base = 10 /\ n.s.cur = "#" /\ n.s.cur # EOF
    BY DEF IsBased, EOF
  <1>2. PICK p : p = ScanOf(n, f)
    OBVIOUS
  <1>3. /\ IsText(U) /\ p \in Scan(U) /\ p.at = At(n.s) /\ p.base = n.base /\ p.from = f
        /\ Tokens!Char(U, p.at) = n.s.cur /\ f \in 1 .. Len(U) + 1
    <2>1. n.base \in 2 .. 36
      BY <1>1
    <2>2. /\ IsText(U) /\ ScanOf(n, f) \in Scan(U) /\ ScanOf(n, f).from = f
          /\ ScanOf(n, f).at = At(n.s) /\ ScanOf(n, f).base = n.base
          /\ Tokens!Char(U, At(n.s)) = n.s.cur /\ f \in 1 .. Len(U) + 1
      BY <2>1, ScanOfIs
    <2>3. QED  BY <1>2, <2>2
  <1>4. "#" \notin RunOf(10)
    <2>1. 10 \in 0 .. 36
      OBVIOUS
    <2>2. QED  BY <2>1, RunOfIs
  <1>5. Tokens!IntegerEnd(U, p) = p.at /\ Tokens!HasBase(U, p)
    BY <1>1, <1>3, <1>4, IntegerStops
  <1>6. At(n.s) \in 1 .. Len(U)
    <2>1. Len(U) \in Nat /\ At(n.s) \in 1 .. Len(U) + 1 /\ At(n.s) # Len(U) + 1
      BY <1>1, HereIs
    <2>2. QED  BY <2>1
  <1>7. n.num = Tokens!Chars(U, f, At(n.s))
    BY <1>6 DEF NumIs
  <1>8. Tokens!NewBase(U, p) = BaseOf(n.num)
    BY <1>3, <1>5, <1>7, SameConversions DEF Tokens!NewBase
  <1>9. QED  BY <1>2, <1>3, <1>5, <1>6, <1>8

LEMMA IntegerRebased ==
  ASSUME IsText(text), NEW n \in NumState, Synced(n.s), IsBased(n), Based(n).base # 0,
         NEW U, Shows(U, Rebased(n).s.pos), NEW p0, Shows(U, n.s.pos) => IntegerAgrees(U, p0, n)
  PROVE  IntegerAgrees(U, p0, Rebased(n))
  <1>1. PICK b, r, a : b = Based(n) /\ r = Rebased(n) /\ a = At(n.s)
    OBVIOUS
  <1>2. text \in Seq(STRING) /\ n.s.cur # EOF
    BY DEF IsText, IsBased, EOF
  <1>3. /\ b \in NumState /\ b.base \in 2 .. 36 /\ b.base = BaseOf(n.num)
        /\ Onward(n.s, b.s) /\ At(b.s) = a + 1 /\ Synced(b.s)
    BY <1>1, <1>2, BasedIs DEF Onward
  <1>4. r.s = NextChar(b.s) /\ r.num = Append(<<>>, b.s.cur) /\ r.base = b.base
    BY <1>1, <1>2, RebasedIs
  <1>5. Shows(U, b.s.pos) /\ Shows(U, n.s.pos)
    <2>1. Onward(b.s, r.s)
      BY <1>2, <1>3, <1>4, SyncedNext
    <2>2. Shows(U, b.s.pos)
      BY <1>1, <1>3, <2>1, ShowsBack
    <2>3. QED  BY <1>3, <2>2, ShowsBack
  <1>6. PICK f : NumIs(U, n, f) /\ Tokens!IntegerFrom(U, p0) = Tokens!IntegerFrom(U, ScanOf(n, f))
    BY <1>5 DEF IntegerAgrees
  <1>7. PICK p : p = ScanOf(n, f)
    OBVIOUS
  <1>8. /\ a \in 1 .. Len(U) /\ Tokens!IntegerEnd(U, p) = a /\ p \in Scan(U) /\ IsText(U)
        /\ Tokens!HasBase(U, p) /\ Tokens!NewBase(U, p) = b.base
    BY <1>1, <1>3, <1>5, <1>6, <1>7, BaseEnds
  <1>9. Tokens!IntegerFrom(U, p) = Tokens!IntegerFrom(U, Tokens!Behind(U, p))
    BY <1>3, <1>8, IntegerIs
  <1>10. PICK c, h : c = b.s.cur /\ h = a + 1
    OBVIOUS
  <1>11. /\ Len(U) \in Nat /\ h \in 1 .. Len(U) + 1 /\ Tokens!Char(U, h) = c
         /\ c = EOF <=> h = Len(U) + 1
         /\ Tokens!End(U) = Len(U) + 1
    BY <1>3, <1>5, <1>8, <1>10, HereIs, CharIs
  <1>12. NumIs(U, r, h) /\ At(r.s) = Tokens!After(U, h)
    <2>1. CASE c = EOF
      <3>1. h = Len(text) + 1 /\ h = Len(U) + 1
        BY <1>3, <1>5, <1>10, <1>11, <2>1, HereIs
      <3>2. At(r.s) = h
        <4>1. At(b.s) > Len(text)
          BY <1>2, <1>3, <1>10, <3>1
        <4>2. At(NextChar(b.s)) = At(b.s)
          BY <1>2, <1>3, <4>1, SyncedNext
        <4>3. QED  BY <1>3, <1>4, <1>10, <4>2
      <3>3. r.num = <<EOF>>
        BY <1>4, <1>10, <2>1
      <3>4. Tokens!After(U, h) = h
        BY <1>11, <3>1 DEF Tokens!After
      <3>5. QED  BY <3>1, <3>2, <3>3, <3>4 DEF NumIs
    <2>2. CASE c # EOF
      <3>1. At(r.s) = h + 1
        <4>1. Onward(b.s, b.s) /\ b.s.cur # EOF
          BY <1>2, <1>3, <1>10, <2>2, SyncedIs
        <4>2. At(NextChar(b.s)) = At(b.s) + 1
          BY <1>3, <4>1, OnwardHere
        <4>3. QED  BY <1>3, <1>4, <1>10, <4>2
      <3>2. h \in h .. Len(U) /\ h \in 1 .. Len(U) + 1 /\ h \in 1 .. h + 1
        BY <1>11, <2>2
      <3>3. Tokens!Chars(U, h, h) = <<>> /\
            Tokens!Chars(U, h, h + 1) = Append(Tokens!Chars(U, h, h), Tokens!Char(U, h))
        BY <1>8, <3>2, CharsIs
      <3>4. r.num = Tokens!Chars(U, h, h + 1)
        BY <1>4, <1>10, <1>11, <3>3
      <3>5. Tokens!After(U, h) = h + 1
        BY <1>11, <3>2 DEF Tokens!After
      <3>6. QED  BY <3>1, <3>2, <3>4, <3>5 DEF NumIs
    <2>3. QED  BY <2>1, <2>2
  <1>13. Tokens!After(U, a) = h
    BY <1>8, <1>10, <1>11 DEF Tokens!After
  <1>14. Tokens!Behind(U, p) = ScanOf(r, h)
    BY <1>4, <1>8, <1>10, <1>12, <1>13 DEF Tokens!Behind, ScanOf
  <1>15. QED  BY <1>1, <1>6, <1>7, <1>9, <1>12, <1>14 DEF IntegerAgrees

(* Where the integer part of a number ends.                                *)
IntegerEndsAt(U, p0, k, errno) ==
  \/ /\ k.base = 0
     /\ \E f : Tokens!IntegerFrom(U, p0) = [at |-> At(k.s), base |-> 0, from |-> f]
  \/ /\ k.base \in 2 .. 36 /\ k.s.errno = errno
     /\ \E f : NumIs(U, k, f) /\ Tokens!IntegerFrom(U, p0) = ScanOf(k, f)

LEMMA IntpartEndsAt ==
  ASSUME IsText(text), NEW s0, Synced(s0), NEW n0 \in NumState, Onward(s0, n0.s),
         n0.base \in 2 .. 36, n0.isFloat = FALSE, n0.state = "Intpart", NEW U,
         NEW p0, Shows(U, n0.s.pos) => IntegerAgrees(U, p0, n0)
  PROVE  /\ Intpart[n0] \in NumState /\ Onward(s0, Intpart[n0].s)
         /\ Intpart[n0].isFloat = FALSE /\ Intpart[n0].state = "Intpart"
         /\ Intpart[n0].s.errno \in {n0.s.errno, "ERANGE"}
         /\ Shows(U, Intpart[n0].s.pos) => IntegerEndsAt(U, p0, Intpart[n0], n0.s.errno)
  <1>1. PICK P : P = {n \in NumState :
                        /\ Onward(s0, n.s) /\ n.base \in 2 .. 36
                        /\ n.isFloat = FALSE /\ n.state = "Intpart" /\ n.s.errno = n0.s.errno
                        /\ Shows(U, n.s.pos) => IntegerAgrees(U, p0, n)}
    OBVIOUS
  <1>2. text \in Seq(STRING) /\ "#" # EOF
    BY DEF IsText, EOF
  <1>3. ASSUME NEW n \in P
        PROVE  /\ n \in NumState /\ Onward(s0, n.s) /\ Synced(n.s) /\ n.base \in 2 .. 36
               /\ n.base \in 0 .. 36
               /\ n.isFloat = FALSE /\ n.state = "Intpart" /\ n.s.errno = n0.s.errno
               /\ Shows(U, n.s.pos) => IntegerAgrees(U, p0, n)
               /\ IsBased(n) \/ HasInteger(n) => n.s.cur # EOF
    <2>1. /\ n \in NumState /\ Onward(s0, n.s) /\ Synced(n.s) /\ n.base \in 2 .. 36
          /\ n.isFloat = FALSE /\ n.state = "Intpart" /\ n.s.errno = n0.s.errno
          /\ Shows(U, n.s.pos) => IntegerAgrees(U, p0, n)
      BY <1>1 DEF Onward
    <2>2. n.base \in 0 .. 36
      BY <2>1
    <2>3. IsBased(n) \/ HasInteger(n) => n.s.cur # EOF
      BY <1>2, <2>2, Characters DEF IsBased, HasInteger
    <2>4. QED  BY <2>1, <2>2, <2>3
  <1>4. ASSUME NEW n \in P, HasInteger(n) PROVE Taken(n) \in P
    <2>1. PICK k : k = Taken(n)
      OBVIOUS
    <2>2. /\ k \in NumState /\ k.s = NextChar(n.s) /\ k.base = n.base
          /\ k.isFloat = n.isFloat /\ k.state = n.state
      BY <1>2, <1>3, <2>1, TakenIs
    <2>3. Onward(s0, k.s) /\ k.s.errno = n.s.errno
      BY <1>3, <1>4, <2>2, OnwardHere
    <2>4. Shows(U, k.s.pos) => IntegerAgrees(U, p0, k)
      BY <1>3, <1>4, <2>1, IntegerTakes
    <2>5. QED  BY <1>1, <1>3, <2>1, <2>2, <2>3, <2>4
  <1>5. ASSUME NEW n \in P, IsBased(n)
        PROVE  /\ Based(n) \in NumState /\ Onward(s0, Based(n).s) /\ At(Based(n).s) = At(n.s) + 1
               /\ Onward(n.s, Based(n).s)
               /\ Based(n).base \in {0} \cup 2 .. 36
               /\ Based(n).base # 0 => Based(n).s.errno = n0.s.errno
               /\ Based(n).s.errno \in {n0.s.errno, "ERANGE"}
               /\ Based(n).isFloat = FALSE /\ Based(n).state = "Intpart"
               /\ Based(n).base = IF BaseOf(n.num) \in 2 .. 36 THEN BaseOf(n.num) ELSE 0
    <2>1. PICK b, u : b = Based(n) /\ u = NextChar(n.s)
      OBVIOUS
    <2>2. /\ b \in NumState /\ b.base \in {0} \cup 2 .. 36
          /\ b.isFloat = n.isFloat /\ b.state = n.state
          /\ b.base # 0 => b.s = u
          /\ b.s.errno \in {u.errno, "ERANGE"}
          /\ Onward(n.s, b.s) /\ At(b.s) = At(n.s) + 1
          /\ b.base = IF BaseOf(n.num) \in 2 .. 36 THEN BaseOf(n.num) ELSE 0
      BY <1>2, <1>3, <1>5, <2>1, BasedIs
    <2>3. u.errno = n0.s.errno
      BY <1>3, <1>5, <2>1, OnwardHere
    <2>4. Onward(s0, b.s)
      BY <1>2, <1>3, <2>2, OnwardTwice
    <2>5. QED  BY <1>3, <2>1, <2>2, <2>3, <2>4
  <1>6. ASSUME NEW n \in P, IsBased(n), Based(n).base # 0 PROVE Rebased(n) \in P
    <2>1. PICK b, k : b = Based(n) /\ k = Rebased(n)
      OBVIOUS
    <2>2. /\ b \in NumState /\ Onward(s0, b.s) /\ b.base \in 2 .. 36 /\ b.s.errno = n0.s.errno
          /\ Synced(b.s)
      BY <1>5, <1>6, <2>1 DEF Onward
    <2>3. /\ k \in NumState /\ k.s = NextChar(b.s) /\ k.base = b.base
          /\ k.isFloat = FALSE /\ k.state = "Intpart"
      BY <1>2, <1>3, <2>1, RebasedIs
    <2>4. Onward(s0, k.s) /\ k.s.errno = n0.s.errno
      <3>1. Onward(b.s, k.s) /\ k.s.errno = b.s.errno
        BY <1>2, <2>2, <2>3, SyncedNext
      <3>2. QED  BY <1>2, <2>2, <3>1, OnwardTwice
    <2>5. Shows(U, k.s.pos) => IntegerAgrees(U, p0, k)
      BY <1>3, <1>6, <2>1, IntegerRebased
    <2>6. QED  BY <1>1, <2>1, <2>2, <2>3, <2>4, <2>5
  <1>7. PICK n \in P : \/ IsBased(n) /\ Based(n).base = 0 /\ Intpart[n0] = Based(n)
                       \/ ~IsBased(n) /\ ~HasInteger(n) /\ Intpart[n0] = n
    <2>1. n0 \in P
      BY <1>1
    <2>2. P \subseteq NumState /\ \A n \in P : Onward(s0, n.s) /\ n.base \in 0 .. 36
      BY <1>3
    <2>3. /\ \A n \in P : IsBased(n) /\ Based(n).base # 0 => Rebased(n) \in P
          /\ \A n \in P : HasInteger(n) => Taken(n) \in P
      BY <1>4, <1>6
    <2>4. QED  BY <1>2, <2>1, <2>2, <2>3, IntpartEnds
  <1>8. CASE IsBased(n)
    <2>1. PICK b : b = Based(n)
      OBVIOUS
    <2>2. Intpart[n0] = b /\ b.base = 0
      BY <1>7, <1>8, <2>1
    <2>3. /\ b \in NumState /\ Onward(s0, b.s) /\ Onward(n.s, b.s) /\ At(b.s) = At(n.s) + 1
          /\ b.s.errno \in {n0.s.errno, "ERANGE"} /\ b.isFloat = FALSE /\ b.state = "Intpart"
      BY <1>5, <1>8, <2>1
    <2>4. BaseOf(n.num) \notin 2 .. 36
      <3>1. b.base = IF BaseOf(n.num) \in 2 .. 36 THEN BaseOf(n.num) ELSE 0
        BY <1>5, <1>8, <2>1
      <3>2. QED  BY <2>2, <3>1
    <2>5. ASSUME Shows(U, b.s.pos)
          PROVE  \E f : Tokens!IntegerFrom(U, p0) = [at |-> At(b.s), base |-> 0, from |-> f]
      <3>1. Shows(U, n.s.pos)
        BY <1>3, <2>3, <2>5, ShowsBack
      <3>2. PICK f : /\ NumIs(U, n, f)
                     /\ Tokens!IntegerFrom(U, p0) = Tokens!IntegerFrom(U, ScanOf(n, f))
        BY <1>3, <3>1 DEF IntegerAgrees
      <3>3. PICK p : p = ScanOf(n, f)
        OBVIOUS
      <3>4. /\ Tokens!IntegerEnd(U, p) = At(n.s) /\ p \in Scan(U) /\ IsText(U)
            /\ Tokens!HasBase(U, p) /\ Tokens!NewBase(U, p) = BaseOf(n.num)
        BY <1>3, <1>8, <3>1, <3>2, <3>3, BaseEnds
      <3>5. Tokens!IntegerFrom(U, p) = Tokens!NoBase(U, p)
        BY <2>4, <3>4, IntegerIs
      <3>6. QED  BY <2>3, <3>2, <3>3, <3>4, <3>5 DEF Tokens!NoBase
    <2>6. QED  BY <2>2, <2>3, <2>5 DEF IntegerEndsAt
  <1>9. CASE ~IsBased(n)
    <2>1. Intpart[n0] = n /\ ~HasInteger(n)
      BY <1>7, <1>9
    <2>2. ASSUME Shows(U, n.s.pos)
          PROVE  \E f : NumIs(U, n, f) /\ Tokens!IntegerFrom(U, p0) = ScanOf(n, f)
      <3>1. PICK f : /\ NumIs(U, n, f)
                     /\ Tokens!IntegerFrom(U, p0) = Tokens!IntegerFrom(U, ScanOf(n, f))
        BY <1>3, <2>2 DEF IntegerAgrees
      <3>2. PICK p : p = ScanOf(n, f)
        OBVIOUS
      <3>3. /\ IsText(U) /\ p \in Scan(U) /\ Tokens!Char(U, p.at) \notin RunOf(p.base)
            /\ p.base = n.base /\ Tokens!Char(U, p.at) = n.s.cur
        <4>1. /\ IsText(U) /\ ScanOf(n, f) \in Scan(U)
              /\ ScanOf(n, f).at = At(n.s) /\ ScanOf(n, f).base = n.base
              /\ Tokens!Char(U, At(n.s)) = n.s.cur /\ n.s.cur \notin RunOf(n.base)
          <5>1. Synced(n.s) /\ n.base \in 2 .. 36
            BY <1>3
          <5>2. n.s.cur \in RunOf(n.base) <=> HasInteger(n)
            BY <2>2, <3>1, <5>1, ScanOfIs
          <5>3. /\ IsText(U) /\ ScanOf(n, f) \in Scan(U)
                /\ Tokens!Char(U, At(n.s)) = n.s.cur
            BY <2>2, <3>1, <5>1, ScanOfIs
          <5>4. ScanOf(n, f).at = At(n.s) /\ ScanOf(n, f).base = n.base
            BY DEF ScanOf
          <5>5. QED  BY <2>1, <5>2, <5>3, <5>4
        <4>2. QED  BY <3>2, <4>1
      <3>4. ~Tokens!HasBase(U, p)
        BY <1>9, <3>3, IntegerStops DEF IsBased
      <3>5. Tokens!IntegerFrom(U, p) = p
        BY <3>3, <3>4, IntegerStops
      <3>6. QED  BY <3>1, <3>2, <3>5
    <2>3. QED  BY <1>3, <2>1, <2>2 DEF IntegerEndsAt
  <1>10. QED  BY <1>8, <1>9

-----------------------------------------------------------------------------
(* Fractions and exponents.                                                *)

(* k is n with more of its digits taken, and nothing else.                 *)
Takes(n, k) ==
  /\ k \in NumState /\ k.base = n.base /\ k.state = n.state /\ k.s.errno = n.s.errno
  /\ Onward(n.s, k.s)

LEMMA TakesTwice ==
  ASSUME text \in Seq(STRING), NEW n, Synced(n.s), NEW k, Takes(n, k), NEW l, Takes(k, l)
  PROVE  Takes(n, l)
  <1>1. Onward(n.s, l.s)
    BY OnwardTwice DEF Takes
  <1>2. QED  BY <1>1 DEF Takes

LEMMA DigitsEndAt ==
  ASSUME IsText(text), NEW n0 \in NumState, Synced(n0.s), NEW U, NEW f,
         Shows(U, n0.s.pos) => NumIs(U, n0, f)
  PROVE  /\ Takes(n0, Digits[n0]) /\ Digits[n0].isFloat = n0.isFloat
         /\ Shows(U, Digits[n0].s.pos) =>
              /\ NumIs(U, Digits[n0], f)
              /\ At(Digits[n0].s) = Tokens!RunEnd(U, At(n0.s), Digit)
  <1>1. PICK i, P : /\ i = At(n0.s)
                    /\ P = {n \in NumState :
                              /\ Takes(n0, n) /\ n.isFloat = n0.isFloat
                              /\ Shows(U, n.s.pos) =>
                                   /\ NumIs(U, n, f)
                                   /\ Tokens!RunEnd(U, i, Digit) = Tokens!RunEnd(U, At(n.s), Digit)}
    OBVIOUS
  <1>2. text \in Seq(STRING) /\ EOF \notin Digit
    BY Characters DEF IsText
  <1>3. ASSUME NEW n \in P
        PROVE  /\ n \in NumState /\ Takes(n0, n) /\ n.isFloat = n0.isFloat
               /\ Onward(n0.s, n.s) /\ Synced(n.s)
               /\ Shows(U, n.s.pos) =>
                    /\ NumIs(U, n, f)
                    /\ Tokens!RunEnd(U, i, Digit) = Tokens!RunEnd(U, At(n.s), Digit)
    BY <1>1 DEF Takes, Onward
  <1>4. n0 \in P
    <2>1. Takes(n0, n0)
      BY <1>2, SyncedIs DEF Takes
    <2>2. QED  BY <1>1, <2>1
  <1>5. ASSUME NEW n \in P, n.s.cur \in Digit PROVE Taken(n) \in P
    <2>1. PICK k : k = Taken(n)
      OBVIOUS
    <2>2. /\ k \in NumState /\ k.s = NextChar(n.s) /\ k.num = Append(n.num, n.s.cur)
          /\ k.base = n.base /\ k.state = n.state /\ k.isFloat = n.isFloat
      BY <1>2, <1>3, <2>1, TakenIs
    <2>3. n.s.cur # EOF
      BY <1>2, <1>5
    <2>4. Onward(n0.s, k.s) /\ Onward(n.s, k.s) /\ k.s.errno = n.s.errno /\ At(k.s) = At(n.s) + 1
      BY <1>3, <2>2, <2>3, OnwardHere
    <2>5. Takes(n0, k)
      BY <1>3, <2>2, <2>4 DEF Takes
    <2>6. ASSUME Shows(U, k.s.pos)
          PROVE  /\ NumIs(U, k, f)
                 /\ Tokens!RunEnd(U, i, Digit) = Tokens!RunEnd(U, At(k.s), Digit)
      <3>1. Shows(U, n.s.pos)
        BY <1>3, <2>4, <2>6, ShowsBack
      <3>2. NumIs(U, k, f)
        BY <1>3, <2>2, <2>3, <3>1, NumTakes
      <3>3. /\ IsText(U) /\ At(n.s) \in 1 .. Len(U) + 1 /\ Tokens!Char(U, At(n.s)) = n.s.cur
        BY <1>3, <3>1, HereIs
      <3>4. Tokens!RunEnd(U, At(n.s), Digit) = Tokens!RunEnd(U, At(n.s) + 1, Digit)
        BY <1>2, <1>5, <3>3, RunEndStep
      <3>5. QED  BY <1>3, <2>4, <3>1, <3>2, <3>4
    <2>7. QED  BY <1>1, <1>3, <2>1, <2>2, <2>5, <2>6
  <1>6. PICK n \in P : n.s.cur \notin Digit /\ Digits[n0] = n
    <2>1. P \subseteq NumState
      BY <1>3
    <2>2. QED  BY <1>2, <1>4, <1>5, <2>1, DigitsEnds
  <1>7. ASSUME Shows(U, n.s.pos) PROVE At(n.s) = Tokens!RunEnd(U, i, Digit)
    <2>1. IsText(U) /\ At(n.s) \in 1 .. Len(U) + 1 /\ Tokens!Char(U, At(n.s)) \notin Digit
      BY <1>3, <1>6, <1>7, HereIs
    <2>2. Tokens!RunEnd(U, At(n.s), Digit) = At(n.s)
      BY <1>2, <2>1, RunEndStep
    <2>3. QED  BY <1>3, <1>7, <2>2
  <1>8. QED  BY <1>1, <1>3, <1>6, <1>7

(* A point or the letter of an exponent is taken.                          *)
LEMMA FloatTakes ==
  ASSUME IsText(text), NEW n \in NumState, Synced(n.s), n.s.cur # EOF, NEW U, NEW f,
         Shows(U, n.s.pos) => NumIs(U, n, f),
         NEW k, k = [Taken(n) EXCEPT !.isFloat = TRUE]
  PROVE  /\ Takes(n, k) /\ k.isFloat = TRUE /\ At(k.s) = At(n.s) + 1
         /\ k.num = Append(n.num, n.s.cur) /\ k.s = NextChar(n.s)
         /\ Shows(U, k.s.pos) => NumIs(U, k, f)
  <1>1. text \in Seq(STRING) /\ Onward(n.s, n.s)
    BY SyncedIs DEF IsText
  <1>2. /\ k \in NumState /\ k.base = n.base /\ k.state = n.state /\ k.isFloat = TRUE
        /\ k.s = NextChar(n.s) /\ k.num = Append(n.num, n.s.cur)
    BY <1>1, FloatIs DEF NumLeads
  <1>3. Onward(n.s, k.s) /\ At(k.s) = At(n.s) + 1 /\ k.s.errno = n.s.errno
    BY <1>1, <1>2, OnwardHere
  <1>4. Shows(U, k.s.pos) => NumIs(U, k, f)
    <2>1. Shows(U, k.s.pos) => Shows(U, n.s.pos)
      BY <1>3, ShowsBack
    <2>2. QED  BY <1>2, <2>1, NumTakes
  <1>5. QED  BY <1>2, <1>3, <1>4 DEF Takes

LEMMA FractionEndsAt ==
  ASSUME IsText(text), NEW n \in NumState, Synced(n.s), HasFraction(n), NEW U, NEW f,
         Shows(U, n.s.pos) => NumIs(U, n, f), NEW k, k = Fraction(AtPoint(n))
  PROVE  /\ k \in NumState /\ k.base = n.base /\ k.state = "Fraction" /\ k.s.errno = n.s.errno
         /\ Onward(n.s, k.s)
         /\ Shows(U, k.s.pos) => NumIs(U, k, f)
         /\ Shows(U, k.s.pos) /\ Tokens!Char(U, At(n.s) + 1) \in {".", ")"} =>
              At(k.s) = At(n.s) /\ k.isFloat = n.isFloat
         /\ Shows(U, k.s.pos) /\ Tokens!Char(U, At(n.s) + 1) \notin {".", ")"} =>
              /\ At(k.s) = Tokens!FractionEnd(U, At(n.s)) /\ k.isFloat = TRUE
              /\ At(k.s) > At(n.s)
  <1>1. PICK p : p = AtPoint(n)
    OBVIOUS
  <1>2. text \in Seq(STRING) /\ Onward(n.s, n.s) /\ n.s.cur = "." /\ n.s.cur # EOF
    BY SyncedIs, PointOrLetter DEF IsText, HasFraction
  <1>3. /\ p \in NumState /\ p.s = PeekChar(n.s) /\ p.state = "Fraction" /\ p.num = n.num
        /\ p.base = n.base /\ p.isFloat = n.isFloat
    BY <1>1, <1>2, PartIs
  <1>4. /\ Onward(n.s, p.s) /\ p.s.cur = n.s.cur /\ At(p.s) = At(n.s) /\ p.s.valid = 2
        /\ p.s.errno = n.s.errno /\ Synced(p.s)
    BY <1>2, <1>3, OnwardHere DEF Onward
  <1>5. Shows(U, p.s.pos) => /\ NumIs(U, p, f) /\ Tokens!Char(U, At(n.s) + 1) = p.s.next
    <2>1. ASSUME Shows(U, p.s.pos) PROVE NumIs(U, n, f)
      BY <1>4, <2>1, ShowsBack
    <2>2. ASSUME Shows(U, p.s.pos) PROVE NumIs(U, p, f)
      BY <1>3, <1>4, <2>1, <2>2 DEF NumIs
    <2>3. ASSUME Shows(U, p.s.pos) PROVE Tokens!Char(U, At(n.s) + 1) = p.s.next
      BY <1>4, <2>3, HereIs
    <2>4. QED  BY <2>2, <2>3
  <1>6. CASE p.s.next \in {".", ")"}
    <2>1. k = p
      BY <1>1, <1>6 DEF Fraction
    <2>2. QED  BY <1>3, <1>4, <1>5, <1>6, <2>1
  <1>7. CASE p.s.next \notin {".", ")"}
    <2>1. PICK l, d : l = [Taken(p) EXCEPT !.isFloat = TRUE] /\ d = Digits[l]
      OBVIOUS
    <2>2. k = d
      BY <1>1, <1>7, <2>1 DEF Fraction
    <2>3. /\ Takes(p, l) /\ l.isFloat = TRUE /\ At(l.s) = At(n.s) + 1
          /\ Shows(U, l.s.pos) => NumIs(U, l, f)
      BY <1>2, <1>3, <1>4, <1>5, <2>1, FloatTakes
    <2>4. l \in NumState /\ Synced(l.s)
      BY <2>3 DEF Takes, Onward
    <2>5. /\ Takes(l, d) /\ d.isFloat = l.isFloat
          /\ Shows(U, d.s.pos) => /\ NumIs(U, d, f)
                                  /\ At(d.s) = Tokens!RunEnd(U, At(l.s), Digit)
      BY <2>1, <2>3, <2>4, DigitsEndAt
    <2>6. Takes(p, d)
      BY <1>2, <1>4, <2>3, <2>5, TakesTwice
    <2>7. Onward(n.s, d.s)
      BY <1>2, <1>4, <2>6, OnwardTwice DEF Takes
    <2>8. ASSUME Shows(U, d.s.pos)
          PROVE  At(d.s) = Tokens!FractionEnd(U, At(n.s)) /\ Tokens!Char(U, At(n.s) + 1) = p.s.next
      <3>1. Shows(U, p.s.pos)
        BY <1>4, <2>6, <2>8, ShowsBack DEF Takes
      <3>2. QED  BY <1>5, <2>3, <2>5, <2>8, <3>1, SameDigits DEF Tokens!FractionEnd
    <2>9. At(d.s) > At(n.s)
      <3>1. At(d.s) >= At(l.s) /\ At(d.s) \in Nat /\ At(n.s) \in Nat
        BY <1>2, <2>5, SyncedIs DEF Takes, Onward
      <3>2. QED  BY <2>3, <3>1
    <2>10. QED  BY <1>3, <1>4, <1>7, <2>2, <2>3, <2>5, <2>6, <2>7, <2>8, <2>9 DEF Takes
  <1>8. QED  BY <1>6, <1>7

LEMMA ExponentEndsAt ==
  ASSUME IsText(text), NEW n \in NumState, Synced(n.s), HasExponent(n), NEW U, NEW f,
         Shows(U, n.s.pos) => NumIs(U, n, f), NEW k, k = Exponent(AtLetter(n))
  PROVE  /\ k \in NumState /\ k.base = n.base /\ k.state = "Exponent" /\ k.s.errno = n.s.errno
         /\ Onward(n.s, k.s) /\ k.isFloat = TRUE /\ At(k.s) > At(n.s)
         /\ Shows(U, k.s.pos) => NumIs(U, k, f) /\ At(k.s) = Tokens!ExponentEnd(U, At(n.s))
  <1>1. PICK p, l, g, d : /\ p = AtLetter(n) /\ l = [Taken(p) EXCEPT !.isFloat = TRUE]
                          /\ g = Signed(l) /\ d = Digits[g]
    OBVIOUS
  <1>2. k = d
    BY <1>1 DEF Exponent
  <1>3. /\ p \in NumState /\ p.s = n.s /\ p.state = "Exponent" /\ p.num = n.num /\ p.base = n.base
    BY <1>1, PartIs DEF IsText
  <1>4. n.s.cur # EOF /\ text \in Seq(STRING) /\ EOF \notin Sign
    <2>1. EOF \notin Sign
      BY Zenon DEF EOF, Sign
    <2>2. QED  BY <2>1, PointOrLetter DEF IsText
  <1>5. Shows(U, p.s.pos) => NumIs(U, p, f)
    BY <1>3 DEF NumIs
  <1>6. /\ Takes(p, l) /\ l.isFloat = TRUE /\ At(l.s) = At(n.s) + 1
        /\ Shows(U, l.s.pos) => NumIs(U, l, f)
    <2>1. p \in NumState /\ Synced(p.s) /\ p.s.cur # EOF /\ At(p.s) = At(n.s)
      BY <1>3, <1>4
    <2>2. l = [Taken(p) EXCEPT !.isFloat = TRUE]
      BY <1>1
    <2>3. /\ Takes(p, l) /\ l.isFloat = TRUE /\ At(l.s) = At(p.s) + 1
          /\ Shows(U, l.s.pos) => NumIs(U, l, f)
      BY <1>5, <2>1, <2>2, FloatTakes
    <2>4. QED  BY <2>1, <2>3
  <1>7. l \in NumState /\ Synced(l.s) /\ Onward(l.s, l.s)
    BY <1>4, <1>6, SyncedIs DEF Takes, Onward
  <1>8. /\ Takes(l, g) /\ g.isFloat = TRUE
        /\ Shows(U, g.s.pos) =>
             /\ NumIs(U, g, f)
             /\ At(g.s) = IF Tokens!Char(U, At(l.s)) \in Sign THEN At(l.s) + 1 ELSE At(l.s)
    <2>1. CASE l.s.cur \in Sign
      <3>1. g = Taken(l) /\ l.s.cur # EOF
        BY <1>1, <1>4, <2>1 DEF Signed
      <3>2. /\ g \in NumState /\ g.s = NextChar(l.s) /\ g.num = Append(l.num, l.s.cur)
            /\ g.base = l.base /\ g.state = l.state /\ g.isFloat = l.isFloat
        BY <1>4, <1>7, <3>1, TakenIs
      <3>3. Onward(l.s, g.s) /\ At(g.s) = At(l.s) + 1 /\ g.s.errno = l.s.errno
        BY <1>7, <3>1, <3>2, OnwardHere
      <3>4. Takes(l, g)
        BY <3>2, <3>3 DEF Takes
      <3>5. ASSUME Shows(U, g.s.pos)
            PROVE  NumIs(U, g, f) /\ Tokens!Char(U, At(l.s)) = l.s.cur
        <4>1. Shows(U, l.s.pos)
          BY <1>7, <3>3, <3>5, ShowsBack
        <4>2. QED  BY <1>6, <1>7, <3>1, <3>2, <4>1, NumTakes
      <3>6. QED  BY <1>6, <2>1, <3>2, <3>3, <3>4, <3>5
    <2>2. CASE l.s.cur \notin Sign
      <3>1. g = l
        BY <1>1, <2>2 DEF Signed
      <3>2. Takes(l, l)
        BY <1>7 DEF Takes
      <3>3. Shows(U, l.s.pos) => Tokens!Char(U, At(l.s)) = l.s.cur
        BY <1>7, HereIs
      <3>4. QED  BY <1>6, <2>2, <3>1, <3>2, <3>3
    <2>3. QED  BY <2>1, <2>2
  <1>9. g \in NumState /\ Synced(g.s)
    BY <1>8 DEF Takes, Onward
  <1>10. /\ Takes(g, d) /\ d.isFloat = g.isFloat
         /\ Shows(U, d.s.pos) => /\ NumIs(U, d, f) /\ At(d.s) = Tokens!RunEnd(U, At(g.s), Digit)
    BY <1>1, <1>8, <1>9, DigitsEndAt
  <1>11. Takes(l, d) /\ Takes(p, d)
    <2>1. Takes(l, d)
      BY <1>4, <1>7, <1>8, <1>10, TakesTwice
    <2>2. Synced(p.s)
      BY <1>3
    <2>3. QED  BY <1>4, <1>6, <2>1, <2>2, TakesTwice
  <1>12. ASSUME Shows(U, d.s.pos)
         PROVE  NumIs(U, d, f) /\ At(d.s) = Tokens!ExponentEnd(U, At(n.s))
    <2>1. Shows(U, g.s.pos)
      BY <1>9, <1>10, <1>12, ShowsBack DEF Takes
    <2>2. PICK a : a = At(n.s)
      OBVIOUS
    <2>3. /\ At(l.s) = a + 1
          /\ At(g.s) = IF Tokens!Char(U, a + 1) \in Sign THEN a + 1 + 1 ELSE a + 1
      BY <1>6, <1>8, <2>1, <2>2
    <2>4. a + 1 + 1 = a + 2
      BY <2>2, SyncedIs DEF IsText
    <2>5. At(d.s) = Tokens!ExponentEnd(U, a)
      BY <1>10, <1>12, <2>3, <2>4, SameDigits DEF Tokens!ExponentEnd
    <2>6. QED  BY <1>10, <1>12, <2>2, <2>5
  <1>13. At(d.s) > At(n.s)
    <2>1. At(d.s) >= At(l.s) /\ At(d.s) \in Nat /\ At(n.s) \in Nat
      BY <1>4, <1>11, SyncedIs DEF Takes, Onward
    <2>2. QED  BY <1>6, <2>1
  <1>14. QED  BY <1>2, <1>3, <1>8, <1>10, <1>11, <1>12, <1>13 DEF Takes

PartSet(U) == [at : 1 .. Len(U) + 1, base : 0 .. 36, last : {"integer", "fraction", "exponent"}]
Fractioned(U, p) == [p EXCEPT !.at = Tokens!FractionEnd(U, p.at), !.last = "fraction"]
Exponented(U, p) == [p EXCEPT !.at = Tokens!ExponentEnd(U, p.at), !.last = "exponent"]

LEMMA NextPartIs ==
  ASSUME NEW U, IsText(U), NEW p \in PartSet(U)
  PROVE  /\ ~(Tokens!HasFraction(U, p) /\ Tokens!HasExponent(U, p))
         /\ Tokens!HasFraction(U, p) => Fractioned(U, p) \in PartSet(U)
         /\ Tokens!HasExponent(U, p) => Exponented(U, p) \in PartSet(U)
  <1>1. PICK a : a = p.at
    OBVIOUS
  <1>2. a \in 1 .. Len(U) + 1 /\ Len(U) \in Nat
    BY <1>1, CharIs DEF PartSet
  <1>3. "." # "e" /\ "." # EOF /\ "e" # EOF /\ EOF \notin Digit /\ EOF \notin Sign
    <2>1. "." # "e" /\ "." # EOF /\ "e" # EOF /\ EOF \notin Sign
      BY Zenon DEF EOF, Sign
    <2>2. QED  BY <2>1, Characters
  <1>4. ~(Tokens!HasFraction(U, p) /\ Tokens!HasExponent(U, p))
    BY <1>3 DEF Tokens!HasFraction, Tokens!HasExponent
  <1>5. Tokens!HasFraction(U, p) \/ Tokens!HasExponent(U, p) => a \in 1 .. Len(U)
    <2>1. Tokens!HasFraction(U, p) \/ Tokens!HasExponent(U, p) => Tokens!Char(U, a) # EOF
      BY <1>1, <1>3 DEF Tokens!HasFraction, Tokens!HasExponent
    <2>2. Tokens!Char(U, a) # EOF => ~(a > Len(U))
      BY <1>2, CharIs
    <2>3. QED  BY <1>2, <2>1, <2>2
  <1>6. \A j \in 1 .. Len(U) + 1 : Tokens!RunEnd(U, j, Digit) \in 1 .. Len(U) + 1
    <2>1. ASSUME NEW j \in 1 .. Len(U) + 1 PROVE Tokens!RunEnd(U, j, Digit) \in 1 .. Len(U) + 1
      <3>1. Tokens!RunEnd(U, j, Digit) \in j .. Len(U) + 1
        BY <1>3, RunEndExists
      <3>2. QED  BY <1>2, <3>1
    <2>2. QED  BY <2>1
  <1>7. ASSUME Tokens!HasFraction(U, p) PROVE Fractioned(U, p) \in PartSet(U)
    <2>1. a + 1 \in 1 .. Len(U) + 1
      BY <1>2, <1>5, <1>7
    <2>2. Tokens!FractionEnd(U, a) \in 1 .. Len(U) + 1
      BY <1>6, <2>1, SameDigits DEF Tokens!FractionEnd
    <2>3. QED  BY <1>1, <2>2 DEF Fractioned, PartSet
  <1>8. ASSUME Tokens!HasExponent(U, p) PROVE Exponented(U, p) \in PartSet(U)
    <2>1. a + 1 \in 1 .. Len(U) + 1
      BY <1>2, <1>5, <1>8
    <2>2. Tokens!Char(U, a + 1) \in Sign => a + 2 \in 1 .. Len(U) + 1
      <3>1. Tokens!Char(U, a + 1) \in Sign => ~(a + 1 > Len(U))
        BY <1>2, <1>3, CharIs
      <3>2. QED  BY <1>2, <2>1, <3>1
    <2>3. Tokens!ExponentEnd(U, a) \in 1 .. Len(U) + 1
      BY <1>6, <2>1, <2>2, SameDigits DEF Tokens!ExponentEnd
    <2>4. QED  BY <1>1, <2>3 DEF Exponented, PartSet
  <1>9. QED  BY <1>4, <1>7, <1>8

PartsFromLoop(f, U) ==
  f = [p \in [at : 1 .. Tokens!End(U), base : 0 .. 36,
              last : {"integer", "fraction", "exponent"}] |->
         CASE Tokens!HasFraction(U, p) ->
                f[[p EXCEPT !.at = Tokens!FractionEnd(U, p.at), !.last = "fraction"]]
           [] Tokens!HasExponent(U, p) ->
                f[[p EXCEPT !.at = Tokens!ExponentEnd(U, p.at), !.last = "exponent"]]
           [] OTHER -> p.at]

LEMMA PartsFromIs ==
  ASSUME NEW U, IsText(U), NEW p \in PartSet(U)
  PROVE  /\ Tokens!HasFraction(U, p) =>
              Tokens!PartsFrom(U, p) = Tokens!PartsFrom(U, Fractioned(U, p))
         /\ Tokens!HasExponent(U, p) =>
              Tokens!PartsFrom(U, p) = Tokens!PartsFrom(U, Exponented(U, p))
         /\ ~Tokens!HasFraction(U, p) /\ ~Tokens!HasExponent(U, p) =>
              Tokens!PartsFrom(U, p) = p.at
  <1>1. Tokens!End(U) = Len(U) + 1
    BY CharIs
  <1>2. PICK S, stop, next, out :
          /\ S = PartSet(U)
          /\ stop = {q \in S : ~Tokens!HasFraction(U, q) /\ ~Tokens!HasExponent(U, q)}
          /\ next = [q \in S |-> IF Tokens!HasFraction(U, q) THEN Fractioned(U, q)
                                 ELSE Exponented(U, q)]
          /\ out = [q \in S |-> q.at]
    OBVIOUS
  <1>3. ASSUME NEW f PROVE PartsFromLoop(f, U) <=> Loops(S, stop, next, out, f)
    <2>1. ASSUME NEW q \in S
          PROVE  (CASE Tokens!HasFraction(U, q) ->
                         f[[q EXCEPT !.at = Tokens!FractionEnd(U, q.at), !.last = "fraction"]]
                    [] Tokens!HasExponent(U, q) ->
                         f[[q EXCEPT !.at = Tokens!ExponentEnd(U, q.at), !.last = "exponent"]]
                    [] OTHER -> q.at)
                 = (IF q \in stop THEN out[q] ELSE f[next[q]])
      <3>1. CASE Tokens!HasFraction(U, q)
        <4>1. ~Tokens!HasExponent(U, q)
          BY <1>2, <3>1, NextPartIs
        <4>2. q \notin stop /\ next[q] = Fractioned(U, q)
          BY <1>2, <3>1
        <4>3. QED  BY <3>1, <4>1, <4>2 DEF Fractioned
      <3>2. CASE ~Tokens!HasFraction(U, q) /\ Tokens!HasExponent(U, q)
        <4>1. q \notin stop /\ next[q] = Exponented(U, q)
          BY <1>2, <3>2
        <4>2. QED  BY <3>2, <4>1 DEF Exponented
      <3>3. CASE ~Tokens!HasFraction(U, q) /\ ~Tokens!HasExponent(U, q)
        <4>1. q \in stop /\ out[q] = q.at
          BY <1>2, <3>3
        <4>2. QED  BY <3>3, <4>1
      <3>4. QED  BY <3>1, <3>2, <3>3
    <2>2. [q \in S |->
             CASE Tokens!HasFraction(U, q) ->
                    f[[q EXCEPT !.at = Tokens!FractionEnd(U, q.at), !.last = "fraction"]]
               [] Tokens!HasExponent(U, q) ->
                    f[[q EXCEPT !.at = Tokens!ExponentEnd(U, q.at), !.last = "exponent"]]
               [] OTHER -> q.at]
          = [q \in S |-> IF q \in stop THEN out[q] ELSE f[next[q]]]
      BY <2>1
    <2>3. S = [at : 1 .. Tokens!End(U), base : 0 .. 36,
               last : {"integer", "fraction", "exponent"}]
      BY <1>1, <1>2 DEF PartSet
    <2>4. QED  BY <2>2, <2>3 DEF PartsFromLoop, Loops
  <1>4. PICK f : f = CHOOSE g : PartsFromLoop(g, U)
    OBVIOUS
  <1>5. Loops(S, stop, next, out, f)
    <2>1. \A q \in S \ stop : next[q] \in S
      BY <1>2, NextPartIs
    <2>2. \E g : Loops(S, stop, next, out, g)
      BY <2>1, LoopExists
    <2>3. \E g : PartsFromLoop(g, U)
      BY <1>3, <2>2
    <2>4. PartsFromLoop(f, U)
      BY <1>4, <2>3
    <2>5. QED  BY <1>3, <2>4
  <1>6. \A q : Tokens!PartsFrom(U, q) = f[q]
    BY <1>4 DEF Tokens!PartsFrom, PartsFromLoop
  <1>7. p \in S /\ f[p] = IF p \in stop THEN out[p] ELSE f[next[p]]
    BY <1>2, <1>5 DEF Loops
  <1>8. ~(Tokens!HasFraction(U, p) /\ Tokens!HasExponent(U, p))
    BY NextPartIs
  <1>9. QED  BY <1>2, <1>6, <1>7, <1>8

LastOf(state) == CASE state = "Intpart"  -> "integer"
                   [] state = "Fraction" -> "fraction"
                   [] state = "Exponent" -> "exponent"
PartOf(n) == [at |-> At(n.s), base |-> n.base, last |-> LastOf(n.state)]

LEMMA PartOfIs ==
  ASSUME IsText(text), NEW n \in NumState, Synced(n.s), n.base \in 2 .. 36, NEW U, Shows(U, n.s.pos)
  PROVE  /\ PartOf(n) \in PartSet(U) /\ IsText(U) /\ PartOf(n).at = At(n.s)
         /\ Tokens!HasExponent(U, PartOf(n)) <=> HasExponent(n)
         /\ Tokens!HasFraction(U, PartOf(n)) <=>
              HasFraction(n) /\ Tokens!Char(U, At(n.s) + 1) \notin {".", ")"}
  <1>1. /\ IsText(U) /\ At(n.s) \in 1 .. Len(U) + 1 /\ Tokens!Char(U, At(n.s)) = n.s.cur
    BY HereIs
  <1>2. PICK p, c, l : p = PartOf(n) /\ c = n.state /\ l = LastOf(n.state)
    OBVIOUS
  <1>3. c \in {"Intpart", "Fraction", "Exponent"}
    BY <1>2, NumFields
  <1>4. /\ l \in {"integer", "fraction", "exponent"}
        /\ l = "fraction" <=> c = "Fraction"
        /\ l = "exponent" <=> c = "Exponent"
    BY <1>2, <1>3 DEF LastOf
  <1>5. n.base \in 0 .. 36
    OBVIOUS
  <1>6. p.at = At(n.s) /\ p.base = n.base /\ p.last = l
    BY <1>2 DEF PartOf
  <1>7. p \in PartSet(U)
    BY <1>1, <1>2, <1>4, <1>5 DEF PartOf, PartSet
  <1>8. Tokens!HasExponent(U, p) <=> HasExponent(n)
    BY <1>1, <1>2, <1>4, <1>6 DEF Tokens!HasExponent, HasExponent
  <1>9. Tokens!HasFraction(U, p) <=>
          HasFraction(n) /\ Tokens!Char(U, At(n.s) + 1) \notin {".", ")"}
    BY <1>1, <1>2, <1>4, <1>6 DEF Tokens!HasFraction, HasFraction
  <1>10. QED  BY <1>1, <1>2, <1>6, <1>7, <1>8, <1>9

(* The parts of n0 lead to where n is.                                     *)
PartsAgree(U, n0, f, n) ==
  /\ NumIs(U, n, f)
  /\ n.isFloat = (At(n.s) > At(n0.s))
  /\ Tokens!PartsFrom(U, PartOf(n0)) = Tokens!PartsFrom(U, PartOf(n))
HasParts(U, n0, f, n) ==
  /\ n.base = n0.base /\ n.s.errno = n0.s.errno /\ Onward(n0.s, n.s)
  /\ Shows(U, n.s.pos) => PartsAgree(U, n0, f, n)

LEMMA FractionAgrees ==
  ASSUME IsText(text), NEW n0, Synced(n0.s), n0.base \in 2 .. 36, NEW U, NEW f,
         NEW n \in NumState, HasParts(U, n0, f, n), HasFraction(n)
  PROVE  Fraction(AtPoint(n)) \in NumState /\ HasParts(U, n0, f, Fraction(AtPoint(n)))
  <1>1. PICK k : k = Fraction(AtPoint(n))
    OBVIOUS
  <1>2. /\ n.base = n0.base /\ n.s.errno = n0.s.errno /\ Onward(n0.s, n.s) /\ Synced(n.s)
        /\ Shows(U, n.s.pos) => PartsAgree(U, n0, f, n)
        /\ Shows(U, n.s.pos) => NumIs(U, n, f)
    BY DEF HasParts, PartsAgree, Onward
  <1>3. PICK c : c = Tokens!Char(U, At(n.s) + 1)
    OBVIOUS
  <1>4. /\ k \in NumState /\ k.base = n.base /\ k.state = "Fraction" /\ k.s.errno = n.s.errno
        /\ Onward(n.s, k.s)
        /\ Shows(U, k.s.pos) => NumIs(U, k, f)
        /\ Shows(U, k.s.pos) /\ c \in {".", ")"} => At(k.s) = At(n.s) /\ k.isFloat = n.isFloat
        /\ Shows(U, k.s.pos) /\ c \notin {".", ")"} =>
              /\ At(k.s) = Tokens!FractionEnd(U, At(n.s)) /\ k.isFloat = TRUE
              /\ At(k.s) > At(n.s)
    <2>1. /\ k \in NumState /\ k.base = n.base /\ k.state = "Fraction" /\ k.s.errno = n.s.errno
          /\ Onward(n.s, k.s)
          /\ Shows(U, k.s.pos) => NumIs(U, k, f)
      <3>1. Synced(n.s) /\ (Shows(U, n.s.pos) => NumIs(U, n, f))
        BY <1>2
      <3>2. k \in NumState
        BY <1>1, <3>1, FractionEndsAt
      <3>3. k.base = n.base /\ k.state = "Fraction"
        BY <1>1, <3>1, FractionEndsAt
      <3>4. k.s.errno = n.s.errno
        BY <1>1, <3>1, FractionEndsAt
      <3>5. Onward(n.s, k.s)
        BY <1>1, <3>1, FractionEndsAt
      <3>6. Shows(U, k.s.pos) => NumIs(U, k, f)
        BY <1>1, <3>1, FractionEndsAt
      <3>7. QED  BY <3>2, <3>3, <3>4, <3>5, <3>6
    <2>2. Shows(U, k.s.pos) /\ Tokens!Char(U, At(n.s) + 1) \in {".", ")"} =>
            At(k.s) = At(n.s) /\ k.isFloat = n.isFloat
      BY <1>1, <1>2, FractionEndsAt
    <2>3. Shows(U, k.s.pos) /\ Tokens!Char(U, At(n.s) + 1) \notin {".", ")"} =>
              /\ At(k.s) = Tokens!FractionEnd(U, At(n.s)) /\ k.isFloat = TRUE
              /\ At(k.s) > At(n.s)
      BY <1>1, <1>2, FractionEndsAt
    <2>4. QED  BY <1>3, <2>1, <2>2, <2>3
  <1>5. Onward(n0.s, k.s) /\ Synced(k.s)
    BY <1>2, <1>4, OnwardTwice DEF IsText, Onward
  <1>6. ASSUME Shows(U, k.s.pos) PROVE PartsAgree(U, n0, f, k)
    <2>1. Shows(U, n.s.pos)
      BY <1>2, <1>4, <1>6, ShowsBack
    <2>2. PICK p, q : p = PartOf(n) /\ q = PartOf(k)
      OBVIOUS
    <2>3. n.base \in 2 .. 36 /\ k.base \in 2 .. 36
      BY <1>2, <1>4
    <2>4. /\ p \in PartSet(U) /\ IsText(U) /\ p.at = At(n.s)
          /\ Tokens!HasExponent(U, p) <=> HasExponent(n)
          /\ Tokens!HasFraction(U, p) <=> HasFraction(n) /\ c \notin {".", ")"}
      BY <1>2, <1>3, <2>1, <2>2, <2>3, PartOfIs
    <2>5. /\ q \in PartSet(U) /\ q.at = At(k.s)
          /\ Tokens!HasExponent(U, q) <=> HasExponent(k)
          /\ Tokens!HasFraction(U, q) => HasFraction(k)
      BY <1>4, <1>5, <1>6, <2>2, <2>3, PartOfIs
    <2>6. /\ n.isFloat = (At(n.s) > At(n0.s)) /\ At(n.s) \in Nat /\ At(n0.s) \in Nat
          /\ At(n.s) >= At(n0.s)
          /\ Tokens!PartsFrom(U, PartOf(n0)) = Tokens!PartsFrom(U, p)
      BY <1>2, <2>1, <2>2, SyncedIs DEF PartsAgree, IsText, Onward
    <2>7. CASE c \in {".", ")"}
      <3>1. At(k.s) = At(n.s) /\ k.isFloat = n.isFloat
        BY <1>4, <1>6, <2>7
      <3>2. ~HasExponent(n) /\ ~HasExponent(k) /\ ~HasFraction(k)
        <4>1. ~HasExponent(n) /\ n.s.cur = "." /\ ~HasFraction(k)
          BY <1>4, PointOrLetter DEF HasFraction
        <4>2. k.s.cur = n.s.cur
          <5>1. Tokens!Char(U, At(k.s)) = k.s.cur
            BY <1>5, <1>6, HereIs
          <5>2. Tokens!Char(U, At(n.s)) = n.s.cur
            BY <1>2, <2>1, HereIs
          <5>3. QED  BY <3>1, <5>1, <5>2
        <4>3. "." # "e"
          OBVIOUS
        <4>4. QED  BY <4>1, <4>2, <4>3 DEF HasExponent
      <3>3. ~Tokens!HasExponent(U, p) /\ ~Tokens!HasFraction(U, p)
        BY <2>4, <2>7, <3>2
      <3>4. Tokens!PartsFrom(U, p) = At(n.s)
        BY <2>4, <3>3, PartsFromIs
      <3>5. Tokens!PartsFrom(U, q) = At(n.s)
        BY <2>4, <2>5, <3>1, <3>2, PartsFromIs
      <3>6. QED  BY <1>4, <1>6, <2>2, <2>6, <3>1, <3>4, <3>5 DEF PartsAgree
    <2>8. CASE c \notin {".", ")"}
      <3>1. /\ At(k.s) = Tokens!FractionEnd(U, At(n.s)) /\ k.isFloat = TRUE
            /\ At(k.s) > At(n.s)
        BY <1>4, <1>6, <2>8
      <3>2. Tokens!HasFraction(U, p)
        BY <2>4, <2>8
      <3>3. Tokens!PartsFrom(U, p) = Tokens!PartsFrom(U, Fractioned(U, p))
        BY <2>4, <3>2, PartsFromIs
      <3>4. LastOf("Fraction") = "fraction"
        BY DEF LastOf
      <3>5. Fractioned(U, p) = q
        <4>1. PICK a, b, e, l : a = At(n.s) /\ b = n.base /\ e = At(k.s) /\ l = LastOf(n.state)
          OBVIOUS
        <4>2. p = [at |-> a, base |-> b, last |-> l]
          BY <2>2, <4>1 DEF PartOf
        <4>3. k.base = b /\ LastOf(k.state) = "fraction"
          BY <1>4, <3>4, <4>1
        <4>4. q = [at |-> e, base |-> b, last |-> "fraction"]
          BY <2>2, <4>1, <4>3 DEF PartOf
        <4>5. Tokens!FractionEnd(U, p.at) = e
          BY <2>4, <3>1, <4>1
        <4>6. [p EXCEPT !.at = e, !.last = "fraction"] = q
          <5>1. PICK r : r = [[at |-> a, base |-> b, last |-> l] EXCEPT !.at = e]
            OBVIOUS
          <5>2. r = [at |-> e, base |-> b, last |-> l]
            BY <5>1
          <5>3. [r EXCEPT !.last = "fraction"] = q
            BY <4>4, <5>2
          <5>4. QED  BY <4>2, <5>1, <5>3
        <4>7. QED  BY <4>5, <4>6 DEF Fractioned
      <3>6. At(k.s) > At(n0.s)
        BY <1>5, <2>6, <3>1, SyncedIs DEF IsText
      <3>7. QED  BY <1>4, <1>6, <2>2, <2>6, <3>1, <3>3, <3>5, <3>6 DEF PartsAgree
    <2>9. QED  BY <2>7, <2>8
  <1>7. QED  BY <1>1, <1>2, <1>4, <1>5, <1>6 DEF HasParts

LEMMA ExponentAgrees ==
  ASSUME IsText(text), NEW n0, Synced(n0.s), n0.base \in 2 .. 36, NEW U, NEW f,
         NEW n \in NumState, HasParts(U, n0, f, n), HasExponent(n)
  PROVE  Exponent(AtLetter(n)) \in NumState /\ HasParts(U, n0, f, Exponent(AtLetter(n)))
  <1>1. PICK k : k = Exponent(AtLetter(n))
    OBVIOUS
  <1>2. /\ n.base = n0.base /\ n.s.errno = n0.s.errno /\ Onward(n0.s, n.s) /\ Synced(n.s)
        /\ Shows(U, n.s.pos) => PartsAgree(U, n0, f, n)
        /\ Shows(U, n.s.pos) => NumIs(U, n, f)
    BY DEF HasParts, PartsAgree, Onward
  <1>3. /\ k \in NumState /\ k.base = n.base /\ k.state = "Exponent" /\ k.s.errno = n.s.errno
        /\ Onward(n.s, k.s) /\ k.isFloat = TRUE /\ At(k.s) > At(n.s)
        /\ Shows(U, k.s.pos) => NumIs(U, k, f) /\ At(k.s) = Tokens!ExponentEnd(U, At(n.s))
    BY <1>1, <1>2, ExponentEndsAt
  <1>4. Onward(n0.s, k.s) /\ Synced(k.s)
    BY <1>2, <1>3, OnwardTwice DEF IsText, Onward
  <1>5. ASSUME Shows(U, k.s.pos) PROVE PartsAgree(U, n0, f, k)
    <2>1. Shows(U, n.s.pos)
      BY <1>2, <1>3, <1>5, ShowsBack
    <2>2. PICK p : p = PartOf(n)
      OBVIOUS
    <2>3. n.base \in 2 .. 36
      BY <1>2
    <2>4. /\ p \in PartSet(U) /\ IsText(U) /\ p.at = At(n.s)
          /\ Tokens!HasExponent(U, p)
      BY <1>2, <2>1, <2>2, <2>3, PartOfIs
    <2>5. /\ At(n.s) \in Nat /\ At(n0.s) \in Nat /\ At(n.s) >= At(n0.s) /\ At(k.s) \in Nat
          /\ Tokens!PartsFrom(U, PartOf(n0)) = Tokens!PartsFrom(U, p)
      BY <1>2, <1>4, <2>1, <2>2, SyncedIs DEF PartsAgree, IsText, Onward
    <2>6. Tokens!PartsFrom(U, p) = Tokens!PartsFrom(U, Exponented(U, p))
      BY <2>4, PartsFromIs
    <2>7. LastOf("Exponent") = "exponent"
      BY DEF LastOf
    <2>8. Exponented(U, p) = PartOf(k)
      <3>1. PICK a, b, e, l, q : /\ a = At(n.s) /\ b = n.base /\ e = At(k.s) /\ l = LastOf(n.state)
                                 /\ q = PartOf(k)
        OBVIOUS
      <3>2. p = [at |-> a, base |-> b, last |-> l]
        BY <2>2, <3>1 DEF PartOf
      <3>3. k.base = b /\ LastOf(k.state) = "exponent"
        BY <1>3, <2>7, <3>1
      <3>4. q = [at |-> e, base |-> b, last |-> "exponent"]
        BY <3>1, <3>3 DEF PartOf
      <3>5. Tokens!ExponentEnd(U, p.at) = e
        BY <1>3, <1>5, <2>4, <3>1
      <3>6. [p EXCEPT !.at = e, !.last = "exponent"] = q
        <4>1. PICK r : r = [[at |-> a, base |-> b, last |-> l] EXCEPT !.at = e]
          OBVIOUS
        <4>2. r = [at |-> e, base |-> b, last |-> l]
          BY <4>1
        <4>3. [r EXCEPT !.last = "exponent"] = q
          BY <3>4, <4>2
        <4>4. QED  BY <3>2, <4>1, <4>3
      <3>7. QED  BY <3>1, <3>5, <3>6 DEF Exponented
    <2>9. At(k.s) > At(n0.s)
      BY <1>3, <2>5
    <2>10. QED  BY <1>3, <1>5, <2>5, <2>6, <2>8, <2>9 DEF PartsAgree
  <1>6. QED  BY <1>1, <1>2, <1>3, <1>4, <1>5 DEF HasParts

(* Where the parts of n0 end, n.                                           *)
EndsParts(U, n0, f, n) ==
  /\ Parts[n0] = IF n.isFloat THEN ConvertFloat(n) ELSE ConvertInt(n)
  /\ n.base = n0.base /\ n.s.errno = n0.s.errno /\ Onward(n0.s, n.s)
  /\ Shows(U, n.s.pos) => /\ NumIs(U, n, f)
                          /\ n.isFloat = (At(n.s) > At(n0.s))
                          /\ Tokens!PartsFrom(U, PartOf(n0)) = At(n.s)

LEMMA PartsEndAt ==
  ASSUME IsText(text), NEW n0 \in NumState, Synced(n0.s), n0.base \in 2 .. 36,
         n0.isFloat = FALSE, NEW U, NEW f, Shows(U, n0.s.pos) => NumIs(U, n0, f)
  PROVE  \E n \in NumState : EndsParts(U, n0, f, n)
  <1>1. PICK P : P = {n \in NumState : HasParts(U, n0, f, n)}
    OBVIOUS
  <1>2. P \subseteq NumState /\ \A n \in P : Onward(n0.s, n.s)
    BY <1>1 DEF HasParts
  <1>3. n0 \in P
    <2>1. Onward(n0.s, n0.s) /\ At(n0.s) \in Nat
      BY SyncedIs DEF IsText
    <2>2. n0.isFloat = (At(n0.s) > At(n0.s))
      <3>1. (At(n0.s) > At(n0.s)) = FALSE
        BY <2>1
      <3>2. QED  BY <3>1, Zenon
    <2>3. HasParts(U, n0, f, n0)
      BY <2>1, <2>2 DEF HasParts, PartsAgree
    <2>4. QED  BY <1>1, <2>3
  <1>4. \A n \in P : HasFraction(n) => Fraction(AtPoint(n)) \in P
    BY <1>1, FractionAgrees
  <1>5. \A n \in P : HasExponent(n) => Exponent(AtLetter(n)) \in P
    BY <1>1, ExponentAgrees
  <1>6. PICK n \in P : /\ ~HasFraction(n) /\ ~HasExponent(n)
                       /\ Parts[n0] = IF n.isFloat THEN ConvertFloat(n) ELSE ConvertInt(n)
    BY <1>2, <1>3, <1>4, <1>5, PartsEnds DEF IsText
  <1>7. /\ n \in NumState /\ n.base = n0.base /\ n.s.errno = n0.s.errno
        /\ Onward(n0.s, n.s) /\ Synced(n.s)
        /\ Shows(U, n.s.pos) => PartsAgree(U, n0, f, n)
    BY <1>1 DEF HasParts, Onward
  <1>8. ASSUME Shows(U, n.s.pos)
        PROVE  Tokens!PartsFrom(U, PartOf(n)) = At(n.s)
    <2>1. PICK p : p = PartOf(n)
      OBVIOUS
    <2>2. n.base \in 2 .. 36
      BY <1>7
    <2>3. /\ p \in PartSet(U) /\ IsText(U) /\ p.at = At(n.s)
          /\ ~Tokens!HasExponent(U, p) /\ ~Tokens!HasFraction(U, p)
      BY <1>6, <1>7, <1>8, <2>1, <2>2, PartOfIs
    <2>4. QED  BY <2>1, <2>3, PartsFromIs
  <1>9. EndsParts(U, n0, f, n)
    BY <1>6, <1>7, <1>8 DEF EndsParts, PartsAgree
  <1>10. QED  BY <1>7, <1>9

(* A number, as it is found in the text.                                   *)
FloatFound(num, e) ==
  Tokens!Found(IF IsReal(num) THEN "Real" ELSE "Overflow", IF IsReal(num) THEN num ELSE <<>>, e)
Refused(u, ranged) == ~u.whole \/ u.range \/ (u.value = MaxU64 /\ ranged)
IntegerFound(u, ranged, e) ==
  Tokens!Found(IF Refused(u, ranged) THEN "Overflow" ELSE "Integer",
               IF Refused(u, ranged) THEN <<>> ELSE <<u.value>>, e)

LEMMA NumberIs ==
  ASSUME NEW U, NEW i, NEW ranged, NEW int, int = Tokens!IntegerPart(U, i),
         NEW e, e = Tokens!PartsEnd(U, int.at, int.base),
         NEW num, num = Tokens!Chars(U, int.from, e)
  PROVE  /\ int.base = 0 => Tokens!Number(U, i, ranged) = Tokens!Found("Unknown", <<>>, int.at)
         /\ int.base # 0 /\ e > int.at => Tokens!Number(U, i, ranged) = FloatFound(num, e)
         /\ int.base # 0 /\ ~(e > int.at) =>
              Tokens!Number(U, i, ranged) = IntegerFound(StrToULL(num, int.base), ranged, e)
  <1>1. ASSUME int.base = 0
        PROVE  Tokens!Number(U, i, ranged) = Tokens!Found("Unknown", <<>>, int.at)
    BY <1>1 DEF Tokens!Number
  <1>2. ASSUME int.base # 0, e > int.at
        PROVE  Tokens!Number(U, i, ranged) = FloatFound(num, e)
    BY <1>2, SameConversions DEF Tokens!Number, FloatFound
  <1>3. ASSUME int.base # 0, ~(e > int.at)
        PROVE  Tokens!Number(U, i, ranged) = IntegerFound(StrToULL(num, int.base), ranged, e)
    <2>1. PICK u : u = StrToULL(num, int.base)
      OBVIOUS
    <2>2. Tokens!StrToULL(num, int.base) = u /\ Tokens!MaxU64 = MaxU64
      BY <2>1, SameConversions
    <2>3. Tokens!Number(U, i, ranged) = IntegerFound(u, ranged, e)
      BY <1>3, <2>2 DEF Tokens!Number, IntegerFound, Refused
    <2>4. QED  BY <2>1, <2>3
  <1>4. QED  BY <1>1, <1>2, <1>3

LEMMA NothingIsWhole ==
  ASSUME NEW base \in 2 .. 36, NEW max
  PROVE  /\ ~Converted(<<>>, base, max).whole
         /\ ~Converted(<<EOF>>, base, max).whole
  <1>1. ~Converted(<<>>, base, max).whole
    <2>1. PICK num : num = <<>>
      OBVIOUS
    <2>2. PICK body : body = IF num # <<>> /\ num[1] \in Space \cup Sign THEN Tail(num) ELSE num
      OBVIOUS
    <2>3. body = <<>>
      BY <2>1, <2>2
    <2>4. Converted(num, base, max).whole =
            (Len(body) > 0 /\ \A k \in 1 .. Len(body) : body[k] \in DigitsOf(base))
      BY <2>2 DEF Converted
    <2>5. ~(Len(body) > 0)
      BY <2>3
    <2>6. QED  BY <2>1, <2>4, <2>5, Zenon
  <1>2. EOF \notin Space \cup Sign /\ EOF \notin DigitsOf(base)
    <2>1. base \in 0 .. 36
      OBVIOUS
    <2>2. EOF \notin DigitsOf(base)
      BY <2>1, Characters
    <2>3. EOF \notin Space \cup Sign
      BY Zenon DEF EOF, Space, Sign, BLANK, NL
    <2>4. QED  BY <2>2, <2>3
  <1>3. ~Converted(<<EOF>>, base, max).whole
    <2>1. PICK num : num = <<EOF>>
      OBVIOUS
    <2>2. num[1] = EOF /\ Len(num) = 1
      BY <2>1
    <2>3. PICK body : body = IF num # <<>> /\ num[1] \in Space \cup Sign THEN Tail(num) ELSE num
      OBVIOUS
    <2>4. body = num
      BY <1>2, <2>2, <2>3
    <2>5. Converted(num, base, max).whole =
            (Len(body) > 0 /\ \A k \in 1 .. Len(body) : body[k] \in DigitsOf(base))
      BY <2>3 DEF Converted
    <2>6. 1 \in 1 .. Len(body) /\ body[1] \notin DigitsOf(base)
      BY <1>2, <2>2, <2>4
    <2>7. QED  BY <2>1, <2>5, <2>6, Zenon
  <1>4. QED  BY <1>1, <1>3

(* The token a is the one found; no other kind of token changes errno.     *)
Answers(d, a, errno) ==
  /\ d = Tokens!Found(a.kind, a.value, At(a.s))
  /\ \/ a.s.errno = errno
     \/ a.s.errno = "ERANGE" /\ a.kind \in {"Overflow", "Real", "Unknown"}

LEMMA FloatAnswers ==
  ASSUME IsText(text), NEW n \in NumState, Synced(n.s)
  PROVE  /\ Onward(n.s, ConvertFloat(n).s)
         /\ Answers(FloatFound(n.num, At(n.s)), ConvertFloat(n), n.s.errno)
  <1>1. PICK a, s : a = ConvertFloat(n) /\ s = WithRange(n.s, IsHuge(n.num))
    OBVIOUS
  <1>2. /\ Onward(n.s, s) /\ At(s) = At(n.s) /\ s.errno \in {n.s.errno, "ERANGE"}
        /\ Onward(n.s, n.s)
    BY <1>1, NumFields, WithRangeIs, SyncedIs DEF IsText
  <1>3. CASE IsReal(n.num)
    <2>1. a.kind = "Real" /\ a.value = n.num /\ a.s = s
      BY <1>1, <1>3, TokenIs DEF ConvertFloat
    <2>2. FloatFound(n.num, At(n.s)) = Tokens!Found("Real", n.num, At(n.s))
      BY <1>3 DEF FloatFound
    <2>3. QED  BY <1>1, <1>2, <2>1, <2>2 DEF Answers
  <1>4. CASE ~IsReal(n.num)
    <2>1. a.kind = "Overflow" /\ a.value = <<>> /\ a.s = n.s
      BY <1>1, <1>4, TokenIs DEF ConvertFloat
    <2>2. FloatFound(n.num, At(n.s)) = Tokens!Found("Overflow", <<>>, At(n.s))
      BY <1>4 DEF FloatFound
    <2>3. QED  BY <1>1, <1>2, <2>1, <2>2 DEF Answers
  <1>5. QED  BY <1>3, <1>4

(* The number that is converted may be that of the end of the file; it is  *)
(* not whole then, as that of the text, which is empty, is not.            *)
LEMMA IntegerAnswers ==
  ASSUME IsText(text), NEW n \in NumState, Synced(n.s),
         NEW num, \/ num = n.num
                  \/ ~StrToULL(num, n.base).whole /\ ~StrToULL(n.num, n.base).whole
  PROVE  /\ Onward(n.s, ConvertInt(n).s)
         /\ Answers(IntegerFound(StrToULL(num, n.base), n.s.errno = "ERANGE", At(n.s)),
                    ConvertInt(n), n.s.errno)
  <1>1. PICK a, u, v, s : /\ a = ConvertInt(n) /\ u = StrToULL(n.num, n.base)
                          /\ v = StrToULL(num, n.base) /\ s = WithRange(n.s, u.range)
    OBVIOUS
  <1>2. /\ Onward(n.s, s) /\ At(s) = At(n.s) /\ s.errno \in {n.s.errno, "ERANGE"}
        /\ u.range = FALSE => s = n.s
        /\ u.range = TRUE => s.errno = "ERANGE"
    BY <1>1, NumFields, WithRangeIs, SyncedIs DEF IsText
  <1>3. u.range \in BOOLEAN /\ (u.range = TRUE => u.value = MaxU64)
    BY <1>1, ConvertedIs DEF StrToULL
  <1>4. a = SafeConvert(u, s)
    BY <1>1 DEF ConvertInt
  <1>5. PICK e, ranged : e = At(n.s) /\ ranged = (n.s.errno = "ERANGE")
    OBVIOUS
  <1>6. Refused(v, ranged) <=> ~u.whole \/ (u.value = MaxU64 /\ s.errno = "ERANGE")
    <2>1. u.range => u.range = TRUE
      BY <1>3
    <2>2. CASE v = u
      BY <1>2, <1>3, <1>5, <2>2 DEF Refused
    <2>3. CASE ~u.whole /\ ~v.whole
      BY <2>3 DEF Refused
    <2>4. QED  BY <1>1, <2>2, <2>3
  <1>7. CASE Refused(v, ranged)
    <2>1. a.kind = "Overflow" /\ a.value = <<>> /\ a.s = s
      BY <1>4, <1>6, <1>7, TokenIs DEF SafeConvert
    <2>2. IntegerFound(v, ranged, e) = Tokens!Found("Overflow", <<>>, e)
      BY <1>7 DEF IntegerFound
    <2>3. QED  BY <1>1, <1>2, <1>5, <2>1, <2>2 DEF Answers
  <1>8. CASE ~Refused(v, ranged)
    <2>1. a.kind = "Integer" /\ a.value = <<u.value>> /\ a.s = s
      BY <1>4, <1>6, <1>8, TokenIs DEF SafeConvert
    <2>2. u.whole /\ v.whole
      BY <1>6, <1>8 DEF Refused
    <2>3. v = u
      BY <1>1, <2>2
    <2>4. IntegerFound(v, ranged, e) = Tokens!Found("Integer", <<u.value>>, e)
      BY <1>8, <2>3 DEF IntegerFound
    <2>5. s = n.s
      <3>1. ~u.range
        BY <1>8, <2>3 DEF Refused
      <3>2. QED  BY <1>2, <1>3, <3>1
    <2>6. QED  BY <1>1, <1>2, <1>5, <2>1, <2>4, <2>5 DEF Answers
  <1>9. QED  BY <1>7, <1>8

FirstTaken(s, base) ==
  Taken([s |-> s, num |-> <<>>, base |-> base, isFloat |-> FALSE, state |-> "Intpart"])

Started(s, base, k) ==
  /\ k \in NumState /\ k.base = base /\ k.isFloat = FALSE /\ k.state = "Intpart"
  /\ k.s.errno = s.errno /\ Onward(s, k.s) /\ At(k.s) = At(s) + 1
  /\ \A U : Shows(U, k.s.pos) => NumIs(U, k, At(s))

LEMMA NumberStarts ==
  ASSUME IsText(text), NEW s, Synced(s), s.cur # EOF, NEW base \in 2 .. 36,
         NEW k, k = FirstTaken(s, base)
  PROVE  Started(s, base, k)
  <1>1. PICK n : n = [s |-> s, num |-> <<>>, base |-> base, isFloat |-> FALSE,
                      state |-> "Intpart"]
    OBVIOUS
  <1>2. /\ n \in NumState /\ n.s = s /\ n.num = <<>> /\ n.base = base /\ n.isFloat = FALSE
        /\ n.state = "Intpart"
    <2>1. s \in LexerState /\ base \in Nat /\ <<>> \in Seq(STRING)
      <3>1. s \in LexerState
        BY DEF Synced
      <3>2. QED  BY <3>1
    <2>2. QED  BY <1>1, <2>1 DEF NumState
  <1>3. k = Taken(n)
    BY <1>1 DEF FirstTaken
  <1>4. /\ k \in NumState /\ k.s = NextChar(s) /\ k.num = Append(n.num, s.cur)
        /\ k.base = base /\ k.isFloat = FALSE /\ k.state = "Intpart"
    BY <1>2, <1>3, TakenIs DEF IsText
  <1>5. Onward(s, k.s) /\ k.s.errno = s.errno
    BY <1>4, SyncedNext DEF IsText
  <1>6. At(k.s) = At(s) + 1
    <2>1. Onward(s, s)
      BY SyncedIs DEF IsText
    <2>2. QED  BY <1>4, <2>1, NextOnward DEF IsText
  <1>7. ASSUME NEW U, Shows(U, k.s.pos) PROVE NumIs(U, k, At(s))
    <2>1. Shows(U, s.pos)
      BY <1>5, <1>7, ShowsBack
    <2>2. IsText(U) /\ At(s) \in 1 .. Len(U) + 1
      BY <2>1, HereIs
    <2>3. NumIs(U, n, At(s))
      <3>1. Tokens!Chars(U, At(s), At(s)) = <<>> /\ At(s) \in 1 .. At(s)
        BY <2>2, CharsIs
      <3>2. QED  BY <1>2, <3>1 DEF NumIs
    <2>4. QED  BY <1>2, <1>4, <2>1, <2>3, NumTakes
  <1>8. QED  BY <1>4, <1>5, <1>6, <1>7 DEF Started

(* From the end of the integer part n0 on.                                 *)
LEMMA PartsAnswer ==
  ASSUME IsText(text), NEW n0 \in NumState, Synced(n0.s), n0.base \in 2 .. 36,
         n0.isFloat = FALSE, n0.state = "Intpart", NEW U, NEW f, NumIs(U, n0, f),
         Shows(U, n0.s.pos), NEW a, a = Parts[n0], Shows(U, a.s.pos),
         NEW i, Tokens!IntegerPart(U, i) = ScanOf(n0, f)
  PROVE  Answers(Tokens!Number(U, i, n0.s.errno = "ERANGE"), a, n0.s.errno)
  <1>1. PICK n \in NumState : EndsParts(U, n0, f, n)
    BY PartsEndAt
  <1>2. /\ a = IF n.isFloat THEN ConvertFloat(n) ELSE ConvertInt(n)
        /\ n.base = n0.base /\ n.s.errno = n0.s.errno /\ Onward(n0.s, n.s) /\ Synced(n.s)
    BY <1>1 DEF EndsParts, Onward
  <1>3. n.isFloat \in BOOLEAN
    BY NumFields
  <1>4. Onward(n.s, a.s)
    <2>1. n.base \in 2 .. 36
      BY <1>2
    <2>2. Onward(n.s, ConvertFloat(n).s)
      BY <1>2, FloatAnswers
    <2>3. Onward(n.s, ConvertInt(n).s)
      BY <1>2, IntegerAnswers
    <2>4. QED  BY <1>2, <2>2, <2>3
  <1>5. Shows(U, n.s.pos)
    BY <1>2, <1>4, ShowsBack
  <1>6. /\ NumIs(U, n, f) /\ n.isFloat = (At(n.s) > At(n0.s))
        /\ Tokens!PartsFrom(U, PartOf(n0)) = At(n.s)
    BY <1>1, <1>5 DEF EndsParts
  <1>7. PICK int, e, num, ranged : /\ int = Tokens!IntegerPart(U, i)
                                   /\ e = Tokens!PartsEnd(U, int.at, int.base)
                                   /\ num = Tokens!Chars(U, int.from, e)
                                   /\ ranged = (n0.s.errno = "ERANGE")
    OBVIOUS
  <1>8. int.at = At(n0.s) /\ int.base = n0.base /\ int.from = f /\ int.base # 0
    BY <1>7 DEF ScanOf
  <1>9. e = At(n.s)
    <2>1. PartOf(n0) = [at |-> At(n0.s), base |-> n0.base, last |-> "integer"]
      BY DEF PartOf, LastOf
    <2>2. QED  BY <1>6, <1>7, <1>8, <2>1 DEF Tokens!PartsEnd
  <1>10. IsText(U) /\ Len(U) \in Nat /\ f \in 1 .. At(n0.s) /\ At(n0.s) \in 1 .. Len(U) + 1
    <2>1. IsText(U) /\ Len(U) \in Nat /\ At(n0.s) \in 1 .. Len(U) + 1
      BY HereIs
    <2>2. QED  BY <2>1 DEF NumIs
  <1>11. num = n.num \/ (num = <<>> /\ n.num = <<EOF>> /\ At(n.s) = f)
    <2>1. CASE n.num = Tokens!Chars(U, f, At(n.s))
      BY <1>7, <1>8, <1>9, <2>1
    <2>2. CASE f = Len(U) + 1 /\ At(n.s) = Len(U) + 1 /\ n.num = <<EOF>>
      <3>1. f \in 1 .. Len(U) + 1
        BY <1>10
      <3>2. num = Tokens!Chars(U, f, f)
        BY <1>7, <1>8, <1>9, <2>2
      <3>3. num = <<>>
        BY <1>10, <3>1, <3>2, CharsIs
      <3>4. QED  BY <2>2, <3>3
    <2>3. QED  BY <1>6, <2>1, <2>2 DEF NumIs
  <1>12. CASE n.isFloat = TRUE
    <2>1. e > int.at
      BY <1>6, <1>8, <1>9, <1>12
    <2>2. num = n.num
      <3>1. At(n.s) # f
        BY <1>8, <1>9, <1>10, <2>1
      <3>2. QED  BY <1>11, <3>1
    <2>3. Tokens!Number(U, i, ranged) = FloatFound(num, e)
      BY <1>7, <1>8, <2>1, NumberIs
    <2>4. Answers(FloatFound(n.num, At(n.s)), ConvertFloat(n), n.s.errno)
      BY <1>2, FloatAnswers
    <2>5. a = ConvertFloat(n)
      BY <1>2, <1>12
    <2>6. QED  BY <1>2, <1>7, <1>9, <2>2, <2>3, <2>4, <2>5
  <1>13. CASE n.isFloat = FALSE
    <2>1. ~(e > int.at)
      BY <1>6, <1>8, <1>9, <1>13
    <2>2. Tokens!Number(U, i, ranged) = IntegerFound(StrToULL(num, n.base), ranged, e)
      BY <1>2, <1>7, <1>8, <2>1, NumberIs
    <2>3. n.base \in 2 .. 36
      BY <1>2
    <2>4. \/ num = n.num
          \/ ~StrToULL(num, n.base).whole /\ ~StrToULL(n.num, n.base).whole
      BY <1>11, <2>3, NothingIsWhole DEF StrToULL
    <2>5. Answers(IntegerFound(StrToULL(num, n.base), n.s.errno = "ERANGE", At(n.s)),
                  ConvertInt(n), n.s.errno)
      BY <1>2, <2>4, IntegerAnswers
    <2>6. a = ConvertInt(n)
      BY <1>2, <1>13
    <2>7. QED  BY <1>2, <1>7, <1>9, <2>2, <2>5, <2>6
  <1>14. QED  BY <1>3, <1>12, <1>13

LEMMA NumberEndsAt ==
  ASSUME IsText(text), NEW s, Synced(s), s.cur # EOF, NEW base \in 2 .. 36, NEW U,
         NEW a, a = NumberToken(s, base), Shows(U, a.s.pos),
         NEW i, Tokens!IntegerPart(U, i) =
                  Tokens!IntegerFrom(U, [at |-> At(s) + 1, base |-> base, from |-> At(s)])
  PROVE  Answers(Tokens!Number(U, i, s.errno = "ERANGE"), a, s.errno)
  <1>1. PICK k, n, p0 : /\ k = FirstTaken(s, base)
                        /\ n = Intpart[k]
                        /\ p0 = [at |-> At(s) + 1, base |-> base, from |-> At(s)]
    OBVIOUS
  <1>2. /\ k \in NumState /\ k.base = base /\ k.isFloat = FALSE /\ k.state = "Intpart"
        /\ k.s.errno = s.errno /\ Onward(s, k.s) /\ At(k.s) = At(s) + 1
        /\ Shows(U, k.s.pos) => NumIs(U, k, At(s))
    <2>1. k = FirstTaken(s, base)
      BY <1>1
    <2>2. Started(s, base, k)
      BY <2>1, NumberStarts
    <2>3. QED  BY <2>2 DEF Started
  <1>3. Shows(U, k.s.pos) => IntegerAgrees(U, p0, k)
    <2>1. ScanOf(k, At(s)) = p0
      BY <1>1, <1>2 DEF ScanOf
    <2>2. QED  BY <1>2, <2>1 DEF IntegerAgrees
  <1>4. /\ n \in NumState /\ Onward(s, n.s) /\ n.isFloat = FALSE /\ n.state = "Intpart"
        /\ n.s.errno \in {s.errno, "ERANGE"}
        /\ Shows(U, n.s.pos) => IntegerEndsAt(U, p0, n, s.errno)
    <2>1. k.base \in 2 .. 36
      BY <1>2
    <2>2. n \in NumState /\ Onward(s, n.s)
      BY <1>1, <1>2, <1>3, <2>1, IntpartEndsAt
    <2>3. n.isFloat = FALSE /\ n.state = "Intpart" /\ n.s.errno \in {s.errno, "ERANGE"}
      BY <1>1, <1>2, <1>3, <2>1, IntpartEndsAt
    <2>4. Shows(U, n.s.pos) => IntegerEndsAt(U, p0, n, s.errno)
      BY <1>1, <1>2, <1>3, <2>1, IntpartEndsAt
    <2>5. QED  BY <2>2, <2>3, <2>4
  <1>5. a = InParts(n) /\ Synced(n.s)
    BY <1>1, <1>4 DEF NumberToken, FirstTaken, Onward
  <1>6. Tokens!IntegerPart(U, i) = Tokens!IntegerFrom(U, p0)
    BY <1>1
  <1>7. CASE n.base = 0
    <2>1. a = Token("Unknown", <<>>, n.s)
      BY <1>5, <1>7 DEF InParts
    <2>2. a.kind = "Unknown" /\ a.value = <<>> /\ a.s = n.s
      BY <2>1, TokenIs
    <2>3. IntegerEndsAt(U, p0, n, s.errno)
      BY <1>4, <2>2
    <2>4. PICK f : Tokens!IntegerPart(U, i) = [at |-> At(n.s), base |-> 0, from |-> f]
      <3>1. n.base \notin 2 .. 36
        BY <1>7
      <3>2. \E f : Tokens!IntegerFrom(U, p0) = [at |-> At(n.s), base |-> 0, from |-> f]
        BY <2>3, <3>1 DEF IntegerEndsAt
      <3>3. QED  BY <1>6, <3>2
    <2>5. Tokens!Number(U, i, s.errno = "ERANGE") = Tokens!Found("Unknown", <<>>, At(n.s))
      BY <2>4, NumberIs
    <2>6. QED  BY <1>4, <2>2, <2>5 DEF Answers
  <1>8. CASE n.base # 0
    <2>1. a = Parts[n]
      BY <1>5, <1>8 DEF InParts
    <2>2. Onward(n.s, a.s)
      <3>1. Onward(n.s, n.s)
        BY <1>5, SyncedIs DEF IsText
      <3>2. QED  BY <1>4, <1>5, <2>1, <3>1, PartsReads DEF IsText, Reads
    <2>3. Shows(U, n.s.pos)
      BY <1>5, <2>2, ShowsBack
    <2>4. PICK f : /\ n.base \in 2 .. 36 /\ n.s.errno = s.errno
                   /\ NumIs(U, n, f) /\ Tokens!IntegerPart(U, i) = ScanOf(n, f)
      BY <1>4, <1>6, <1>8, <2>3 DEF IntegerEndsAt
    <2>5. Answers(Tokens!Number(U, i, n.s.errno = "ERANGE"), a, n.s.errno)
      BY <1>4, <1>5, <2>1, <2>3, <2>4, PartsAnswer
    <2>6. QED  BY <2>4, <2>5
  <1>9. QED  BY <1>7, <1>8

-----------------------------------------------------------------------------
(* Tokens.                                                                 *)

LEMMA SameSymbols ==
  /\ Tokens!Pair = Pair /\ Tokens!Single = Single /\ Tokens!Quote = Quote
  /\ Tokens!WordStart = WordStart /\ Tokens!Digit = Digit /\ Tokens!EOF = EOF
  /\ Tokens!DigitsOf(16) = DigitsOf(16)
  <1>1. Tokens!COMMA = COMMA /\ Tokens!SEMICOLON = SEMICOLON
    BY DEF Tokens!COMMA, COMMA, Tokens!SEMICOLON, SEMICOLON
  <1>2. \A rows : Tokens!Table(rows) = Table(rows)
    BY DEF Tokens!Table, Table
  <1>3. Tokens!Pair = Pair
    BY <1>2 DEF Tokens!Pair, Pair
  <1>4. Tokens!Single = Single
    BY <1>1, <1>2 DEF Tokens!Single, Single
  <1>5. Tokens!LINE = LINE /\ Tokens!UNDERSCORE = UNDERSCORE /\ Tokens!EOF = EOF
    BY DEF Tokens!LINE, LINE, Tokens!UNDERSCORE, UNDERSCORE, Tokens!EOF, EOF
  <1>6. Tokens!Letter = Letter
    BY <1>5, SameDigits DEF Tokens!Letter, Letter
  <1>7. Tokens!WordStart = WordStart
    BY <1>5, <1>6 DEF Tokens!WordStart, WordStart
  <1>8. QED  BY <1>3, <1>4, <1>5, <1>7, SameDigits, SameStrings

(* A character begins one kind of token at most.                           *)
LEMMA Disjoint ==
  /\ DOMAIN Single \cap Quote = {} /\ DOMAIN Single \cap WordStart = {}
  /\ DOMAIN Single \cap Digit = {} /\ Quote \cap WordStart = {} /\ Quote \cap Digit = {}
  /\ WordStart \cap Digit = {}
  /\ EOF \notin DOMAIN Single \cup Quote \cup WordStart \cup Digit
  /\ "$" \notin DOMAIN Single \cup Quote \cup WordStart \cup Digit \cup {EOF}
  <1>1. Digit \subseteq Alphanumeric /\ WordStart \subseteq Alphanumeric \cup {LINE, UNDERSCORE}
    BY DigitsAre DEF Digit, WordStart, Letter
  <1>2. Singles \cap Quote = {}
    BY Zenon DEF Singles, Quote, DQUOTE, COMMA, SEMICOLON
  <1>3. Singles \cap Alphanumeric = {}
    BY DEF Singles, Alphanumeric, COMMA, SEMICOLON
  <1>4. LINE \notin Singles /\ UNDERSCORE \notin Singles
    BY Zenon DEF Singles, LINE, UNDERSCORE, COMMA, SEMICOLON
  <1>5. Quote \cap Alphanumeric = {}
    BY DEF Quote, Alphanumeric, DQUOTE
  <1>6. LINE \notin Quote /\ UNDERSCORE \notin Quote
    BY Zenon DEF Quote, LINE, UNDERSCORE, DQUOTE
  <1>7. LINE \notin Alphanumeric /\ UNDERSCORE \notin Alphanumeric
    BY Zenon DEF Alphanumeric, LINE, UNDERSCORE
  <1>8. WordStart \cap Digit = {}
    <2>1. LINE \notin Digit /\ UNDERSCORE \notin Digit
      BY <1>1, <1>7
    <2>2. QED  BY <2>1 DEF WordStart, Letter
  <1>9. /\ Singles \cap WordStart = {} /\ Singles \cap Digit = {}
        /\ Quote \cap WordStart = {} /\ Quote \cap Digit = {}
    BY <1>1, <1>3, <1>4, <1>5, <1>6
  <1>10. /\ EOF \notin DOMAIN Single \cup Quote \cup WordStart \cup Digit
         /\ "$" \notin DOMAIN Single \cup Quote \cup WordStart \cup Digit \cup {EOF}
    <2>1. PICK c : c = "$"
      OBVIOUS
    <2>2. ~Begins(c)
      BY <2>1, Beginnings, Zenon
    <2>3. c \notin DOMAIN Single \cup Quote \cup WordStart \cup Digit \cup {EOF}
      BY <2>2 DEF Begins
    <2>4. EOF \notin DOMAIN Single \cup Quote \cup WordStart \cup Digit
      BY Beginnings
    <2>5. QED  BY <2>1, <2>3, <2>4, Zenon
  <1>11. QED  BY <1>2, <1>8, <1>9, <1>10, SinglesAre, Zenon

Pairs ==
  {<<".", ".">>, <<".", ")">>, <<"<", "=">>, <<"<", ">">>, <<">", "=">>, <<">", "<">>,
   <<":", "=">>, <<"(", ".">>, <<"*", "*">>}

LEMMA PairsAre ==
  /\ DOMAIN Pair = Pairs
  /\ \A c, d : <<c, d>> \in DOMAIN Pair => HasPairs(c) /\ c \in DOMAIN Single /\ d # EOF
  <1>1. DOMAIN Pair = Pairs
    BY DEF Pair, Table, Pairs
  <1>2. ASSUME NEW c, NEW d, <<c, d>> \in DOMAIN Pair
        PROVE  HasPairs(c) /\ c \in DOMAIN Single /\ d # EOF
    <2>1. HasPairs(c)
      <3>1. PICK p : p = <<c, d>>
        OBVIOUS
      <3>2. p[1] = c
        BY <3>1
      <3>3. QED  BY <1>2, <3>1, <3>2 DEF HasPairs
    <2>2. c \in {".", "<", ">", ":", "(", "*"} /\ d \in {".", ")", "=", ">", "<", "*"}
      BY <1>1, <1>2 DEF Pairs
    <2>3. {".", "<", ">", ":", "(", "*"} \subseteq Singles
      BY DEF Singles
    <2>4. EOF \notin {".", ")", "=", ">", "<", "*"}
      BY Zenon DEF EOF
    <2>5. QED  BY <2>1, <2>2, <2>3, <2>4, SinglesAre
  <1>3. QED  BY <1>1, <1>2

(* What stands at i, where c and d are, one kind of beginning after the    *)
(* other.                                                                  *)
TokenIsAt(U, i, ranged, c, d) ==
  /\ c = EOF => Tokens!TokenAt(U, i, ranged) = Tokens!Found("EndOfFile", <<>>, i)
  /\ <<c, d>> \in DOMAIN Pair =>
       Tokens!TokenAt(U, i, ranged) = Tokens!Found(Pair[<<c, d>>], <<>>, i + 2)
  /\ c \in DOMAIN Single /\ <<c, d>> \notin DOMAIN Pair =>
       Tokens!TokenAt(U, i, ranged) = Tokens!Found(Single[c], <<>>, i + 1)
  /\ c \in Quote => Tokens!TokenAt(U, i, ranged) = Tokens!String(U, i)
  /\ c \in WordStart => Tokens!TokenAt(U, i, ranged) = Tokens!Word(U, i)
  /\ c \in Digit => Tokens!TokenAt(U, i, ranged) = Tokens!Number(U, i, ranged)
  /\ c = "$" => Tokens!TokenAt(U, i, ranged) =
                  IF d \in DigitsOf(16) THEN Tokens!Number(U, i, ranged)
                  ELSE Tokens!Found("Unknown", <<>>, i)
  /\ ~Begins(c) /\ c # "$" =>
       Tokens!TokenAt(U, i, ranged) = Tokens!Found("Unknown", <<>>, i)

LEMMA TokenAtIs ==
  ASSUME NEW U, NEW i, NEW ranged, NEW c, c = Tokens!Char(U, i),
         NEW d, d = Tokens!Char(U, i + 1)
  PROVE  TokenIsAt(U, i, ranged, c, d)
  <1>1. PICK p, t : p = <<c, d>> /\ t = Tokens!TokenAt(U, i, ranged)
    OBVIOUS
  <1>2. t = CASE c = EOF            -> Tokens!Found("EndOfFile", <<>>, i)
              [] p \in DOMAIN Pair  -> Tokens!Found(Pair[p], <<>>, i + 2)
              [] c \in DOMAIN Single /\ p \notin DOMAIN Pair ->
                   Tokens!Found(Single[c], <<>>, i + 1)
              [] c \in Quote        -> Tokens!String(U, i)
              [] c \in WordStart    -> Tokens!Word(U, i)
              [] c \in Digit \/ (c = "$" /\ d \in DigitsOf(16)) -> Tokens!Number(U, i, ranged)
              [] OTHER              -> Tokens!Found("Unknown", <<>>, i)
    BY <1>1, SameSymbols DEF Tokens!TokenAt
  <1>3. p \in DOMAIN Pair => c \in DOMAIN Single
    BY <1>1, PairsAre
  <1>4. PICK q : q = "$"
    OBVIOUS
  <1>5. q \notin DOMAIN Single \cup Quote \cup WordStart \cup Digit \cup {EOF}
    BY <1>4, Disjoint, Zenon
  <1>6. c = EOF => t = Tokens!Found("EndOfFile", <<>>, i)
    BY <1>2, <1>3, <1>4, <1>5, Disjoint
  <1>7. p \in DOMAIN Pair => t = Tokens!Found(Pair[p], <<>>, i + 2)
    BY <1>2, <1>3, <1>4, <1>5, Disjoint
  <1>8. c \in DOMAIN Single /\ p \notin DOMAIN Pair => t = Tokens!Found(Single[c], <<>>, i + 1)
    BY <1>2, <1>3, <1>4, <1>5, Disjoint
  <1>9. c \in Quote => t = Tokens!String(U, i)
    BY <1>2, <1>3, <1>4, <1>5, Disjoint
  <1>10. c \in WordStart => t = Tokens!Word(U, i)
    BY <1>2, <1>3, <1>4, <1>5, Disjoint
  <1>11. c \in Digit => t = Tokens!Number(U, i, ranged)
    BY <1>2, <1>3, <1>4, <1>5, Disjoint
  <1>12. c = q => t = IF d \in DigitsOf(16) THEN Tokens!Number(U, i, ranged)
                      ELSE Tokens!Found("Unknown", <<>>, i)
    BY <1>2, <1>3, <1>4, <1>5, Disjoint
  <1>13. ~Begins(c) /\ c # q => t = Tokens!Found("Unknown", <<>>, i)
    BY <1>2, <1>3, <1>4 DEF Begins
  <1>14. QED  BY <1>1, <1>4, <1>6, <1>7, <1>8, <1>9, <1>10, <1>11, <1>12, <1>13 DEF TokenIsAt

LEMMA SymbolEndsAt ==
  ASSUME IsText(text), NEW s, Synced(s), s.cur \in DOMAIN Single, NEW U, NEW ranged,
         NEW a, a = Symbol(IF HasPairs(s.cur) THEN PeekChar(s) ELSE s), Shows(U, a.s.pos)
  PROVE  Answers(Tokens!TokenAt(U, At(s), ranged), a, s.errno)
  <1>1. PICK p, t, u : /\ p = IF HasPairs(s.cur) THEN PeekChar(s) ELSE s
                       /\ t = NextChar(p) /\ u = NextChar(t)
    OBVIOUS
  <1>2. s.cur # EOF /\ Onward(s, s) /\ text \in Seq(STRING) /\ At(s) \in Nat
    BY Beginnings, SyncedIs DEF IsText
  <1>3. /\ Onward(s, p) /\ At(p) = At(s) /\ p.cur = s.cur /\ p.errno = s.errno /\ Synced(p)
        /\ HasPairs(s.cur) => p.valid = 2
    <2>1. CASE HasPairs(s.cur)
      <3>1. p = PeekChar(s)
        BY <1>1, <2>1
      <3>2. QED  BY <1>2, <3>1, SyncedPeek DEF Onward
    <2>2. CASE ~HasPairs(s.cur)
      <3>1. p = s
        BY <1>1, <2>2
      <3>2. QED  BY <1>2, <2>2, <3>1
    <2>3. QED  BY <2>1, <2>2
  <1>4. /\ Onward(p, t) /\ Synced(t) /\ t \in LexerState /\ t.errno = s.errno
        /\ At(t) = At(s) + 1
        /\ p.valid = 2 => t.cur = p.next
    <2>1. Onward(p, p) /\ p \in LexerState
      BY <1>2, <1>3, SyncedIs
    <2>2. Onward(p, t) /\ t \in LexerState /\ At(t) = At(p) + 1
      BY <1>1, <1>2, <1>3, <2>1, NextOnward
    <2>3. t.errno = p.errno /\ (p.valid > 1 => t.cur = p.next)
      BY <1>1, <1>2, <2>1, NextIs
    <2>4. QED  BY <1>3, <2>2, <2>3 DEF Onward
  <1>5. PICK i, c, d : /\ i = At(s) /\ c = Tokens!Char(U, i) /\ d = Tokens!Char(U, i + 1)
                       /\ TokenIsAt(U, i, ranged, c, d)
    BY TokenAtIs
  <1>6. ASSUME Shows(U, p.pos)
        PROVE  c = s.cur /\ (p.valid = 2 => d = p.next)
    BY <1>3, <1>5, <1>6, HereIs
  <1>7. CASE p.valid > 1 /\ <<p.cur, p.next>> \in DOMAIN Pair
    <2>1. a.kind = Pair[<<p.cur, p.next>>] /\ a.value = <<>> /\ a.s = u
      BY <1>1, <1>7, TokenIs DEF Symbol
    <2>2. p.valid = 2 /\ p.next # EOF
      <3>1. p.valid \in 1 .. 2
        BY <1>2, <1>3, SyncedIs
      <3>2. QED  BY <1>7, <3>1, PairsAre
    <2>3. Onward(t, u) /\ At(u) = At(t) + 1 /\ u.errno = s.errno
      <3>1. t.cur # EOF /\ Onward(t, t)
        BY <1>2, <1>4, <2>2, SyncedIs
      <3>2. Onward(t, u) /\ At(u) = At(t) + 1
        BY <1>1, <1>2, <1>4, <3>1, NextOnward
      <3>3. u.errno = t.errno
        BY <1>1, <1>2, <1>4, NextIs
      <3>4. QED  BY <1>4, <3>2, <3>3
    <2>4. Shows(U, p.pos)
      <3>1. Shows(U, t.pos)
        BY <1>4, <2>1, <2>3, ShowsBack
      <3>2. QED  BY <1>3, <1>4, <3>1, ShowsBack
    <2>5. c = p.cur /\ d = p.next
      BY <1>3, <1>6, <2>2, <2>4
    <2>6. Tokens!TokenAt(U, i, ranged) = Tokens!Found(Pair[<<c, d>>], <<>>, i + 2)
      <3>1. <<c, d>> \in DOMAIN Pair
        BY <1>7, <2>5
      <3>2. QED  BY <1>5, <3>1 DEF TokenIsAt
    <2>7. At(a.s) = i + 2
      BY <1>2, <1>4, <1>5, <2>1, <2>3
    <2>8. QED  BY <1>5, <2>1, <2>3, <2>5, <2>6, <2>7 DEF Answers
  <1>8. CASE ~(p.valid > 1 /\ <<p.cur, p.next>> \in DOMAIN Pair)
    <2>1. a.kind = Single[p.cur] /\ a.value = <<>> /\ a.s = t
      BY <1>1, <1>8, TokenIs DEF Symbol, OneCharacter
    <2>2. Shows(U, p.pos)
      BY <1>3, <1>4, <2>1, ShowsBack
    <2>3. c = p.cur /\ c \in DOMAIN Single
      BY <1>3, <1>6, <2>2
    <2>4. <<c, d>> \notin DOMAIN Pair
      <3>1. CASE HasPairs(s.cur)
        <4>1. p.valid > 1 /\ d = p.next
          BY <1>3, <1>6, <2>2, <3>1
        <4>2. QED  BY <1>8, <2>3, <4>1
      <3>2. CASE ~HasPairs(s.cur)
        BY <1>6, <2>2, <3>2, PairsAre
      <3>3. QED  BY <3>1, <3>2
    <2>5. Tokens!TokenAt(U, i, ranged) = Tokens!Found(Single[c], <<>>, i + 1)
      BY <1>5, <2>3, <2>4 DEF TokenIsAt
    <2>6. QED  BY <1>4, <1>5, <2>1, <2>3, <2>5 DEF Answers
  <1>9. QED  BY <1>7, <1>8

LEMMA HexEndsAt ==
  ASSUME IsText(text), NEW s, Synced(s), s.cur = "$", NEW U,
         NEW a, a = IF PeekChar(s).next \in DigitsOf(16) THEN NumberToken(NextChar(PeekChar(s)), 16)
                    ELSE Token("Unknown", <<>>, PeekChar(s)),
         Shows(U, a.s.pos)
  PROVE  Answers(Tokens!TokenAt(U, At(s), s.errno = "ERANGE"), a, s.errno)
  <1>1. PICK p, t : p = PeekChar(s) /\ t = NextChar(p)
    OBVIOUS
  <1>2. s.cur # EOF /\ Onward(s, s) /\ text \in Seq(STRING) /\ At(s) \in Nat
    BY Beginnings, SyncedIs DEF IsText
  <1>3. /\ Onward(s, p) /\ At(p) = At(s) /\ p.cur = s.cur /\ p.errno = s.errno /\ Synced(p)
        /\ p.valid = 2
    BY <1>1, <1>2, SyncedPeek DEF Onward
  <1>4. PICK i, c, d, ranged : /\ i = At(s) /\ c = Tokens!Char(U, i) /\ d = Tokens!Char(U, i + 1)
                               /\ ranged = (s.errno = "ERANGE")
                               /\ TokenIsAt(U, i, ranged, c, d)
    BY TokenAtIs
  <1>5. ASSUME Shows(U, p.pos) PROVE c = "$" /\ d = p.next
    BY <1>3, <1>4, <1>5, HereIs
  <1>6. CASE p.next \in DigitsOf(16)
    <2>1. a = NumberToken(t, 16)
      BY <1>1, <1>6
    <2>2. /\ Onward(p, t) /\ Synced(t) /\ t.errno = s.errno /\ At(t) = At(s) + 1
          /\ t.cur = p.next
      <3>1. Onward(p, p) /\ p \in LexerState /\ p.cur # EOF
        BY <1>2, <1>3, SyncedIs
      <3>2. Onward(p, t) /\ At(t) = At(p) + 1
        BY <1>1, <1>2, <1>3, <3>1, NextOnward
      <3>3. t.errno = p.errno /\ t.cur = p.next
        BY <1>1, <1>2, <1>3, <3>1, NextIs
      <3>4. QED  BY <1>3, <3>2, <3>3 DEF Onward
    <2>3. t.cur # EOF
      <3>1. 16 \in 0 .. 36
        OBVIOUS
      <3>2. QED  BY <1>6, <2>2, <3>1, Characters
    <2>4. Onward(t, a.s)
      <3>1. 16 \in 0 .. 36
        OBVIOUS
      <3>2. Reads(NextChar(t), NumberToken(t, 16))
        BY <1>2, <2>2, <2>3, <3>1, NumberTokenReads
      <3>3. Moves(t, NumberToken(t, 16))
        BY <1>2, <2>2, <2>3, <3>2, ReadsBehind
      <3>4. QED  BY <2>1, <3>3 DEF Moves, Reads
    <2>5. Shows(U, p.pos)
      <3>1. Shows(U, t.pos)
        BY <2>2, <2>4, ShowsBack
      <3>2. QED  BY <1>3, <2>2, <3>1, ShowsBack
    <2>6. Tokens!TokenAt(U, i, ranged) = Tokens!Number(U, i, ranged)
      <3>1. c = "$" /\ d \in DigitsOf(16)
        BY <1>5, <1>6, <2>5
      <3>2. Tokens!TokenAt(U, i, ranged) =
              IF d \in DigitsOf(16) THEN Tokens!Number(U, i, ranged)
              ELSE Tokens!Found("Unknown", <<>>, i)
        BY <1>4, <3>1 DEF TokenIsAt
      <3>3. QED  BY <3>1, <3>2
    <2>7. Tokens!IntegerPart(U, i) =
            Tokens!IntegerFrom(U, [at |-> At(t) + 1, base |-> 16, from |-> At(t)])
      <3>1. c = "$" /\ At(t) = i + 1 /\ At(t) + 1 = i + 2
        BY <1>2, <1>4, <1>5, <2>2, <2>5
      <3>2. QED  BY <1>4, <3>1 DEF Tokens!IntegerPart
    <2>8. Answers(Tokens!Number(U, i, t.errno = "ERANGE"), a, t.errno)
      <3>1. 16 \in 2 .. 36
        OBVIOUS
      <3>2. QED  BY <2>1, <2>2, <2>3, <2>7, <3>1, NumberEndsAt
    <2>9. QED  BY <1>4, <2>2, <2>6, <2>8
  <1>7. CASE p.next \notin DigitsOf(16)
    <2>1. a.kind = "Unknown" /\ a.value = <<>> /\ a.s = p
      BY <1>1, <1>7, TokenIs
    <2>2. Tokens!TokenAt(U, i, ranged) = Tokens!Found("Unknown", <<>>, i)
      <3>1. c = "$" /\ d \notin DigitsOf(16)
        BY <1>5, <1>7, <2>1
      <3>2. Tokens!TokenAt(U, i, ranged) =
              IF d \in DigitsOf(16) THEN Tokens!Number(U, i, ranged)
              ELSE Tokens!Found("Unknown", <<>>, i)
        BY <1>4, <3>1 DEF TokenIsAt
      <3>3. QED  BY <3>1, <3>2
    <2>3. QED  BY <1>3, <1>4, <2>1, <2>2 DEF Answers
  <1>8. QED  BY <1>6, <1>7

(* The token that is scanned is the one that is found in every text that   *)
(* has the characters the lexer has read.                                  *)
LEMMA ScannedEndsAt ==
  ASSUME IsText(text), NEW s, Synced(s), NEW U, NEW a, a = Scanned(s), Shows(U, a.s.pos)
  PROVE  Answers(Tokens!TokenAt(U, At(s), s.errno = "ERANGE"), a, s.errno)
  <1>1. PICK i, c, ranged : /\ i = At(s) /\ c = s.cur /\ ranged = (s.errno = "ERANGE")
    OBVIOUS
  <1>2. Moves(s, a) /\ Onward(s, a.s) /\ Onward(s, s) /\ text \in Seq(STRING)
        /\ s \in LexerState /\ At(s) \in Nat
    BY ScannedMoves, SyncedIs DEF Moves, Reads, IsText
  <1>3. Shows(U, s.pos)
    BY <1>2, ShowsBack
  <1>4. Tokens!Char(U, i) = c
    BY <1>1, <1>3, HereIs
  <1>5. PICK d : TokenIsAt(U, i, ranged, c, d)
    BY <1>4, TokenAtIs
  <1>6. CASE c = EOF
    <2>1. a.kind = "EndOfFile" /\ a.value = <<>> /\ a.s = s
      <3>1. Scanned(s) = Token("EndOfFile", <<>>, s)
        BY <1>1, <1>6, Disjoint DEF Scanned
      <3>2. QED  BY <3>1, TokenIs
    <2>2. Tokens!TokenAt(U, i, ranged) = Tokens!Found("EndOfFile", <<>>, i)
      BY <1>6, <1>5 DEF TokenIsAt
    <2>3. QED  BY <1>1, <2>1, <2>2 DEF Answers
  <1>7. CASE c \in DOMAIN Single
    <2>1. a = Symbol(IF HasPairs(s.cur) THEN PeekChar(s) ELSE s)
      BY <1>1, <1>7, Disjoint DEF Scanned
    <2>2. QED  BY <1>1, <1>7, <2>1, SymbolEndsAt
  <1>8. CASE c \in Quote
    <2>1. a = InString[[s |-> NextChar(s), str |-> <<>>, quote |-> s.cur]]
      BY <1>1, <1>8, Disjoint DEF Scanned
    <2>2. Tokens!String(U, i) = Tokens!Found(a.kind, a.value, At(a.s))
      BY <1>1, <1>8, <2>1, StringEndsAt
    <2>3. a.s.errno = s.errno
      <3>1. PICK t, q : t = NextChar(s) /\ q = [s |-> t, str |-> <<>>, quote |-> s.cur]
        OBVIOUS
      <3>2. c # EOF
        BY <1>8, Beginnings
      <3>3. Onward(s, t) /\ t \in LexerState /\ t.errno = s.errno
        BY <1>1, <1>2, <3>1, <3>2, NextOnward, NextIs
      <3>4. q \in StringState /\ q.s = t
        BY <1>1, <1>8, <3>1, <3>3 DEF StringState
      <3>5. InString[q].s.errno = q.s.errno
        BY <1>2, <3>3, <3>4, InStringReads
      <3>6. QED  BY <2>1, <3>1, <3>3, <3>4, <3>5
    <2>4. Tokens!TokenAt(U, i, ranged) = Tokens!String(U, i)
      BY <1>8, <1>5 DEF TokenIsAt
    <2>5. QED  BY <1>1, <2>2, <2>3, <2>4 DEF Answers
  <1>9. CASE c \in WordStart
    <2>1. a = InWord[[s |-> s, str |-> <<>>]]
      BY <1>1, <1>9, Disjoint DEF Scanned
    <2>2. Tokens!Word(U, i) = Tokens!Found(a.kind, a.value, At(a.s))
      BY <1>1, <2>1, WordEndsAt
    <2>3. a.s.errno = s.errno
      <3>1. PICK w : w = [s |-> s, str |-> <<>>]
        OBVIOUS
      <3>2. w \in WordState /\ w.s = s
        BY <1>2, <3>1 DEF WordState
      <3>3. InWord[w].s.errno = w.s.errno
        BY <1>2, <3>2, InWordReads
      <3>4. QED  BY <2>1, <3>1, <3>2, <3>3
    <2>4. Tokens!TokenAt(U, i, ranged) = Tokens!Word(U, i)
      BY <1>9, <1>5 DEF TokenIsAt
    <2>5. QED  BY <1>1, <2>2, <2>3, <2>4 DEF Answers
  <1>10. CASE c \in Digit
    <2>1. a = NumberToken(s, 10)
      BY <1>1, <1>10, Disjoint DEF Scanned
    <2>2. c # EOF /\ c # "$"
      <3>1. PICK e : e = "$"
        OBVIOUS
      <3>2. e \notin Digit
        BY <3>1, Disjoint, Zenon
      <3>3. QED  BY <1>10, <3>1, <3>2, Beginnings
    <2>3. Tokens!IntegerPart(U, i) =
            Tokens!IntegerFrom(U, [at |-> At(s) + 1, base |-> 10, from |-> At(s)])
      BY <1>1, <1>4, <2>2 DEF Tokens!IntegerPart
    <2>4. Answers(Tokens!Number(U, i, s.errno = "ERANGE"), a, s.errno)
      <3>1. 10 \in 2 .. 36
        OBVIOUS
      <3>2. QED  BY <1>1, <2>1, <2>2, <2>3, <3>1, NumberEndsAt
    <2>5. Tokens!TokenAt(U, i, ranged) = Tokens!Number(U, i, ranged)
      BY <1>10, <1>5 DEF TokenIsAt
    <2>6. QED  BY <1>1, <2>4, <2>5
  <1>11. CASE c = "$"
    <2>1. PICK e : e = "$"
      OBVIOUS
    <2>2. e \notin DOMAIN Single \cup Quote \cup WordStart \cup Digit \cup {EOF}
      BY <2>1, Disjoint, Zenon
    <2>3. a = IF PeekChar(s).next \in DigitsOf(16) THEN NumberToken(NextChar(PeekChar(s)), 16)
              ELSE Token("Unknown", <<>>, PeekChar(s))
      BY <1>1, <1>11, <2>1, <2>2 DEF Scanned
    <2>4. QED  BY <1>1, <1>11, <2>3, HexEndsAt
  <1>12. CASE ~Begins(c) /\ c # "$"
    <2>1. a.kind = "Unknown" /\ a.value = <<>> /\ a.s = s
      BY <1>1, <1>12, TokenIs DEF Scanned, Begins
    <2>2. Tokens!TokenAt(U, i, ranged) = Tokens!Found("Unknown", <<>>, i)
      BY <1>12, <1>5 DEF TokenIsAt
    <2>3. QED  BY <1>1, <2>1, <2>2 DEF Answers
  <1>13. QED  BY <1>6, <1>7, <1>8, <1>9, <1>10, <1>11, <1>12 DEF Begins

-----------------------------------------------------------------------------
(* What a lexer has peeked at.  Between two tokens, a line end that has    *)
(* been peeked at stands behind a dollar; where a token begins, it may     *)
(* also stand behind what could have begun a comment.                      *)

PeeksEnd(s) == s.valid = 2 /\ s.next = NL
Settled(s)  == PeeksEnd(s) => s.cur = "$"
Quiet(s)    == PeeksEnd(s) => s.cur \in {"$", "(", "/"}

LEMMA NextPeeks ==
  ASSUME text \in Seq(STRING), NEW s \in LexerState
  PROVE  ~PeeksEnd(NextChar(s)) /\ Quiet(NextChar(s)) /\ Settled(NextChar(s))
         /\ NextChar(s) \in LexerState
  <1>1. NextChar(s).valid # 2
    <2>1. s.valid \in 0 .. 2
      BY Fields
    <2>2. CASE s.valid > 1
      BY <2>2, NextIs
    <2>3. CASE s.valid <= 1
      BY <2>1, <2>3, NextIs
    <2>4. QED  BY <2>1, <2>2, <2>3
  <1>2. QED  BY <1>1, NextIs DEF PeeksEnd, Quiet, Settled

LEMMA PassIsQuiet ==
  ASSUME text \in Seq(STRING), NEW s \in LexerState, Quiet(s)
  PROVE  Quiet(Pass(s)) /\ Pass(s) \in LexerState
  <1>1. PICK P, a, b, c, d : /\ P = {t \in LexerState : Quiet(t)}
                             /\ a = SkipWhile(s, Space) /\ b = BraceComment(a)
                             /\ c = StarComment(b) /\ d = LineComment(c)
    OBVIOUS
  <1>2. P \subseteq LexerState /\ s \in P /\ \A t \in LexerState : NextChar(t) \in P
    BY <1>1, NextPeeks
  <1>3. a \in P
    <2>1. \A t \in P : t.cur \in Space => NextChar(t) \in P
      BY <1>2
    <2>2. QED  BY <1>1, <1>2, <2>1, NotSpace, SkipWhileEnds
  <1>4. b \in P
    <2>1. CASE a.cur # LBRACE
      BY <1>1, <1>3, <2>1 DEF BraceComment
    <2>2. CASE a.cur = LBRACE
      <3>1. PICK t, u : t = NextChar(a) /\ u = SkipUntil(t, {RBRACE})
        OBVIOUS
      <3>2. t \in LexerState
        BY <1>2, <1>3, <3>1
      <3>3. u \in LexerState
        BY <3>1, <3>2, SkipUntilIs
      <3>4. b = NextChar(u)
        BY <1>1, <2>2, <3>1 DEF BraceComment
      <3>5. QED  BY <1>2, <3>3, <3>4
    <2>3. QED  BY <2>1, <2>2
  <1>5. c \in P
    <2>1. CASE b.cur # "("
      BY <1>1, <1>4, <2>1 DEF StarComment
    <2>2. CASE b.cur = "("
      <3>1. PICK p, v : p = PeekChar(b) /\ v = NextChar(NextChar(p))
        OBVIOUS
      <3>2. p \in LexerState /\ p.cur = b.cur
        BY <1>2, <1>4, <3>1, PeekIs
      <3>3. p \in P
        BY <1>1, <2>2, <3>2 DEF Quiet
      <3>4. v \in LexerState
        BY <3>1, <3>2, NextIs
      <3>5. InStarComment[v] \in P
        <4>1. PICK t \in LexerState :
                \/ t.cur = EOF /\ InStarComment[v] = NextChar(NextChar(t))
                \/ /\ t.cur = "*" /\ PeekChar(t).next = ")"
                   /\ InStarComment[v] = NextChar(NextChar(PeekChar(t)))
          <5>1. PICK Q : Q = LexerState
            OBVIOUS
          <5>2. /\ \A t \in Q : t.cur # EOF /\ t.cur # "*" => NextChar(t) \in Q
                /\ \A t \in Q : t.cur = "*" /\ PeekChar(t).next # ")" => NextChar(PeekChar(t)) \in Q
            BY <5>1, NextIs, PeekIs
          <5>3. Q \subseteq LexerState /\ v \in Q
            BY <3>4, <5>1
          <5>4. PICK t \in Q :
                  \/ t.cur = EOF /\ InStarComment[v] = NextChar(NextChar(t))
                  \/ /\ t.cur = "*" /\ PeekChar(t).next = ")"
                     /\ InStarComment[v] = NextChar(NextChar(PeekChar(t)))
            BY <5>2, <5>3, InStarCommentEnds
          <5>5. QED  BY <5>1, <5>4
        <4>2. NextChar(t) \in LexerState /\ NextChar(PeekChar(t)) \in LexerState
          BY NextIs, PeekIs
        <4>3. QED  BY <1>2, <4>1, <4>2
      <3>6. c = p \/ c = InStarComment[v]
        BY <1>1, <2>2, <3>1 DEF StarComment
      <3>7. QED  BY <3>3, <3>5, <3>6
    <2>3. QED  BY <2>1, <2>2
  <1>6. d \in P
    <2>1. CASE c.cur # "/"
      BY <1>1, <1>5, <2>1 DEF LineComment
    <2>2. CASE c.cur = "/"
      <3>1. PICK p : p = PeekChar(c)
        OBVIOUS
      <3>2. p \in LexerState /\ p.cur = c.cur
        BY <1>2, <1>5, <3>1, PeekIs
      <3>3. p \in P
        BY <1>1, <2>2, <3>2 DEF Quiet
      <3>4. SkipUntil(p, {NL}) \in P
        <4>1. \A t \in P : t.cur \notin {NL} \cup {EOF} => NextChar(t) \in P
          BY <1>2
        <4>2. QED  BY <1>2, <3>3, <4>1, SkipUntilEnds
      <3>5. d = p \/ d = SkipUntil(p, {NL})
        BY <1>1, <2>2, <3>1 DEF LineComment
      <3>6. QED  BY <3>3, <3>4, <3>5
    <2>3. QED  BY <2>1, <2>2
  <1>7. Pass(s) = d
    BY <1>1 DEF Pass
  <1>8. QED  BY <1>1, <1>6, <1>7

LEMMA SkipIsQuiet ==
  ASSUME text \in Seq(STRING), NEW s0, Synced(s0), Quiet(s0)
  PROVE  Quiet(Skip[s0])
  <1>1. PICK P : P = {s \in LexerState : Onward(s0, s) /\ Quiet(s)}
    OBVIOUS
  <1>2. s0 \in P /\ \A s \in P : s \in LexerState /\ Synced(s)
    BY <1>1, SyncedIs DEF Onward
  <1>3. ASSUME NEW s \in P PROVE Pass(s) \in P
    <2>1. PICK t : t = Pass(s)
      OBVIOUS
    <2>2. Onward(s, t) /\ t \in LexerState
      BY <1>2, <2>1, PassLeads DEF Leads
    <2>3. Onward(s0, t)
      BY <1>1, <2>2, OnwardTwice
    <2>4. Quiet(t)
      BY <1>1, <2>1, PassIsQuiet
    <2>5. QED  BY <1>1, <2>1, <2>2, <2>3, <2>4
  <1>4. Skip[s0] \in P
    BY <1>2, <1>3, SkipLoopEnds
  <1>5. QED  BY <1>1, <1>4

LEMMA WordPeeks ==
  ASSUME text \in Seq(STRING), NEW s, Synced(s), s.cur \in WordStart
  PROVE  ~PeeksEnd(InWord[[s |-> s, str |-> <<>>]].s)
  <1>1. PICK w0, k0, P : /\ w0 = [s |-> s, str |-> <<>>] /\ k0 = Kept(w0)
                         /\ P = {w \in WordState : Onward(s, w.s) /\ ~PeeksEnd(w.s)}
    OBVIOUS
  <1>2. s \in LexerState /\ Onward(s, s) /\ s.cur # EOF /\ s.cur \in WordChar
    BY SyncedIs, Beginnings, Characters
  <1>3. w0 \in WordState /\ w0.s = s
    BY <1>1, <1>2 DEF WordState
  <1>4. InWord[w0] = InWord[k0]
    BY <1>1, <1>2, <1>3, InWordReads
  <1>5. k0 \in P
    <2>1. k0 \in WordState /\ k0.s = NextChar(s)
      BY <1>1, <1>3, KeptIs
    <2>2. Onward(s, NextChar(s)) /\ ~PeeksEnd(NextChar(s))
      BY <1>2, NextOnward, NextPeeks
    <2>3. QED  BY <1>1, <2>1, <2>2
  <1>6. ASSUME NEW w \in P, w.s.cur \in WordChar PROVE Kept(w) \in P
    <2>1. w \in WordState /\ w.s \in LexerState /\ Onward(s, w.s) /\ w.s.cur # EOF
      BY <1>1, <1>6, Characters DEF WordState
    <2>2. Kept(w) \in WordState /\ Kept(w).s = NextChar(w.s)
      BY <2>1, KeptIs
    <2>3. Onward(s, NextChar(w.s)) /\ ~PeeksEnd(NextChar(w.s))
      BY <2>1, NextOnward, NextPeeks
    <2>4. QED  BY <1>1, <2>2, <2>3
  <1>7. PICK w \in P : InWord[k0] = WordIs(w)
    <2>1. P \subseteq WordState /\ \A w \in P : Onward(s, w.s)
      BY <1>1
    <2>2. QED  BY <1>5, <1>6, <2>1, InWordEnds
  <1>8. WordIs(w).s = w.s
    BY TokenIs DEF WordIs
  <1>9. ~PeeksEnd(InWord[w0].s)
    BY <1>1, <1>4, <1>7, <1>8
  <1>10. QED  BY <1>1, <1>9

LEMMA StringPeeks ==
  ASSUME text \in Seq(STRING), NEW s, Synced(s), s.cur \in Quote
  PROVE  ~PeeksEnd(InString[[s |-> NextChar(s), str |-> <<>>, quote |-> s.cur]].s)
  <1>1. PICK q0, P : /\ q0 = [s |-> NextChar(s), str |-> <<>>, quote |-> s.cur]
                     /\ P = {q \in StringState : Onward(s, q.s) /\ ~PeeksEnd(q.s)}
    OBVIOUS
  <1>2. s \in LexerState /\ Onward(s, s) /\ s.cur # EOF
    BY SyncedIs, Beginnings
  <1>3. Onward(s, NextChar(s)) /\ ~PeeksEnd(NextChar(s)) /\ NextChar(s) \in LexerState
    BY <1>2, NextOnward, NextPeeks
  <1>4. q0 \in P
    BY <1>1, <1>3 DEF StringState
  <1>5. ASSUME NEW q \in P
        PROVE  /\ q \in StringState /\ Onward(s, q.s) /\ q.quote \notin {NL, EOF}
               /\ q.s \in LexerState /\ ~PeeksEnd(q.s)
    BY <1>1, NotQuote DEF StringState
  <1>6. ASSUME NEW q \in P, q.s.cur = q.quote PROVE Doubled(q) \in P
    <2>1. PICK k, u : k = Doubled(q) /\ u = NextChar(PeekChar(q.s))
      OBVIOUS
    <2>2. k \in StringState /\ k.s = NextChar(u)
      BY <1>5, <2>1, DoubledIs
    <2>3. Onward(s, u) /\ u \in LexerState
      BY <1>5, <1>6, <2>1, PeekOnward, PeekIs, NextIs
    <2>4. Onward(u, k.s)
      BY <2>2, <2>3, SyncedNext DEF Onward
    <2>5. Onward(s, k.s)
      BY <2>3, <2>4, OnwardTwice
    <2>6. ~PeeksEnd(k.s)
      BY <2>2, <2>3, NextPeeks
    <2>7. QED  BY <1>1, <2>1, <2>2, <2>5, <2>6
  <1>7. ASSUME NEW q \in P, q.s.cur \notin {NL, EOF} PROVE Kept(q) \in P
    <2>1. Kept(q) \in StringState /\ Kept(q).s = NextChar(q.s)
      BY <1>5, KeptIs
    <2>2. Onward(s, NextChar(q.s)) /\ ~PeeksEnd(NextChar(q.s))
      BY <1>5, <1>7, NextOnward, NextPeeks
    <2>3. QED  BY <1>1, <2>1, <2>2
  <1>8. PICK q \in P : \/ InString[q0] = Token("UntermString", <<>>, q.s)
                       \/ InString[q0] = StringIs(q)
    <2>1. P \subseteq StringState /\ \A q \in P : Onward(s, q.s)
      BY <1>1
    <2>2. PICK q \in P :
            \/ q.s.cur \in {NL, EOF} /\ InString[q0] = Token("UntermString", <<>>, q.s)
            \/ /\ q.s.cur = q.quote /\ q.s.cur # EOF /\ PeekChar(q.s).next # q.quote
               /\ InString[q0] = StringIs(q)
      BY <1>4, <1>6, <1>7, <2>1, InStringEnds
    <2>3. QED  BY <2>2
  <1>9. StringIs(q).s = NextChar(PeekChar(q.s))
    BY TokenIs DEF StringIs
  <1>10. ~PeeksEnd(NextChar(PeekChar(q.s)))
    BY <1>5, PeekIs, NextPeeks
  <1>11. ~PeeksEnd(InString[q0].s)
    BY <1>5, <1>8, <1>9, <1>10, TokenIs
  <1>12. QED  BY <1>1, <1>11

LEMMA RangePeeks ==
  ASSUME NEW s \in LexerState, NEW range, ~PeeksEnd(s)
  PROVE  ~PeeksEnd(WithRange(s, range))
  <1>1. PICK t : t = [s EXCEPT !.errno = "ERANGE"]
    OBVIOUS
  <1>2. t.valid = s.valid /\ t.next = s.next
    BY <1>1 DEF LexerState
  <1>3. ~PeeksEnd(t)
    BY <1>2 DEF PeeksEnd
  <1>4. QED  BY <1>1, <1>3 DEF WithRange

LEMMA DigitsPeek ==
  ASSUME text \in Seq(STRING), NEW n0 \in NumState, ~PeeksEnd(n0.s)
  PROVE  Digits[n0] \in NumState /\ ~PeeksEnd(Digits[n0].s)
  <1>1. PICK P : P = {n \in NumState : ~PeeksEnd(n.s)}
    OBVIOUS
  <1>2. ASSUME NEW n \in P PROVE Taken(n) \in P
    <2>1. n \in NumState /\ n.s \in LexerState
      BY <1>1, NumFields
    <2>2. QED  BY <1>1, <2>1, TakenIs, NextPeeks
  <1>3. P \subseteq NumState /\ n0 \in P
    BY <1>1
  <1>4. \E n \in P : n.s.cur \notin Digit /\ Digits[n0] = n
    BY <1>2, <1>3, DigitsEnds
  <1>5. QED  BY <1>1, <1>4

LEMMA IntpartPeeks ==
  ASSUME text \in Seq(STRING), NEW s0, Synced(s0), NEW n0 \in NumState, Onward(s0, n0.s),
         n0.base \in 0 .. 36, ~PeeksEnd(n0.s)
  PROVE  ~PeeksEnd(Intpart[n0].s)
  <1>1. PICK P : P = {n \in NumState : Onward(s0, n.s) /\ n.base \in 0 .. 36 /\ ~PeeksEnd(n.s)}
    OBVIOUS
  <1>2. "#" # EOF
    BY DEF EOF
  <1>3. ASSUME NEW n \in P
        PROVE  /\ n \in NumState /\ Onward(s0, n.s) /\ n.base \in 0 .. 36 /\ Synced(n.s)
               /\ n.s \in LexerState
    BY <1>1, NumFields DEF Onward
  <1>4. ASSUME NEW n \in P, IsBased(n) PROVE Rebased(n) \in P
    <2>1. PICK b, r : b = Based(n) /\ r = Rebased(n)
      OBVIOUS
    <2>2. n.s.cur # EOF
      BY <1>2, <1>4 DEF IsBased
    <2>3. Onward(n.s, b.s) /\ b.base \in 0 .. 36 /\ b \in NumState
      <3>1. Onward(n.s, b.s) /\ b.base \in {0} \cup 2 .. 36 /\ b \in NumState
        BY <1>3, <2>1, <2>2, BasedIs
      <3>2. QED  BY <3>1
    <2>4. Onward(s0, b.s) /\ Synced(b.s) /\ b.s \in LexerState
      BY <1>3, <2>3, OnwardTwice, NumFields DEF Onward
    <2>5. r \in NumState /\ r.s = NextChar(b.s) /\ r.base = b.base
      BY <1>3, <2>1, RebasedIs
    <2>6. Onward(s0, r.s)
      <3>1. Onward(b.s, r.s)
        BY <2>4, <2>5, SyncedNext
      <3>2. QED  BY <2>4, <3>1, OnwardTwice
    <2>7. ~PeeksEnd(r.s)
      BY <2>4, <2>5, NextPeeks
    <2>8. QED  BY <1>1, <2>1, <2>3, <2>5, <2>6, <2>7
  <1>5. ASSUME NEW n \in P, HasInteger(n) PROVE Taken(n) \in P
    <2>1. n.s.cur # EOF
      BY <1>2, <1>3, <1>5, Characters DEF HasInteger
    <2>2. PICK k : k = Taken(n)
      OBVIOUS
    <2>3. k \in NumState /\ k.s = NextChar(n.s) /\ k.base = n.base
      BY <1>3, <2>2, TakenIs
    <2>4. Onward(s0, k.s) /\ ~PeeksEnd(k.s)
      BY <1>3, <2>1, <2>3, NextOnward, NextPeeks
    <2>5. QED  BY <1>1, <1>3, <2>2, <2>3, <2>4
  <1>6. PICK n \in P : Intpart[n0] = Based(n) \/ Intpart[n0] = n
    <2>1. n0 \in P /\ P \subseteq NumState /\ \A n \in P : Onward(s0, n.s) /\ n.base \in 0 .. 36
      BY <1>1
    <2>2. QED  BY <1>4, <1>5, <2>1, IntpartEnds
  <1>7. ~PeeksEnd(Based(n).s)
    <2>1. PICK u, b, k : /\ u = WithRange(NextChar(n.s), Converted(n.num, 10, MaxLong).range)
                         /\ b = IF BaseOf(n.num) \in 2 .. 36 THEN BaseOf(n.num) ELSE 0
                         /\ k = Based(n)
      OBVIOUS
    <2>2. k = [n EXCEPT !.s = u, !.base = b]
      BY <2>1 DEF Based
    <2>3. k.s = u
      BY <1>3, <2>2 DEF NumState
    <2>4. ~PeeksEnd(u)
      BY <1>3, <2>1, NextPeeks, RangePeeks
    <2>5. QED  BY <2>1, <2>3, <2>4
  <1>8. QED  BY <1>1, <1>6, <1>7

LEMMA PartsPeek ==
  ASSUME text \in Seq(STRING), NEW s0, Synced(s0), NEW n0 \in NumState, Onward(s0, n0.s),
         ~PeeksEnd(n0.s)
  PROVE  ~PeeksEnd(Parts[n0].s)
  <1>1. PICK P : P = {n \in NumState : Onward(s0, n.s) /\ ~PeeksEnd(n.s)}
    OBVIOUS
  <1>2. ASSUME NEW n \in P, NEW k, Leads(n.s, k.s), k \in NumState, ~PeeksEnd(k.s) PROVE k \in P
    <2>1. Synced(n.s) /\ Onward(s0, n.s)
      BY <1>1 DEF Onward
    <2>2. Onward(n.s, k.s)
      BY <1>2, <2>1 DEF Leads
    <2>3. Onward(s0, k.s)
      BY <2>1, <2>2, OnwardTwice
    <2>4. QED  BY <1>1, <1>2, <2>3
  <1>3. ASSUME NEW n \in NumState, NEW k, k = [Taken(n) EXCEPT !.isFloat = TRUE]
        PROVE  k \in NumState /\ ~PeeksEnd(k.s)
    <2>1. NumLeads(n, k) /\ k.s = NextChar(n.s) /\ n.s \in LexerState
      BY <1>3, FloatIs, NumFields
    <2>2. QED  BY <2>1, NextPeeks DEF NumLeads
  <1>4. ASSUME NEW n \in P, HasFraction(n) PROVE Fraction(AtPoint(n)) \in P
    <2>1. PICK p, k, e : p = AtPoint(n) /\ k = Fraction(p) /\ e = [Taken(p) EXCEPT !.isFloat = TRUE]
      OBVIOUS
    <2>2. n \in NumState /\ n.s \in LexerState /\ n.s.cur # EOF
      BY <1>1, <1>4, NumFields, PointOrLetter
    <2>3. p \in NumState /\ p.s = PeekChar(n.s) /\ Leads(n.s, p.s)
      BY <2>1, <2>2, PartIs, StepsLead
    <2>4. k \in NumState /\ Leads(p.s, k.s)
      BY <2>1, <2>3, FractionLeads DEF NumLeads
    <2>5. Leads(n.s, k.s)
      BY <2>3, <2>4, LeadsTwice
    <2>6. ~PeeksEnd(k.s)
      <3>1. CASE p.s.next \in {".", ")"}
        <4>1. k = p /\ p.s.next # NL
          BY <2>1, <3>1 DEF Fraction, NL
        <4>2. QED  BY <4>1 DEF PeeksEnd
      <3>2. CASE p.s.next \notin {".", ")"}
        <4>1. k = Digits[e]
          BY <2>1, <3>2 DEF Fraction
        <4>2. e \in NumState /\ ~PeeksEnd(e.s)
          BY <1>3, <2>1, <2>3
        <4>3. QED  BY <4>1, <4>2, DigitsPeek
      <3>3. QED  BY <3>1, <3>2
    <2>7. QED  BY <1>2, <2>1, <2>4, <2>5, <2>6
  <1>5. ASSUME NEW n \in P, HasExponent(n) PROVE Exponent(AtLetter(n)) \in P
    <2>1. PICK p, k, e, l : /\ p = AtLetter(n) /\ k = Exponent(p)
                            /\ e = [Taken(p) EXCEPT !.isFloat = TRUE] /\ l = Signed(e)
      OBVIOUS
    <2>2. p \in NumState /\ p.s = n.s
      BY <1>1, <2>1, PartIs
    <2>3. k \in NumState /\ Leads(p.s, k.s)
      BY <2>1, <2>2, ExponentLeads DEF NumLeads
    <2>4. e \in NumState /\ ~PeeksEnd(e.s)
      BY <1>3, <2>1, <2>2
    <2>5. l \in NumState /\ ~PeeksEnd(l.s)
      <3>1. PICK m : m = Taken(e)
        OBVIOUS
      <3>2. m \in NumState /\ m.s = NextChar(e.s) /\ e.s \in LexerState
        BY <2>4, <3>1, TakenIs, NumFields
      <3>3. ~PeeksEnd(m.s)
        BY <3>2, NextPeeks
      <3>4. l = e \/ l = m
        BY <2>1, <3>1 DEF Signed
      <3>5. QED  BY <2>4, <3>2, <3>3, <3>4
    <2>6. k = Digits[l]
      BY <2>1 DEF Exponent
    <2>7. ~PeeksEnd(k.s)
      BY <2>5, <2>6, DigitsPeek
    <2>8. QED  BY <1>2, <2>1, <2>2, <2>3, <2>7
  <1>6. n0 \in P /\ P \subseteq NumState /\ \A n \in P : Onward(s0, n.s)
    BY <1>1
  <1>7. PICK n \in P : Parts[n0] = IF n.isFloat THEN ConvertFloat(n) ELSE ConvertInt(n)
    BY <1>4, <1>5, <1>6, PartsEnds
  <1>8. n \in NumState /\ n.s \in LexerState /\ ~PeeksEnd(n.s)
    BY <1>1, NumFields
  <1>9. \A range : ~PeeksEnd(WithRange(n.s, range))
    BY <1>8, RangePeeks
  <1>10. ~PeeksEnd(ConvertFloat(n).s)
    <2>1. \/ \E range : ConvertFloat(n) = Token("Real", n.num, WithRange(n.s, range))
          \/ ConvertFloat(n) = Token("Overflow", <<>>, n.s)
      BY DEF ConvertFloat
    <2>2. QED  BY <1>8, <1>9, <2>1, TokenIs
  <1>11. ~PeeksEnd(ConvertInt(n).s)
    <2>1. PICK u, s : /\ u = StrToULL(n.num, n.base)
                      /\ s = WithRange(n.s, StrToULL(n.num, n.base).range)
      OBVIOUS
    <2>2. ConvertInt(n) = SafeConvert(u, s) /\ ~PeeksEnd(s)
      BY <1>9, <2>1 DEF ConvertInt
    <2>3. \/ SafeConvert(u, s) = Token("Overflow", <<>>, s)
          \/ SafeConvert(u, s) = Token("Integer", <<u.value>>, s)
      BY DEF SafeConvert
    <2>4. QED  BY <2>2, <2>3, TokenIs
  <1>12. QED  BY <1>7, <1>10, <1>11

LEMMA NumberPeeks ==
  ASSUME IsText(text), NEW s, Synced(s), s.cur # EOF, NEW base \in 2 .. 36
  PROVE  ~PeeksEnd(NumberToken(s, base).s)
  <1>1. PICK n, k, i : /\ n = [s |-> s, num |-> <<>>, base |-> base, isFloat |-> FALSE,
                               state |-> "Intpart"]
                       /\ k = Taken(n) /\ i = Intpart[k]
    OBVIOUS
  <1>2. text \in Seq(STRING) /\ base \in 0 .. 36
    BY DEF IsText
  <1>3. n \in NumState /\ n.s = s /\ n.base = base
    <2>1. s \in LexerState /\ base \in Nat /\ <<>> \in Seq(STRING)
      BY <1>2, SyncedIs
    <2>2. QED  BY <1>1, <2>1 DEF NumState
  <1>4. k \in NumState /\ k.s = NextChar(s) /\ k.base = base
    BY <1>1, <1>2, <1>3, TakenIs
  <1>5. Onward(s, k.s) /\ ~PeeksEnd(k.s)
    BY <1>2, <1>4, SyncedIs, SyncedNext, NextPeeks
  <1>6. i \in NumState /\ Onward(s, i.s) /\ ~PeeksEnd(i.s)
    BY <1>1, <1>2, <1>4, <1>5, IntpartIs, IntpartPeeks
  <1>7. NumberToken(s, base) = InParts(i)
    BY <1>1 DEF NumberToken
  <1>8. ~PeeksEnd(InParts(i).s)
    <2>1. CASE i.base = 0
      BY <1>6, <2>1, TokenIs DEF InParts
    <2>2. CASE i.base # 0
      BY <1>2, <1>6, <2>2, PartsPeek DEF InParts
    <2>3. QED  BY <2>1, <2>2
  <1>9. QED  BY <1>7, <1>8

LEMMA ScannedSettles ==
  ASSUME IsText(text), NEW s, Synced(s), Quiet(s)
  PROVE  Settled(Scanned(s).s)
  <1>1. text \in Seq(STRING) /\ s \in LexerState /\ 10 \in 2 .. 36 /\ 16 \in 2 .. 36
    BY SyncedIs DEF IsText
  <1>2. EOF \notin {"$", "(", "/"} /\ "(" \in Singles /\ "/" \in Singles
    BY Zenon DEF EOF, Singles
  <1>3. ASSUME s.cur = EOF \/ ~Begins(s.cur)
        PROVE  Settled(s)
    <2>1. s.cur \notin {"(", "/"}
      BY <1>2, <1>3, SinglesAre DEF Begins
    <2>2. QED  BY <2>1 DEF Quiet, Settled
  <1>4. ASSUME s.cur \in DOMAIN Single
        PROVE  Settled(Symbol(IF HasPairs(s.cur) THEN PeekChar(s) ELSE s).s)
    <2>1. PICK p : p = IF HasPairs(s.cur) THEN PeekChar(s) ELSE s
      OBVIOUS
    <2>2. p \in LexerState
      BY <1>1, <2>1, PeekIs
    <2>3. \/ Symbol(p) = Token(Pair[<<p.cur, p.next>>], <<>>, NextChar(NextChar(p)))
          \/ Symbol(p) = Token(Single[p.cur], <<>>, NextChar(p))
      BY DEF Symbol, OneCharacter
    <2>4. Symbol(p).s = NextChar(NextChar(p)) \/ Symbol(p).s = NextChar(p)
      BY <2>3, TokenIs
    <2>5. Settled(Symbol(p).s)
      BY <1>1, <2>2, <2>4, NextPeeks
    <2>6. QED  BY <2>1, <2>5
  <1>5. ASSUME s.cur = "$"
        PROVE  Settled((IF PeekChar(s).next \in DigitsOf(16) THEN NumberToken(NextChar(PeekChar(s)), 16)
                        ELSE Token("Unknown", <<>>, PeekChar(s))).s)
    <2>1. PICK p, t : p = PeekChar(s) /\ t = NextChar(p)
      OBVIOUS
    <2>2. s.cur # EOF /\ p \in LexerState /\ p.cur = "$" /\ Synced(t)
      <3>1. s.cur # EOF /\ Onward(s, s)
        BY <1>1, <1>5, Beginnings, SyncedIs
      <3>2. QED  BY <1>1, <1>5, <2>1, <3>1, PeekIs, PeekOnward DEF Onward
    <2>3. CASE p.next \in DigitsOf(16)
      <3>1. p.next # EOF
        <4>1. EOF \notin DigitsOf(16)
          BY 16 \in 0 .. 36, Characters
        <4>2. QED  BY <2>3, <4>1
      <3>2. t.cur = p.next
        <4>1. s.valid \in 1 .. 2
          BY <1>1, SyncedIs
        <4>2. p.valid > 1
          BY <1>1, <2>1, <4>1, PeekIs
        <4>3. QED  BY <1>1, <2>1, <2>2, <4>2, NextIs
      <3>3. ~PeeksEnd(NumberToken(t, 16).s)
        BY <1>1, <2>2, <3>1, <3>2, NumberPeeks
      <3>4. QED  BY <2>1, <2>3, <3>3 DEF Settled
    <2>4. CASE p.next \notin DigitsOf(16)
      BY <2>1, <2>2, <2>4, TokenIs DEF Settled
    <2>5. QED  BY <2>3, <2>4
  <1>6. ASSUME s.cur \in Digit PROVE Settled(NumberToken(s, 10).s)
    <2>1. s.cur # EOF
      BY <1>6, Beginnings
    <2>2. QED  BY <1>1, <2>1, NumberPeeks DEF Settled
  <1>7. PICK a : a = Scanned(s)
    OBVIOUS
  <1>8. \/ s.cur = EOF             /\ a = Token("EndOfFile", <<>>, s)
        \/ s.cur \in DOMAIN Single /\ a = Symbol(IF HasPairs(s.cur) THEN PeekChar(s) ELSE s)
        \/ s.cur \in Quote         /\ a = InString[[s |-> NextChar(s), str |-> <<>>,
                                                    quote |-> s.cur]]
        \/ s.cur \in WordStart     /\ a = InWord[[s |-> s, str |-> <<>>]]
        \/ s.cur \in Digit         /\ a = NumberToken(s, 10)
        \/ s.cur = "$"             /\ a = IF PeekChar(s).next \in DigitsOf(16)
                                            THEN NumberToken(NextChar(PeekChar(s)), 16)
                                            ELSE Token("Unknown", <<>>, PeekChar(s))
        \/ ~Begins(s.cur)          /\ a = Token("Unknown", <<>>, s)
    BY <1>7 DEF Scanned, Begins
  <1>9. Settled(a.s)
    <2>1. CASE s.cur \in Quote /\ a = InString[[s |-> NextChar(s), str |-> <<>>, quote |-> s.cur]]
      BY <1>1, <2>1, StringPeeks DEF Settled
    <2>2. CASE s.cur \in WordStart /\ a = InWord[[s |-> s, str |-> <<>>]]
      BY <1>1, <2>2, WordPeeks DEF Settled
    <2>3. QED  BY <1>3, <1>4, <1>5, <1>6, <1>8, <2>1, <2>2, TokenIs
  <1>10. QED  BY <1>7, <1>9

-----------------------------------------------------------------------------
(* Lines.                                                                  *)

LEMMA EndsGrow ==
  ASSUME text \in Seq(STRING), NEW p \in Nat, NEW q \in Nat, p <= q
  PROVE  /\ Cardinality(Ends(p)) \in Nat /\ Cardinality(Ends(q)) \in Nat
         /\ Cardinality(Ends(p)) <= Cardinality(Ends(q))
         /\ q = p + 1 /\ CharAt(q) # NL => Cardinality(Ends(p)) = Cardinality(Ends(q))
  <1>1. IsFiniteSet(Ends(p)) /\ IsFiniteSet(Ends(q))
    BY EndsAre
  <1>2. Cardinality(Ends(p)) \in Nat /\ Cardinality(Ends(q)) \in Nat
    BY <1>1, FS_CardinalityType
  <1>3. Ends(p) \subseteq Ends(q)
    BY DEF Ends
  <1>4. Cardinality(Ends(p)) <= Cardinality(Ends(q))
    BY <1>1, <1>3, FS_Subset
  <1>5. ASSUME q = p + 1, CharAt(q) # NL PROVE Ends(p) = Ends(q)
    BY <1>5 DEF Ends, CharAt
  <1>6. QED  BY <1>2, <1>4, <1>5

LEMMA LineGrows ==
  ASSUME NEW U, NEW i \in Nat, NEW j \in Nat, i <= j
  PROVE  /\ Tokens!LineOf(U, i) \in Nat /\ Tokens!LineOf(U, j) \in Nat
         /\ Tokens!LineOf(U, i) <= Tokens!LineOf(U, j)
  <1>1. PICK A, B : /\ A = {k \in 1 .. i - 1 : Tokens!Char(U, k) = Tokens!NL}
                    /\ B = {k \in 1 .. j - 1 : Tokens!Char(U, k) = Tokens!NL}
    OBVIOUS
  <1>2. IsFiniteSet(1 .. j - 1)
    <2>1. 1 \in Int /\ j - 1 \in Int
      OBVIOUS
    <2>2. QED  BY <2>1, FS_Interval
  <1>3. B \subseteq 1 .. j - 1 /\ A \subseteq B
    BY <1>1
  <1>4. IsFiniteSet(B) /\ Cardinality(B) \in Nat
    BY <1>2, <1>3, FS_Subset, FS_CardinalityType
  <1>5. IsFiniteSet(A) /\ Cardinality(A) \in Nat /\ Cardinality(A) <= Cardinality(B)
    BY <1>3, <1>4, FS_Subset, FS_CardinalityType
  <1>6. Tokens!LineOf(U, i) = 1 + Cardinality(A) /\ Tokens!LineOf(U, j) = 1 + Cardinality(B)
    BY <1>1, SameCardinality, Zenon DEF Tokens!LineOf
  <1>7. QED  BY <1>4, <1>5, <1>6

LEMMA LineIs ==
  ASSUME IsText(text), NEW p \in Nat, NEW U, Shows(U, p), NEW q \in Nat, q <= p
  PROVE  Tokens!LineOf(U, q + 1) = 1 + Cardinality(Ends(q))
  <1>1. \A k \in Nat \ {0} : k <= p => Tokens!Char(U, k) = CharAt(k)
    BY ShowsIs
  <1>2. Len(text) \in Nat /\ NL # EOF /\ Tokens!NL = NL
    BY SameCharacters DEF IsText
  <1>3. PICK r : r = q + 1
    OBVIOUS
  <1>4. {k \in 1 .. r - 1 : Tokens!Char(U, k) = Tokens!NL} = Ends(q)
    <2>1. r - 1 = q
      BY <1>3
    <2>2. \A k \in 1 .. q : Tokens!Char(U, k) = Tokens!NL <=> k <= Len(text) /\ text[k] = NL
      BY <1>1, <1>2 DEF CharAt
    <2>3. QED  BY <1>2, <2>1, <2>2 DEF Ends
  <1>5. Tokens!LineOf(U, r) = 1 + Cardinality(Ends(q))
    BY <1>4, SameCardinality, Zenon DEF Tokens!LineOf
  <1>6. QED  BY <1>3, <1>5

(* The line a token is given, at a lexer that is behind it: no line end    *)
(* after it has been seen, except the one that was peeked at behind a      *)
(* dollar.                                                                 *)
EndsBefore(p) == 1 + Cardinality(Ends(p))
LineSeen(line, b) ==
  \/ line <= EndsBefore(At(b) - 1)
  \/ PeeksEnd(b) /\ b.cur = "$" /\ line <= EndsBefore(At(b) + 1)

(* A lexer in front of a dollar that ends its line stays there.            *)
LEMMA DollarStays ==
  ASSUME IsText(text), NEW c, Synced(c), PeeksEnd(c), c.cur = "$"
  PROVE  Pass(c) = c /\ Skip[c] = c /\ Scanned(c) = Token("Unknown", <<>>, c)
  <1>1. text \in Seq(STRING) /\ c \in LexerState /\ c.valid = 2 /\ c.next = NL
    BY SyncedIs DEF IsText, PeeksEnd
  <1>2. c.cur # LBRACE /\ c.cur # "(" /\ c.cur # "/" /\ c.cur # EOF /\ c.cur \notin Space
    BY Zenon DEF LBRACE, EOF, Space, BLANK, NL
  <1>3. Pass(c) = c
    <2>1. SkipWhile(c, Space) = c
      BY <1>1, <1>2, NotSpace, SkipWhileIs
    <2>2. QED  BY <1>2, <2>1 DEF Pass, BraceComment, StarComment, LineComment
  <1>4. Skip[c] = c
    <2>1. PICK P : P = {c}
      OBVIOUS
    <2>2. /\ \A s \in P : s \in LexerState /\ Synced(s)
          /\ \A s \in P : s.cur \in Space => Pass(s) \in P
          /\ c \in P
      BY <1>1, <1>2, <2>1
    <2>3. Skip[c] \in P
      BY <1>1, <2>2, SkipLoopEnds
    <2>4. QED  BY <2>1, <2>3
  <1>5. PeekChar(c) = c
    BY <1>1, PeekIs
  <1>6. NL \notin DigitsOf(16)
    <2>1. DigitsOf(16) \subseteq Alphanumeric
      BY 16 \in 0 .. 36, DigitsAre
    <2>2. NL \notin Alphanumeric
      BY Zenon DEF Alphanumeric, NL
    <2>3. QED  BY <2>1, <2>2
  <1>7. Scanned(c) = Token("Unknown", <<>>, c)
    <2>1. ~Begins(c.cur)
      BY Beginnings, Zenon
    <2>2. QED  BY <1>1, <1>5, <1>6, <2>1 DEF Scanned, Begins
  <1>8. QED  BY <1>3, <1>4, <1>7

(* The line a token is given is no later than the token, unless the lexer  *)
(* stays in front of a dollar.                                             *)
LEMMA LineBounds ==
  ASSUME IsText(text), NEW c, Synced(c), Settled(c), NEW s, s = Skip[Pass(c)]
  PROVE  /\ c.line \in Nat /\ c.line = EndsBefore(c.pos) /\ EndsBefore(At(c) - 1) <= c.line
         /\ c.line <= EndsBefore(At(s) - 1) \/ (PeeksEnd(c) /\ c.cur = "$")
  <1>1. /\ text \in Seq(STRING) /\ c \in LexerState /\ c.pos \in Nat /\ c.line \in Nat
        /\ c.valid \in 1 .. 2 /\ At(c) \in 1 .. Len(text) + 1 /\ At(c) = c.pos - c.valid + 1
        /\ c.line = 1 + Cardinality(Ends(c.pos)) /\ c.cur = CharAt(At(c)) /\ Len(text) \in Nat
    BY SyncedIs DEF IsText, Synced
  <1>2. PICK p : p = Pass(c)
    OBVIOUS
  <1>3. Onward(c, p) /\ Synced(p)
    BY <1>1, <1>2, PassLeads DEF Leads, Onward
  <1>4. Onward(p, s) /\ Synced(s) /\ s.cur \notin Space
    BY <1>1, <1>2, <1>3, SkipLeads DEF Onward
  <1>5. Onward(c, s)
    BY <1>1, <1>3, <1>4, OnwardTwice
  <1>6. At(s) \in Nat /\ At(s) >= At(c) /\ s.cur = CharAt(At(s))
    BY <1>1, <1>4, <1>5, SyncedIs DEF Onward
  <1>7. PICK i, j : i = At(c) - 1 /\ j = At(s) - 1
    OBVIOUS
  <1>8. i \in Nat /\ j \in Nat /\ i <= j /\ i <= c.pos /\ c.pos = i + c.valid
    BY <1>1, <1>6, <1>7
  <1>9. Cardinality(Ends(i)) <= Cardinality(Ends(c.pos)) /\ Cardinality(Ends(i)) \in Nat
    BY <1>1, <1>8, EndsGrow
  <1>10. EndsBefore(At(c) - 1) <= c.line
    <2>1. Cardinality(Ends(c.pos)) \in Nat
      <3>1. PICK q : q = c.pos
        OBVIOUS
      <3>2. q \in Nat /\ q <= q
        BY <1>1, <3>1
      <3>3. Cardinality(Ends(q)) \in Nat
        BY <1>1, <3>2, EndsGrow
      <3>4. QED  BY <3>1, <3>3
    <2>2. 1 + Cardinality(Ends(i)) <= c.line
      BY <1>1, <1>9, <2>1
    <2>3. QED  BY <1>7, <2>2 DEF EndsBefore
  <1>11. Cardinality(Ends(i + 1)) <= Cardinality(Ends(j))
    <2>1. PICK h : h = i + 1
      OBVIOUS
    <2>2. h \in Nat /\ i <= h /\ h = i + 1
      BY <1>8, <2>1
    <2>3. CASE c.cur = NL
      <3>1. At(s) # At(c)
        <4>1. NL \in Space
          BY SameCharacters
        <4>2. QED  BY <1>1, <1>4, <1>6, <2>3, <4>1
      <3>2. h <= j
        BY <1>1, <1>6, <1>7, <2>1, <3>1
      <3>3. Cardinality(Ends(h)) <= Cardinality(Ends(j))
        BY <1>1, <1>8, <2>2, <3>2, EndsGrow
      <3>4. QED  BY <2>1, <3>3
    <2>4. CASE c.cur # NL
      <3>1. CharAt(h) # NL
        <4>1. h = At(c)
          BY <1>1, <1>7, <2>1
        <4>2. QED  BY <1>1, <2>4, <4>1
      <3>2. Cardinality(Ends(h)) = Cardinality(Ends(i))
        BY <1>1, <1>8, <2>2, <3>1, EndsGrow
      <3>3. Cardinality(Ends(i)) <= Cardinality(Ends(j))
        BY <1>1, <1>8, EndsGrow
      <3>4. QED  BY <2>1, <3>2, <3>3
    <2>5. QED  BY <2>3, <2>4
  <1>12. CASE c.valid = 1
    <2>1. c.pos = i + 1
      BY <1>8, <1>12
    <2>2. j \in Nat /\ Cardinality(Ends(j)) \in Nat
      BY <1>1, <1>8, EndsGrow
    <2>3. Cardinality(Ends(c.pos)) <= Cardinality(Ends(j)) /\ Cardinality(Ends(c.pos)) \in Nat
      BY <1>1, <1>11, <2>1, EndsGrow
    <2>4. c.line <= EndsBefore(At(s) - 1)
      BY <1>1, <1>7, <2>2, <2>3 DEF EndsBefore
    <2>5. QED  BY <1>1, <1>10, <2>4 DEF EndsBefore
  <1>13. CASE c.valid = 2 /\ c.next = NL
    BY <1>1, <1>10, <1>13 DEF EndsBefore, Settled, PeeksEnd
  <1>14. CASE c.valid = 2 /\ c.next # NL
    <2>1. PICK h : h = i + 1
      OBVIOUS
    <2>2. h \in Nat /\ h <= c.pos /\ c.pos = h + 1 /\ c.pos = At(c) + 1
      <3>1. c.valid = 2
        BY <1>14
      <3>2. c.pos = i + 2
        BY <1>8, <3>1
      <3>3. h \in Nat /\ h <= c.pos /\ c.pos = h + 1
        BY <1>8, <2>1, <3>2
      <3>4. c.pos = At(c) + 1
        BY <1>1, <3>1
      <3>5. QED  BY <3>3, <3>4
    <2>3. CharAt(c.pos) # NL
      BY <1>14, <2>2 DEF Synced
    <2>4. Cardinality(Ends(c.pos)) = Cardinality(Ends(h)) /\ Cardinality(Ends(h)) \in Nat
      BY <1>1, <2>2, <2>3, EndsGrow
    <2>5. j \in Nat /\ Cardinality(Ends(j)) \in Nat
      BY <1>1, <1>8, EndsGrow
    <2>6. Cardinality(Ends(c.pos)) <= Cardinality(Ends(j))
      BY <1>11, <2>1, <2>4
    <2>7. c.line <= EndsBefore(At(s) - 1)
      BY <1>1, <1>7, <2>4, <2>5, <2>6 DEF EndsBefore
    <2>8. QED  BY <1>1, <1>10, <2>7 DEF EndsBefore
  <1>15. QED  BY <1>1, <1>12, <1>13, <1>14

LEMMA CurCharKeeps ==
  ASSUME text \in Seq(STRING), NEW s, Ready(s), Settled(s)
  PROVE  /\ CurChar(s).errno = s.errno /\ Settled(CurChar(s)) /\ s.pos <= CurChar(s).pos
  <1>1. s \in LexerState /\ s.pos \in Nat /\ Len(text) \in Nat
    BY ReadyIs
  <1>2. CASE s.valid # 0
    BY <1>1, <1>2 DEF CurChar
  <1>3. CASE s.valid = 0
    <2>1. PICK t, u : t = NextChar(s) /\ u = [t EXCEPT !.valid = 1]
      OBVIOUS
    <2>2. CurChar(s) = u
      BY <1>3, <2>1 DEF CurChar
    <2>3. t \in LexerState /\ t.errno = s.errno
      BY <1>1, <2>1, NextIs
    <2>4. t.pos >= s.pos
      BY <1>1, <1>3, <2>1, NextIs
    <2>5. u.errno = t.errno /\ u.valid = 1 /\ u.pos = t.pos
      BY <2>1, <2>3 DEF LexerState
    <2>6. Settled(u)
      BY <2>5 DEF Settled, PeeksEnd
    <2>7. t.pos \in Nat
      BY <2>3, Fields
    <2>8. QED  BY <1>1, <2>2, <2>3, <2>4, <2>5, <2>6, <2>7
  <1>4. QED  BY <1>2, <1>3

(* A step of PascalTokens over the text U, between two lexers.             *)
AbsStep(U, b, l, tok) ==
  \E i \in Tokens!Starts(U, At(b)) :
    LET t == Tokens!TokenAt(U, i, b.errno = "ERANGE")
    IN  /\ At(l) = t.end
        /\ \E line \in Tokens!LineOf(U, At(b)) ..
                       Tokens!LineOf(U, IF t.kind = "Unknown" THEN i + 2 ELSE i) :
             tok = IF t.kind = "LineNumber"
                     THEN [kind |-> "Integer", value |-> <<line>>, line |-> line]
                     ELSE [kind |-> t.kind, value |-> t.value, line |-> line]
        /\ (l.errno = "ERANGE") \in {b.errno = "ERANGE",
             b.errno = "ERANGE" \/ t.kind \in {"Overflow", "Real", "Unknown"}}
(* A lexer at b is at l with the token, whatever is behind l in the text.  *)
Steps(b, l, tok) == \A U : Shows(U, l.pos) => AbsStep(U, b, l, tok)

(* What GetToken gives: the next token of the text.                        *)
Gives(b, t) ==
  /\ Synced(t.s) /\ Settled(t.s) /\ b.pos <= t.s.pos
  /\ LineSeen(t.token.line, t.s)
  /\ Steps(b, t.s, t.token)

LEMMA GetTokenGives ==
  ASSUME IsText(text), Ready(lexer), Settled(lexer), NEW t, t = GetToken
  PROVE  Gives(lexer, t)
  <1>1. PICK b, c, p, s, a : /\ b = lexer /\ c = CurChar(b) /\ p = Pass(c) /\ s = Skip[p]
                             /\ a = Scanned(s)
    OBVIOUS
  <1>2. t = Located(c.line, At(s), a) /\ text \in Seq(STRING)
    BY <1>1 DEF GetToken, Answer, IsText
  <1>3. /\ t.s = a.s
        /\ t.token = IF a.kind = "LineNumber"
                       THEN [kind |-> "Integer", value |-> <<c.line>>, line |-> c.line]
                       ELSE [kind |-> a.kind, value |-> a.value, line |-> c.line]
    BY <1>2 DEF Located
  <1>4. t.token.line = c.line
    BY <1>3
  <1>5. /\ Synced(c) /\ At(c) = At(b) /\ c.errno = b.errno /\ Settled(c) /\ b.pos <= c.pos
        /\ b.pos \in Nat
    BY <1>1, <1>2, CurCharIs, CurCharKeeps, ReadyIs
  <1>6. c \in LexerState /\ At(c) \in Nat /\ c.pos \in Nat
    BY <1>2, <1>5, SyncedIs
  <1>7. Quiet(c)
    BY <1>5 DEF Settled, Quiet
  <1>8. Onward(c, p) /\ Synced(p) /\ p.errno = c.errno /\ Quiet(p)
    BY <1>1, <1>2, <1>5, <1>6, <1>7, PassLeads, PassIsQuiet DEF Leads, Onward
  <1>9. Onward(p, s) /\ Synced(s) /\ s.errno = c.errno /\ Quiet(s) /\ s.cur \notin Space
    BY <1>1, <1>2, <1>8, SkipLeads, SkipIsQuiet DEF Onward
  <1>10. Onward(s, a.s) /\ Synced(a.s) /\ Settled(a.s)
    <2>1. Moves(s, a)
      BY <1>1, <1>2, <1>9, ScannedMoves
    <2>2. Settled(a.s)
      BY <1>1, <1>9, ScannedSettles
    <2>3. QED  BY <2>1, <2>2 DEF Moves, Reads, Onward
  <1>11. Onward(c, s) /\ Onward(c, a.s)
    BY <1>2, <1>5, <1>8, <1>9, <1>10, OnwardTwice
  <1>12. /\ At(s) \in Nat /\ At(a.s) \in Nat /\ At(a.s) >= At(s) /\ At(s) >= At(c)
         /\ At(s) >= 1 /\ At(c) >= 1 /\ s.pos \in Nat /\ a.s.pos \in Nat /\ a.s.pos >= s.pos
         /\ s.pos >= c.pos /\ At(s) - 1 <= s.pos /\ At(c) - 1 <= c.pos
    <2>1. At(s) = s.pos - s.valid + 1 /\ s.valid \in 1 .. 2 /\ At(s) \in 1 .. Len(text) + 1
      BY <1>2, <1>9, SyncedIs
    <2>2. At(c) = c.pos - c.valid + 1 /\ c.valid \in 1 .. 2 /\ At(c) \in 1 .. Len(text) + 1
      BY <1>2, <1>5, SyncedIs
    <2>3. At(a.s) \in 1 .. Len(text) + 1 /\ a.s.pos \in Nat /\ s.pos \in Nat /\ Len(text) \in Nat
      BY <1>2, <1>9, <1>10, SyncedIs
    <2>4. At(a.s) >= At(s) /\ At(s) >= At(c) /\ a.s.pos >= s.pos /\ s.pos >= c.pos
      BY <1>10, <1>11 DEF Onward
    <2>5. QED  BY <1>6, <2>1, <2>2, <2>3, <2>4
  <1>13. /\ c.line \in Nat /\ c.line = EndsBefore(c.pos) /\ EndsBefore(At(c) - 1) <= c.line
         /\ c.line <= EndsBefore(At(s) - 1) \/ (PeeksEnd(c) /\ c.cur = "$")
    BY <1>1, <1>5, LineBounds
  <1>14. ASSUME PeeksEnd(c), c.cur = "$"
         PROVE  s = c /\ a.s = c /\ a.kind = "Unknown"
    <2>1. Pass(c) = c /\ Skip[c] = c /\ Scanned(c) = Token("Unknown", <<>>, c)
      BY <1>5, <1>14, DollarStays
    <2>2. s = c
      BY <1>1, <2>1
    <2>3. a = Token("Unknown", <<>>, c)
      BY <1>1, <2>1, <2>2
    <2>4. QED  BY <2>2, <2>3, TokenIs
  <1>15. b.pos <= a.s.pos
    BY <1>5, <1>6, <1>12
  <1>16. LineSeen(c.line, a.s)
    <2>1. CASE c.line <= EndsBefore(At(s) - 1)
      <3>1. PICK j, e : j = At(s) - 1 /\ e = At(a.s) - 1
        OBVIOUS
      <3>2. j \in Nat /\ e \in Nat /\ j <= e
        BY <1>12, <3>1
      <3>3. /\ Cardinality(Ends(j)) \in Nat /\ Cardinality(Ends(e)) \in Nat
            /\ Cardinality(Ends(j)) <= Cardinality(Ends(e))
        BY <1>2, <3>2, EndsGrow
      <3>4. EndsBefore(j) <= EndsBefore(e) /\ EndsBefore(j) \in Nat /\ EndsBefore(e) \in Nat
        BY <3>3 DEF EndsBefore
      <3>5. c.line <= EndsBefore(j)
        BY <2>1, <3>1
      <3>6. c.line <= EndsBefore(e)
        BY <1>13, <3>4, <3>5
      <3>7. QED  BY <3>1, <3>6 DEF LineSeen
    <2>2. CASE PeeksEnd(c) /\ c.cur = "$"
      <3>1. c.valid = 2 /\ c.pos = At(c) + 1 /\ a.s = c
        <4>1. c.valid = 2 /\ a.s = c
          BY <1>14, <2>2 DEF PeeksEnd
        <4>2. At(c) = c.pos - c.valid + 1
          BY DEF At
        <4>3. QED  BY <1>6, <4>1, <4>2
      <3>2. c.line = EndsBefore(At(c) + 1)
        BY <1>13, <3>1
      <3>3. c.line <= EndsBefore(At(c) + 1)
        BY <1>13, <3>2
      <3>4. QED  BY <2>2, <3>1, <3>3 DEF LineSeen
    <2>3. QED  BY <1>13, <2>1, <2>2
  <1>17. ASSUME NEW U, Shows(U, a.s.pos) PROVE AbsStep(U, b, a.s, t.token)
    <2>1. Shows(U, s.pos) /\ Shows(U, c.pos)
      BY <1>5, <1>9, <1>10, <1>11, <1>17, ShowsBack
    <2>2. PICK i, d : i = At(s) /\ d = Tokens!TokenAt(U, i, b.errno = "ERANGE")
      OBVIOUS
    <2>3. i \in Tokens!Starts(U, At(b))
      BY <1>1, <1>5, <2>1, <2>2, SkipEndsAt
    <2>4. Answers(d, a, b.errno)
      <3>1. Answers(Tokens!TokenAt(U, At(s), s.errno = "ERANGE"), a, s.errno)
        BY <1>1, <1>9, <1>17, ScannedEndsAt
      <3>2. s.errno = b.errno
        BY <1>5, <1>9
      <3>3. QED  BY <2>2, <3>1, <3>2
    <2>5. d.kind = a.kind /\ d.value = a.value /\ d.end = At(a.s)
      <3>1. d = Tokens!Found(a.kind, a.value, At(a.s))
        BY <2>4 DEF Answers
      <3>2. QED  BY <3>1 DEF Tokens!Found
    <2>6. (a.s.errno = "ERANGE") \in {b.errno = "ERANGE",
             b.errno = "ERANGE" \/ d.kind \in {"Overflow", "Real", "Unknown"}}
      <3>1. CASE a.s.errno = b.errno
        BY <3>1
      <3>2. CASE a.s.errno = "ERANGE" /\ a.kind \in {"Overflow", "Real", "Unknown"}
        BY <2>5, <3>2
      <3>3. QED  BY <2>4, <3>1, <3>2 DEF Answers
    <2>7. PICK h : h = IF d.kind = "Unknown" THEN i + 2 ELSE i
      OBVIOUS
    <2>8. c.line \in Tokens!LineOf(U, At(b)) .. Tokens!LineOf(U, h)
      <3>1. PICK m, j : m = At(c) - 1 /\ j = i - 1
        OBVIOUS
      <3>2. m \in Nat /\ j \in Nat /\ m + 1 = At(b) /\ j + 1 = i /\ m <= c.pos /\ j <= s.pos
            /\ h \in Nat /\ i <= h /\ i \in Nat
        <4>1. PICK x : x = At(c)
          OBVIOUS
        <4>2. x \in Nat /\ x >= 1 /\ i \in Nat /\ i >= 1 /\ m = x - 1
          BY <1>12, <1>6, <2>2, <3>1, <4>1
        <4>3. m \in Nat /\ j \in Nat /\ i \in Nat /\ j + 1 = i /\ m + 1 = x
          BY <3>1, <4>2
        <4>4. m + 1 = At(b)
          BY <1>5, <4>3, <4>1
        <4>5. m <= c.pos /\ j <= s.pos
          BY <1>12, <2>2, <3>1
        <4>6. h = i + 2 \/ h = i
          BY <2>7
        <4>7. h \in Nat /\ i <= h
          BY <4>3, <4>6
        <4>8. QED  BY <4>3, <4>4, <4>5, <4>7
      <3>3. Tokens!LineOf(U, m + 1) = EndsBefore(m)
        BY <1>6, <2>1, <3>2, LineIs DEF EndsBefore
      <3>4. Tokens!LineOf(U, j + 1) = EndsBefore(j)
        BY <1>12, <2>1, <3>2, LineIs DEF EndsBefore
      <3>5. /\ Tokens!LineOf(U, i) \in Nat /\ Tokens!LineOf(U, h) \in Nat
            /\ Tokens!LineOf(U, i) <= Tokens!LineOf(U, h)
        BY <3>2, LineGrows
      <3>6. Tokens!LineOf(U, At(b)) <= c.line /\ Tokens!LineOf(U, At(b)) \in Nat
        <4>1. Tokens!LineOf(U, At(b)) = EndsBefore(At(c) - 1)
          BY <3>1, <3>2, <3>3
        <4>2. At(b) \in Nat
          BY <1>5, <1>6
        <4>3. Tokens!LineOf(U, At(b)) \in Nat
          <5>1. PICK g : g = At(b)
            OBVIOUS
          <5>2. g \in Nat /\ g <= g
            BY <4>2, <5>1
          <5>3. QED  BY <5>1, <5>2, LineGrows
        <4>4. QED  BY <1>13, <4>1, <4>3
      <3>7. c.line <= Tokens!LineOf(U, h)
        <4>1. CASE c.line <= EndsBefore(At(s) - 1)
          <5>1. c.line <= Tokens!LineOf(U, i)
            BY <2>2, <3>1, <3>2, <3>4, <4>1
          <5>2. QED  BY <1>13, <3>5, <5>1
        <4>2. CASE PeeksEnd(c) /\ c.cur = "$"
          <5>1. s = c /\ a.kind = "Unknown"
            BY <1>14, <4>2
          <5>2. h = i + 2 /\ i = At(c)
            BY <2>2, <2>5, <2>7, <5>1
          <5>3. c.pos = At(c) + 1
            <6>1. c.valid = 2
              BY <4>2 DEF PeeksEnd
            <6>2. At(c) = c.pos - c.valid + 1
              BY DEF At
            <6>3. QED  BY <1>6, <6>1, <6>2
          <5>4. h = c.pos + 1
            BY <1>6, <5>2, <5>3
          <5>5. c.pos <= c.pos
            BY <1>6
          <5>6. Tokens!LineOf(U, c.pos + 1) = EndsBefore(c.pos)
            BY <1>6, <2>1, <5>5, LineIs DEF EndsBefore
          <5>7. c.line = Tokens!LineOf(U, h)
            BY <1>13, <5>4, <5>6
          <5>8. QED  BY <1>13, <5>7
        <4>3. QED  BY <1>13, <4>1, <4>2
      <3>8. QED  BY <1>13, <3>5, <3>6, <3>7
    <2>9. t.token = IF d.kind = "LineNumber"
                      THEN [kind |-> "Integer", value |-> <<c.line>>, line |-> c.line]
                      ELSE [kind |-> d.kind, value |-> d.value, line |-> c.line]
      BY <1>3, <2>5
    <2>10. \E line \in Tokens!LineOf(U, At(b)) ..
                       Tokens!LineOf(U, IF d.kind = "Unknown" THEN i + 2 ELSE i) :
             t.token = IF d.kind = "LineNumber"
                         THEN [kind |-> "Integer", value |-> <<line>>, line |-> line]
                         ELSE [kind |-> d.kind, value |-> d.value, line |-> line]
      BY <2>7, <2>8, <2>9
    <2>11. At(a.s) = d.end
      BY <2>5
    <2>12. QED  BY <2>2, <2>3, <2>6, <2>10, <2>11 DEF AbsStep
  <1>18. Gives(b, t)
    <2>1. Steps(b, a.s, t.token)
      BY <1>17 DEF Steps
    <2>2. QED  BY <1>3, <1>4, <1>10, <1>15, <1>16, <2>1 DEF Gives
  <1>19. QED  BY <1>1, <1>18

-----------------------------------------------------------------------------
(* What an error message that cuts the text leaves as it is.               *)

LEMMA CutReady ==
  ASSUME text \in Seq(STRING), NEW p \in Nat, CutAt(p), NEW s, Ready(s), s.pos <= p
  PROVE  Ready(s)'
  <1>1. CASE Synced(s)
    BY <1>1, CutSynced DEF Ready
  <1>2. CASE Fresh(s)
    BY <1>2 DEF Ready, Fresh
  <1>3. QED  BY <1>1, <1>2 DEF Ready

LEMMA CutLine ==
  ASSUME text \in Seq(STRING), NEW p \in Nat, CutAt(p), NEW s, Ready(s), s.pos <= p,
         NEW line, LineSeen(line, s)
  PROVE  LineSeen(line, s)'
  <1>1. s.pos \in Nat /\ s.valid \in 0 .. 2 /\ s.valid <= s.pos /\ At(s) = s.pos - s.valid + 1
    BY ReadyIs, Fields DEF At
  <1>2. CASE line <= EndsBefore(At(s) - 1)
    <2>1. PICK q : q = At(s) - 1
      OBVIOUS
    <2>2. q \in Nat /\ q <= p
      BY <1>1, <2>1
    <2>3. Ends(q)' = Ends(q)
      BY <2>2, CutEnds
    <2>4. line <= EndsBefore(q)'
      BY <1>2, <2>1, <2>3 DEF EndsBefore
    <2>5. QED  BY <2>1, <2>4 DEF LineSeen, At, EndsBefore, Ends
  <1>3. CASE PeeksEnd(s) /\ s.cur = "$" /\ line <= EndsBefore(At(s) + 1)
    <2>1. PICK q : q = At(s) + 1
      OBVIOUS
    <2>2. q \in Nat /\ q <= p
      <3>1. s.valid = 2
        BY <1>3 DEF PeeksEnd
      <3>2. QED  BY <1>1, <2>1, <3>1
    <2>3. Ends(q)' = Ends(q)
      BY <2>2, CutEnds
    <2>4. line <= EndsBefore(q)'
      BY <1>3, <2>1, <2>3 DEF EndsBefore
    <2>5. QED  BY <1>3, <2>1, <2>4 DEF LineSeen, At, EndsBefore, Ends, PeeksEnd
  <1>4. QED  BY <1>2, <1>3 DEF LineSeen

LEMMA CutShows ==
  ASSUME text \in Seq(STRING), NEW p \in Nat, CutAt(p), NEW U, Shows(U, p)'
  PROVE  Shows(U, p)
  <1>1. /\ U \in Seq(STRING) /\ Len(U) <= p /\ \A k \in 1 .. Len(U) : U[k] = text'[k]
        /\ p > Len(U) => U = text'
    BY DEF Shows, CutAt
  <1>2. Len(U) \in Nat /\ Len(text) \in Nat /\ p < Len(text) /\ Len(text') = p
        /\ \A k \in 1 .. p : text'[k] = text[k]
    BY <1>1 DEF CutAt
  <1>3. ~(p > Len(U)) /\ Len(U) <= Len(text)
    BY <1>1, <1>2
  <1>4. \A k \in 1 .. Len(U) : U[k] = text[k]
    BY <1>1, <1>2
  <1>5. QED  BY <1>1, <1>3, <1>4 DEF Shows

LEMMA CutText ==
  ASSUME IsText(text), NEW p \in Nat, CutAt(p)
  PROVE  IsText(text')
  <1>1. /\ text' \in Seq(STRING) /\ Len(text') = p /\ p < Len(text) /\ Len(text) \in Nat
        /\ \A k \in 1 .. p : text'[k] = text[k]
    BY DEF CutAt, IsText
  <1>2. \A k \in 1 .. p : text[k] # EOF
    BY <1>1 DEF IsText
  <1>3. QED  BY <1>1, <1>2 DEF IsText

-----------------------------------------------------------------------------
(* The invariant of the refinement: the parser's current token is of a     *)
(* line that has been seen, and the token it has peeked at is the one that *)
(* the text has behind it, however much of the rest is lost.               *)

Awaits(b, l, tok) ==
  /\ Ready(b) /\ Synced(l) /\ b.pos <= l.pos
  /\ LineSeen(tok.line, l)
  /\ Steps(b, l, tok)
Used == IF nextTokenValid THEN before ELSE lexer
TokensInv ==
  /\ Inv
  /\ IsText(text)
  /\ Settled(lexer)
  /\ LineSeen(curToken.line, Used)
  /\ nextTokenValid => Awaits(before, lexer, nextToken)

LEMMA InitTokensInv == Init => TokensInv
  <1> SUFFICES ASSUME Init PROVE TokensInv
    OBVIOUS
  <1>1. Inv /\ text \in Seq(STRING)
    BY InitInv DEF Inv
  <1>2. IsText(text)
    <2>1. text \in Texts /\ \A t \in Texts : EOF \notin {t[k] : k \in 1 .. Len(t)}
      BY LexerAssumption DEF Init
    <2>2. QED  BY <1>1, <2>1 DEF IsText
  <1>3. lexer.pos = 0 /\ lexer.valid = 0 /\ nextTokenValid = FALSE /\ curToken.line = 0
    BY DEF Init, NoToken
  <1>4. Settled(lexer)
    BY <1>3 DEF Settled, PeeksEnd
  <1>5. LineSeen(curToken.line, lexer)
    <2>1. At(lexer) - 1 = 0
      BY <1>3 DEF At
    <2>2. EndsBefore(0) = 1
      BY <1>1, EndsAre DEF EndsBefore
    <2>3. QED  BY <1>3, <2>1, <2>2 DEF LineSeen
  <1>6. QED  BY <1>1, <1>2, <1>3, <1>4, <1>5 DEF TokensInv, Used

(* What holds of a text holds of the same text afterwards.                 *)
LEMMA SameText ==
  ASSUME UNCHANGED text, NEW b, NEW l, NEW tok, NEW line
  PROVE  /\ Ready(b) => Ready(b)'
         /\ Synced(l) => Synced(l)'
         /\ LineSeen(line, b) => LineSeen(line, b)'
         /\ Steps(b, l, tok) => Steps(b, l, tok)'
         /\ Awaits(b, l, tok) => Awaits(b, l, tok)'
  <1>1. Ready(b) => Ready(b)'
    BY DEF Ready, Fresh, Synced, CharAt, Ends, At
  <1>2. Synced(l) => Synced(l)'
    BY DEF Synced, CharAt, Ends, At
  <1>3. \A x, y : LineSeen(x, y) => LineSeen(x, y)'
    BY DEF LineSeen, EndsBefore, Ends, At, PeeksEnd
  <1>4. Steps(b, l, tok) => Steps(b, l, tok)'
    <2>1. \A U : Shows(U, l.pos)' => Shows(U, l.pos)
      BY DEF Shows
    <2>2. QED  BY <2>1 DEF Steps
  <1>5. QED  BY <1>1, <1>2, <1>3, <1>4 DEF Awaits

LEMMA CutAwaits ==
  ASSUME IsText(text), NEW b, NEW l, NEW tok, Awaits(b, l, tok), CutAt(l.pos)
  PROVE  Awaits(b, l, tok)'
  <1>1. PICK p : p = l.pos
    OBVIOUS
  <1>2. text \in Seq(STRING) /\ p \in Nat /\ CutAt(p) /\ p <= p
    BY <1>1, SyncedIs DEF IsText, Awaits
  <1>3. Ready(b)'
    BY <1>1, <1>2, CutReady DEF Awaits
  <1>4. Synced(l)'
    BY <1>1, <1>2, CutSynced DEF Awaits
  <1>5. LineSeen(tok.line, l)'
    <2>1. PICK line : line = tok.line
      OBVIOUS
    <2>2. Ready(l) /\ LineSeen(line, l)
      BY <2>1 DEF Ready, Awaits
    <2>3. LineSeen(line, l)'
      BY <1>1, <1>2, <2>2, CutLine
    <2>4. QED  BY <2>1, <2>3
  <1>6. Steps(b, l, tok)'
    <2>1. \A U : Shows(U, p)' => Shows(U, p)
      BY <1>2, CutShows
    <2>2. QED  BY <1>1, <2>1 DEF Steps, Awaits
  <1>7. QED  BY <1>3, <1>4, <1>5, <1>6 DEF Awaits

(* What GetToken gives from here is what it takes to go on.                *)
LEMMA GivenAwaits ==
  ASSUME Inv, IsText(text), Settled(lexer), NEW t, t = GetToken
  PROVE  Awaits(lexer, t.s, t.token) /\ Settled(t.s)
  <1>1. Ready(lexer)
    BY DEF Inv
  <1>2. Gives(lexer, t)
    BY <1>1, GetTokenGives
  <1>3. QED  BY <1>1, <1>2 DEF Gives, Awaits

LEMMA NextTokenTokensInv == TokensInv /\ NextToken => TokensInv'
  <1> SUFFICES ASSUME TokensInv, NextToken PROVE TokensInv'
    OBVIOUS
  <1>1. Inv' /\ UNCHANGED text /\ nextTokenValid' = FALSE
    BY NextTokenInv DEF TokensInv, NextToken
  <1>2. PICK b, l, tok : /\ Awaits(b, l, tok) /\ Settled(l)
                         /\ lexer' = l /\ curToken' = tok
    <2>1. CASE nextTokenValid
      BY <2>1 DEF TokensInv, NextToken
    <2>2. CASE ~nextTokenValid
      <3>1. PICK t : t = GetToken /\ curToken' = t.token /\ lexer' = t.s
        BY <2>2 DEF NextToken
      <3>2. Awaits(lexer, t.s, t.token) /\ Settled(t.s)
        BY <3>1, GivenAwaits DEF TokensInv
      <3>3. QED  BY <3>1, <3>2
    <2>3. QED  BY <2>1, <2>2
  <1>3. IsText(text')
    BY <1>1 DEF TokensInv
  <1>4. Settled(lexer')
    BY <1>2
  <1>5. LineSeen(curToken.line, lexer)'
    <2>1. PICK line : line = tok.line
      OBVIOUS
    <2>2. LineSeen(line, l)'
      BY <1>1, <1>2, <2>1, SameText DEF Awaits
    <2>3. QED  BY <1>2, <2>1, <2>2 DEF LineSeen, At, PeeksEnd, EndsBefore, Ends
  <1>6. QED  BY <1>1, <1>3, <1>4, <1>5 DEF TokensInv, Used, IsText, Settled, PeeksEnd

LEMMA PeekTokenTokensInv == TokensInv /\ PeekToken => TokensInv'
  <1> SUFFICES ASSUME TokensInv, PeekToken PROVE TokensInv'
    OBVIOUS
  <1>1. /\ Inv' /\ UNCHANGED <<text, curToken>> /\ nextTokenValid' = TRUE /\ before' = lexer
        /\ ~nextTokenValid
    BY PeekTokenInv DEF TokensInv, PeekToken
  <1>2. PICK t : t = GetToken /\ nextToken' = t.token /\ lexer' = t.s
    BY DEF PeekToken
  <1>3. PICK b, l, tok, line : b = lexer /\ l = t.s /\ tok = t.token /\ line = curToken.line
    OBVIOUS
  <1>4. Awaits(b, l, tok) /\ Settled(l)
    BY <1>2, <1>3, GivenAwaits DEF TokensInv
  <1>5. LineSeen(line, b)
    BY <1>1, <1>3 DEF TokensInv, Used
  <1>6. Awaits(b, l, tok)' /\ LineSeen(line, b)'
    BY <1>1, <1>4, <1>5, SameText
  <1>7. Awaits(before, lexer, nextToken)'
    <2>1. before' = b /\ lexer' = l /\ nextToken' = tok
      BY <1>1, <1>2, <1>3
    <2>2. QED  BY <1>6, <2>1
            DEF Awaits, Ready, Fresh, Synced, Steps, Shows, LineSeen, At, PeeksEnd, EndsBefore, Ends,
           CharAt
  <1>8. LineSeen(curToken.line, Used)'
    <2>1. Used' = b /\ curToken'.line = line
      BY <1>1, <1>3 DEF Used
    <2>2. QED  BY <1>6, <2>1 DEF LineSeen, At, PeeksEnd, EndsBefore, Ends
  <1>9. IsText(text)' /\ Settled(lexer)'
    BY <1>1, <1>2, <1>3, <1>4 DEF TokensInv, IsText, Settled, PeeksEnd
  <1>10. QED  BY <1>1, <1>7, <1>8, <1>9 DEF TokensInv

LEMMA PrintErrorTokensInv == TokensInv /\ PrintError => TokensInv'
  <1> SUFFICES ASSUME TokensInv, PrintError PROVE TokensInv'
    OBVIOUS
  <1>1. Inv' /\ UNCHANGED <<lexer, curToken, nextToken, nextTokenValid, before>>
    BY PrintErrorInv DEF TokensInv, PrintError
  <1>2. PICK b, l, tok, u, line : /\ b = before /\ l = lexer /\ tok = nextToken
                                  /\ u = Used /\ line = curToken.line
    OBVIOUS
  <1>3. /\ b' = b /\ before' = b /\ lexer' = l /\ nextToken' = tok /\ Used' = u
        /\ curToken'.line = line
    BY <1>1, <1>2 DEF Used
  <1>4. LineSeen(line, u) /\ Ready(u)
    <2>1. Ready(lexer) /\ (nextTokenValid => Ready(before))
      BY DEF TokensInv, Inv, Awaits
    <2>2. QED  BY <1>2, <2>1 DEF TokensInv, Used
  <1>5. IsText(text') /\ LineSeen(line, u)' /\ (nextTokenValid => Awaits(b, l, tok)')
    <2>1. CASE UNCHANGED text
      <3>1. nextTokenValid => Awaits(b, l, tok)'
        BY <1>2, <2>1, SameText DEF TokensInv
      <3>2. LineSeen(line, u)'
        BY <1>4, <2>1, SameText
      <3>3. QED  BY <2>1, <3>1, <3>2 DEF TokensInv
    <2>2. CASE CutAt(lexer.pos) /\ lexer.pos \in Nat
      <3>1. PICK p \in Nat : p = lexer.pos
        BY <2>2
      <3>2. CutAt(p) /\ text \in Seq(STRING) /\ p = l.pos
        BY <1>2, <2>2, <3>1 DEF TokensInv, IsText
      <3>3. u.pos <= p
        <4>1. CASE nextTokenValid
          BY <3>1, <4>1, <1>2 DEF Used, TokensInv, Awaits
        <4>2. CASE ~nextTokenValid
          BY <3>1, <4>2, <1>2 DEF Used
        <4>3. QED  BY <4>1, <4>2
      <3>4. LineSeen(line, u)'
        BY <1>4, <3>2, <3>3, CutLine
      <3>5. nextTokenValid => Awaits(b, l, tok)'
        BY <1>2, <3>1, <3>2, CutAwaits DEF TokensInv
      <3>6. IsText(text')
        BY <3>2, CutText DEF TokensInv
      <3>7. QED  BY <3>4, <3>5, <3>6
    <2>3. QED  BY <2>1, <2>2, CutIs DEF TokensInv, CutAt
  <1>6. LineSeen(curToken.line, Used)'
    BY <1>3, <1>5 DEF LineSeen, At, PeeksEnd, EndsBefore, Ends
  <1>7. nextTokenValid' => Awaits(before, lexer, nextToken)'
    BY <1>1, <1>3, <1>5
       DEF Awaits, Ready, Fresh, Synced, Steps, Shows, LineSeen, At, PeeksEnd, EndsBefore, Ends,
           CharAt
  <1>8. IsText(text)' /\ Settled(lexer)'
    BY <1>1, <1>5 DEF TokensInv, IsText, Settled, PeeksEnd
  <1>9. QED  BY <1>1, <1>6, <1>7, <1>8 DEF TokensInv

LEMMA SpecTokensInv == Spec => []TokensInv
  <1>1. ASSUME TokensInv, UNCHANGED vars PROVE TokensInv'
    <2>1. UNCHANGED <<text, lexer, curToken, nextToken, nextTokenValid, before>>
      BY <1>1 DEF vars
    <2>2. Inv'
      BY <1>1 DEF TokensInv, vars, Inv, IsRead, Ready, Fresh, Synced, CharAt, Ends, At
    <2>3. IsText(text)' /\ Settled(lexer)'
      BY <1>1, <2>1 DEF TokensInv, IsText, Settled, PeeksEnd
    <2>4. LineSeen(curToken.line, Used)'
      BY <1>1, <2>1 DEF TokensInv, Used, LineSeen, At, PeeksEnd, EndsBefore, Ends
    <2>5. nextTokenValid' => Awaits(before, lexer, nextToken)'
      <3>1. PICK b, l, tok : b = before /\ l = lexer /\ tok = nextToken
        OBVIOUS
      <3>2. nextTokenValid => Awaits(b, l, tok)'
        BY <1>1, <2>1, <3>1, SameText DEF TokensInv
      <3>3. before' = b /\ lexer' = l /\ nextToken' = tok
        BY <2>1, <3>1
      <3>4. QED  BY <2>1, <3>2, <3>3
         DEF Awaits, Ready, Fresh, Synced, Steps, Shows, LineSeen, At, PeeksEnd, EndsBefore, Ends,
           CharAt
    <2>6. QED  BY <2>2, <2>3, <2>4, <2>5 DEF TokensInv
  <1>2. TokensInv /\ [Next]_vars => TokensInv'
    BY <1>1, NextTokenTokensInv, PeekTokenTokensInv, PrintErrorTokensInv DEF Next
  <1>3. QED  BY InitTokensInv, <1>2, PTL DEF Spec

-----------------------------------------------------------------------------
(* An error message that cuts the text is in its last line, and that one   *)
(* has no end.                                                             *)
LEMMA CutIsLast ==
  ASSUME TokensInv, PrintError, ~UNCHANGED text
  PROVE  Tokens!LoseLastLine
  <1>1. PICK u, p, i, line : /\ u = Used /\ p = lexer.pos /\ i = At(Used)
                             /\ line = curToken.line
    OBVIOUS
  <1>2. /\ line # 0 /\ ~Terminated(line) /\ p < Len(text) /\ p \in Nat
        /\ text \in Seq(STRING) /\ Len(text) \in Nat
    <2>1. text \in Seq(STRING)
      BY DEF TokensInv, IsText
    <2>2. QED  BY <1>1, <2>1, CutIs DEF TokensInv
  <1>3. Ready(u) /\ LineSeen(line, u) /\ u.pos <= p
    <2>1. Ready(lexer) /\ (nextTokenValid => Ready(before) /\ before.pos <= lexer.pos)
      BY DEF TokensInv, Inv, Awaits
    <2>2. CASE nextTokenValid
      BY <1>1, <2>1, <2>2 DEF TokensInv, Used
    <2>3. CASE ~nextTokenValid
      BY <1>1, <1>2, <2>1, <2>3 DEF TokensInv, Used
    <2>4. QED  BY <2>2, <2>3
  <1>4. /\ u.pos \in Nat /\ u.valid \in 0 .. 2 /\ u.valid <= u.pos /\ i = u.pos - u.valid + 1
        /\ i \in Nat /\ i - 1 \in Nat /\ i - 1 <= p
    <2>1. u.pos \in Nat /\ u.valid \in 0 .. 2 /\ u.valid <= u.pos /\ At(u) = u.pos - u.valid + 1
      BY <1>2, <1>3, ReadyIs, Fields DEF At
    <2>2. QED  BY <1>1, <1>2, <1>3, <2>1
  <1>5. PICK n \in Nat : n = Len(text)
    BY <1>2
  <1>6. Ends(n) = {k \in 1 .. Len(text) : text[k] = NL}
    BY <1>5 DEF Ends
  <1>7. Cardinality(Ends(n)) < line /\ Cardinality(Ends(n)) \in Nat /\ line \in Nat
    <2>1. lexer.line \in 1 .. Len(text) + 1
      BY <1>2, ReadyIs DEF TokensInv, Inv
    <2>2. line \in Nat
      BY <1>1, <1>2, <2>1 DEF TokensInv, Inv, IsRead, NoToken
    <2>3. Cardinality(Ends(n)) \in Nat
      BY <1>2, EndsAre
    <2>4. ~(Cardinality(Ends(n)) >= line)
      BY <1>2, <1>6 DEF Terminated
    <2>5. QED  BY <2>2, <2>3, <2>4
  <1>8. ASSUME NEW q \in Nat, line <= EndsBefore(q), NEW k \in 1 .. Len(text), text[k] = NL
        PROVE  k <= q
    <2>1. IsFiniteSet(Ends(n)) /\ Cardinality(Ends(q)) \in Nat
      BY <1>2, EndsAre
    <2>2. Ends(q) \subseteq Ends(n)
      BY <1>5 DEF Ends
    <2>3. Cardinality(Ends(n)) <= Cardinality(Ends(q)) /\ Cardinality(Ends(q)) <= Cardinality(Ends(n))
      <3>1. Cardinality(Ends(q)) <= Cardinality(Ends(n))
        BY <2>1, <2>2, FS_Subset
      <3>2. QED  BY <1>7, <1>8, <2>1, <3>1 DEF EndsBefore
    <2>4. Cardinality(Ends(n)) = Cardinality(Ends(q))
      BY <1>7, <2>1, <2>3
    <2>5. Ends(q) = Ends(n)
      BY <2>1, <2>2, <2>4, FS_Subset
    <2>6. k \in Ends(q)
      BY <1>6, <1>8, <2>5
    <2>7. QED  BY <2>6 DEF Ends
  <1>9. ASSUME NEW k \in i .. Len(text), text[k] = NL PROVE text[i] = "$" /\ k = i + 1
    <2>1. k \in 1 .. Len(text) /\ k >= i
      BY <1>2, <1>4, <1>9
    <2>2. ~(line <= EndsBefore(i - 1))
      <3>1. PICK q \in Nat : q = i - 1
        BY <1>4
      <3>2. ~(k <= q)
        BY <1>4, <2>1, <3>1
      <3>3. ~(line <= EndsBefore(q))
        BY <1>8, <1>9, <2>1, <3>2
      <3>4. QED  BY <3>1, <3>3
    <2>3. PeeksEnd(u) /\ u.cur = "$" /\ line <= EndsBefore(i + 1)
      BY <1>1, <1>3, <2>2 DEF LineSeen
    <2>4. Synced(u)
      BY <1>3, <2>3 DEF Ready, Fresh, PeeksEnd
    <2>5. CharAt(i) = "$" /\ i <= Len(text)
      <3>1. u.cur = CharAt(At(u)) /\ (u.cur # EOF => At(u) <= Len(text))
        BY <1>2, <2>4, SyncedIs
      <3>2. "$" # EOF
        BY DEF EOF
      <3>3. QED  BY <1>1, <2>3, <3>1, <3>2
    <2>6. text[i] = "$"
      BY <2>5 DEF CharAt
    <2>7. k <= i + 1
      <3>1. PICK q \in Nat : q = i + 1
        BY <1>4
      <3>2. k <= q
        BY <1>8, <1>9, <2>1, <2>3, <3>1
      <3>3. QED  BY <3>1, <3>2
    <2>8. k # i
      <3>1. "$" # NL
        BY DEF NL
      <3>2. QED  BY <1>9, <2>6, <3>1
    <2>9. k = i + 1
      BY <1>4, <2>1, <2>7, <2>8
    <2>10. QED  BY <2>6, <2>9
  <1>10. \E m \in i - 1 .. Len(text) : text' = SubSeq(text, 1, m)
    <2>1. p \in i - 1 .. Len(text)
      BY <1>2, <1>4
    <2>2. text' = SubSeq(text, 1, p)
      BY <1>1 DEF PrintError, PrintSource
    <2>3. QED  BY <2>1, <2>2
  <1>11. UNCHANGED <<lexer, before, nextTokenValid, curToken>>
    BY DEF PrintError
  <1>12. QED
    <2>1. Tokens!NL = NL
      BY SameCharacters
    <2>2. i = At(IF nextTokenValid THEN before ELSE lexer)
      BY <1>1 DEF Used
    <2>3. QED  BY <1>9, <1>10, <1>11, <2>1, <2>2 DEF Tokens!LoseLastLine, At

(* A step of PascalTokens over the text itself, between the lexer before a *)
(* token and the lexer behind it.                                          *)
LEMMA StepIsTokens ==
  ASSUME text \in Seq(STRING), NEW b, NEW l, NEW tok, Steps(b, l, tok),
         At(IF nextTokenValid THEN before ELSE lexer) = At(b),
         (IF nextTokenValid THEN before ELSE lexer).errno = b.errno,
         lexer' = l, curToken' = tok, nextTokenValid' = FALSE, UNCHANGED text
  PROVE  Tokens!NextToken
  <1>1. Shows(text, l.pos)
    BY DEF Shows
  <1>2. AbsStep(text, b, l, tok)
    BY <1>1 DEF Steps
  <1>3. At(IF nextTokenValid THEN before ELSE lexer)' = At(l)
    BY DEF At
  <1>4. (IF nextTokenValid THEN before ELSE lexer)'.errno = l.errno
    OBVIOUS
  <1>5. QED  BY <1>2, <1>3, <1>4 DEF AbsStep, Tokens!NextToken

LEMMA InitIsTokens == Init => Tokens!Init
  <1> SUFFICES ASSUME Init PROVE Tokens!Init
    OBVIOUS
  <1>1. text \in Texts
    BY DEF Init
  <1>2. At(IF nextTokenValid THEN before ELSE lexer) = 1
    BY DEF Init, At
  <1>3. curToken = Tokens!NoToken
    BY DEF Init, NoToken, Tokens!NoToken
  <1>4. ((IF nextTokenValid THEN before ELSE lexer).errno = "ERANGE") = FALSE
    BY DEF Init
  <1>5. QED  BY <1>1, <1>2, <1>3, <1>4 DEF Tokens!Init

LEMMA NextIsTokens ==
  ASSUME TokensInv, [Next]_vars
  PROVE  [Tokens!Next]_(Tokens!vars)
  <1>1. text \in Seq(STRING)
    BY DEF TokensInv, IsText
  <1>2. CASE NextToken
    <2>1. nextTokenValid' = FALSE /\ UNCHANGED text
      BY <1>2 DEF NextToken
    <2>2. CASE nextTokenValid
      <3>1. PICK b, l, tok : b = before /\ l = lexer /\ tok = nextToken
        OBVIOUS
      <3>2. lexer' = l /\ curToken' = tok
        BY <1>2, <2>2, <3>1 DEF NextToken
      <3>3. Steps(b, l, tok)
        BY <2>2, <3>1 DEF TokensInv, Awaits
      <3>4. (IF nextTokenValid THEN before ELSE lexer) = b
        BY <2>2, <3>1
      <3>5. Tokens!NextToken
        BY <1>1, <2>1, <3>2, <3>3, <3>4, StepIsTokens
      <3>6. QED  BY <3>5 DEF Tokens!Next
    <2>3. CASE ~nextTokenValid
      <3>1. PICK t : t = GetToken /\ curToken' = t.token /\ lexer' = t.s
        BY <1>2, <2>3 DEF NextToken
      <3>2. PICK b, l, tok : b = lexer /\ l = t.s /\ tok = t.token
        OBVIOUS
      <3>3. Steps(b, l, tok)
        BY <3>1, <3>2, GivenAwaits DEF TokensInv, Awaits
      <3>4. (IF nextTokenValid THEN before ELSE lexer) = b
        BY <2>3, <3>2
      <3>5. Tokens!NextToken
        BY <1>1, <2>1, <3>1, <3>2, <3>3, <3>4, StepIsTokens
      <3>6. QED  BY <3>5 DEF Tokens!Next
    <2>4. QED  BY <2>2, <2>3
  <1>3. CASE PeekToken
    <2>1. ~nextTokenValid /\ nextTokenValid' = TRUE /\ before' = lexer /\ UNCHANGED <<text, curToken>>
      BY <1>3 DEF PeekToken
    <2>2. UNCHANGED (IF nextTokenValid THEN before ELSE lexer)
      BY <2>1
    <2>3. QED  BY <2>1, <2>2 DEF Tokens!vars, At
  <1>4. CASE PrintError \/ UNCHANGED vars
    <2>1. UNCHANGED <<lexer, curToken, nextTokenValid, before>>
      BY <1>4 DEF PrintError, vars
    <2>2. CASE UNCHANGED text
      BY <2>1, <2>2 DEF Tokens!vars, At
    <2>3. CASE ~UNCHANGED text
      <3>1. PrintError
        BY <1>4, <2>3 DEF vars
      <3>2. Tokens!LoseLastLine
        BY <2>3, <3>1, CutIsLast
      <3>3. QED  BY <3>2 DEF Tokens!Next
    <2>4. QED  BY <2>2, <2>3
  <1>5. QED  BY <1>2, <1>3, <1>4 DEF Next

(* The Lexer gives the parser the tokens of the text: whatever it has      *)
(* peeked at, and whatever error messages are printed in between, the next *)
(* token is the one that PascalTokens reads off the text behind the last,  *)
(* and an error message takes nothing but the rest of a last line that has *)
(* no end.                                                                 *)
THEOREM LexerGivesTheTokensOfTheText == Spec => ImplementsPascalTokens
  <1>1. TokensInv /\ [Next]_vars => [Tokens!Next]_(Tokens!vars)
    BY NextIsTokens
  <1>2. QED  BY <1>1, InitIsTokens, SpecTokensInv, PTL DEF Spec, ImplementsPascalTokens, Tokens!Spec

=============================================================================
