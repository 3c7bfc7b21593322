----------------------------- MODULE LexerProofs -----------------------------
(***************************************************************************)
(* Theorems about Lexer: its type correctness, that scanning a token       *)
(* advances in the text, and that an error message loses nothing of a text *)
(* whose last line is ended.  That it implements PascalTokens is in        *)
(* LexerRefinementProofs.                                                  *)
(***************************************************************************)
EXTENDS Lexer, FiniteSetTheorems, SequenceTheorems, WellFoundedInduction, TLAPS

-----------------------------------------------------------------------------
(* Loops.  f is the function a loop computes: it goes on from a state of S *)
(* to the next until it is at a stop.                                      *)

Loops(S, stop, next, out, f) ==
  f = [s \in S |-> IF s \in stop THEN out[s] ELSE f[next[s]]]

IsClosed(C, S, stop, next) == C \subseteq S /\ \A s \in C \ stop : next[s] \in C
Reached(s, S, stop, next)  ==
  {t \in stop : \A C \in SUBSET S : IsClosed(C, S, stop, next) /\ s \in C => t \in C}

(* There is such a function, whether the loop ends or not.                 *)
LEMMA LoopExists ==
  ASSUME NEW S, NEW stop, NEW next, NEW out, \A s \in S \ stop : next[s] \in S
  PROVE  \E f : Loops(S, stop, next, out, f)
  <1> DEFINE R(s) == Reached(s, S, stop, next)
  <1>1. ASSUME NEW s \in S \cap stop PROVE R(s) = {s}
    <2>1. IsClosed({s}, S, stop, next) /\ {s} \in SUBSET S
      BY <1>1 DEF IsClosed
    <2>2. QED  BY <1>1, <2>1 DEF Reached
  <1>2. ASSUME NEW s \in S \ stop PROVE R(s) = R(next[s])
    <2>1. ASSUME NEW t \in R(s) PROVE t \in R(next[s])
      <3>1. ASSUME NEW C \in SUBSET S, IsClosed(C, S, stop, next), next[s] \in C
            PROVE  t \in C
        <4>1. IsClosed(C \cup {s}, S, stop, next) /\ C \cup {s} \in SUBSET S
          BY <1>2, <3>1 DEF IsClosed
        <4>2. t \in C \cup {s}
          BY <2>1, <4>1 DEF Reached
        <4>3. QED  BY <1>2, <2>1, <4>2 DEF Reached
      <3>2. QED  BY <2>1, <3>1 DEF Reached
    <2>2. ASSUME NEW t \in R(next[s]) PROVE t \in R(s)
      <3>1. ASSUME NEW C \in SUBSET S, IsClosed(C, S, stop, next), s \in C
            PROVE  t \in C
        <4>1. next[s] \in C
          BY <1>2, <3>1 DEF IsClosed
        <4>2. QED  BY <2>2, <3>1, <4>1 DEF Reached
      <3>2. QED  BY <2>2, <3>1 DEF Reached
    <2>3. QED  BY <2>1, <2>2
  <1>3. PICK f : f = [s \in S |-> out[CHOOSE t : t \in R(s)]]
    OBVIOUS
  <1> HIDE DEF R
  <1>4. ASSUME NEW s \in S PROVE f[s] = IF s \in stop THEN out[s] ELSE f[next[s]]
    <2>1. CASE s \in stop
      <3>1. (CHOOSE t : t \in R(s)) = s
        BY <1>1, <2>1
      <3>2. QED  BY <1>3, <2>1, <3>1
    <2>2. CASE s \notin stop
      <3>1. R(s) = R(next[s]) /\ next[s] \in S
        BY <1>2, <2>2
      <3>2. QED  BY <1>3, <2>2, <3>1
    <2>3. QED  BY <2>1, <2>2
  <1>5. f = [s \in S |-> IF s \in stop THEN out[s] ELSE f[next[s]]]
    BY <1>3, <1>4
  <1>6. QED  BY <1>5 DEF Loops

(* A loop that keeps in P and comes closer to its end with every step ends *)
(* at a stop in P.                                                         *)
LEMMA LoopEnds ==
  ASSUME NEW S, NEW stop, NEW next, NEW out, NEW f, Loops(S, stop, next, out, f),
         NEW P, P \subseteq S, \A s \in P \ stop : next[s] \in P,
         NEW m, \A s \in P : m[s] \in Nat, \A s \in P \ stop : m[next[s]] < m[s],
         NEW s0 \in P
  PROVE  \E t \in P \cap stop : f[s0] = out[t]
  <1> DEFINE Bad == {s \in P : ~\E t \in P \cap stop : f[s] = out[t]}
  <1> DEFINE Far == {m[s] : s \in Bad}
  <1>1. CASE Bad = {}
    BY <1>1
  <1>2. CASE Bad # {}
    <2>1. Far \subseteq Nat /\ Far # {}
      BY <1>2
    <2>2. PICK n \in Far : \A k \in Far : <<k, n>> \notin OpToRel(<, Nat)
      <3> HIDE DEF Far, Bad
      <3>1. QED  BY <2>1, WFMin, NatLessThanWellFounded, Zenon
    <2>3. PICK s \in Bad : n = m[s]
      OBVIOUS
    <2>4. s \in P /\ ~\E t \in P \cap stop : f[s] = out[t]
      OBVIOUS
    <2>5. s \notin stop
      <3>1. CASE s \in stop
        <4>1. f[s] = out[s]
          BY <2>4, <3>1 DEF Loops
        <4>2. QED  BY <2>4, <3>1, <4>1
      <3>2. QED  BY <3>1
    <2>6. f[s] = f[next[s]] /\ next[s] \in P /\ m[next[s]] < m[s]
      BY <2>4, <2>5 DEF Loops
    <2>7. next[s] \in Bad
      BY <2>4, <2>6
    <2>8. m[next[s]] \in Far /\ m[next[s]] \in Nat /\ n \in Nat
      BY <2>1, <2>6, <2>7
    <2>9. QED  BY <2>2, <2>3, <2>6, <2>8 DEF OpToRel
  <1>3. QED  BY <1>1, <1>2

-----------------------------------------------------------------------------
(* One character: from any state of a lexer.                               *)

LEMMA Fields ==
  ASSUME NEW s \in LexerState
  PROVE  /\ s.pos \in Nat /\ s.line \in Nat /\ s.cur \in STRING /\ s.next \in STRING
         /\ s.valid \in 0 .. 2 /\ s.errno \in {"0", "ERANGE"}
  BY DEF LexerState

LEMMA CharIsAString ==
  ASSUME text \in Seq(STRING), NEW s \in LexerState
  PROVE  Char(s) \in STRING /\ (Char(s) # EOF => s.pos < Len(text))
  <1>1. s.pos \in Nat /\ Len(text) \in Nat
    BY Fields
  <1>2. CASE s.pos < Len(text)
    <2>1. PICK i \in 1 .. Len(text) : i = s.pos + 1
      BY <1>1, <1>2
    <2>2. text[i] \in STRING
      BY <2>1
    <2>3. QED  BY <1>2, <2>1, <2>2 DEF Char
  <1>3. CASE ~(s.pos < Len(text))
    BY <1>3, LexerAssumption DEF Char
  <1>4. QED  BY <1>2, <1>3

LEMMA GotIs ==
  ASSUME text \in Seq(STRING), NEW s \in LexerState
  PROVE  /\ Got(s) \in LexerState
         /\ Got(s).pos = (IF s.pos > Len(text) THEN s.pos ELSE s.pos + 1)
         /\ Got(s).line = (IF Char(s) = NL THEN s.line + 1 ELSE s.line)
         /\ Got(s).cur = s.cur /\ Got(s).next = s.next
         /\ Got(s).valid = s.valid /\ Got(s).errno = s.errno
  <1>1. PICK p \in Nat, l \in Nat : /\ p = IF s.pos > Len(text) THEN s.pos ELSE s.pos + 1
                                    /\ l = IF Char(s) = NL THEN s.line + 1 ELSE s.line
    BY Fields
  <1>2. PICK t : t = Got(s)
    OBVIOUS
  <1>3. t = [s EXCEPT !.pos = p, !.line = l]
    BY <1>1, <1>2 DEF Got
  <1>4. /\ t \in LexerState
        /\ t.pos = p /\ t.line = l /\ t.cur = s.cur /\ t.next = s.next
        /\ t.valid = s.valid /\ t.errno = s.errno
    BY <1>3 DEF LexerState
  <1>5. QED  BY <1>1, <1>2, <1>4

LEMMA NextIs ==
  ASSUME text \in Seq(STRING), NEW s \in LexerState
  PROVE  /\ NextChar(s) \in LexerState
         /\ NextChar(s).errno = s.errno /\ NextChar(s).next = s.next
         /\ s.valid > 1 => /\ NextChar(s).pos = s.pos /\ NextChar(s).line = s.line
                           /\ NextChar(s).cur = s.next /\ NextChar(s).valid = 1
         /\ s.valid <= 1 => /\ NextChar(s).pos = IF s.pos > Len(text) THEN s.pos ELSE s.pos + 1
                            /\ NextChar(s).line = IF Char(s) = NL THEN s.line + 1 ELSE s.line
                            /\ NextChar(s).cur = Char(s) /\ NextChar(s).valid = s.valid
  <1>1. CASE s.valid > 1
    <2>1. s.valid - 1 = 1 /\ s.next \in STRING /\ ~(s.valid <= 1)
      BY <1>1, Fields
    <2>2. PICK c \in STRING : c = s.next
      BY <2>1
    <2>3. PICK t : t = NextChar(s)
      OBVIOUS
    <2>4. PICK v \in 0 .. 2 : v = 1
      OBVIOUS
    <2>5. t = [s EXCEPT !.cur = c, !.valid = v]
      BY <1>1, <2>1, <2>2, <2>3, <2>4 DEF NextChar
    <2>6. /\ t \in LexerState
          /\ t.pos = s.pos /\ t.line = s.line /\ t.cur = c /\ t.next = s.next
          /\ t.valid = v /\ t.errno = s.errno
      BY <2>5 DEF LexerState
    <2>7. QED  BY <2>1, <2>2, <2>3, <2>4, <2>6
  <1>2. CASE s.valid <= 1
    <2>1. PICK g \in LexerState : g = Got(s)
      BY GotIs
    <2>2. PICK c \in STRING : c = Char(s)
      BY CharIsAString
    <2>3. ~(s.valid > 1) /\ g.valid \in 0 .. 2
      BY <1>2, Fields
    <2>4. PICK t : t = NextChar(s)
      OBVIOUS
    <2>5. t = [g EXCEPT !.cur = c]
      BY <2>1, <2>2, <2>3, <2>4 DEF NextChar
    <2>6. /\ t \in LexerState
          /\ t.pos = g.pos /\ t.line = g.line /\ t.cur = c /\ t.next = g.next
          /\ t.valid = g.valid /\ t.errno = g.errno
      BY <2>3, <2>5 DEF LexerState
    <2>7. QED  BY <2>1, <2>2, <2>3, <2>4, <2>6, GotIs
  <1>3. s.valid > 1 \/ s.valid <= 1
    BY Fields
  <1>4. QED  BY <1>1, <1>2, <1>3

LEMMA PeekIs ==
  ASSUME text \in Seq(STRING), NEW s \in LexerState
  PROVE  /\ PeekChar(s) \in LexerState
         /\ PeekChar(s).errno = s.errno /\ PeekChar(s).cur = s.cur
         /\ s.valid > 1 => PeekChar(s) = s
         /\ s.valid <= 1 => /\ PeekChar(s).pos = IF s.pos > Len(text) THEN s.pos ELSE s.pos + 1
                            /\ PeekChar(s).line = IF Char(s) = NL THEN s.line + 1 ELSE s.line
                            /\ PeekChar(s).next = Char(s) /\ PeekChar(s).valid = s.valid + 1
  <1>1. CASE s.valid > 1
    <2>1. ~(s.valid <= 1) /\ PeekChar(s) = s
      BY <1>1, Fields DEF PeekChar
    <2>2. QED  BY <2>1
  <1>2. CASE s.valid <= 1
    <2>1. PICK g \in LexerState : g = Got(s)
      BY GotIs
    <2>2. PICK c \in STRING : c = Char(s)
      BY CharIsAString
    <2>3. g.valid = s.valid /\ s.valid + 1 \in 0 .. 2 /\ ~(s.valid > 1)
      BY <1>2, <2>1, GotIs, Fields
    <2>4. PICK t : t = PeekChar(s)
      OBVIOUS
    <2>5. PICK v \in 0 .. 2 : v = s.valid + 1
      BY <2>3
    <2>6. t = [g EXCEPT !.next = c, !.valid = v]
      BY <2>1, <2>2, <2>3, <2>4, <2>5 DEF PeekChar
    <2>7. /\ t \in LexerState
          /\ t.pos = g.pos /\ t.line = g.line /\ t.cur = g.cur /\ t.next = c
          /\ t.valid = v /\ t.errno = g.errno
      BY <2>6 DEF LexerState
    <2>8. QED  BY <2>1, <2>2, <2>3, <2>4, <2>5, <2>7, GotIs
  <1>3. s.valid > 1 \/ s.valid <= 1
    BY Fields
  <1>4. QED  BY <1>1, <1>2, <1>3

(* How far a loop that goes on until the end of the file still has to go.  *)
Rest(s)  == IF s.pos > Len(text) THEN 0 ELSE Len(text) + 1 - s.pos
Ahead(s) == IF s.cur = EOF THEN 0 ELSE 2
Left(s)  == 3 * Rest(s) + s.valid + Ahead(s)

LEMMA LeftIs ==
  ASSUME text \in Seq(STRING), NEW s \in LexerState
  PROVE  /\ Rest(s) \in Nat /\ s.valid \in 0 .. 2 /\ Ahead(s) \in 0 .. 2
         /\ Left(s) = 3 * Rest(s) + s.valid + Ahead(s)
         /\ Left(s) \in Nat
         /\ s.pos > Len(text) => Rest(s) = 0
         /\ s.pos <= Len(text) => Rest(s) = Len(text) + 1 - s.pos
         /\ s.cur = EOF => Ahead(s) = 0
         /\ s.cur # EOF => Ahead(s) = 2
  <1>1. s.pos \in Nat /\ s.valid \in 0 .. 2 /\ Len(text) \in Nat
    BY Fields
  <1>2. /\ Rest(s) \in Nat
        /\ s.pos > Len(text) => Rest(s) = 0
        /\ s.pos <= Len(text) => Rest(s) = Len(text) + 1 - s.pos
    BY <1>1 DEF Rest
  <1>3. /\ Ahead(s) \in 0 .. 2
        /\ s.cur = EOF => Ahead(s) = 0
        /\ s.cur # EOF => Ahead(s) = 2
    BY DEF Ahead
  <1>4. Left(s) = 3 * Rest(s) + s.valid + Ahead(s)
    BY DEF Left
  <1>5. Left(s) \in Nat
    BY <1>1, <1>2, <1>3, <1>4
  <1>6. QED  BY <1>1, <1>2, <1>3, <1>4, <1>5

(* A character that is got is one less to get, or is EOF.                  *)
LEMMA GotLeaves ==
  ASSUME text \in Seq(STRING), NEW s \in LexerState, NEW t \in LexerState,
         t.pos = IF s.pos > Len(text) THEN s.pos ELSE s.pos + 1
  PROVE  \/ Rest(t) = Rest(s) - 1
         \/ Char(s) = EOF /\ Rest(s) = 0 /\ Rest(t) = 0
  <1>1. s.pos \in Nat /\ Len(text) \in Nat
    BY Fields
  <1>2. CASE s.pos > Len(text)
    <2>1. t.pos > Len(text) /\ Char(s) = EOF
      BY <1>1, <1>2, CharIsAString
    <2>2. QED  BY <1>2, <2>1, LeftIs
  <1>3. CASE s.pos <= Len(text)
    <2>1. t.pos = s.pos + 1
      BY <1>1, <1>3
    <2>2. Rest(s) = Len(text) + 1 - s.pos
      BY <1>3, LeftIs
    <2>3. Rest(t) = Len(text) - s.pos
      BY <1>1, <1>3, <2>1 DEF Rest
    <2>4. QED  BY <1>1, <2>2, <2>3
  <1>4. QED  BY <1>1, <1>2, <1>3

LEMMA NextLeaves ==
  ASSUME text \in Seq(STRING), NEW s \in LexerState, s.cur # EOF
  PROVE  /\ Left(NextChar(s)) < Left(s)
         /\ Left(NextChar(PeekChar(s))) < Left(s)
  <1>1. ASSUME NEW t \in LexerState, t.cur # EOF PROVE Left(NextChar(t)) < Left(t)
    <2>1. PICK u \in LexerState : u = NextChar(t)
      BY NextIs
    <2>2. Left(t) = 3 * Rest(t) + t.valid + 2
      BY <1>1, LeftIs
    <2>3. CASE t.valid > 1
      <3>1. u.pos = t.pos /\ u.valid = 1
        BY <2>1, <2>3, NextIs
      <3>2. Rest(u) = Rest(t)
        BY <3>1 DEF Rest
      <3>3. Left(u) = 3 * Rest(t) + 1 + Ahead(u)
        BY <3>1, <3>2, LeftIs
      <3>4. Rest(t) \in Nat /\ Ahead(u) \in 0 .. 2 /\ t.valid \in 0 .. 2
        BY LeftIs
      <3>5. QED  BY <2>1, <2>2, <2>3, <3>3, <3>4
    <2>4. CASE t.valid <= 1
      <3>1. /\ u.pos = (IF t.pos > Len(text) THEN t.pos ELSE t.pos + 1)
            /\ u.cur = Char(t) /\ u.valid = t.valid
        BY <2>1, <2>4, NextIs
      <3>2. Left(u) = 3 * Rest(u) + t.valid + Ahead(u)
        BY <3>1, LeftIs
      <3>3. Rest(t) \in Nat /\ Rest(u) \in Nat /\ Ahead(u) \in 0 .. 2 /\ t.valid \in 0 .. 2
        BY LeftIs
      <3>4. CASE Rest(u) = Rest(t) - 1
        BY <2>1, <2>2, <3>2, <3>3, <3>4
      <3>5. CASE Char(t) = EOF /\ Rest(t) = 0 /\ Rest(u) = 0
        <4>1. Ahead(u) = 0
          BY <3>1, <3>5, LeftIs
        <4>2. QED  BY <2>1, <2>2, <3>2, <3>3, <3>5, <4>1
      <3>6. QED  BY <3>1, <3>4, <3>5, GotLeaves
    <2>5. t.valid > 1 \/ t.valid <= 1
      BY Fields
    <2>6. QED  BY <2>3, <2>4, <2>5
  <1>2. Left(NextChar(PeekChar(s))) < Left(s)
    <2>1. PICK t \in LexerState : t = PeekChar(s)
      BY PeekIs
    <2>2. t.cur = s.cur
      BY <2>1, PeekIs
    <2>3. Left(s) = 3 * Rest(s) + s.valid + 2
      BY LeftIs
    <2>4. CASE s.valid > 1
      BY <1>1, <2>4, PeekIs
    <2>5. CASE s.valid <= 1
      <3>1. /\ t.pos = (IF s.pos > Len(text) THEN s.pos ELSE s.pos + 1)
            /\ t.next = Char(s) /\ t.valid = s.valid + 1
        BY <2>1, <2>5, PeekIs
      <3>2. PICK u \in LexerState : u = NextChar(t)
        BY NextIs
      <3>3. Rest(s) \in Nat /\ Rest(t) \in Nat /\ Rest(u) \in Nat /\ Ahead(u) \in 0 .. 2
        BY LeftIs
      <3>4. \/ Rest(t) = Rest(s) - 1
            \/ Char(s) = EOF /\ Rest(s) = 0 /\ Rest(t) = 0
        BY <3>1, GotLeaves
      <3>5. CASE s.valid = 1
        <4>1. t.valid > 1
          BY <3>1, <3>5
        <4>2. u.pos = t.pos /\ u.cur = Char(s) /\ u.valid = 1
          BY <3>1, <3>2, <4>1, NextIs
        <4>3. Rest(u) = Rest(t)
          BY <4>2 DEF Rest
        <4>4. Left(u) = 3 * Rest(t) + 1 + Ahead(u)
          BY <4>2, <4>3, LeftIs
        <4>5. Char(s) = EOF => Ahead(u) = 0
          BY <4>2, LeftIs
        <4>6. Left(u) < Left(s)
          BY <2>3, <3>3, <3>4, <3>5, <4>4, <4>5
        <4>7. QED  BY <2>1, <3>2, <4>6
      <3>6. CASE s.valid = 0
        <4>1. t.valid = 1
          BY <3>1, <3>6
        <4>2. /\ u.pos = (IF t.pos > Len(text) THEN t.pos ELSE t.pos + 1)
              /\ u.cur = Char(t) /\ u.valid = 1
          BY <3>2, <4>1, NextIs
        <4>3. \/ Rest(u) = Rest(t) - 1
              \/ Char(t) = EOF /\ Rest(t) = 0 /\ Rest(u) = 0
          BY <4>2, GotLeaves
        <4>4. Left(u) = 3 * Rest(u) + 1 + Ahead(u)
          BY <4>2, LeftIs
        <4>5. Char(t) = EOF => Ahead(u) = 0
          BY <4>2, LeftIs
        <4>6. Left(u) < Left(s)
          BY <2>3, <3>3, <3>4, <3>6, <4>3, <4>4, <4>5
        <4>7. QED  BY <2>1, <3>2, <4>6
      <3>7. QED  BY <2>5, <3>5, <3>6, Fields
    <2>6. s.valid > 1 \/ s.valid <= 1
      BY Fields
    <2>7. QED  BY <2>4, <2>5, <2>6
  <1>3. QED  BY <1>1, <1>2

-----------------------------------------------------------------------------
(* A lexer that is in step with the text: it holds one character or two,   *)
(* those at At and behind it, and its line is that of what it has got.     *)

CharAt(i) == IF i <= Len(text) THEN text[i] ELSE EOF
Ends(p)   == {k \in 1 .. Len(text) : k <= p /\ text[k] = NL}

Synced(s) ==
  /\ s \in LexerState
  /\ s.valid \in 1 .. 2 /\ s.valid <= s.pos /\ s.pos <= Len(text) + 1
  /\ s.cur = CharAt(At(s))
  /\ s.valid = 2 => s.next = CharAt(At(s) + 1)
  /\ s.line = 1 + Cardinality(Ends(s.pos))

(* t is in step, and no less far than s.                                   *)
Onward(s, t) == Synced(t) /\ At(t) >= At(s) /\ t.line >= s.line /\ t.pos >= s.pos

LEMMA SyncedIs ==
  ASSUME text \in Seq(STRING), NEW s, Synced(s)
  PROVE  /\ s \in LexerState /\ s.pos \in Nat /\ s.line \in Nat /\ s.valid \in 1 .. 2
         /\ At(s) \in 1 .. Len(text) + 1 /\ At(s) = s.pos - s.valid + 1
         /\ s.cur = CharAt(At(s))
         /\ s.cur # EOF => At(s) <= Len(text)
         /\ Onward(s, s)
  <1>1. s \in LexerState /\ s.valid \in 1 .. 2 /\ s.valid <= s.pos /\ s.pos <= Len(text) + 1
    BY DEF Synced
  <1>2. s.pos \in Nat /\ s.line \in Nat /\ Len(text) \in Nat
    BY <1>1, Fields
  <1>3. At(s) \in 1 .. Len(text) + 1 /\ At(s) = s.pos - s.valid + 1
    BY <1>1, <1>2 DEF At
  <1>4. s.cur = CharAt(At(s))
    BY DEF Synced
  <1>5. s.cur # EOF => At(s) <= Len(text)
    BY <1>2, <1>3, <1>4 DEF CharAt
  <1>6. QED  BY <1>1, <1>2, <1>3, <1>4, <1>5 DEF Onward

LEMMA OnwardTwice ==
  ASSUME text \in Seq(STRING), NEW s, NEW t, NEW u, Synced(s), Onward(s, t), Onward(t, u)
  PROVE  Onward(s, u)
  <1>1. /\ At(s) \in Nat /\ At(t) \in Nat /\ At(u) \in Nat
        /\ s.line \in Nat /\ t.line \in Nat /\ u.line \in Nat
        /\ s.pos \in Nat /\ t.pos \in Nat /\ u.pos \in Nat
    BY SyncedIs DEF Onward
  <1>2. QED  BY <1>1 DEF Onward

(* The line that is counted when a character is got.                       *)
LEMMA GotLine ==
  ASSUME text \in Seq(STRING), NEW s \in LexerState, s.pos <= Len(text) + 1,
         s.line = 1 + Cardinality(Ends(s.pos)),
         NEW p, p = IF s.pos > Len(text) THEN s.pos ELSE s.pos + 1
  PROVE  /\ (IF Char(s) = NL THEN s.line + 1 ELSE s.line) = 1 + Cardinality(Ends(p))
         /\ s.pos <= Len(text) => Char(s) = CharAt(p)
         /\ s.pos = Len(text) + 1 => Char(s) = EOF
         /\ p \in Nat /\ p <= Len(text) + 1
  <1>1. s.pos \in Nat /\ Len(text) \in Nat /\ EOF # NL
    BY Fields DEF EOF, NL
  <1>2. IsFiniteSet(Ends(s.pos)) /\ Cardinality(Ends(s.pos)) \in Nat
    <2>1. IsFiniteSet(1 .. Len(text))
      BY <1>1, FS_Interval
    <2>2. Ends(s.pos) \subseteq 1 .. Len(text)
      BY DEF Ends
    <2>3. QED  BY <2>1, <2>2, FS_Subset, FS_CardinalityType
  <1>3. CASE s.pos < Len(text)
    <2>1. p = s.pos + 1 /\ p \in 1 .. Len(text) /\ Char(s) = text[p]
      BY <1>1, <1>3 DEF Char
    <2>2. CASE text[p] = NL
      <3>1. Ends(p) = Ends(s.pos) \cup {p} /\ p \notin Ends(s.pos)
        BY <1>1, <2>1, <2>2 DEF Ends
      <3>2. Cardinality(Ends(p)) = Cardinality(Ends(s.pos)) + 1
        BY <1>2, <3>1, FS_AddElement
      <3>3. QED  BY <1>1, <1>2, <2>1, <2>2, <3>2 DEF CharAt
    <2>3. CASE text[p] # NL
      <3>1. Ends(p) = Ends(s.pos)
        BY <1>1, <2>1, <2>3 DEF Ends
      <3>2. QED  BY <1>1, <2>1, <2>3, <3>1 DEF CharAt
    <2>4. QED  BY <2>2, <2>3
  <1>4. CASE s.pos >= Len(text)
    <2>1. Char(s) = EOF /\ p = Len(text) + 1
      BY <1>1, <1>4 DEF Char
    <2>2. Ends(p) = Ends(s.pos)
      BY <1>1, <1>4, <2>1 DEF Ends
    <2>3. QED  BY <1>1, <2>1, <2>2 DEF CharAt
  <1>5. QED  BY <1>1, <1>3, <1>4

LEMMA SyncedNext ==
  ASSUME text \in Seq(STRING), NEW s, Synced(s)
  PROVE  /\ Onward(s, NextChar(s)) /\ NextChar(s).errno = s.errno
         /\ At(s) <= Len(text) => At(NextChar(s)) = At(s) + 1
         /\ At(s) > Len(text) => At(NextChar(s)) = At(s)
  <1>1. PICK t \in LexerState : t = NextChar(s)
    BY SyncedIs, NextIs
  <1>2. /\ s \in LexerState /\ s.pos \in Nat /\ s.line \in Nat /\ s.valid \in 1 .. 2
        /\ s.pos <= Len(text) + 1 /\ s.valid <= s.pos /\ Len(text) \in Nat
    BY SyncedIs DEF Synced
  <1>3. t.errno = s.errno /\ t.line \in Nat
    BY <1>1, <1>2, NextIs, Fields
  <1>4. CASE s.valid = 2
    <2>1. t.pos = s.pos /\ t.line = s.line /\ t.cur = s.next /\ t.valid = 1
      BY <1>1, <1>2, <1>4, NextIs
    <2>2. At(t) = At(s) + 1 /\ At(s) <= Len(text)
      BY <1>2, <1>4, <2>1 DEF At
    <2>3. t.cur = CharAt(At(t))
      BY <1>4, <2>1, <2>2 DEF Synced
    <2>4. Synced(t)
      BY <1>1, <1>2, <2>1, <2>3 DEF Synced
    <2>5. At(s) \in Nat
      BY SyncedIs
    <2>6. QED  BY <1>1, <1>2, <1>3, <2>1, <2>2, <2>4, <2>5 DEF Onward
  <1>5. CASE s.valid = 1
    <2>1. /\ t.pos = (IF s.pos > Len(text) THEN s.pos ELSE s.pos + 1)
          /\ t.line = (IF Char(s) = NL THEN s.line + 1 ELSE s.line)
          /\ t.cur = Char(s) /\ t.valid = 1
      BY <1>1, <1>2, <1>5, NextIs
    <2>2. s.line = 1 + Cardinality(Ends(s.pos))
      BY DEF Synced
    <2>3. /\ t.line = 1 + Cardinality(Ends(t.pos))
          /\ s.pos <= Len(text) => Char(s) = CharAt(t.pos)
          /\ s.pos = Len(text) + 1 => Char(s) = EOF
          /\ t.pos \in Nat /\ t.pos <= Len(text) + 1
      BY <1>2, <2>1, <2>2, GotLine
    <2>4. At(s) = s.pos /\ At(t) = t.pos
      BY <1>2, <1>5, <2>1, <2>3 DEF At
    <2>5. t.cur = CharAt(At(t))
      <3>1. CASE s.pos <= Len(text)
        BY <2>1, <2>3, <2>4, <3>1
      <3>2. CASE s.pos = Len(text) + 1
        <4>1. t.pos = s.pos
          BY <1>2, <2>1, <3>2
        <4>2. CharAt(At(t)) = EOF
          BY <1>2, <2>4, <3>2, <4>1 DEF CharAt
        <4>3. QED  BY <2>1, <2>3, <3>2, <4>2
      <3>3. QED  BY <1>2, <3>1, <3>2
    <2>6. Synced(t)
      <3>1. t.valid \in 1 .. 2 /\ t.valid <= t.pos /\ t.valid # 2
        BY <1>2, <1>5, <2>1
      <3>2. QED  BY <1>1, <2>3, <2>5, <3>1 DEF Synced
    <2>7. t.line >= s.line
      BY <1>2, <2>1
    <2>8. /\ At(s) <= Len(text) => At(t) = At(s) + 1
          /\ At(s) > Len(text) => At(t) = At(s)
          /\ At(t) >= At(s) /\ t.pos >= s.pos
      BY <1>2, <2>1, <2>4
    <2>9. QED  BY <1>1, <1>3, <2>6, <2>7, <2>8 DEF Onward
  <1>6. QED  BY <1>2, <1>4, <1>5

LEMMA SyncedPeek ==
  ASSUME text \in Seq(STRING), NEW s, Synced(s), s.cur # EOF
  PROVE  /\ Onward(s, PeekChar(s)) /\ At(PeekChar(s)) = At(s)
         /\ PeekChar(s).cur = s.cur /\ PeekChar(s).errno = s.errno
         /\ PeekChar(s).valid = 2 /\ PeekChar(s).next = CharAt(At(s) + 1)
  <1>1. PICK t \in LexerState : t = PeekChar(s)
    BY SyncedIs, PeekIs
  <1>2. /\ s \in LexerState /\ s.pos \in Nat /\ s.line \in Nat /\ s.valid \in 1 .. 2
        /\ s.pos <= Len(text) + 1 /\ s.valid <= s.pos /\ Len(text) \in Nat
        /\ At(s) <= Len(text) /\ At(s) \in Nat /\ s.cur = CharAt(At(s))
    BY SyncedIs DEF Synced
  <1>3. t.errno = s.errno /\ t.cur = s.cur /\ t.line \in Nat
    BY <1>1, <1>2, PeekIs, Fields
  <1>4. CASE s.valid = 2
    <2>1. t = s
      BY <1>1, <1>2, <1>4, PeekIs
    <2>2. s.next = CharAt(At(s) + 1)
      BY <1>4 DEF Synced
    <2>3. QED  BY <1>1, <1>2, <1>3, <1>4, <2>1, <2>2, SyncedIs
  <1>5. CASE s.valid = 1
    <2>1. /\ t.pos = (IF s.pos > Len(text) THEN s.pos ELSE s.pos + 1)
          /\ t.line = (IF Char(s) = NL THEN s.line + 1 ELSE s.line)
          /\ t.next = Char(s) /\ t.valid = 2
      BY <1>1, <1>2, <1>5, PeekIs
    <2>2. s.line = 1 + Cardinality(Ends(s.pos))
      BY DEF Synced
    <2>3. /\ t.line = 1 + Cardinality(Ends(t.pos))
          /\ s.pos <= Len(text) => Char(s) = CharAt(t.pos)
          /\ t.pos \in Nat /\ t.pos <= Len(text) + 1
      BY <1>2, <2>1, <2>2, GotLine
    <2>4. At(s) = s.pos /\ t.pos = s.pos + 1
      BY <1>2, <1>5, <2>1 DEF At
    <2>5. At(t) = At(s)
      BY <1>2, <2>1, <2>4 DEF At
    <2>6. t.next = CharAt(At(s) + 1)
      BY <1>2, <2>1, <2>3, <2>4
    <2>7. Synced(t)
      <3>1. t.valid \in 1 .. 2 /\ t.valid <= t.pos
        BY <1>2, <1>5, <2>1, <2>4
      <3>2. QED  BY <1>1, <1>2, <1>3, <2>3, <2>5, <2>6, <3>1 DEF Synced
    <2>8. t.line >= s.line
      BY <1>2, <2>1
    <2>9. QED  BY <1>1, <1>2, <1>3, <2>1, <2>5, <2>6, <2>7, <2>8 DEF Onward
  <1>6. QED  BY <1>2, <1>4, <1>5

-----------------------------------------------------------------------------
(* The loops that skip characters.                                         *)

IsSkip(f, stop) == f = [s \in LexerState |-> IF s \in stop THEN s ELSE f[NextChar(s)]]

(* A loop that goes on to the next character until a state of stop, where  *)
(* it is at the latest when it has met the end of the file.                *)
LEMMA SkipExists ==
  ASSUME text \in Seq(STRING), NEW stop
  PROVE  \E f : IsSkip(f, stop)
  <1>1. PICK next, out : /\ next = [s \in LexerState |-> NextChar(s)]
                         /\ out = [s \in LexerState |-> s]
    OBVIOUS
  <1>2. \A s \in LexerState \ stop : next[s] \in LexerState
    BY <1>1, NextIs
  <1>3. PICK f : Loops(LexerState, stop, next, out, f)
    BY <1>2, LoopExists
  <1>4. f = [s \in LexerState |-> IF s \in stop THEN out[s] ELSE f[next[s]]]
    BY <1>3 DEF Loops
  <1>5. \A s \in LexerState : f[s] = IF s \in stop THEN s ELSE f[NextChar(s)]
    BY <1>1, <1>4
  <1>6. f = [s \in LexerState |-> IF s \in stop THEN s ELSE f[NextChar(s)]]
    BY <1>4, <1>5
  <1>7. QED  BY <1>6 DEF IsSkip

LEMMA SkipEnds ==
  ASSUME text \in Seq(STRING), NEW stop, NEW f, IsSkip(f, stop),
         \A s \in LexerState : s.cur = EOF => s \in stop,
         NEW P, P \subseteq LexerState, \A s \in P \ stop : NextChar(s) \in P,
         NEW s0 \in P
  PROVE  f[s0] \in P \cap stop
  <1>1. PICK next, out, m : /\ next = [s \in LexerState |-> NextChar(s)]
                            /\ out = [s \in LexerState |-> s]
                            /\ m = [s \in LexerState |-> Left(s)]
    OBVIOUS
  <1>2. \A s \in LexerState : f[s] = IF s \in stop THEN s ELSE f[NextChar(s)]
    BY DEF IsSkip
  <1>3. \A s \in LexerState : f[s] = IF s \in stop THEN out[s] ELSE f[next[s]]
    BY <1>1, <1>2
  <1>4. f = [s \in LexerState |-> IF s \in stop THEN out[s] ELSE f[next[s]]]
    BY <1>3 DEF IsSkip
  <1>5. Loops(LexerState, stop, next, out, f)
    BY <1>4 DEF Loops
  <1>6. \A s \in P \ stop : next[s] \in P
    BY <1>1
  <1>7. \A s \in P : m[s] \in Nat
    BY <1>1, LeftIs
  <1>8. \A s \in P \ stop : m[next[s]] < m[s]
    <2>1. ASSUME NEW s \in P \ stop PROVE m[next[s]] < m[s]
      <3>1. s \in LexerState /\ s.cur # EOF /\ NextChar(s) \in LexerState
        BY NextIs
      <3>2. Left(NextChar(s)) < Left(s)
        BY <3>1, NextLeaves
      <3>3. QED  BY <1>1, <3>1, <3>2
    <2>2. QED  BY <2>1
  <1>9. PICK t \in P \cap stop : f[s0] = out[t]
    BY <1>5, <1>6, <1>7, <1>8, LoopEnds
  <1>10. QED  BY <1>1, <1>9

(* What such a loop passes are characters it does not stop at.             *)
LEMMA SkipIs ==
  ASSUME text \in Seq(STRING), NEW stop, NEW f, IsSkip(f, stop),
         \A s \in LexerState : s.cur = EOF => s \in stop, NEW s0 \in LexerState
  PROVE  /\ f[s0] \in LexerState \cap stop
         /\ f[s0].errno = s0.errno
         /\ s0 \in stop => f[s0] = s0
         /\ Synced(s0) => /\ Onward(s0, f[s0])
                          /\ s0 \notin stop => At(f[s0]) > At(s0)
  <1>1. f[s0] \in LexerState \cap stop
    <2>1. \A s \in LexerState \ stop : NextChar(s) \in LexerState
      BY NextIs
    <2>2. PICK P : P = LexerState
      OBVIOUS
    <2>3. P \subseteq LexerState /\ s0 \in P /\ \A s \in P \ stop : NextChar(s) \in P
      BY <2>1, <2>2
    <2>4. QED  BY <2>2, <2>3, SkipEnds
  <1>2. f[s0].errno = s0.errno
    <2>1. PICK P : P = {s \in LexerState : s.errno = s0.errno}
      OBVIOUS
    <2>2. P \subseteq LexerState /\ s0 \in P /\ \A s \in P \ stop : NextChar(s) \in P
      BY <2>1, NextIs
    <2>3. f[s0] \in P
      BY <2>2, SkipEnds
    <2>4. QED  BY <2>1, <2>3
  <1>3. s0 \in stop => f[s0] = s0
    BY DEF IsSkip
  <1>4. ASSUME NEW s1, Synced(s1)
        PROVE  Onward(s1, f[s1])
    <2>1. PICK P : P = {s \in LexerState : Onward(s1, s)}
      OBVIOUS
    <2>2. s1 \in P /\ P \subseteq LexerState
      BY <1>4, <2>1, SyncedIs
    <2>3. ASSUME NEW s \in P \ stop PROVE NextChar(s) \in P
      <3>1. Synced(s) /\ Onward(s1, s)
        BY <2>1 DEF Onward
      <3>2. Onward(s1, NextChar(s))
        BY <1>4, <3>1, SyncedNext, OnwardTwice
      <3>3. NextChar(s) \in LexerState
        BY <3>2, SyncedIs DEF Onward
      <3>4. QED  BY <2>1, <3>2, <3>3
    <2>4. f[s1] \in P
      BY <2>2, <2>3, SkipEnds
    <2>5. QED  BY <2>1, <2>4
  <1>5. ASSUME Synced(s0), s0 \notin stop
        PROVE  At(f[s0]) > At(s0)
    <2>1. PICK s1 : s1 = NextChar(s0)
      OBVIOUS
    <2>2. s0.cur # EOF
      BY <1>5
    <2>3. At(s0) <= Len(text) /\ At(s0) \in Nat
      BY <1>5, <2>2, SyncedIs
    <2>4. Onward(s0, s1) /\ At(s1) = At(s0) + 1
      BY <1>5, <2>1, <2>3, SyncedNext
    <2>5. Onward(s1, f[s1])
      BY <1>4, <2>4 DEF Onward
    <2>6. f[s0] = f[s1]
      BY <1>5, <2>1 DEF IsSkip
    <2>7. At(f[s1]) \in Nat
      BY <2>5, SyncedIs DEF Onward
    <2>8. QED  BY <2>3, <2>4, <2>5, <2>6, <2>7 DEF Onward
  <1>6. QED  BY <1>1, <1>2, <1>3, <1>4, <1>5

WhileLoop(f, S) == f = [t \in LexerState |-> IF t.cur \in S THEN f[NextChar(t)] ELSE t]
UntilLoop(f, S) ==
  f = [t \in LexerState |-> IF t.cur \in S \cup {EOF} THEN t ELSE f[NextChar(t)]]

LEMMA SkipWhileLoops ==
  ASSUME text \in Seq(STRING), NEW S, NEW s \in LexerState
  PROVE  \E f, stop : /\ stop = {t \in LexerState : t.cur \notin S}
                      /\ IsSkip(f, stop) /\ SkipWhile(s, S) = f[s]
  <1>1. PICK stop : stop = {t \in LexerState : t.cur \notin S}
    OBVIOUS
  <1>2. ASSUME NEW f PROVE WhileLoop(f, S) <=> IsSkip(f, stop)
    <2>1. \A t \in LexerState : (IF t.cur \in S THEN f[NextChar(t)] ELSE t)
                                = (IF t \in stop THEN t ELSE f[NextChar(t)])
      BY <1>1
    <2>2. [t \in LexerState |-> IF t.cur \in S THEN f[NextChar(t)] ELSE t]
          = [t \in LexerState |-> IF t \in stop THEN t ELSE f[NextChar(t)]]
      BY <2>1
    <2>3. QED  BY <2>2 DEF WhileLoop, IsSkip
  <1>3. PICK f : f = CHOOSE g : WhileLoop(g, S)
    OBVIOUS
  <1>4. IsSkip(f, stop)
    <2>1. \E g : WhileLoop(g, S)
      BY <1>2, SkipExists
    <2>2. WhileLoop(f, S)
      BY <1>3, <2>1
    <2>3. QED  BY <1>2, <2>2
  <1>5. SkipWhile(s, S) = f[s]
    BY <1>3 DEF SkipWhile, WhileLoop
  <1>6. QED  BY <1>1, <1>4, <1>5

LEMMA SkipWhileIs ==
  ASSUME text \in Seq(STRING), NEW S, EOF \notin S, NEW s \in LexerState
  PROVE  /\ SkipWhile(s, S) \in LexerState /\ SkipWhile(s, S).cur \notin S
         /\ SkipWhile(s, S).errno = s.errno
         /\ s.cur \notin S => SkipWhile(s, S) = s
         /\ Synced(s) => /\ Onward(s, SkipWhile(s, S))
                         /\ s.cur \in S => At(SkipWhile(s, S)) > At(s)
  <1>1. PICK f, stop : /\ stop = {t \in LexerState : t.cur \notin S}
                       /\ IsSkip(f, stop) /\ SkipWhile(s, S) = f[s]
    BY SkipWhileLoops
  <1>2. \A t \in LexerState : t.cur = EOF => t \in stop
    BY <1>1
  <1>3. /\ f[s] \in LexerState \cap stop /\ f[s].errno = s.errno
        /\ s \in stop => f[s] = s
        /\ Synced(s) => Onward(s, f[s]) /\ (s \notin stop => At(f[s]) > At(s))
    BY <1>1, <1>2, SkipIs
  <1>4. QED  BY <1>1, <1>3

(* A set of states that the loop does not leave.                           *)
LEMMA SkipWhileEnds ==
  ASSUME text \in Seq(STRING), NEW S, EOF \notin S, NEW P, P \subseteq LexerState,
         \A t \in P : t.cur \in S => NextChar(t) \in P, NEW s \in P
  PROVE  SkipWhile(s, S) \in P /\ SkipWhile(s, S).cur \notin S
  <1>1. PICK f, stop : /\ stop = {t \in LexerState : t.cur \notin S}
                       /\ IsSkip(f, stop) /\ SkipWhile(s, S) = f[s]
    BY SkipWhileLoops
  <1>2. /\ \A t \in LexerState : t.cur = EOF => t \in stop
        /\ \A t \in P \ stop : NextChar(t) \in P
    BY <1>1
  <1>3. f[s] \in P \cap stop
    BY <1>1, <1>2, SkipEnds
  <1>4. QED  BY <1>1, <1>3

LEMMA SkipUntilLoops ==
  ASSUME text \in Seq(STRING), NEW S, NEW s \in LexerState
  PROVE  \E f, stop : /\ stop = {t \in LexerState : t.cur \in S \cup {EOF}}
                      /\ IsSkip(f, stop) /\ SkipUntil(s, S) = f[s]
  <1>1. PICK stop : stop = {t \in LexerState : t.cur \in S \cup {EOF}}
    OBVIOUS
  <1>2. ASSUME NEW f PROVE UntilLoop(f, S) <=> IsSkip(f, stop)
    <2>1. \A t \in LexerState : (IF t.cur \in S \cup {EOF} THEN t ELSE f[NextChar(t)])
                                = (IF t \in stop THEN t ELSE f[NextChar(t)])
      BY <1>1
    <2>2. [t \in LexerState |-> IF t.cur \in S \cup {EOF} THEN t ELSE f[NextChar(t)]]
          = [t \in LexerState |-> IF t \in stop THEN t ELSE f[NextChar(t)]]
      BY <2>1
    <2>3. QED  BY <2>2 DEF UntilLoop, IsSkip
  <1>3. PICK f : f = CHOOSE g : UntilLoop(g, S)
    OBVIOUS
  <1>4. IsSkip(f, stop)
    <2>1. \E g : UntilLoop(g, S)
      BY <1>2, SkipExists
    <2>2. UntilLoop(f, S)
      BY <1>3, <2>1
    <2>3. QED  BY <1>2, <2>2
  <1>5. SkipUntil(s, S) = f[s]
    BY <1>3 DEF SkipUntil, UntilLoop
  <1>6. QED  BY <1>1, <1>4, <1>5

LEMMA SkipUntilIs ==
  ASSUME text \in Seq(STRING), NEW S, NEW s \in LexerState
  PROVE  /\ SkipUntil(s, S) \in LexerState /\ SkipUntil(s, S).cur \in S \cup {EOF}
         /\ SkipUntil(s, S).errno = s.errno
         /\ s.cur \in S \cup {EOF} => SkipUntil(s, S) = s
         /\ Synced(s) => Onward(s, SkipUntil(s, S))
  <1>1. PICK f, stop : /\ stop = {t \in LexerState : t.cur \in S \cup {EOF}}
                       /\ IsSkip(f, stop) /\ SkipUntil(s, S) = f[s]
    BY SkipUntilLoops
  <1>2. \A t \in LexerState : t.cur = EOF => t \in stop
    BY <1>1
  <1>3. /\ f[s] \in LexerState \cap stop /\ f[s].errno = s.errno
        /\ s \in stop => f[s] = s
        /\ Synced(s) => Onward(s, f[s])
    BY <1>1, <1>2, SkipIs
  <1>4. QED  BY <1>1, <1>3

LEMMA SkipUntilEnds ==
  ASSUME text \in Seq(STRING), NEW S, NEW P, P \subseteq LexerState,
         \A t \in P : t.cur \notin S \cup {EOF} => NextChar(t) \in P, NEW s \in P
  PROVE  SkipUntil(s, S) \in P /\ SkipUntil(s, S).cur \in S \cup {EOF}
  <1>1. PICK f, stop : /\ stop = {t \in LexerState : t.cur \in S \cup {EOF}}
                       /\ IsSkip(f, stop) /\ SkipUntil(s, S) = f[s]
    BY SkipUntilLoops
  <1>2. /\ \A t \in LexerState : t.cur = EOF => t \in stop
        /\ \A t \in P \ stop : NextChar(t) \in P
    BY <1>1
  <1>3. f[s] \in P \cap stop
    BY <1>1, <1>2, SkipEnds
  <1>4. QED  BY <1>1, <1>3

-----------------------------------------------------------------------------
(* Comments and blanks.                                                    *)

(* t is a state a lexer gets to from s without a conversion.               *)
Leads(s, t) == /\ t \in LexerState /\ t.errno = s.errno
               /\ Synced(s) => Onward(s, t)

LEMMA LeadsTwice ==
  ASSUME text \in Seq(STRING), NEW s, NEW t, NEW u, Leads(s, t), Leads(t, u)
  PROVE  Leads(s, u)
  <1>1. u \in LexerState /\ u.errno = s.errno
    BY DEF Leads
  <1>2. ASSUME Synced(s) PROVE Onward(s, u)
    <2>1. Onward(s, t) /\ Synced(t)
      BY <1>2 DEF Leads, Onward
    <2>2. Onward(t, u)
      BY <2>1 DEF Leads
    <2>3. QED  BY <1>2, <2>1, <2>2, OnwardTwice
  <1>3. QED  BY <1>1, <1>2 DEF Leads

LEMMA StepsLead ==
  ASSUME text \in Seq(STRING), NEW s \in LexerState
  PROVE  /\ Leads(s, s) /\ Leads(s, NextChar(s))
         /\ s.cur # EOF => Leads(s, PeekChar(s))
  <1>1. Leads(s, s)
    BY SyncedIs DEF Leads
  <1>2. Leads(s, NextChar(s))
    BY NextIs, SyncedNext DEF Leads
  <1>3. s.cur # EOF => Leads(s, PeekChar(s))
    BY PeekIs, SyncedPeek DEF Leads
  <1>4. QED  BY <1>1, <1>2, <1>3

LEMMA BraceCommentLeads ==
  ASSUME text \in Seq(STRING), NEW s \in LexerState
  PROVE  /\ Leads(s, BraceComment(s))
         /\ s.cur # LBRACE => BraceComment(s) = s
         /\ s.cur = LBRACE /\ Synced(s) => At(BraceComment(s)) > At(s)
  <1>1. CASE s.cur # LBRACE
    BY <1>1, StepsLead DEF BraceComment
  <1>2. CASE s.cur = LBRACE
    <2>1. PICK t, u, v : /\ t = NextChar(s) /\ u = SkipUntil(t, {RBRACE})
                         /\ v = NextChar(u)
      OBVIOUS
    <2>2. BraceComment(s) = v
      BY <1>2, <2>1 DEF BraceComment
    <2>3. Leads(s, t) /\ t \in LexerState
      BY <2>1, StepsLead DEF Leads
    <2>4. Leads(t, u) /\ u \in LexerState
      BY <2>1, <2>3, SkipUntilIs DEF Leads
    <2>5. Leads(u, v)
      BY <2>1, <2>4, StepsLead
    <2>6. Leads(t, v) /\ Leads(s, v)
      BY <2>3, <2>4, <2>5, LeadsTwice
    <2>7. ASSUME Synced(s) PROVE At(v) > At(s)
      <3>1. s.cur # EOF
        <4>1. LBRACE # EOF
          BY Zenon DEF LBRACE, EOF
        <4>2. QED  BY <1>2, <4>1
      <3>2. At(s) <= Len(text) /\ At(s) \in Nat
        BY <2>7, <3>1, SyncedIs
      <3>3. At(t) = At(s) + 1 /\ Synced(t)
        BY <2>1, <2>7, <3>2, SyncedNext DEF Onward
      <3>4. Onward(t, v)
        BY <2>6, <3>3 DEF Leads
      <3>5. At(v) \in Nat /\ At(v) >= At(t)
        BY <3>4, SyncedIs DEF Onward
      <3>6. QED  BY <3>2, <3>3, <3>5
    <2>8. QED  BY <1>2, <2>2, <2>6, <2>7
  <1>3. QED  BY <1>1, <1>2

InStar(f) ==
  f = [s \in LexerState |->
         CASE s.cur = EOF -> NextChar(NextChar(s))
           [] s.cur = "*" -> IF PeekChar(s).next = ")" THEN NextChar(NextChar(PeekChar(s)))
                             ELSE f[NextChar(PeekChar(s))]
           [] OTHER       -> f[NextChar(s)]]

(* The loop keeps in P until it is at the end of the file or of the        *)
(* comment.                                                                *)
LEMMA InStarCommentEnds ==
  ASSUME text \in Seq(STRING), NEW P, P \subseteq LexerState,
         \A s \in P : s.cur # EOF /\ s.cur # "*" => NextChar(s) \in P,
         \A s \in P : s.cur = "*" /\ PeekChar(s).next # ")" => NextChar(PeekChar(s)) \in P,
         NEW s0 \in P
  PROVE  \E t \in P :
           \/ t.cur = EOF /\ InStarComment[s0] = NextChar(NextChar(t))
           \/ /\ t.cur = "*" /\ PeekChar(t).next = ")"
              /\ InStarComment[s0] = NextChar(NextChar(PeekChar(t)))
  <1>1. PICK stop, next, out, m :
          /\ stop = {s \in LexerState : s.cur = EOF \/ (s.cur = "*" /\ PeekChar(s).next = ")")}
          /\ next = [s \in LexerState |-> IF s.cur = "*" THEN NextChar(PeekChar(s))
                                          ELSE NextChar(s)]
          /\ out = [s \in LexerState |-> IF s.cur = EOF THEN NextChar(NextChar(s))
                                         ELSE NextChar(NextChar(PeekChar(s)))]
          /\ m = [s \in LexerState |-> Left(s)]
    OBVIOUS
  <1>2. EOF # "*"
    BY DEF EOF
  <1>3. ASSUME NEW f PROVE InStar(f) <=> Loops(LexerState, stop, next, out, f)
    <2>1. ASSUME NEW s \in LexerState
          PROVE  (CASE s.cur = EOF -> NextChar(NextChar(s))
                    [] s.cur = "*" -> IF PeekChar(s).next = ")" THEN NextChar(NextChar(PeekChar(s)))
                                      ELSE f[NextChar(PeekChar(s))]
                    [] OTHER       -> f[NextChar(s)])
                 = (IF s \in stop THEN out[s] ELSE f[next[s]])
      <3>1. CASE s.cur = EOF
        BY <1>1, <1>2, <3>1
      <3>2. CASE s.cur = "*" /\ PeekChar(s).next = ")"
        BY <1>1, <1>2, <3>2
      <3>3. CASE s.cur = "*" /\ PeekChar(s).next # ")"
        BY <1>1, <1>2, <3>3
      <3>4. CASE s.cur # EOF /\ s.cur # "*"
        BY <1>1, <3>4
      <3>5. QED  BY <3>1, <3>2, <3>3, <3>4
    <2>2. [s \in LexerState |->
             CASE s.cur = EOF -> NextChar(NextChar(s))
               [] s.cur = "*" -> IF PeekChar(s).next = ")" THEN NextChar(NextChar(PeekChar(s)))
                                 ELSE f[NextChar(PeekChar(s))]
               [] OTHER       -> f[NextChar(s)]]
          = [s \in LexerState |-> IF s \in stop THEN out[s] ELSE f[next[s]]]
      BY <2>1
    <2>3. QED  BY <2>2 DEF InStar, Loops
  <1>4. ASSUME NEW s \in LexerState, s \notin stop
        PROVE  Leads(s, next[s]) /\ m[next[s]] < m[s]
    <2>1. s.cur # EOF
      BY <1>1, <1>4
    <2>2. CASE s.cur = "*"
      <3>1. PICK t : t = PeekChar(s)
        OBVIOUS
      <3>2. next[s] = NextChar(t)
        BY <1>1, <2>2, <3>1
      <3>3. Leads(s, t) /\ t \in LexerState
        BY <2>1, <3>1, StepsLead DEF Leads
      <3>4. Leads(s, next[s])
        BY <3>2, <3>3, StepsLead, LeadsTwice
      <3>5. next[s] \in LexerState
        BY <3>4 DEF Leads
      <3>6. QED  BY <1>1, <2>1, <3>1, <3>2, <3>4, <3>5, NextLeaves
    <2>3. CASE s.cur # "*"
      <3>1. next[s] = NextChar(s)
        BY <1>1, <2>3
      <3>2. Leads(s, next[s]) /\ next[s] \in LexerState
        BY <3>1, StepsLead DEF Leads
      <3>3. QED  BY <1>1, <2>1, <3>1, <3>2, NextLeaves
    <2>4. QED  BY <2>2, <2>3
  <1>5. InStar(InStarComment)
    <2>1. \A s \in LexerState \ stop : next[s] \in LexerState
      BY <1>4 DEF Leads
    <2>2. \E f : Loops(LexerState, stop, next, out, f)
      BY <2>1, LoopExists
    <2>3. \E f : InStar(f)
      BY <1>3, <2>2
    <2>4. InStarComment = CHOOSE f : InStar(f)
      BY DEF InStarComment, InStar
    <2>5. QED  BY <2>3, <2>4
  <1>6. PICK f : f = InStarComment /\ Loops(LexerState, stop, next, out, f)
    BY <1>3, <1>5
  <1>7. \A s \in P \ stop : next[s] \in P
    BY <1>1, <1>2
  <1>8. /\ \A s \in P : m[s] \in Nat
        /\ \A s \in P \ stop : m[next[s]] < m[s]
    BY <1>1, <1>4, LeftIs
  <1>9. PICK t \in P \cap stop : InStarComment[s0] = out[t]
    BY <1>6, <1>7, <1>8, LoopEnds
  <1>10. t \in P /\ t \in LexerState /\ t \in stop
    OBVIOUS
  <1>11. CASE t.cur = EOF
    BY <1>1, <1>9, <1>10, <1>11
  <1>12. CASE t.cur # EOF
    BY <1>1, <1>9, <1>10, <1>12
  <1>13. QED  BY <1>10, <1>11, <1>12

LEMMA InStarCommentLeads ==
  ASSUME text \in Seq(STRING), NEW s0 \in LexerState
  PROVE  Leads(s0, InStarComment[s0])
  <1>1. PICK P : P = {s \in LexerState : Leads(s0, s)}
    OBVIOUS
  <1>2. P \subseteq LexerState /\ s0 \in P
    BY <1>1, StepsLead
  <1>3. ASSUME NEW s \in P, s.cur # EOF
        PROVE  /\ NextChar(s) \in P /\ PeekChar(s) \in LexerState
               /\ Leads(s0, NextChar(PeekChar(s)))
    <2>1. Leads(s0, s) /\ s \in LexerState
      BY <1>1
    <2>2. Leads(s, NextChar(s)) /\ Leads(s, PeekChar(s)) /\ PeekChar(s) \in LexerState
      BY <1>3, <2>1, StepsLead, PeekIs
    <2>3. Leads(PeekChar(s), NextChar(PeekChar(s)))
      BY <2>2, StepsLead
    <2>4. Leads(s0, NextChar(s)) /\ Leads(s0, NextChar(PeekChar(s)))
      BY <2>1, <2>2, <2>3, LeadsTwice
    <2>5. QED  BY <1>1, <2>2, <2>4 DEF Leads
  <1>4. EOF # "*"
    BY DEF EOF
  <1>5. /\ \A s \in P : s.cur # EOF /\ s.cur # "*" => NextChar(s) \in P
        /\ \A s \in P : s.cur = "*" /\ PeekChar(s).next # ")" => NextChar(PeekChar(s)) \in P
    BY <1>1, <1>3, <1>4 DEF Leads
  <1>6. PICK t \in P : \/ t.cur = EOF /\ InStarComment[s0] = NextChar(NextChar(t))
                       \/ /\ t.cur = "*" /\ PeekChar(t).next = ")"
                          /\ InStarComment[s0] = NextChar(NextChar(PeekChar(t)))
    BY <1>2, <1>5, InStarCommentEnds
  <1>7. Leads(s0, t) /\ t \in LexerState
    BY <1>1
  <1>8. CASE t.cur = EOF
    <2>1. PICK u : u = NextChar(t)
      OBVIOUS
    <2>2. Leads(t, u) /\ u \in LexerState
      BY <1>7, <2>1, StepsLead DEF Leads
    <2>3. InStarComment[s0] = NextChar(u)
      BY <1>4, <1>6, <1>8, <2>1
    <2>4. QED  BY <1>7, <2>2, <2>3, StepsLead, LeadsTwice
  <1>9. CASE t.cur # EOF
    <2>1. PICK v : v = NextChar(PeekChar(t))
      OBVIOUS
    <2>2. Leads(s0, v) /\ v \in LexerState
      BY <1>3, <1>9, <2>1 DEF Leads
    <2>3. InStarComment[s0] = NextChar(v)
      BY <1>6, <1>9, <2>1
    <2>4. QED  BY <2>2, <2>3, StepsLead, LeadsTwice
  <1>10. QED  BY <1>8, <1>9

LEMMA StarCommentLeads ==
  ASSUME text \in Seq(STRING), NEW s \in LexerState
  PROVE  Leads(s, StarComment(s))
  <1>1. CASE s.cur # "("
    BY <1>1, StepsLead DEF StarComment
  <1>2. CASE s.cur = "("
    <2>1. PICK t, u, v : t = PeekChar(s) /\ u = NextChar(t) /\ v = NextChar(u)
      OBVIOUS
    <2>2. Leads(s, t) /\ t \in LexerState
      BY <1>2, <2>1, StepsLead DEF Leads, EOF
    <2>3. Leads(t, u) /\ u \in LexerState
      BY <2>1, <2>2, StepsLead DEF Leads
    <2>4. Leads(u, v) /\ v \in LexerState
      BY <2>1, <2>3, StepsLead DEF Leads
    <2>5. Leads(v, InStarComment[v])
      BY <2>4, InStarCommentLeads
    <2>6. Leads(s, InStarComment[v])
      BY <2>2, <2>3, <2>4, <2>5, LeadsTwice
    <2>7. StarComment(s) = t \/ StarComment(s) = InStarComment[v]
      BY <1>2, <2>1 DEF StarComment
    <2>8. QED  BY <2>2, <2>6, <2>7
  <1>3. QED  BY <1>1, <1>2

LEMMA LineCommentLeads ==
  ASSUME text \in Seq(STRING), NEW s \in LexerState
  PROVE  Leads(s, LineComment(s))
  <1>1. CASE s.cur # "/"
    BY <1>1, StepsLead DEF LineComment
  <1>2. CASE s.cur = "/"
    <2>1. PICK t, u : t = PeekChar(s) /\ u = SkipUntil(t, {NL})
      OBVIOUS
    <2>2. Leads(s, t) /\ t \in LexerState
      BY <1>2, <2>1, StepsLead DEF Leads, EOF
    <2>3. Leads(t, u)
      BY <2>1, <2>2, SkipUntilIs DEF Leads
    <2>4. Leads(s, u)
      BY <2>2, <2>3, LeadsTwice
    <2>5. LineComment(s) = t \/ LineComment(s) = u
      BY <1>2, <2>1 DEF LineComment
    <2>6. QED  BY <2>2, <2>4, <2>5
  <1>3. QED  BY <1>1, <1>2

LEMMA NotSpace == EOF \notin Space /\ LBRACE \notin Space /\ LBRACE # EOF
  BY Zenon DEF Space, EOF, NL, BLANK, LBRACE

LEMMA PassLeads ==
  ASSUME text \in Seq(STRING), NEW s \in LexerState
  PROVE  /\ Leads(s, Pass(s))
         /\ Synced(s) /\ s.cur \in Space \cup {LBRACE} => At(Pass(s)) > At(s)
  <1>1. PICK a, b, c, d : /\ a = SkipWhile(s, Space) /\ b = BraceComment(a)
                          /\ c = StarComment(b) /\ d = LineComment(c)
    OBVIOUS
  <1>2. Pass(s) = d
    BY <1>1 DEF Pass
  <1>3. Leads(s, a) /\ a \in LexerState
    BY <1>1, NotSpace, SkipWhileIs DEF Leads
  <1>4. Leads(a, b) /\ b \in LexerState
    BY <1>1, <1>3, BraceCommentLeads DEF Leads
  <1>5. Leads(b, c) /\ c \in LexerState
    BY <1>1, <1>4, StarCommentLeads DEF Leads
  <1>6. Leads(c, d)
    BY <1>1, <1>5, LineCommentLeads
  <1>7. Leads(b, d) /\ Leads(a, d) /\ Leads(s, d)
    BY <1>3, <1>4, <1>5, <1>6, LeadsTwice
  <1>8. ASSUME Synced(s), s.cur \in Space \cup {LBRACE}
        PROVE  At(d) > At(s)
    <2>1. Synced(a) /\ Synced(b) /\ Onward(s, a) /\ Onward(a, b) /\ Onward(b, d)
      BY <1>3, <1>4, <1>7, <1>8 DEF Leads, Onward
    <2>2. At(s) \in Nat /\ At(a) \in Nat /\ At(b) \in Nat /\ At(d) \in Nat
      BY <1>8, <2>1, SyncedIs DEF Onward
    <2>3. At(a) >= At(s) /\ At(b) >= At(a) /\ At(d) >= At(b)
      BY <2>1 DEF Onward
    <2>4. CASE s.cur \in Space
      <3>1. At(a) > At(s)
        BY <1>1, <1>8, <2>4, NotSpace, SkipWhileIs
      <3>2. QED  BY <2>2, <2>3, <3>1
    <2>5. CASE s.cur = LBRACE
      <3>1. a = s
        BY <1>1, <2>5, NotSpace, SkipWhileIs
      <3>2. At(b) > At(a)
        BY <1>1, <1>8, <2>5, <3>1, BraceCommentLeads
      <3>3. QED  BY <2>2, <2>3, <3>2
    <2>6. QED  BY <1>8, <2>4, <2>5
  <1>9. QED  BY <1>2, <1>7, <1>8

SkipLoop(f) == f = [s \in LexerState |-> IF s.cur \in Space THEN f[Pass(s)] ELSE s]

(* The loop keeps in P.                                                    *)
LEMMA SkipLoopEnds ==
  ASSUME text \in Seq(STRING), NEW s0, Synced(s0),
         NEW P, \A s \in P : s \in LexerState /\ Synced(s),
         \A s \in P : s.cur \in Space => Pass(s) \in P, s0 \in P
  PROVE  Skip[s0] \in P /\ Skip[s0].cur \notin Space
  <1>1. PICK stop, next, out, m : /\ stop = {s \in LexerState : s.cur \notin Space}
                                  /\ next = [s \in LexerState |-> Pass(s)]
                                  /\ out = [s \in LexerState |-> s]
                                  /\ m = [s \in LexerState |-> Len(text) + 1 - At(s)]
    OBVIOUS
  <1>2. ASSUME NEW f PROVE SkipLoop(f) <=> Loops(LexerState, stop, next, out, f)
    <2>1. \A s \in LexerState : (IF s.cur \in Space THEN f[Pass(s)] ELSE s)
                                = (IF s \in stop THEN out[s] ELSE f[next[s]])
      BY <1>1
    <2>2. [s \in LexerState |-> IF s.cur \in Space THEN f[Pass(s)] ELSE s]
          = [s \in LexerState |-> IF s \in stop THEN out[s] ELSE f[next[s]]]
      BY <2>1
    <2>3. QED  BY <2>2 DEF SkipLoop, Loops
  <1>3. PICK f : f = Skip /\ Loops(LexerState, stop, next, out, f)
    <2>1. \A s \in LexerState \ stop : next[s] \in LexerState
      BY <1>1, PassLeads DEF Leads
    <2>2. \E f : SkipLoop(f)
      BY <1>2, <2>1, LoopExists
    <2>3. Skip = CHOOSE f : SkipLoop(f)
      BY DEF Skip, SkipLoop
    <2>4. SkipLoop(Skip)
      BY <2>2, <2>3
    <2>5. QED  BY <1>2, <2>4
  <1>4. P \subseteq LexerState
    OBVIOUS
  <1>5. ASSUME NEW s \in P
        PROVE  Synced(s) /\ At(s) \in 1 .. Len(text) + 1 /\ m[s] \in Nat
               /\ m[s] = Len(text) + 1 - At(s)
    <2>1. Synced(s) /\ s \in LexerState
      OBVIOUS
    <2>2. At(s) \in 1 .. Len(text) + 1
      BY <2>1, SyncedIs
    <2>3. QED  BY <1>1, <2>1, <2>2
  <1>6. ASSUME NEW s \in P \ stop
        PROVE  next[s] \in P /\ m[next[s]] < m[s]
    <2>1. s \in LexerState /\ s.cur \in Space /\ next[s] = Pass(s)
      BY <1>1, <1>4
    <2>2. PICK t : t = Pass(s)
      OBVIOUS
    <2>3. At(t) > At(s)
      BY <1>5, <2>1, <2>2, PassLeads
    <2>4. t \in P
      BY <2>1, <2>2
    <2>5. m[t] < m[s]
      BY <1>5, <2>3, <2>4
    <2>6. QED  BY <2>1, <2>2, <2>4, <2>5
  <1>7. PICK t \in P \cap stop : f[s0] = out[t]
    <2>1. /\ \A s \in P \ stop : next[s] \in P
          /\ \A s \in P : m[s] \in Nat
          /\ \A s \in P \ stop : m[next[s]] < m[s]
      BY <1>5, <1>6
    <2>2. QED  BY <1>3, <1>4, <2>1, LoopEnds
  <1>8. f[s0] = t /\ t.cur \notin Space /\ t \in P
    BY <1>1, <1>4, <1>7
  <1>9. QED  BY <1>3, <1>8

LEMMA SkipLeads ==
  ASSUME text \in Seq(STRING), NEW s0, Synced(s0)
  PROVE  Onward(s0, Skip[s0]) /\ Skip[s0].errno = s0.errno /\ Skip[s0].cur \notin Space
  <1>1. PICK P : P = {s \in LexerState : Onward(s0, s) /\ s.errno = s0.errno}
    OBVIOUS
  <1>2. s0 \in P /\ \A s \in P : s \in LexerState /\ Synced(s)
    BY <1>1, SyncedIs DEF Onward
  <1>3. ASSUME NEW s \in P PROVE Pass(s) \in P
    <2>1. PICK t : t = Pass(s)
      OBVIOUS
    <2>2. Onward(s, t) /\ t.errno = s.errno /\ t \in LexerState
      BY <1>2, <2>1, PassLeads DEF Leads
    <2>3. Onward(s0, t) /\ t.errno = s0.errno
      BY <1>1, <2>2, OnwardTwice
    <2>4. QED  BY <1>1, <2>1, <2>2, <2>3
  <1>4. Skip[s0] \in P /\ Skip[s0].cur \notin Space
    BY <1>2, <1>3, SkipLoopEnds
  <1>5. QED  BY <1>1, <1>4

-----------------------------------------------------------------------------
(* Words and strings.                                                      *)

(* The token a has its kind, and is found behind s.                        *)
Reads(s, a) == a.kind \in TokenKinds /\ Onward(s, a.s)

LEMMA TokenIs ==
  ASSUME NEW k, NEW v, NEW s
  PROVE  Token(k, v, s).kind = k /\ Token(k, v, s).value = v /\ Token(k, v, s).s = s
  BY DEF Token

Alphanumeric ==
  {"0", "1", "2", "3", "4", "5", "6", "7", "8", "9", "a", "b", "c", "d",
   "e", "f", "g", "h", "i", "j", "k", "l", "m", "n", "o", "p", "q", "r",
   "s", "t", "u", "v", "w", "x", "y", "z"}

LEMMA DigitsAre == \A base \in 0 .. 36 : DigitsOf(base) \subseteq Alphanumeric
  <1>1. \A d \in 1 .. 36 : DigitChars[d] \in Alphanumeric
    BY DEF DigitChars, Alphanumeric
  <1>2. QED  BY <1>1 DEF DigitsOf, DigitSets

LEMMA Characters ==
  /\ \A base \in 0 .. 36 : EOF \notin DigitsOf(base)
  /\ EOF \notin Digit /\ EOF \notin WordChar /\ EOF \notin Quote /\ NL # EOF
  /\ Digit = DigitsOf(10) /\ WordStart \subseteq WordChar
  <1>1. \A d \in 1 .. 36 : DigitChars[d] # EOF
    BY DEF DigitChars, EOF
  <1>2. \A base \in 0 .. 36 : EOF \notin DigitsOf(base)
    BY <1>1 DEF DigitsOf, DigitSets
  <1>3. EOF \notin Digit /\ EOF \notin DigitsOf(36) /\ Digit = DigitsOf(10)
    BY <1>2 DEF Digit
  <1>4. LINE # EOF
    BY DEF LINE, EOF
  <1>5. UNDERSCORE # EOF /\ DQUOTE # EOF /\ "'" # EOF /\ NL # EOF
    BY Zenon DEF UNDERSCORE, DQUOTE, EOF, NL
  <1>6. EOF \notin WordChar /\ WordStart \subseteq WordChar
    BY <1>3, <1>4, <1>5 DEF WordChar, WordStart, Letter
  <1>7. EOF \notin Quote
    BY <1>5 DEF Quote
  <1>8. QED  BY <1>2, <1>3, <1>5, <1>6, <1>7

(* Kept, of the state of a word and of a string.                           *)
LEMMA KeptIs ==
  ASSUME text \in Seq(STRING), NEW w
  PROVE  /\ w \in WordState => /\ Kept(w) \in WordState /\ Kept(w).s = NextChar(w.s)
                               /\ Kept(w).str = Append(w.str, w.s.cur)
         /\ w \in StringState => /\ Kept(w) \in StringState /\ Kept(w).s = NextChar(w.s)
                                 /\ Kept(w).str = Append(w.str, w.s.cur)
                                 /\ Kept(w).quote = w.quote
  <1>1. PICK t, str, k : t = NextChar(w.s) /\ str = Append(w.str, w.s.cur) /\ k = Kept(w)
    OBVIOUS
  <1>2. k = [w EXCEPT !.s = t, !.str = str]
    BY <1>1 DEF Kept
  <1>3. ASSUME w \in WordState
        PROVE  k \in WordState /\ k.s = t /\ k.str = str
    <2>1. w.s \in LexerState /\ w.str \in Seq(STRING)
      BY <1>3 DEF WordState
    <2>2. t \in LexerState
      BY <1>1, <2>1, NextIs
    <2>3. str \in Seq(STRING)
      BY <1>1, <2>1, Fields, AppendProperties
    <2>4. QED  BY <1>2, <1>3, <2>2, <2>3 DEF WordState
  <1>4. ASSUME w \in StringState
        PROVE  k \in StringState /\ k.s = t /\ k.str = str /\ k.quote = w.quote
    <2>1. w.s \in LexerState /\ w.str \in Seq(STRING)
      BY <1>4 DEF StringState
    <2>2. t \in LexerState
      BY <1>1, <2>1, NextIs
    <2>3. str \in Seq(STRING)
      BY <1>1, <2>1, Fields, AppendProperties
    <2>4. QED  BY <1>2, <1>4, <2>2, <2>3 DEF StringState
  <1>5. QED  BY <1>1, <1>3, <1>4

(* One step closer to the end of the file, for a loop over states with a   *)
(* lexer that goes on from s0.                                             *)
LEMMA NextOnward ==
  ASSUME text \in Seq(STRING), NEW s0, Synced(s0), NEW s, Onward(s0, s), s.cur # EOF
  PROVE  /\ Onward(s0, NextChar(s)) /\ NextChar(s) \in LexerState
         /\ At(s) \in 1 .. Len(text) /\ At(NextChar(s)) = At(s) + 1
  <1>1. Synced(s)
    BY DEF Onward
  <1>2. At(s) \in 1 .. Len(text)
    BY <1>1, SyncedIs
  <1>3. Onward(s, NextChar(s)) /\ At(NextChar(s)) = At(s) + 1
    BY <1>1, <1>2, SyncedNext
  <1>4. Onward(s0, NextChar(s))
    BY <1>3, OnwardTwice
  <1>5. NextChar(s) \in LexerState
    BY <1>4, SyncedIs DEF Onward
  <1>6. QED  BY <1>2, <1>3, <1>4, <1>5

InWordLoop(f) ==
  f = [w \in WordState |->
         CASE w.s.cur \in WordChar     -> f[Kept(w)]
           [] w.s.cur \notin WordChar /\ w.str \in DOMAIN Keyword ->
                Token(Keyword[w.str], <<>>, w.s)
           [] OTHER                    -> Token("Identifier", w.str, w.s)]

WordIs(w) == IF w.str \in DOMAIN Keyword THEN Token(Keyword[w.str], <<>>, w.s)
             ELSE Token("Identifier", w.str, w.s)

(* The loop keeps in P.                                                    *)
LEMMA InWordEnds ==
  ASSUME text \in Seq(STRING), NEW s0, Synced(s0),
         NEW P, P \subseteq WordState, \A w \in P : Onward(s0, w.s),
         \A w \in P : w.s.cur \in WordChar => Kept(w) \in P, NEW w0 \in P
  PROVE  /\ \E w \in P : w.s.cur \notin WordChar /\ InWord[w0] = WordIs(w)
         /\ w0.s.cur \in WordChar => InWord[w0] = InWord[Kept(w0)]
  <1>1. PICK stop, next, out, m :
          /\ stop = {w \in WordState : w.s.cur \notin WordChar}
          /\ next = [w \in WordState |-> Kept(w)]
          /\ out = [w \in WordState |-> WordIs(w)]
          /\ m = [w \in WordState |-> Len(text) + 1 - At(w.s)]
    OBVIOUS
  <1>2. ASSUME NEW f PROVE InWordLoop(f) <=> Loops(WordState, stop, next, out, f)
    <2>1. ASSUME NEW w \in WordState
          PROVE  (CASE w.s.cur \in WordChar     -> f[Kept(w)]
                    [] w.s.cur \notin WordChar /\ w.str \in DOMAIN Keyword ->
                         Token(Keyword[w.str], <<>>, w.s)
                    [] OTHER                    -> Token("Identifier", w.str, w.s))
                 = (IF w \in stop THEN out[w] ELSE f[next[w]])
      <3>1. CASE w.s.cur \in WordChar
        BY <1>1, <3>1
      <3>2. CASE w.s.cur \notin WordChar /\ w.str \in DOMAIN Keyword
        BY <1>1, <3>2 DEF WordIs
      <3>3. CASE w.s.cur \notin WordChar /\ w.str \notin DOMAIN Keyword
        BY <1>1, <3>3 DEF WordIs
      <3>4. QED  BY <3>1, <3>2, <3>3
    <2>2. [w \in WordState |->
             CASE w.s.cur \in WordChar     -> f[Kept(w)]
               [] w.s.cur \notin WordChar /\ w.str \in DOMAIN Keyword ->
                    Token(Keyword[w.str], <<>>, w.s)
               [] OTHER                    -> Token("Identifier", w.str, w.s)]
          = [w \in WordState |-> IF w \in stop THEN out[w] ELSE f[next[w]]]
      BY <2>1
    <2>3. QED  BY <2>2 DEF InWordLoop, Loops
  <1>3. PICK f : f = InWord /\ Loops(WordState, stop, next, out, f)
    <2>1. \A w \in WordState \ stop : next[w] \in WordState
      BY <1>1, KeptIs
    <2>2. \E f : InWordLoop(f)
      BY <1>2, <2>1, LoopExists
    <2>3. InWord = CHOOSE f : InWordLoop(f)
      BY DEF InWord, InWordLoop
    <2>4. InWordLoop(InWord)
      BY <2>2, <2>3
    <2>5. QED  BY <1>2, <2>4
  <1>4. w0 \in WordState
    OBVIOUS
  <1>5. ASSUME NEW w \in P
        PROVE  Onward(s0, w.s) /\ m[w] \in Nat /\ m[w] = Len(text) + 1 - At(w.s)
    <2>1. Onward(s0, w.s) /\ At(w.s) \in 1 .. Len(text) + 1
      BY SyncedIs DEF Onward
    <2>2. QED  BY <1>1, <2>1
  <1>6. ASSUME NEW w \in P \ stop
        PROVE  next[w] \in P /\ m[next[w]] < m[w]
    <2>1. w.s.cur \in WordChar /\ w.s.cur # EOF /\ w \in WordState
      BY <1>1, Characters
    <2>2. PICK k : k = Kept(w)
      OBVIOUS
    <2>3. k \in WordState /\ k.s = NextChar(w.s)
      BY <2>1, <2>2, KeptIs
    <2>4. /\ Onward(s0, NextChar(w.s)) /\ At(w.s) \in 1 .. Len(text)
          /\ At(NextChar(w.s)) = At(w.s) + 1
      BY <1>5, <2>1, NextOnward
    <2>5. k \in P
      BY <2>1, <2>2
    <2>6. m[k] < m[w]
      BY <1>5, <2>3, <2>4, <2>5
    <2>7. QED  BY <1>1, <2>1, <2>2, <2>5, <2>6
  <1>7. PICK w \in P \cap stop : f[w0] = out[w]
    <2>1. /\ \A w \in P \ stop : next[w] \in P
          /\ \A w \in P : m[w] \in Nat
          /\ \A w \in P \ stop : m[next[w]] < m[w]
      BY <1>5, <1>6
    <2>2. QED  BY <1>3, <2>1, LoopEnds
  <1>8. w \in P /\ w.s.cur \notin WordChar /\ out[w] = WordIs(w)
    BY <1>1, <1>7
  <1>9. w0.s.cur \in WordChar => f[w0] = f[Kept(w0)]
    BY <1>1, <1>3, <1>4 DEF Loops
  <1>10. QED  BY <1>3, <1>7, <1>8, <1>9

LEMMA InWordReads ==
  ASSUME text \in Seq(STRING), NEW s0, Synced(s0), NEW w0 \in WordState, Onward(s0, w0.s)
  PROVE  /\ Reads(s0, InWord[w0]) /\ InWord[w0].s.errno = w0.s.errno
         /\ w0.s.cur \in WordChar => InWord[w0] = InWord[Kept(w0)]
  <1>1. PICK P : P = {w \in WordState : Onward(s0, w.s) /\ w.s.errno = w0.s.errno}
    OBVIOUS
  <1>2. P \subseteq WordState /\ w0 \in P /\ \A w \in P : Onward(s0, w.s)
    BY <1>1
  <1>3. ASSUME NEW w \in P, w.s.cur \in WordChar
        PROVE  Kept(w) \in P
    <2>1. Onward(s0, w.s) /\ w.s.cur # EOF /\ w \in WordState
      BY <1>2, <1>3, Characters
    <2>2. Kept(w) \in WordState /\ Kept(w).s = NextChar(w.s)
      BY <2>1, KeptIs
    <2>3. Onward(s0, NextChar(w.s))
      BY <2>1, NextOnward
    <2>4. NextChar(w.s).errno = w0.s.errno
      <3>1. w.s \in LexerState /\ w.s.errno = w0.s.errno
        BY <1>1 DEF WordState
      <3>2. QED  BY <3>1, NextIs
    <2>5. QED  BY <1>1, <2>2, <2>3, <2>4
  <1>4. PICK w \in P : InWord[w0] = WordIs(w)
    BY <1>2, <1>3, InWordEnds
  <1>5. Reads(s0, WordIs(w))
    <2>1. w \in WordState /\ Onward(s0, w.s)
      BY <1>2
    <2>2. CASE w.str \in DOMAIN Keyword
      <3>1. WordIs(w) = Token(Keyword[w.str], <<>>, w.s)
        BY <2>2 DEF WordIs
      <3>2. Keyword[w.str] \in TokenKinds
        BY <2>2 DEF TokenKinds
      <3>3. QED  BY <2>1, <3>1, <3>2, TokenIs DEF Reads
    <2>3. CASE w.str \notin DOMAIN Keyword
      <3>1. WordIs(w) = Token("Identifier", w.str, w.s)
        BY <2>3 DEF WordIs
      <3>2. "Identifier" \in TokenKinds
        BY DEF TokenKinds
      <3>3. QED  BY <2>1, <3>1, <3>2, TokenIs DEF Reads
    <2>4. QED  BY <2>2, <2>3
  <1>6. InWord[w0].s.errno = w0.s.errno
    <2>1. WordIs(w).s = w.s
      BY TokenIs DEF WordIs
    <2>2. QED  BY <1>1, <1>4, <2>1
  <1>7. w0.s.cur \in WordChar => InWord[w0] = InWord[Kept(w0)]
    BY <1>2, <1>3, InWordEnds
  <1>8. QED  BY <1>4, <1>5, <1>6, <1>7

(* A lexer that has peeked at a character, and goes on to it.              *)
LEMMA PeekOnward ==
  ASSUME text \in Seq(STRING), NEW s0, Synced(s0), NEW s, Onward(s0, s), s.cur # EOF
  PROVE  /\ Onward(s0, PeekChar(s)) /\ Onward(s0, NextChar(PeekChar(s)))
         /\ At(PeekChar(s)) = At(s) /\ At(s) \in 1 .. Len(text)
         /\ At(NextChar(PeekChar(s))) = At(s) + 1
  <1>1. PICK p : p = PeekChar(s)
    OBVIOUS
  <1>2. Synced(s)
    BY DEF Onward
  <1>3. Onward(s, p) /\ At(p) = At(s) /\ p.cur # EOF
    BY <1>1, <1>2, SyncedPeek
  <1>4. Onward(s0, p)
    BY <1>3, OnwardTwice
  <1>5. Onward(s0, NextChar(p)) /\ At(p) \in 1 .. Len(text) /\ At(NextChar(p)) = At(p) + 1
    BY <1>3, <1>4, NextOnward
  <1>6. QED  BY <1>1, <1>3, <1>4, <1>5

LEMMA NotQuote == NL \notin Quote /\ EOF \notin Quote
  BY Zenon DEF NL, EOF, Quote, DQUOTE

InStringLoop(f) ==
  f = [q \in StringState |->
         CASE q.s.cur \in {NL, EOF} -> Token("UntermString", <<>>, q.s)
           [] q.s.cur = q.quote ->
                IF PeekChar(q.s).next = q.quote
                  THEN f[Kept([q EXCEPT !.s = NextChar(PeekChar(q.s))])]
                  ELSE Token(IF Len(q.str) = 1 THEN "Char" ELSE "StringLiteral", q.str,
                             NextChar(PeekChar(q.s)))
           [] OTHER -> f[Kept(q)]]

(* A doubled quote, of which one is kept; what the end of a string gives.  *)
Doubled(q)  == Kept([q EXCEPT !.s = NextChar(PeekChar(q.s))])
StringIs(q) == Token(IF Len(q.str) = 1 THEN "Char" ELSE "StringLiteral", q.str,
                     NextChar(PeekChar(q.s)))

LEMMA DoubledIs ==
  ASSUME text \in Seq(STRING), NEW q \in StringState
  PROVE  /\ Doubled(q) \in StringState /\ Doubled(q).quote = q.quote
         /\ Doubled(q).s = NextChar(NextChar(PeekChar(q.s)))
         /\ Doubled(q).str = Append(q.str, NextChar(PeekChar(q.s)).cur)
  <1>1. PICK t, u : t = NextChar(PeekChar(q.s)) /\ u = [q EXCEPT !.s = t]
    OBVIOUS
  <1>2. t \in LexerState
    BY <1>1, PeekIs, NextIs DEF StringState
  <1>3. u \in StringState /\ u.s = t /\ u.str = q.str /\ u.quote = q.quote
    BY <1>1, <1>2 DEF StringState
  <1>4. Doubled(q) = Kept(u)
    BY <1>1 DEF Doubled
  <1>5. QED  BY <1>1, <1>3, <1>4, KeptIs

(* The loop keeps in P.                                                    *)
LEMMA InStringEnds ==
  ASSUME text \in Seq(STRING), NEW s0, Synced(s0),
         NEW P, P \subseteq StringState, \A q \in P : Onward(s0, q.s),
         \A q \in P : q.s.cur = q.quote /\ PeekChar(q.s).next = q.quote => Doubled(q) \in P,
         \A q \in P : q.s.cur # q.quote /\ q.s.cur \notin {NL, EOF} => Kept(q) \in P,
         NEW q0 \in P
  PROVE  \E q \in P :
           \/ q.s.cur \in {NL, EOF} /\ InString[q0] = Token("UntermString", <<>>, q.s)
           \/ /\ q.s.cur = q.quote /\ q.s.cur # EOF /\ PeekChar(q.s).next # q.quote
              /\ InString[q0] = StringIs(q)
  <1>1. PICK stop, next, out, m :
          /\ stop = {q \in StringState :
                       \/ q.s.cur \in {NL, EOF}
                       \/ q.s.cur = q.quote /\ PeekChar(q.s).next # q.quote}
          /\ next = [q \in StringState |-> IF q.s.cur = q.quote THEN Doubled(q) ELSE Kept(q)]
          /\ out = [q \in StringState |->
                      IF q.s.cur \in {NL, EOF} THEN Token("UntermString", <<>>, q.s)
                      ELSE StringIs(q)]
          /\ m = [q \in StringState |-> Len(text) + 1 - At(q.s)]
    OBVIOUS
  <1>2. ASSUME NEW q \in StringState
        PROVE  q.s \in LexerState /\ q.quote \in Quote /\ q.quote \notin {NL, EOF}
    BY NotQuote DEF StringState
  <1>3. ASSUME NEW f PROVE InStringLoop(f) <=> Loops(StringState, stop, next, out, f)
    <2>1. ASSUME NEW q \in StringState
          PROVE  (CASE q.s.cur \in {NL, EOF} -> Token("UntermString", <<>>, q.s)
                    [] q.s.cur = q.quote ->
                         IF PeekChar(q.s).next = q.quote
                           THEN f[Kept([q EXCEPT !.s = NextChar(PeekChar(q.s))])]
                           ELSE Token(IF Len(q.str) = 1 THEN "Char" ELSE "StringLiteral", q.str,
                                      NextChar(PeekChar(q.s)))
                    [] OTHER -> f[Kept(q)])
                 = (IF q \in stop THEN out[q] ELSE f[next[q]])
      <3>1. CASE q.s.cur \in {NL, EOF}
        BY <1>1, <1>2, <3>1
      <3>2. CASE q.s.cur = q.quote /\ PeekChar(q.s).next = q.quote
        BY <1>1, <1>2, <3>2 DEF Doubled
      <3>3. CASE q.s.cur = q.quote /\ PeekChar(q.s).next # q.quote
        BY <1>1, <1>2, <3>3 DEF StringIs
      <3>4. CASE q.s.cur # q.quote /\ q.s.cur \notin {NL, EOF}
        BY <1>1, <3>4
      <3>5. QED  BY <3>1, <3>2, <3>3, <3>4
    <2>2. [q \in StringState |->
             CASE q.s.cur \in {NL, EOF} -> Token("UntermString", <<>>, q.s)
               [] q.s.cur = q.quote ->
                    IF PeekChar(q.s).next = q.quote
                      THEN f[Kept([q EXCEPT !.s = NextChar(PeekChar(q.s))])]
                      ELSE Token(IF Len(q.str) = 1 THEN "Char" ELSE "StringLiteral", q.str,
                                 NextChar(PeekChar(q.s)))
               [] OTHER -> f[Kept(q)]]
          = [q \in StringState |-> IF q \in stop THEN out[q] ELSE f[next[q]]]
      BY <2>1
    <2>3. QED  BY <2>2 DEF InStringLoop, Loops
  <1>4. PICK f : f = InString /\ Loops(StringState, stop, next, out, f)
    <2>1. \A q \in StringState \ stop : next[q] \in StringState
      BY <1>1, DoubledIs, KeptIs
    <2>2. \E f : InStringLoop(f)
      BY <1>3, <2>1, LoopExists
    <2>3. InString = CHOOSE f : InStringLoop(f)
      BY DEF InString, InStringLoop
    <2>4. InStringLoop(InString)
      BY <2>2, <2>3
    <2>5. QED  BY <1>3, <2>4
  <1>5. ASSUME NEW q \in P
        PROVE  Onward(s0, q.s) /\ m[q] \in Nat /\ m[q] = Len(text) + 1 - At(q.s)
    <2>1. Onward(s0, q.s) /\ At(q.s) \in 1 .. Len(text) + 1
      BY SyncedIs DEF Onward
    <2>2. QED  BY <1>1, <2>1
  <1>6. ASSUME NEW q \in P \ stop
        PROVE  next[q] \in P /\ m[next[q]] < m[q]
    <2>1. q \in StringState /\ q.s.cur # EOF /\ Onward(s0, q.s)
      BY <1>1, <1>5
    <2>2. CASE q.s.cur = q.quote
      <3>1. PICK k, u : k = Doubled(q) /\ u = NextChar(PeekChar(q.s))
        OBVIOUS
      <3>2. next[q] = k /\ k \in P
        BY <1>1, <2>1, <2>2, <3>1
      <3>3. Onward(s0, u) /\ At(q.s) \in 1 .. Len(text) /\ At(u) = At(q.s) + 1
        BY <2>1, <3>1, PeekOnward
      <3>4. k.s = NextChar(u)
        BY <2>1, <3>1, DoubledIs
      <3>5. Onward(u, k.s)
        BY <3>3, <3>4, SyncedNext DEF Onward
      <3>6. At(k.s) >= At(u) /\ At(k.s) \in Nat /\ Len(text) \in Nat
        BY <3>5, SyncedIs DEF Onward
      <3>7. m[k] < m[q]
        BY <1>5, <3>2, <3>3, <3>6
      <3>8. QED  BY <3>2, <3>7
    <2>3. CASE q.s.cur # q.quote
      <3>1. PICK k : k = Kept(q)
        OBVIOUS
      <3>2. next[q] = k /\ k \in P
        BY <1>1, <2>1, <2>3, <3>1
      <3>3. k.s = NextChar(q.s)
        BY <2>1, <3>1, KeptIs
      <3>4. At(q.s) \in 1 .. Len(text) /\ At(k.s) = At(q.s) + 1
        BY <2>1, <3>3, NextOnward
      <3>5. m[k] < m[q]
        BY <1>5, <3>2, <3>4
      <3>6. QED  BY <3>2, <3>5
    <2>4. QED  BY <2>2, <2>3
  <1>7. PICK q \in P \cap stop : f[q0] = out[q]
    <2>1. /\ \A q \in P \ stop : next[q] \in P
          /\ \A q \in P : m[q] \in Nat
          /\ \A q \in P \ stop : m[next[q]] < m[q]
      BY <1>5, <1>6
    <2>2. QED  BY <1>4, <2>1, LoopEnds
  <1>8. CASE q.s.cur \in {NL, EOF}
    BY <1>1, <1>4, <1>7, <1>8
  <1>9. CASE q.s.cur \notin {NL, EOF}
    BY <1>1, <1>4, <1>7, <1>9
  <1>10. QED  BY <1>8, <1>9

LEMMA InStringReads ==
  ASSUME text \in Seq(STRING), NEW s0, Synced(s0), NEW q0 \in StringState, Onward(s0, q0.s)
  PROVE  Reads(s0, InString[q0]) /\ InString[q0].s.errno = q0.s.errno
  <1>1. PICK P : P = {q \in StringState : Onward(s0, q.s) /\ q.s.errno = q0.s.errno}
    OBVIOUS
  <1>2. P \subseteq StringState /\ q0 \in P /\ \A q \in P : Onward(s0, q.s)
    BY <1>1
  <1>3. ASSUME NEW q \in P
        PROVE  /\ q \in StringState /\ Onward(s0, q.s) /\ q.quote \notin {NL, EOF}
               /\ q.s \in LexerState /\ q.s.errno = q0.s.errno
    BY <1>1, NotQuote DEF StringState
  <1>4. ASSUME NEW q \in P, q.s.cur = q.quote
        PROVE  Doubled(q) \in P
    <2>1. PICK k, u : k = Doubled(q) /\ u = NextChar(PeekChar(q.s))
      OBVIOUS
    <2>2. k \in StringState /\ k.s = NextChar(u)
      BY <1>3, <2>1, DoubledIs
    <2>3. Onward(s0, u)
      BY <1>3, <1>4, <2>1, PeekOnward
    <2>4. Onward(u, k.s)
      BY <2>2, <2>3, SyncedNext DEF Onward
    <2>5. Onward(s0, k.s)
      BY <2>3, <2>4, OnwardTwice
    <2>6. k.s.errno = q0.s.errno
      BY <1>3, <2>1, <2>2, PeekIs, NextIs
    <2>7. QED  BY <1>1, <2>1, <2>2, <2>5, <2>6
  <1>5. ASSUME NEW q \in P, q.s.cur \notin {NL, EOF}
        PROVE  Kept(q) \in P
    <2>1. Kept(q) \in StringState /\ Kept(q).s = NextChar(q.s)
      BY <1>3, KeptIs
    <2>2. Onward(s0, NextChar(q.s))
      BY <1>3, <1>5, NextOnward
    <2>3. NextChar(q.s).errno = q0.s.errno
      BY <1>3, NextIs
    <2>4. QED  BY <1>1, <2>1, <2>2, <2>3
  <1>6. PICK q \in P :
          \/ q.s.cur \in {NL, EOF} /\ InString[q0] = Token("UntermString", <<>>, q.s)
          \/ /\ q.s.cur = q.quote /\ q.s.cur # EOF /\ PeekChar(q.s).next # q.quote
             /\ InString[q0] = StringIs(q)
    BY <1>2, <1>4, <1>5, InStringEnds
  <1>7. {"UntermString", "Char", "StringLiteral"} \subseteq TokenKinds
    BY DEF TokenKinds
  <1>8. CASE q.s.cur \in {NL, EOF}
    <2>1. InString[q0] = Token("UntermString", <<>>, q.s)
      BY <1>3, <1>6, <1>8
    <2>2. InString[q0].s = q.s
      BY <2>1, TokenIs
    <2>3. QED  BY <1>3, <1>7, <2>1, <2>2, TokenIs DEF Reads
  <1>9. CASE q.s.cur \notin {NL, EOF}
    <2>1. PICK k : k = IF Len(q.str) = 1 THEN "Char" ELSE "StringLiteral"
      OBVIOUS
    <2>2. InString[q0] = Token(k, q.str, NextChar(PeekChar(q.s)))
      BY <1>6, <1>9, <2>1 DEF StringIs
    <2>3. k \in TokenKinds
      BY <1>7, <2>1
    <2>4. Onward(s0, NextChar(PeekChar(q.s)))
      BY <1>3, <1>9, PeekOnward
    <2>5. InString[q0].s.errno = q0.s.errno
      <3>1. InString[q0].s = NextChar(PeekChar(q.s))
        BY <2>2, TokenIs
      <3>2. QED  BY <1>3, <3>1, PeekIs, NextIs
    <2>6. QED  BY <2>2, <2>3, <2>4, <2>5, TokenIs DEF Reads
  <1>10. QED  BY <1>8, <1>9

-----------------------------------------------------------------------------
(* Numbers.                                                                *)

LEMMA NumFields ==
  ASSUME NEW n \in NumState
  PROVE  /\ n.s \in LexerState /\ n.num \in Seq(STRING) /\ n.base \in Nat
         /\ n.isFloat \in BOOLEAN /\ n.state \in {"Intpart", "Fraction", "Exponent"}
  BY DEF NumState

LEMMA TakenIs ==
  ASSUME text \in Seq(STRING), NEW n \in NumState
  PROVE  /\ Taken(n) \in NumState /\ Taken(n).s = NextChar(n.s)
         /\ Taken(n).num = Append(n.num, n.s.cur)
         /\ Taken(n).base = n.base /\ Taken(n).isFloat = n.isFloat /\ Taken(n).state = n.state
  <1>1. PICK s, num, k : s = NextChar(n.s) /\ num = Append(n.num, n.s.cur) /\ k = Taken(n)
    OBVIOUS
  <1>2. k = [n EXCEPT !.s = s, !.num = num]
    BY <1>1 DEF Taken
  <1>3. n.s \in LexerState /\ n.num \in Seq(STRING)
    BY NumFields
  <1>4. s \in LexerState
    BY <1>1, <1>3, NextIs
  <1>5. num \in Seq(STRING)
    BY <1>1, <1>3, Fields, AppendProperties
  <1>6. /\ k \in NumState /\ k.s = s /\ k.num = num
        /\ k.base = n.base /\ k.isFloat = n.isFloat /\ k.state = n.state
    BY <1>2, <1>4, <1>5 DEF NumState
  <1>7. QED  BY <1>1, <1>6

(* k is n with more of its characters taken.                               *)
NumLeads(n, k) == /\ k \in NumState /\ k.base = n.base /\ k.state = n.state
                  /\ Leads(n.s, k.s)

LEMMA NumLeadsTwice ==
  ASSUME text \in Seq(STRING), NEW n, NEW k, NEW l, NumLeads(n, k), NumLeads(k, l)
  PROVE  NumLeads(n, l)
  <1>1. Leads(n.s, l.s)
    BY LeadsTwice DEF NumLeads
  <1>2. QED  BY <1>1 DEF NumLeads

LEMMA TakenLeads ==
  ASSUME text \in Seq(STRING), NEW n \in NumState
  PROVE  NumLeads(n, n) /\ NumLeads(n, Taken(n))
  <1>1. n.s \in LexerState
    BY NumFields
  <1>2. Leads(n.s, n.s) /\ Leads(n.s, NextChar(n.s))
    BY <1>1, StepsLead
  <1>3. QED  BY <1>2, TakenIs DEF NumLeads

DigitsLoop(f) == f = [n \in NumState |-> IF n.s.cur \in Digit THEN f[Taken(n)] ELSE n]

LEMMA DigitsEnds ==
  ASSUME text \in Seq(STRING),
         NEW P, P \subseteq NumState, \A n \in P : n.s.cur \in Digit => Taken(n) \in P,
         NEW n0 \in P
  PROVE  \E n \in P : n.s.cur \notin Digit /\ Digits[n0] = n
  <1>1. PICK stop, next, out, m : /\ stop = {n \in NumState : n.s.cur \notin Digit}
                                  /\ next = [n \in NumState |-> Taken(n)]
                                  /\ out = [n \in NumState |-> n]
                                  /\ m = [n \in NumState |-> Left(n.s)]
    OBVIOUS
  <1>2. ASSUME NEW f PROVE DigitsLoop(f) <=> Loops(NumState, stop, next, out, f)
    <2>1. \A n \in NumState : (IF n.s.cur \in Digit THEN f[Taken(n)] ELSE n)
                              = (IF n \in stop THEN out[n] ELSE f[next[n]])
      BY <1>1
    <2>2. [n \in NumState |-> IF n.s.cur \in Digit THEN f[Taken(n)] ELSE n]
          = [n \in NumState |-> IF n \in stop THEN out[n] ELSE f[next[n]]]
      BY <2>1
    <2>3. QED  BY <2>2 DEF DigitsLoop, Loops
  <1>3. PICK f : f = Digits /\ Loops(NumState, stop, next, out, f)
    <2>1. \A n \in NumState \ stop : next[n] \in NumState
      BY <1>1, TakenIs
    <2>2. \E f : DigitsLoop(f)
      BY <1>2, <2>1, LoopExists
    <2>3. Digits = CHOOSE f : DigitsLoop(f)
      BY DEF Digits, DigitsLoop
    <2>4. DigitsLoop(Digits)
      BY <2>2, <2>3
    <2>5. QED  BY <1>2, <2>4
  <1>4. ASSUME NEW n \in P
        PROVE  m[n] \in Nat /\ m[n] = Left(n.s) /\ n.s \in LexerState
    BY <1>1, NumFields, LeftIs
  <1>5. ASSUME NEW n \in P \ stop
        PROVE  next[n] \in P /\ m[next[n]] < m[n]
    <2>1. n.s.cur # EOF /\ n.s.cur \in Digit /\ n \in NumState
      BY <1>1, Characters
    <2>2. PICK k : k = Taken(n)
      OBVIOUS
    <2>3. k.s = NextChar(n.s) /\ k \in P
      BY <2>1, <2>2, TakenIs
    <2>4. Left(k.s) < Left(n.s)
      BY <1>4, <2>1, <2>3, NextLeaves
    <2>5. QED  BY <1>1, <1>4, <2>1, <2>2, <2>3, <2>4
  <1>6. PICK n \in P \cap stop : f[n0] = out[n]
    <2>1. /\ \A n \in P \ stop : next[n] \in P
          /\ \A n \in P : m[n] \in Nat
          /\ \A n \in P \ stop : m[next[n]] < m[n]
      BY <1>4, <1>5
    <2>2. QED  BY <1>3, <2>1, LoopEnds
  <1>7. n \in P /\ n.s.cur \notin Digit /\ f[n0] = n
    BY <1>1, <1>6
  <1>8. QED  BY <1>3, <1>7

LEMMA DigitsLead ==
  ASSUME text \in Seq(STRING), NEW n0 \in NumState
  PROVE  NumLeads(n0, Digits[n0])
  <1>1. PICK P : P = {n \in NumState : NumLeads(n0, n)}
    OBVIOUS
  <1>2. P \subseteq NumState /\ n0 \in P
    BY <1>1, TakenLeads
  <1>3. ASSUME NEW n \in P PROVE Taken(n) \in P
    <2>1. n \in NumState /\ NumLeads(n0, n)
      BY <1>1
    <2>2. PICK k : k = Taken(n)
      OBVIOUS
    <2>3. NumLeads(n, k)
      BY <2>1, <2>2, TakenLeads
    <2>4. NumLeads(n0, k)
      BY <2>1, <2>3, NumLeadsTwice
    <2>5. QED  BY <1>1, <2>2, <2>4 DEF NumLeads
  <1>4. \E n \in P : n.s.cur \notin Digit /\ Digits[n0] = n
    BY <1>2, <1>3, DigitsEnds
  <1>5. QED  BY <1>1, <1>4

LEMMA WithRangeIs ==
  ASSUME text \in Seq(STRING), NEW s \in LexerState, NEW range
  PROVE  /\ WithRange(s, range) \in LexerState
         /\ WithRange(s, range).errno \in {s.errno, "ERANGE"}
         /\ range = FALSE => WithRange(s, range) = s
         /\ range = TRUE => WithRange(s, range).errno = "ERANGE"
         /\ Synced(s) => Onward(s, WithRange(s, range)) /\ At(WithRange(s, range)) = At(s)
  <1>1. CASE WithRange(s, range) = s
    <2>1. range = TRUE => s.errno = "ERANGE"
      BY <1>1, Zenon DEF WithRange, LexerState
    <2>2. QED  BY <1>1, <2>1, SyncedIs
  <1>2. CASE WithRange(s, range) = [s EXCEPT !.errno = "ERANGE"]
    <2>1. PICK t : t = WithRange(s, range)
      OBVIOUS
    <2>2. /\ t \in LexerState /\ t.pos = s.pos /\ t.line = s.line /\ t.cur = s.cur
          /\ t.next = s.next /\ t.valid = s.valid /\ t.errno = "ERANGE"
      BY <1>2, <2>1 DEF LexerState
    <2>3. At(t) = At(s)
      BY <2>2 DEF At
    <2>4. ASSUME Synced(s) PROVE Onward(s, t)
      <3>1. Synced(t)
        BY <2>2, <2>3, <2>4 DEF Synced
      <3>2. At(s) \in Nat /\ s.line \in Nat /\ s.pos \in Nat
        BY <2>4, SyncedIs
      <3>3. QED  BY <2>2, <2>3, <3>1, <3>2 DEF Onward
    <2>5. range = FALSE => t = s
      BY <2>1 DEF WithRange
    <2>6. QED  BY <2>1, <2>2, <2>3, <2>4, <2>5
  <1>3. QED  BY <1>1, <1>2 DEF WithRange

(* A fraction or an exponent is taken, and n is a float with it.           *)
LEMMA FloatIs ==
  ASSUME text \in Seq(STRING), NEW n \in NumState
  PROVE  /\ NumLeads(n, [Taken(n) EXCEPT !.isFloat = TRUE])
         /\ [Taken(n) EXCEPT !.isFloat = TRUE].s = NextChar(n.s)
         /\ [Taken(n) EXCEPT !.isFloat = TRUE].num = Append(n.num, n.s.cur)
         /\ [Taken(n) EXCEPT !.isFloat = TRUE].isFloat = TRUE
  <1>1. PICK t : t = Taken(n)
    OBVIOUS
  <1>2. t \in NumState /\ NumLeads(n, t) /\ t.s = NextChar(n.s) /\ t.num = Append(n.num, n.s.cur)
    BY <1>1, TakenIs, TakenLeads
  <1>3. PICK k : k = [t EXCEPT !.isFloat = TRUE]
    OBVIOUS
  <1>4. /\ k \in NumState /\ k.s = t.s /\ k.base = t.base /\ k.state = t.state
        /\ k.num = t.num /\ k.isFloat = TRUE
    BY <1>2, <1>3 DEF NumState
  <1>5. NumLeads(n, k)
    BY <1>2, <1>4 DEF NumLeads
  <1>6. QED  BY <1>1, <1>2, <1>3, <1>4, <1>5

LEMMA FractionLeads ==
  ASSUME text \in Seq(STRING), NEW n \in NumState
  PROVE  NumLeads(n, Fraction(n))
  <1>1. PICK k : k = [Taken(n) EXCEPT !.isFloat = TRUE]
    OBVIOUS
  <1>2. NumLeads(n, k) /\ k \in NumState
    BY <1>1, FloatIs DEF NumLeads
  <1>3. NumLeads(n, Digits[k])
    BY <1>2, DigitsLead, NumLeadsTwice
  <1>4. Fraction(n) = n \/ Fraction(n) = Digits[k]
    BY <1>1 DEF Fraction
  <1>5. QED  BY <1>3, <1>4, TakenLeads

LEMMA ExponentLeads ==
  ASSUME text \in Seq(STRING), NEW n \in NumState
  PROVE  /\ NumLeads(n, Exponent(n))
         /\ Synced(n.s) /\ n.s.cur # EOF => At(Exponent(n).s) > At(n.s)
  <1>1. PICK k, l : k = [Taken(n) EXCEPT !.isFloat = TRUE] /\ l = Signed(k)
    OBVIOUS
  <1>2. NumLeads(n, k) /\ k \in NumState
    BY <1>1, FloatIs DEF NumLeads
  <1>3. k.s = NextChar(n.s)
    <2>1. PICK t : t = Taken(n)
      OBVIOUS
    <2>2. t \in NumState /\ t.s = NextChar(n.s)
      BY <2>1, TakenIs
    <2>3. k = [t EXCEPT !.isFloat = TRUE]
      BY <1>1, <2>1
    <2>4. QED  BY <2>2, <2>3 DEF NumState
  <1>4. NumLeads(k, l) /\ l \in NumState
    BY <1>1, <1>2, TakenLeads, TakenIs DEF Signed
  <1>5. NumLeads(k, Digits[l])
    BY <1>4, DigitsLead, NumLeadsTwice
  <1>6. NumLeads(n, Digits[l])
    BY <1>2, <1>5, NumLeadsTwice
  <1>7. Exponent(n) = Digits[l]
    BY <1>1 DEF Exponent
  <1>8. ASSUME Synced(n.s), n.s.cur # EOF
        PROVE  At(Digits[l].s) > At(n.s)
    <2>1. PICK e : e = Digits[l].s
      OBVIOUS
    <2>2. At(n.s) \in Nat /\ At(n.s) <= Len(text)
      BY <1>8, SyncedIs
    <2>3. Synced(k.s) /\ At(k.s) = At(n.s) + 1
      BY <1>3, <1>8, <2>2, SyncedNext DEF Onward
    <2>4. Onward(k.s, e)
      BY <1>5, <2>1, <2>3 DEF NumLeads, Leads
    <2>5. At(e) \in Nat /\ At(e) >= At(k.s)
      BY <2>4, SyncedIs DEF Onward
    <2>6. QED  BY <2>1, <2>2, <2>3, <2>5
  <1>9. QED  BY <1>6, <1>7, <1>8

(* The base that a # ends.                                                 *)
LEMMA ConvertedIs ==
  ASSUME NEW num, NEW base, NEW max
  PROVE  /\ Converted(num, base, max).range \in BOOLEAN
         /\ Converted(num, base, max).range = TRUE => Converted(num, base, max).value = max
  <1>1. PICK w, v : Converted(num, base, max) =
          [whole |-> w,
           range |-> v > max,
           value |-> CASE v > max                            -> max
                       [] ~(v > max) /\ v > 0 /\ num[1] = "-" -> 2 ^ LongBits - v
                       [] OTHER                              -> v]
    BY Zenon DEF Converted
  <1>2. Converted(num, base, max).range = (v > max) /\ (v > max) \in BOOLEAN
    BY <1>1
  <1>3. v > max => Converted(num, base, max).value = max
    BY <1>1
  <1>4. QED  BY <1>2, <1>3

LEMMA BasedIs ==
  ASSUME text \in Seq(STRING), NEW n \in NumState
  PROVE  /\ Based(n) \in NumState /\ Based(n).base \in {0} \cup 2 .. 36
         /\ Based(n).base = IF BaseOf(n.num) \in 2 .. 36 THEN BaseOf(n.num) ELSE 0
         /\ Based(n).num = n.num /\ Based(n).isFloat = n.isFloat /\ Based(n).state = n.state
         /\ Based(n).base # 0 => Based(n).s = NextChar(n.s)
         /\ Based(n).s.errno \in {NextChar(n.s).errno, "ERANGE"}
         /\ Synced(n.s) /\ n.s.cur # EOF =>
              Onward(n.s, Based(n).s) /\ At(Based(n).s) = At(n.s) + 1
  <1>1. PICK range, b : /\ range = Converted(n.num, 10, MaxLong).range
                        /\ b = IF BaseOf(n.num) \in 2 .. 36 THEN BaseOf(n.num) ELSE 0
    OBVIOUS
  <1>2. PICK t, s, k : /\ t = NextChar(n.s) /\ s = WithRange(t, range) /\ k = Based(n)
    OBVIOUS
  <1>3. k = [n EXCEPT !.s = s, !.base = b]
    BY <1>1, <1>2 DEF Based
  <1>4. b \in {0} \cup 2 .. 36 /\ b \in Nat
    <2>1. PICK v : v = BaseOf(n.num)
      OBVIOUS
    <2>2. CASE v \in 2 .. 36
      <3>1. b = v
        BY <1>1, <2>1, <2>2
      <3>2. QED  BY <2>2, <3>1
    <2>3. CASE v \notin 2 .. 36
      <3>1. b = 0
        BY <1>1, <2>1, <2>3
      <3>2. QED  BY <3>1
    <2>4. QED  BY <2>2, <2>3
  <1>5. t \in LexerState
    BY <1>2, NumFields, NextIs
  <1>6. s \in LexerState
    BY <1>2, <1>5, WithRangeIs
  <1>7. /\ k \in NumState /\ k.base = b /\ k.s = s
        /\ k.num = n.num /\ k.isFloat = n.isFloat /\ k.state = n.state
    BY <1>3, <1>4, <1>6 DEF NumState
  <1>8. ASSUME Synced(n.s), n.s.cur # EOF
        PROVE  Onward(n.s, s) /\ At(s) = At(n.s) + 1
    <2>1. At(n.s) <= Len(text)
      BY <1>8, SyncedIs
    <2>2. Onward(n.s, t) /\ At(t) = At(n.s) + 1 /\ Synced(t)
      BY <1>2, <1>8, <2>1, SyncedNext DEF Onward
    <2>3. Onward(t, s) /\ At(s) = At(t)
      BY <1>2, <1>5, <2>2, WithRangeIs
    <2>4. QED  BY <1>8, <2>2, <2>3, OnwardTwice
  <1>9. s.errno \in {t.errno, "ERANGE"} /\ (range = FALSE => s = t)
    BY <1>2, <1>5, WithRangeIs
  <1>10. range = TRUE => b = 0
    <2>1. ASSUME range = TRUE PROVE Converted(n.num, 10, MaxLong).value = MaxLong
      BY <1>1, <2>1, ConvertedIs
    <2>2. range = TRUE => BaseOf(n.num) = IntOf(MaxLong)
      BY <2>1 DEF BaseOf
    <2>3. QED  BY <1>1, <2>2, BaseAssumption DEF BaseAssumption
  <1>11. range \in BOOLEAN
    BY <1>1, ConvertedIs
  <1>12. QED  BY <1>1, <1>2, <1>4, <1>7, <1>8, <1>9, <1>10, <1>11

(* Behind the # the digits are taken anew.                                 *)
Rebased(n) == Taken([Based(n) EXCEPT !.num = <<>>])

LEMMA RebasedIs ==
  ASSUME text \in Seq(STRING), NEW n \in NumState
  PROVE  /\ Rebased(n) \in NumState /\ Rebased(n).s = NextChar(Based(n).s)
         /\ Rebased(n).num = Append(<<>>, Based(n).s.cur) /\ Rebased(n).base = Based(n).base
         /\ Rebased(n).isFloat = n.isFloat /\ Rebased(n).state = n.state
  <1>1. PICK b \in NumState : b = Based(n)
    BY BasedIs
  <1>2. PICK e, k : e = [b EXCEPT !.num = <<>>] /\ k = Taken(e)
    OBVIOUS
  <1>3. <<>> \in Seq(STRING)
    OBVIOUS
  <1>4. /\ e \in NumState /\ e.s = b.s /\ e.base = b.base /\ e.num = <<>>
        /\ e.isFloat = b.isFloat /\ e.state = b.state
    BY <1>2, <1>3 DEF NumState
  <1>5. /\ k \in NumState /\ k.s = NextChar(e.s) /\ k.base = e.base
        /\ k.num = Append(e.num, e.s.cur) /\ k.isFloat = e.isFloat /\ k.state = e.state
    BY <1>2, <1>4, TakenIs
  <1>6. k = Rebased(n)
    BY <1>1, <1>2 DEF Rebased
  <1>7. b.isFloat = n.isFloat /\ b.state = n.state
    BY <1>1, BasedIs
  <1>8. QED  BY <1>1, <1>4, <1>5, <1>6, <1>7

IsBased(n)   == n.base = 10 /\ n.s.cur = "#"
HasInteger(n) == n.s.cur \in DigitsOf(n.base) \/ (n.base # 10 /\ n.s.cur = "#")

IntpartLoop(f) ==
  f = [n \in NumState |->
         CASE n.base = 10 /\ n.s.cur = "#" ->
                IF Based(n).base = 0 THEN Based(n) ELSE f[Taken([Based(n) EXCEPT !.num = <<>>])]
           [] n.s.cur \in DigitsOf(n.base) \/ (n.base # 10 /\ n.s.cur = "#") -> f[Taken(n)]
           [] OTHER -> n]

LEMMA IntpartEnds ==
  ASSUME text \in Seq(STRING), NEW s0, Synced(s0),
         NEW P, P \subseteq NumState, \A n \in P : Onward(s0, n.s) /\ n.base \in 0 .. 36,
         \A n \in P : IsBased(n) /\ Based(n).base # 0 => Rebased(n) \in P,
         \A n \in P : HasInteger(n) => Taken(n) \in P,
         NEW n0 \in P
  PROVE  \E n \in P : \/ IsBased(n) /\ Based(n).base = 0 /\ Intpart[n0] = Based(n)
                      \/ ~IsBased(n) /\ ~HasInteger(n) /\ Intpart[n0] = n
  <1>1. "#" \notin DigitsOf(10)
    <2>1. DigitsOf(10) \subseteq Alphanumeric
      BY DigitsAre
    <2>2. QED  BY <2>1, Zenon DEF Alphanumeric
  <1>2. PICK stop, next, out, m :
          /\ stop = {n \in NumState : IF IsBased(n) THEN Based(n).base = 0 ELSE ~HasInteger(n)}
          /\ next = [n \in NumState |-> IF IsBased(n) THEN Rebased(n) ELSE Taken(n)]
          /\ out = [n \in NumState |-> IF IsBased(n) THEN Based(n) ELSE n]
          /\ m = [n \in NumState |-> Len(text) + 1 - At(n.s)]
    OBVIOUS
  <1>3. ASSUME NEW f PROVE IntpartLoop(f) <=> Loops(NumState, stop, next, out, f)
    <2>1. ASSUME NEW n \in NumState
          PROVE  (CASE n.base = 10 /\ n.s.cur = "#" ->
                         IF Based(n).base = 0 THEN Based(n)
                         ELSE f[Taken([Based(n) EXCEPT !.num = <<>>])]
                    [] n.s.cur \in DigitsOf(n.base) \/ (n.base # 10 /\ n.s.cur = "#") ->
                         f[Taken(n)]
                    [] OTHER -> n)
                 = (IF n \in stop THEN out[n] ELSE f[next[n]])
      <3>1. CASE IsBased(n) /\ Based(n).base = 0
        <4>1. n \in stop /\ out[n] = Based(n) /\ ~HasInteger(n)
          BY <1>1, <1>2, <3>1 DEF IsBased, HasInteger
        <4>2. QED  BY <3>1, <4>1 DEF IsBased, HasInteger
      <3>2. CASE IsBased(n) /\ Based(n).base # 0
        <4>1. n \notin stop /\ next[n] = Rebased(n) /\ ~HasInteger(n)
          BY <1>1, <1>2, <3>2 DEF IsBased, HasInteger
        <4>2. QED  BY <3>2, <4>1 DEF IsBased, HasInteger, Rebased
      <3>3. CASE ~IsBased(n) /\ HasInteger(n)
        <4>1. n \notin stop /\ next[n] = Taken(n)
          BY <1>2, <3>3
        <4>2. QED  BY <3>3, <4>1 DEF IsBased, HasInteger
      <3>4. CASE ~IsBased(n) /\ ~HasInteger(n)
        <4>1. n \in stop /\ out[n] = n
          BY <1>2, <3>4
        <4>2. QED  BY <3>4, <4>1 DEF IsBased, HasInteger
      <3>5. QED  BY <3>1, <3>2, <3>3, <3>4
    <2>2. [n \in NumState |->
             CASE n.base = 10 /\ n.s.cur = "#" ->
                    IF Based(n).base = 0 THEN Based(n)
                    ELSE f[Taken([Based(n) EXCEPT !.num = <<>>])]
               [] n.s.cur \in DigitsOf(n.base) \/ (n.base # 10 /\ n.s.cur = "#") -> f[Taken(n)]
               [] OTHER -> n]
          = [n \in NumState |-> IF n \in stop THEN out[n] ELSE f[next[n]]]
      BY <2>1
    <2>3. QED  BY <2>2 DEF IntpartLoop, Loops
  <1>4. PICK f : f = Intpart /\ Loops(NumState, stop, next, out, f)
    <2>1. \A n \in NumState \ stop : next[n] \in NumState
      BY <1>2, RebasedIs, TakenIs
    <2>2. \E f : IntpartLoop(f)
      BY <1>3, <2>1, LoopExists
    <2>3. Intpart = CHOOSE f : IntpartLoop(f)
      BY DEF Intpart, IntpartLoop
    <2>4. IntpartLoop(Intpart)
      BY <2>2, <2>3
    <2>5. QED  BY <1>3, <2>4
  <1>5. ASSUME NEW n \in P
        PROVE  /\ Onward(s0, n.s) /\ Synced(n.s) /\ n.base \in 0 .. 36 /\ n \in NumState
               /\ m[n] \in Nat /\ m[n] = Len(text) + 1 - At(n.s)
    <2>1. Onward(s0, n.s) /\ At(n.s) \in 1 .. Len(text) + 1 /\ Synced(n.s)
      BY SyncedIs DEF Onward
    <2>2. QED  BY <1>2, <2>1
  <1>6. ASSUME NEW n \in P \ stop
        PROVE  next[n] \in P /\ m[next[n]] < m[n]
    <2>1. n \in NumState /\ Onward(s0, n.s) /\ Synced(n.s) /\ n.base \in 0 .. 36
      BY <1>5
    <2>2. CASE IsBased(n)
      <3>1. PICK k : k = Rebased(n)
        OBVIOUS
      <3>2. next[n] = k /\ k \in P
        BY <1>2, <2>1, <2>2, <3>1
      <3>3. n.s.cur # EOF
        BY <2>2 DEF IsBased, EOF
      <3>4. Onward(n.s, Based(n).s) /\ At(Based(n).s) = At(n.s) + 1 /\ Based(n) \in NumState
        BY <2>1, <3>3, BasedIs
      <3>5. k.s = NextChar(Based(n).s)
        BY <2>1, <3>1, RebasedIs
      <3>6. Onward(Based(n).s, k.s)
        BY <3>4, <3>5, SyncedNext DEF Onward
      <3>7. At(k.s) >= At(n.s) + 1
        BY <3>4, <3>6 DEF Onward
      <3>8. At(k.s) \in Nat /\ At(n.s) \in Nat
        BY <2>1, <3>6, SyncedIs DEF Onward
      <3>9. m[k] < m[n]
        BY <1>5, <3>2, <3>7, <3>8
      <3>10. QED  BY <3>2, <3>9
    <2>3. CASE ~IsBased(n)
      <3>1. PICK k : k = Taken(n)
        OBVIOUS
      <3>2. next[n] = k /\ HasInteger(n) /\ k \in P
        BY <1>2, <2>1, <2>3, <3>1
      <3>3. n.s.cur # EOF
        <4>1. "#" # EOF
          BY DEF EOF
        <4>2. QED  BY <2>1, <3>2, <4>1, Characters DEF HasInteger
      <3>4. k.s = NextChar(n.s)
        BY <2>1, <3>1, TakenIs
      <3>5. Onward(s0, k.s) /\ At(n.s) \in 1 .. Len(text) /\ At(k.s) = At(n.s) + 1
        BY <2>1, <3>3, <3>4, NextOnward
      <3>6. m[k] < m[n]
        BY <1>5, <3>2, <3>5
      <3>7. QED  BY <3>2, <3>6
    <2>4. QED  BY <2>2, <2>3
  <1>7. PICK n \in P \cap stop : f[n0] = out[n]
    <2>1. /\ \A n \in P \ stop : next[n] \in P
          /\ \A n \in P : m[n] \in Nat
          /\ \A n \in P \ stop : m[next[n]] < m[n]
      BY <1>5, <1>6
    <2>2. QED  BY <1>4, <2>1, LoopEnds
  <1>8. n \in P /\ \/ IsBased(n) /\ Based(n).base = 0 /\ out[n] = Based(n)
                   \/ ~IsBased(n) /\ ~HasInteger(n) /\ out[n] = n
    BY <1>2, <1>7
  <1>9. QED  BY <1>4, <1>7, <1>8

LEMMA IntpartIs ==
  ASSUME text \in Seq(STRING), NEW s0, Synced(s0),
         NEW n0 \in NumState, Onward(s0, n0.s), n0.base \in 0 .. 36
  PROVE  Intpart[n0] \in NumState /\ Onward(s0, Intpart[n0].s)
  <1>1. PICK P : P = {n \in NumState : Onward(s0, n.s) /\ n.base \in 0 .. 36}
    OBVIOUS
  <1>2. "#" # EOF
    BY DEF EOF
  <1>3. ASSUME NEW n \in P, n.s.cur # EOF
        PROVE  Onward(s0, Based(n).s) /\ Rebased(n) \in P /\ Taken(n) \in P
    <2>1. n \in NumState /\ Onward(s0, n.s) /\ n.base \in 0 .. 36 /\ Synced(n.s)
      BY <1>1 DEF Onward
    <2>2. PICK b, r, k : b = Based(n) /\ r = Rebased(n) /\ k = Taken(n)
      OBVIOUS
    <2>3. Onward(n.s, b.s) /\ b.base \in 0 .. 36
      <3>1. Onward(n.s, b.s) /\ b.base \in {0} \cup 2 .. 36
        BY <1>3, <2>1, <2>2, BasedIs
      <3>2. QED  BY <3>1
    <2>4. Onward(s0, b.s) /\ Synced(b.s)
      BY <2>1, <2>3, OnwardTwice DEF Onward
    <2>5. r \in NumState /\ r.s = NextChar(b.s) /\ r.base = b.base
      BY <2>1, <2>2, RebasedIs
    <2>6. Onward(s0, r.s)
      <3>1. Onward(b.s, r.s)
        BY <2>4, <2>5, SyncedNext
      <3>2. QED  BY <2>4, <3>1, OnwardTwice
    <2>7. k \in NumState /\ k.s = NextChar(n.s) /\ k.base = n.base
      BY <2>1, <2>2, TakenIs
    <2>8. Onward(s0, k.s)
      BY <1>3, <2>1, <2>7, NextOnward
    <2>9. QED  BY <1>1, <2>1, <2>2, <2>3, <2>4, <2>5, <2>6, <2>7, <2>8
  <1>4. ASSUME NEW n \in P
        PROVE  /\ IsBased(n) => Rebased(n) \in P /\ Onward(s0, Based(n).s)
               /\ HasInteger(n) => Taken(n) \in P
    <2>1. IsBased(n) \/ HasInteger(n) => n.s.cur # EOF
      <3>1. n.base \in 0 .. 36
        BY <1>1
      <3>2. QED  BY <1>2, <3>1, Characters DEF IsBased, HasInteger
    <2>2. QED  BY <1>3, <2>1
  <1>5. PICK n \in P : \/ IsBased(n) /\ Based(n).base = 0 /\ Intpart[n0] = Based(n)
                       \/ ~IsBased(n) /\ ~HasInteger(n) /\ Intpart[n0] = n
    <2>1. n0 \in P /\ P \subseteq NumState /\ \A n \in P : Onward(s0, n.s) /\ n.base \in 0 .. 36
      BY <1>1
    <2>2. /\ \A n \in P : IsBased(n) /\ Based(n).base # 0 => Rebased(n) \in P
          /\ \A n \in P : HasInteger(n) => Taken(n) \in P
      BY <1>4
    <2>3. QED  BY <2>1, <2>2, IntpartEnds
  <1>6. n \in NumState /\ Onward(s0, n.s) /\ Based(n) \in NumState
    BY <1>1, BasedIs
  <1>7. QED  BY <1>4, <1>5, <1>6

LEMMA ConvertReads ==
  ASSUME text \in Seq(STRING), NEW s0, Synced(s0), NEW n \in NumState, Onward(s0, n.s)
  PROVE  Reads(s0, ConvertFloat(n)) /\ Reads(s0, ConvertInt(n))
  <1>1. {"Real", "Overflow", "Integer"} \subseteq TokenKinds
    BY DEF TokenKinds
  <1>2. ASSUME NEW range PROVE Onward(s0, WithRange(n.s, range))
    BY NumFields, WithRangeIs, OnwardTwice DEF Onward
  <1>3. Reads(s0, ConvertFloat(n))
    <2>1. CASE IsReal(n.num)
      <3>1. PICK range : range = IsHuge(n.num)
        OBVIOUS
      <3>2. ConvertFloat(n) = Token("Real", n.num, WithRange(n.s, range))
        BY <2>1, <3>1 DEF ConvertFloat
      <3>3. QED  BY <1>1, <1>2, <3>2, TokenIs DEF Reads
    <2>2. CASE ~IsReal(n.num)
      <3>1. ConvertFloat(n) = Token("Overflow", <<>>, n.s)
        BY <2>2 DEF ConvertFloat
      <3>2. QED  BY <1>1, <3>1, TokenIs DEF Reads
    <2>3. QED  BY <2>1, <2>2
  <1>4. Reads(s0, ConvertInt(n))
    <2>1. PICK u, s : /\ u = StrToULL(n.num, n.base)
                      /\ s = WithRange(n.s, StrToULL(n.num, n.base).range)
      OBVIOUS
    <2>2. Onward(s0, s)
      BY <1>2, <2>1
    <2>3. ConvertInt(n) = SafeConvert(u, s)
      BY <2>1 DEF ConvertInt
    <2>4. \/ SafeConvert(u, s) = Token("Overflow", <<>>, s)
          \/ SafeConvert(u, s) = Token("Integer", <<u.value>>, s)
      BY DEF SafeConvert
    <2>5. QED  BY <1>1, <2>2, <2>3, <2>4, TokenIs DEF Reads
  <1>5. QED  BY <1>3, <1>4

HasFraction(n) == n.s.cur = "." /\ n.state # "Fraction" /\ n.base # 16
HasExponent(n) == n.s.cur = "e" /\ n.state # "Exponent"

LEMMA PointOrLetter ==
  ASSUME NEW n
  PROVE  ~(HasFraction(n) /\ HasExponent(n)) /\ (HasFraction(n) \/ HasExponent(n) => n.s.cur # EOF)
  <1>1. "." # "e" /\ "." # EOF /\ "e" # EOF
    BY Zenon DEF EOF
  <1>2. QED  BY <1>1 DEF HasFraction, HasExponent

AtPoint(n)  == [n EXCEPT !.s = PeekChar(n.s), !.state = "Fraction"]
AtLetter(n) == [n EXCEPT !.state = "Exponent"]

LEMMA PartIs ==
  ASSUME text \in Seq(STRING), NEW n \in NumState
  PROVE  /\ AtPoint(n) \in NumState /\ AtPoint(n).s = PeekChar(n.s)
         /\ AtPoint(n).state = "Fraction" /\ AtPoint(n).num = n.num
         /\ AtPoint(n).base = n.base /\ AtPoint(n).isFloat = n.isFloat
         /\ AtLetter(n) \in NumState /\ AtLetter(n).s = n.s
         /\ AtLetter(n).state = "Exponent" /\ AtLetter(n).num = n.num
         /\ AtLetter(n).base = n.base /\ AtLetter(n).isFloat = n.isFloat
  <1>1. PICK s : s = PeekChar(n.s)
    OBVIOUS
  <1>2. s \in LexerState
    BY <1>1, NumFields, PeekIs
  <1>3. PICK k, l : k = AtPoint(n) /\ l = AtLetter(n)
    OBVIOUS
  <1>4. k = [n EXCEPT !.s = s, !.state = "Fraction"] /\ l = [n EXCEPT !.state = "Exponent"]
    BY <1>1, <1>3 DEF AtPoint, AtLetter
  <1>5. /\ k \in NumState /\ k.s = s /\ k.state = "Fraction"
        /\ k.num = n.num /\ k.base = n.base /\ k.isFloat = n.isFloat
    BY <1>2, <1>4 DEF NumState
  <1>6. /\ l \in NumState /\ l.s = n.s /\ l.state = "Exponent"
        /\ l.num = n.num /\ l.base = n.base /\ l.isFloat = n.isFloat
    BY <1>2, <1>4 DEF NumState
  <1>7. QED  BY <1>1, <1>3, <1>5, <1>6

PartsLoop(f) ==
  f = [n \in NumState |->
         CASE n.s.cur = "." /\ n.state # "Fraction" /\ n.base # 16 ->
                f[Fraction([n EXCEPT !.s = PeekChar(n.s), !.state = "Fraction"])]
           [] n.s.cur = "e" /\ n.state # "Exponent" ->
                f[Exponent([n EXCEPT !.state = "Exponent"])]
           [] OTHER -> IF n.isFloat THEN ConvertFloat(n) ELSE ConvertInt(n)]

Late(n) == IF n.state = "Fraction" THEN 0 ELSE 1

LEMMA PartsEnds ==
  ASSUME text \in Seq(STRING), NEW s0, Synced(s0),
         NEW P, P \subseteq NumState, \A n \in P : Onward(s0, n.s),
         \A n \in P : HasFraction(n) => Fraction(AtPoint(n)) \in P,
         \A n \in P : HasExponent(n) => Exponent(AtLetter(n)) \in P,
         NEW n0 \in P
  PROVE  \E n \in P : /\ ~HasFraction(n) /\ ~HasExponent(n)
                      /\ Parts[n0] = IF n.isFloat THEN ConvertFloat(n) ELSE ConvertInt(n)
  <1>1. PICK stop, next, out, m :
          /\ stop = {n \in NumState : ~HasFraction(n) /\ ~HasExponent(n)}
          /\ next = [n \in NumState |-> IF HasFraction(n) THEN Fraction(AtPoint(n))
                                        ELSE Exponent(AtLetter(n))]
          /\ out = [n \in NumState |-> IF n.isFloat THEN ConvertFloat(n) ELSE ConvertInt(n)]
          /\ m = [n \in NumState |-> 2 * (Len(text) + 1 - At(n.s)) + Late(n)]
    OBVIOUS
  <1>2. ASSUME NEW f PROVE PartsLoop(f) <=> Loops(NumState, stop, next, out, f)
    <2>1. ASSUME NEW n \in NumState
          PROVE  (CASE n.s.cur = "." /\ n.state # "Fraction" /\ n.base # 16 ->
                         f[Fraction([n EXCEPT !.s = PeekChar(n.s), !.state = "Fraction"])]
                    [] n.s.cur = "e" /\ n.state # "Exponent" ->
                         f[Exponent([n EXCEPT !.state = "Exponent"])]
                    [] OTHER -> IF n.isFloat THEN ConvertFloat(n) ELSE ConvertInt(n))
                 = (IF n \in stop THEN out[n] ELSE f[next[n]])
      <3>1. CASE HasFraction(n)
        <4>1. ~HasExponent(n) /\ n \notin stop /\ next[n] = Fraction(AtPoint(n))
          BY <1>1, <3>1, PointOrLetter
        <4>2. QED  BY <3>1, <4>1 DEF HasFraction, HasExponent, AtPoint
      <3>2. CASE HasExponent(n)
        <4>1. ~HasFraction(n) /\ n \notin stop /\ next[n] = Exponent(AtLetter(n))
          BY <1>1, <3>2, PointOrLetter
        <4>2. QED  BY <3>2, <4>1 DEF HasFraction, HasExponent, AtLetter
      <3>3. CASE ~HasFraction(n) /\ ~HasExponent(n)
        <4>1. n \in stop /\ out[n] = IF n.isFloat THEN ConvertFloat(n) ELSE ConvertInt(n)
          BY <1>1, <3>3
        <4>2. QED  BY <3>3, <4>1 DEF HasFraction, HasExponent
      <3>4. QED  BY <3>1, <3>2, <3>3
    <2>2. [n \in NumState |->
             CASE n.s.cur = "." /\ n.state # "Fraction" /\ n.base # 16 ->
                    f[Fraction([n EXCEPT !.s = PeekChar(n.s), !.state = "Fraction"])]
               [] n.s.cur = "e" /\ n.state # "Exponent" ->
                    f[Exponent([n EXCEPT !.state = "Exponent"])]
               [] OTHER -> IF n.isFloat THEN ConvertFloat(n) ELSE ConvertInt(n)]
          = [n \in NumState |-> IF n \in stop THEN out[n] ELSE f[next[n]]]
      BY <2>1
    <2>3. QED  BY <2>2 DEF PartsLoop, Loops
  <1>3. ASSUME NEW n \in NumState \ stop
        PROVE  /\ next[n] \in NumState /\ Leads(n.s, next[n].s)
               /\ Synced(n.s) => \/ At(next[n].s) > At(n.s)
                                 \/ Late(n) = 1 /\ Late(next[n]) = 0
    <2>1. n \in NumState /\ (HasFraction(n) \/ HasExponent(n))
      BY <1>1
    <2>2. CASE HasFraction(n)
      <3>1. PICK p, k : p = AtPoint(n) /\ k = Fraction(p)
        OBVIOUS
      <3>2. next[n] = k
        BY <1>1, <2>1, <2>2, <3>1
      <3>3. p \in NumState /\ p.s = PeekChar(n.s) /\ p.state = "Fraction"
        BY <2>1, <3>1, PartIs
      <3>4. NumLeads(p, k)
        BY <3>1, <3>3, FractionLeads
      <3>5. Leads(p.s, k.s) /\ k \in NumState /\ k.state = "Fraction"
        BY <3>3, <3>4 DEF NumLeads
      <3>6. Leads(n.s, k.s)
        <4>1. n.s \in LexerState /\ n.s.cur # EOF
          BY <2>1, NumFields, PointOrLetter
        <4>2. Leads(n.s, p.s)
          BY <3>3, <4>1, StepsLead
        <4>3. QED  BY <3>5, <4>2, LeadsTwice
      <3>7. Late(n) = 1 /\ Late(k) = 0
        BY <2>2, <3>5 DEF HasFraction, Late
      <3>8. QED  BY <3>2, <3>5, <3>6, <3>7
    <2>3. CASE ~HasFraction(n)
      <3>1. PICK l, k : l = AtLetter(n) /\ k = Exponent(l)
        OBVIOUS
      <3>2. next[n] = k
        BY <1>1, <2>1, <2>3, <3>1
      <3>3. l \in NumState /\ l.s = n.s
        BY <2>1, <3>1, PartIs
      <3>4. n.s.cur # EOF
        BY <2>1, PointOrLetter
      <3>5. NumLeads(l, k) /\ (Synced(l.s) /\ l.s.cur # EOF => At(k.s) > At(l.s))
        BY <3>1, <3>3, ExponentLeads
      <3>6. QED  BY <3>2, <3>3, <3>4, <3>5 DEF NumLeads
    <2>4. QED  BY <2>2, <2>3
  <1>4. PICK f : f = Parts /\ Loops(NumState, stop, next, out, f)
    <2>1. \E f : PartsLoop(f)
      BY <1>2, <1>3, LoopExists
    <2>2. Parts = CHOOSE f : PartsLoop(f)
      BY DEF Parts, PartsLoop
    <2>3. PartsLoop(Parts)
      BY <2>1, <2>2
    <2>4. QED  BY <1>2, <2>3
  <1>5. ASSUME NEW n \in P
        PROVE  /\ n \in NumState /\ Onward(s0, n.s) /\ At(n.s) \in 1 .. Len(text) + 1
               /\ Late(n) \in 0 .. 1
               /\ m[n] = 2 * (Len(text) + 1 - At(n.s)) + Late(n)
               /\ m[n] \in Nat
    <2>1. n \in NumState /\ Onward(s0, n.s) /\ At(n.s) \in 1 .. Len(text) + 1
      BY SyncedIs DEF Onward
    <2>2. Late(n) \in 0 .. 1
      BY DEF Late
    <2>3. m[n] = 2 * (Len(text) + 1 - At(n.s)) + Late(n)
      BY <1>1, <2>1
    <2>4. m[n] \in Nat
      BY <2>1, <2>2, <2>3
    <2>5. QED  BY <2>1, <2>2, <2>3, <2>4
  <1>6. ASSUME NEW n \in P \ stop
        PROVE  next[n] \in P /\ m[next[n]] < m[n]
    <2>1. PICK k : k = next[n]
      OBVIOUS
    <2>2. /\ k \in NumState /\ Leads(n.s, k.s)
          /\ Synced(n.s) => At(k.s) > At(n.s) \/ (Late(n) = 1 /\ Late(k) = 0)
      BY <1>3, <1>5, <2>1
    <2>3. Onward(s0, n.s) /\ Synced(n.s)
      BY <1>5 DEF Onward
    <2>4. Onward(n.s, k.s)
      BY <2>2, <2>3 DEF Leads
    <2>5. Onward(s0, k.s) /\ At(k.s) >= At(n.s)
      BY <2>3, <2>4, OnwardTwice DEF Onward
    <2>6. k \in P
      <3>1. HasFraction(n) \/ (~HasFraction(n) /\ HasExponent(n))
        BY <1>1, <1>5
      <3>2. QED  BY <1>1, <1>5, <2>1, <3>1
    <2>7. m[k] < m[n]
      BY <1>5, <2>2, <2>3, <2>5, <2>6
    <2>8. QED  BY <2>1, <2>6, <2>7
  <1>7. PICK n \in P \cap stop : f[n0] = out[n]
    <2>1. /\ \A n \in P \ stop : next[n] \in P
          /\ \A n \in P : m[n] \in Nat
          /\ \A n \in P \ stop : m[next[n]] < m[n]
      BY <1>5, <1>6
    <2>2. QED  BY <1>4, <2>1, LoopEnds
  <1>8. /\ n \in P /\ ~HasFraction(n) /\ ~HasExponent(n)
        /\ out[n] = IF n.isFloat THEN ConvertFloat(n) ELSE ConvertInt(n)
    BY <1>1, <1>7
  <1>9. QED  BY <1>4, <1>7, <1>8

LEMMA PartsReads ==
  ASSUME text \in Seq(STRING), NEW s0, Synced(s0), NEW n0 \in NumState, Onward(s0, n0.s)
  PROVE  Reads(s0, Parts[n0])
  <1>1. PICK P : P = {n \in NumState : Onward(s0, n.s)}
    OBVIOUS
  <1>2. ASSUME NEW n \in P, NEW k, Leads(n.s, k.s), k \in NumState PROVE k \in P
    <2>1. Synced(n.s) /\ Onward(s0, n.s)
      BY <1>1 DEF Onward
    <2>2. Onward(n.s, k.s)
      BY <1>2, <2>1 DEF Leads
    <2>3. Onward(s0, k.s)
      BY <2>1, <2>2, OnwardTwice
    <2>4. QED  BY <1>1, <1>2, <2>3
  <1>3. ASSUME NEW n \in P, HasFraction(n) PROVE Fraction(AtPoint(n)) \in P
    <2>1. PICK p, k : p = AtPoint(n) /\ k = Fraction(p)
      OBVIOUS
    <2>2. n \in NumState /\ n.s \in LexerState /\ n.s.cur # EOF
      BY <1>1, <1>3, NumFields, PointOrLetter
    <2>3. p \in NumState /\ p.s = PeekChar(n.s) /\ Leads(n.s, p.s)
      BY <2>1, <2>2, PartIs, StepsLead
    <2>4. k \in NumState /\ Leads(p.s, k.s)
      BY <2>1, <2>3, FractionLeads DEF NumLeads
    <2>5. Leads(n.s, k.s)
      BY <2>3, <2>4, LeadsTwice
    <2>6. QED  BY <1>2, <2>1, <2>4, <2>5
  <1>4. ASSUME NEW n \in P, HasExponent(n) PROVE Exponent(AtLetter(n)) \in P
    <2>1. PICK p, k : p = AtLetter(n) /\ k = Exponent(p)
      OBVIOUS
    <2>2. p \in NumState /\ p.s = n.s
      BY <1>1, <2>1, PartIs
    <2>3. k \in NumState /\ Leads(p.s, k.s)
      BY <2>1, <2>2, ExponentLeads DEF NumLeads
    <2>4. QED  BY <1>2, <2>1, <2>2, <2>3
  <1>5. n0 \in P /\ P \subseteq NumState /\ \A n \in P : Onward(s0, n.s)
    BY <1>1
  <1>6. PICK n \in P : Parts[n0] = IF n.isFloat THEN ConvertFloat(n) ELSE ConvertInt(n)
    BY <1>3, <1>4, <1>5, PartsEnds
  <1>7. Reads(s0, ConvertFloat(n)) /\ Reads(s0, ConvertInt(n))
    BY <1>1, ConvertReads
  <1>8. QED  BY <1>6, <1>7

LEMMA NumberTokenReads ==
  ASSUME text \in Seq(STRING), NEW s, Synced(s), s.cur # EOF, NEW base \in 0 .. 36
  PROVE  Reads(NextChar(s), NumberToken(s, base))
  <1>1. PICK n, k, i : /\ n = [s |-> s, num |-> <<>>, base |-> base, isFloat |-> FALSE,
                               state |-> "Intpart"]
                       /\ k = Taken(n) /\ i = Intpart[k]
    OBVIOUS
  <1>2. n \in NumState /\ n.s = s /\ n.base = base
    <2>1. s \in LexerState /\ base \in Nat /\ <<>> \in Seq(STRING)
      BY SyncedIs
    <2>2. QED  BY <1>1, <2>1 DEF NumState
  <1>3. k \in NumState /\ k.s = NextChar(s) /\ k.base = base
    BY <1>1, <1>2, TakenIs
  <1>4. Onward(s, s)
    BY SyncedIs
  <1>5. Onward(s, NextChar(s))
    BY <1>4, NextOnward
  <1>6. Synced(NextChar(s)) /\ Onward(NextChar(s), k.s)
    BY <1>3, <1>5, SyncedIs DEF Onward
  <1>7. i \in NumState /\ Onward(NextChar(s), i.s)
    BY <1>1, <1>3, <1>6, IntpartIs
  <1>8. NumberToken(s, base) = InParts(i)
    BY <1>1 DEF NumberToken
  <1>9. Reads(NextChar(s), InParts(i))
    <2>1. CASE i.base = 0
      <3>1. InParts(i) = Token("Unknown", <<>>, i.s)
        BY <2>1 DEF InParts
      <3>2. "Unknown" \in TokenKinds
        BY DEF TokenKinds
      <3>3. QED  BY <1>7, <3>1, <3>2, TokenIs DEF Reads
    <2>2. CASE i.base # 0
      <3>1. InParts(i) = Parts[i]
        BY <2>2 DEF InParts
      <3>2. QED  BY <1>6, <1>7, <3>1, PartsReads
    <2>3. QED  BY <2>1, <2>2
  <1>10. QED  BY <1>8, <1>9

-----------------------------------------------------------------------------
(* Tokens.                                                                 *)

(* A token that is scanned at s uses up a character, except at the end of  *)
(* the file and at a character that begins nothing.                        *)
Begins(c) == c \in DOMAIN Single \cup Quote \cup WordStart \cup Digit \cup {EOF}
Moves(s, a) ==
  /\ Reads(s, a)
  /\ \/ At(a.s) > At(s)
     \/ a.kind = "EndOfFile" /\ a.s = s
     \/ a.kind = "Unknown" /\ At(a.s) = At(s) /\ ~Begins(s.cur)

LEMMA ReadsBehind ==
  ASSUME text \in Seq(STRING), NEW s, Synced(s), s.cur # EOF, NEW a, Reads(NextChar(s), a)
  PROVE  Moves(s, a)
  <1>1. PICK t : t = NextChar(s)
    OBVIOUS
  <1>2. Onward(s, s)
    BY SyncedIs
  <1>3. Onward(s, t) /\ At(s) \in Nat /\ At(t) = At(s) + 1
    BY <1>1, <1>2, NextOnward
  <1>4. Onward(t, a.s) /\ a.kind \in TokenKinds
    BY <1>1 DEF Reads
  <1>5. Onward(s, a.s)
    BY <1>3, <1>4, OnwardTwice
  <1>6. At(a.s) \in Nat /\ At(a.s) >= At(t)
    BY <1>4, SyncedIs DEF Onward
  <1>7. QED  BY <1>3, <1>4, <1>5, <1>6 DEF Moves, Reads

Singles == {".", "<", ">", ":", "(", ")", "+", "-", "*", "/", COMMA, SEMICOLON, "=", "[",
            "]", "^", "@"}

LEMMA SinglesAre == DOMAIN Single = Singles
  BY DEF Single, Table, Singles

LEMMA Beginnings ==
  /\ EOF \notin DOMAIN Single /\ EOF \notin Quote /\ EOF \notin WordStart /\ EOF \notin Digit
  /\ ~Begins("$") /\ ~Begins(LBRACE) /\ "$" # EOF /\ "$" \notin Space
  <1>1. Digit \subseteq Alphanumeric /\ DigitsOf(36) \subseteq Alphanumeric
    BY DigitsAre DEF Digit
  <1>2. WordStart \subseteq Alphanumeric \cup {LINE, UNDERSCORE}
    BY <1>1 DEF WordStart, Letter
  <1>3. EOF \notin Singles
    BY Zenon DEF Singles, EOF, COMMA, SEMICOLON
  <1>4. EOF \notin Quote /\ EOF \notin WordStart /\ EOF \notin Digit
    BY Characters
  <1>5. "$" # EOF /\ "$" \notin Space /\ "$" \notin Quote
    BY Zenon DEF EOF, Space, BLANK, NL, Quote, DQUOTE
  <1>6. "$" \notin Singles
    BY Zenon DEF Singles, COMMA, SEMICOLON
  <1>7. "$" \notin Alphanumeric \cup {LINE, UNDERSCORE}
    BY Zenon DEF Alphanumeric, LINE, UNDERSCORE
  <1>8. LBRACE # EOF /\ LBRACE \notin Quote
    BY Zenon DEF EOF, Quote, DQUOTE, LBRACE
  <1>9. LBRACE \notin Singles
    BY Zenon DEF Singles, COMMA, SEMICOLON, LBRACE
  <1>10. LBRACE \notin Alphanumeric \cup {LINE, UNDERSCORE}
    BY Zenon DEF Alphanumeric, LINE, UNDERSCORE, LBRACE
  <1>11. ~Begins("$")
    <2>1. PICK c : c = "$"
      OBVIOUS
    <2>2. c # EOF /\ c \notin Quote /\ c \notin Singles /\ c \notin WordStart /\ c \notin Digit
      BY <1>1, <1>2, <1>5, <1>6, <1>7, <2>1, Zenon
    <2>3. ~Begins(c)
      BY <2>2, SinglesAre DEF Begins
    <2>4. QED  BY <2>1, <2>3, Zenon
  <1>12. ~Begins(LBRACE)
    <2>1. LBRACE \notin WordStart /\ LBRACE \notin Digit
      BY <1>1, <1>2, <1>10
    <2>2. QED  BY <1>8, <1>9, <2>1, SinglesAre DEF Begins
  <1>13. EOF \notin DOMAIN Single
    BY <1>3, SinglesAre
  <1>14. QED  BY <1>4, <1>5, <1>11, <1>12, <1>13, Zenon

LEMMA SymbolMoves ==
  ASSUME text \in Seq(STRING), NEW s, Synced(s), s.cur \in DOMAIN Single
  PROVE  Moves(s, Symbol(IF HasPairs(s.cur) THEN PeekChar(s) ELSE s))
  <1>1. PICK p : p = IF HasPairs(s.cur) THEN PeekChar(s) ELSE s
    OBVIOUS
  <1>2. s.cur # EOF /\ Onward(s, s) /\ At(s) \in Nat /\ At(s) <= Len(text)
    BY Beginnings, SyncedIs
  <1>3. Onward(s, p) /\ At(p) = At(s) /\ p.cur = s.cur
    <2>1. p = s \/ p = PeekChar(s)
      BY <1>1
    <2>2. CASE p = s
      BY <1>2, <2>2
    <2>3. CASE p = PeekChar(s)
      BY <1>2, <2>3, SyncedPeek
    <2>4. QED  BY <2>1, <2>2, <2>3
  <1>4. PICK t, u : t = NextChar(p) /\ u = NextChar(t)
    OBVIOUS
  <1>5. Onward(s, t) /\ At(t) = At(s) + 1 /\ Synced(t)
    BY <1>2, <1>3, <1>4, NextOnward DEF Onward
  <1>6. Onward(t, u) /\ t \in LexerState /\ Synced(u)
    BY <1>4, <1>5, SyncedIs, StepsLead DEF Leads, Onward
  <1>7. Onward(s, u) /\ At(u) >= At(t) /\ At(u) \in Nat
    BY <1>5, <1>6, OnwardTwice, SyncedIs DEF Onward
  <1>8. \/ /\ <<p.cur, p.next>> \in DOMAIN Pair
           /\ Symbol(p) = Token(Pair[<<p.cur, p.next>>], <<>>, u)
        \/ Symbol(p) = Token(Single[p.cur], <<>>, t)
    BY <1>4 DEF Symbol, OneCharacter
  <1>9. PICK k, e : /\ Symbol(p) = Token(k, <<>>, e) /\ k \in TokenKinds
                    /\ (e = t \/ e = u)
    <2>1. CASE /\ <<p.cur, p.next>> \in DOMAIN Pair
               /\ Symbol(p) = Token(Pair[<<p.cur, p.next>>], <<>>, u)
      <3>1. Pair[<<p.cur, p.next>>] \in TokenKinds
        BY <2>1 DEF TokenKinds
      <3>2. QED  BY <2>1, <3>1
    <2>2. CASE Symbol(p) = Token(Single[p.cur], <<>>, t)
      <3>1. Single[p.cur] \in TokenKinds
        BY <1>3 DEF TokenKinds
      <3>2. QED  BY <2>2, <3>1
    <2>3. QED  BY <1>8, <2>1, <2>2
  <1>10. Onward(s, e) /\ At(e) > At(s)
    BY <1>2, <1>5, <1>7, <1>9
  <1>11. Moves(s, Symbol(p))
    BY <1>9, <1>10, TokenIs DEF Moves, Reads
  <1>12. QED  BY <1>1, <1>11

LEMMA HexMoves ==
  ASSUME text \in Seq(STRING), NEW s, Synced(s), s.cur = "$"
  PROVE  Moves(s, IF PeekChar(s).next \in DigitsOf(16) THEN NumberToken(NextChar(PeekChar(s)), 16)
                  ELSE Token("Unknown", <<>>, PeekChar(s)))
  <1>1. PICK p, t : p = PeekChar(s) /\ t = NextChar(p)
    OBVIOUS
  <1>2. s.cur # EOF /\ ~Begins(s.cur) /\ Onward(s, s) /\ At(s) \in Nat
    BY Beginnings, SyncedIs
  <1>3. /\ Onward(s, p) /\ At(p) = At(s) /\ Onward(s, t) /\ At(t) = At(s) + 1
        /\ Synced(t)
    BY <1>1, <1>2, PeekOnward DEF Onward
  <1>4. CASE p.next \in DigitsOf(16)
    <2>1. p.next # EOF
      <3>1. EOF \notin DigitsOf(16)
        BY 16 \in 0 .. 36, Characters
      <3>2. QED  BY <1>4, <3>1
    <2>2. t.cur = p.next
      <3>1. s \in LexerState /\ s.valid \in 1 .. 2 /\ p \in LexerState
        BY <1>1, SyncedIs, PeekIs
      <3>2. p.valid > 1
        BY <1>1, <3>1, PeekIs
      <3>3. QED  BY <1>1, <3>1, <3>2, NextIs
    <2>3. Reads(NextChar(t), NumberToken(t, 16))
      BY <1>3, <2>1, <2>2, NumberTokenReads
    <2>4. Moves(t, NumberToken(t, 16))
      BY <1>3, <2>1, <2>2, <2>3, ReadsBehind
    <2>5. PICK a : a = NumberToken(t, 16)
      OBVIOUS
    <2>6. a.kind \in TokenKinds /\ Onward(t, a.s)
      BY <2>4, <2>5 DEF Moves, Reads
    <2>7. Onward(s, a.s) /\ At(a.s) \in Nat /\ At(a.s) >= At(t)
      BY <1>3, <2>6, OnwardTwice, SyncedIs DEF Onward
    <2>8. Moves(s, a)
      BY <1>2, <1>3, <2>6, <2>7 DEF Moves, Reads
    <2>9. QED  BY <1>1, <1>4, <2>5, <2>8
  <1>5. CASE p.next \notin DigitsOf(16)
    <2>1. "Unknown" \in TokenKinds
      BY DEF TokenKinds
    <2>2. Moves(s, Token("Unknown", <<>>, p))
      BY <1>2, <1>3, <2>1, TokenIs DEF Moves, Reads
    <2>3. QED  BY <1>1, <1>5, <2>2
  <1>6. QED  BY <1>4, <1>5

LEMMA ScannedMoves ==
  ASSUME text \in Seq(STRING), NEW s, Synced(s)
  PROVE  Moves(s, Scanned(s))
  <1>1. s \in LexerState /\ Onward(s, s)
    BY SyncedIs
  <1>2. ASSUME s.cur = EOF PROVE Moves(s, Token("EndOfFile", <<>>, s))
    <2>1. "EndOfFile" \in TokenKinds
      BY DEF TokenKinds
    <2>2. QED  BY <1>1, <2>1, TokenIs DEF Moves, Reads
  <1>3. ASSUME s.cur \in Quote
        PROVE  Moves(s, InString[[s |-> NextChar(s), str |-> <<>>, quote |-> s.cur]])
    <2>1. PICK t, q : t = NextChar(s) /\ q = [s |-> t, str |-> <<>>, quote |-> s.cur]
      OBVIOUS
    <2>2. s.cur # EOF
      BY <1>3, Beginnings
    <2>3. Onward(s, t) /\ Synced(t) /\ t \in LexerState
      BY <1>1, <2>1, <2>2, NextOnward DEF Onward
    <2>4. q \in StringState /\ q.s = t
      BY <1>3, <2>1, <2>3 DEF StringState
    <2>5. Onward(t, t)
      BY <2>3, SyncedIs
    <2>6. Reads(t, InString[q])
      BY <2>3, <2>4, <2>5, InStringReads
    <2>7. QED  BY <2>1, <2>2, <2>6, ReadsBehind
  <1>4. ASSUME s.cur \in WordStart
        PROVE  Moves(s, InWord[[s |-> s, str |-> <<>>]])
    <2>1. PICK t, w, k : t = NextChar(s) /\ w = [s |-> s, str |-> <<>>] /\ k = Kept(w)
      OBVIOUS
    <2>2. s.cur # EOF /\ s.cur \in WordChar
      BY <1>4, Beginnings, Characters
    <2>3. Onward(s, t) /\ Synced(t)
      BY <1>1, <2>1, <2>2, NextOnward DEF Onward
    <2>4. w \in WordState /\ w.s = s
      BY <1>1, <2>1 DEF WordState
    <2>5. k \in WordState /\ k.s = t /\ Onward(t, t)
      BY <2>1, <2>3, <2>4, KeptIs, SyncedIs
    <2>6. InWord[w] = InWord[k]
      BY <1>1, <2>1, <2>2, <2>4, InWordReads
    <2>7. Reads(t, InWord[k])
      BY <2>3, <2>5, InWordReads
    <2>8. QED  BY <2>1, <2>2, <2>6, <2>7, ReadsBehind
  <1>5. ASSUME s.cur \in Digit PROVE Moves(s, NumberToken(s, 10))
    <2>1. s.cur # EOF
      BY <1>5, Beginnings
    <2>2. QED  BY <2>1, NumberTokenReads, ReadsBehind
  <1>6. ASSUME ~Begins(s.cur) PROVE Moves(s, Token("Unknown", <<>>, s))
    <2>1. "Unknown" \in TokenKinds
      BY DEF TokenKinds
    <2>2. QED  BY <1>1, <1>6, <2>1, TokenIs DEF Moves, Reads
  <1>7. PICK a : a = Scanned(s)
    OBVIOUS
  <1>8. \/ s.cur = EOF             /\ a = Token("EndOfFile", <<>>, s)
        \/ s.cur \in DOMAIN Single /\ a = Symbol(IF HasPairs(s.cur) THEN PeekChar(s) ELSE s)
        \/ s.cur \in Quote         /\ a = InString[[s |-> NextChar(s), str |-> <<>>,
                                                    quote |-> s.cur]]
        \/ s.cur \in WordStart     /\ a = InWord[[s |-> s, str |-> <<>>]]
        \/ s.cur \in Digit         /\ a = NumberToken(s, 10)
        \/ s.cur = "$"             /\ a = IF PeekChar(s).next \in DigitsOf(16)
                                            THEN NumberToken(NextChar(PeekChar(s)), 16)
                                            ELSE Token("Unknown", <<>>, PeekChar(s))
        \/ ~Begins(s.cur)          /\ a = Token("Unknown", <<>>, s)
    BY <1>7 DEF Scanned, Begins
  <1>9. Moves(s, a)
    BY <1>2, <1>3, <1>4, <1>5, <1>6, <1>8, SymbolMoves, HexMoves
  <1>10. QED  BY <1>7, <1>9

(* A lexer that has read nothing, or is in step.                           *)
Fresh(s) == s \in LexerState /\ s.pos = 0 /\ s.valid = 0 /\ s.line = 1
Ready(s) == Synced(s) \/ Fresh(s)

LEMMA EndsAre ==
  ASSUME text \in Seq(STRING), NEW p \in Nat
  PROVE  /\ IsFiniteSet(Ends(p)) /\ Cardinality(Ends(p)) \in 0 .. Len(text)
         /\ p = 0 => Cardinality(Ends(p)) = 0
  <1>1. Len(text) \in Nat
    OBVIOUS
  <1>2. IsFiniteSet(1 .. Len(text)) /\ Cardinality(1 .. Len(text)) = Len(text)
    BY <1>1, FS_Interval
  <1>3. Ends(p) \subseteq 1 .. Len(text)
    BY DEF Ends
  <1>4. IsFiniteSet(Ends(p)) /\ Cardinality(Ends(p)) <= Len(text)
    BY <1>2, <1>3, FS_Subset
  <1>5. Cardinality(Ends(p)) \in Nat
    BY <1>4, FS_CardinalityType
  <1>6. ASSUME p = 0 PROVE Cardinality(Ends(p)) = 0
    <2>1. Ends(p) = {}
      BY <1>6 DEF Ends
    <2>2. QED  BY <2>1, FS_EmptySet
  <1>7. QED  BY <1>1, <1>4, <1>5, <1>6

LEMMA ReadyIs ==
  ASSUME text \in Seq(STRING), NEW s, Ready(s)
  PROVE  /\ s \in LexerState /\ s.pos \in Nat /\ s.valid <= s.pos /\ s.pos <= Len(text) + 1
         /\ s.line = 1 + Cardinality(Ends(s.pos)) /\ s.line \in 1 .. Len(text) + 1
         /\ At(s) \in Nat
  <1>1. CASE Synced(s)
    <2>1. /\ s \in LexerState /\ s.pos \in Nat /\ s.valid <= s.pos /\ s.pos <= Len(text) + 1
          /\ s.line = 1 + Cardinality(Ends(s.pos)) /\ At(s) \in Nat
      BY <1>1, SyncedIs DEF Synced
    <2>2. Cardinality(Ends(s.pos)) \in 0 .. Len(text)
      BY <2>1, EndsAre
    <2>3. QED  BY <2>1, <2>2
  <1>2. CASE Fresh(s)
    <2>1. s \in LexerState /\ s.pos = 0 /\ s.valid = 0 /\ s.line = 1
      BY <1>2 DEF Fresh
    <2>2. Cardinality(Ends(0)) = 0
      BY EndsAre
    <2>3. At(s) = 1
      BY <2>1 DEF At
    <2>4. QED  BY <2>1, <2>2, <2>3
  <1>3. QED  BY <1>1, <1>2 DEF Ready

LEMMA CurCharIs ==
  ASSUME text \in Seq(STRING), NEW s, Ready(s)
  PROVE  Synced(CurChar(s)) /\ At(CurChar(s)) = At(s) /\ CurChar(s).line >= s.line
  <1>1. CASE Synced(s)
    <2>1. CurChar(s) = s /\ s.line \in Nat
      BY <1>1, SyncedIs DEF CurChar
    <2>2. QED  BY <1>1, <2>1
  <1>2. CASE Fresh(s)
    <2>1. s \in LexerState /\ s.pos = 0 /\ s.valid = 0 /\ s.line = 1 /\ Len(text) \in Nat
      BY <1>2 DEF Fresh
    <2>2. PICK t : t = NextChar(s)
      OBVIOUS
    <2>3. /\ t \in LexerState /\ t.pos = 1 /\ t.cur = Char(s)
          /\ t.line = IF Char(s) = NL THEN s.line + 1 ELSE s.line
      BY <2>1, <2>2, NextIs
    <2>4. s.line = 1 + Cardinality(Ends(s.pos))
      BY <1>2, ReadyIs DEF Ready
    <2>5. t.line = 1 + Cardinality(Ends(1)) /\ Char(s) = CharAt(1)
      BY <2>1, <2>3, <2>4, GotLine
    <2>6. PICK u : u = CurChar(s)
      OBVIOUS
    <2>7. u = [t EXCEPT !.valid = 1]
      BY <2>1, <2>2, <2>6 DEF CurChar
    <2>8. u \in LexerState /\ u.pos = 1 /\ u.cur = t.cur /\ u.line = t.line /\ u.valid = 1
      BY <2>3, <2>7 DEF LexerState
    <2>9. At(u) = 1 /\ At(s) = 1
      BY <2>1, <2>8 DEF At
    <2>10. Synced(u)
      BY <2>1, <2>3, <2>5, <2>8, <2>9 DEF Synced
    <2>11. u.line >= s.line
      BY <2>1, <2>3, <2>8
    <2>12. QED  BY <2>6, <2>9, <2>10, <2>11
  <1>3. QED  BY <1>1, <1>2 DEF Ready

(* What the parser gets, and where it leaves the lexer.                    *)
LEMMA GetTokenIs ==
  ASSUME text \in Seq(STRING), Ready(lexer), NEW t, t = GetToken
  PROVE  /\ Synced(t.s) /\ t.s.line >= lexer.line
         /\ t.token.kind \in TokenKinds \ {"LineNumber"}
         /\ t.token.line \in 1 .. t.s.line
         /\ \/ At(t.s) > At(lexer)
            \/ t.token.kind = "EndOfFile"
            \/ t.token.kind = "Unknown" /\ Foreign(t.s.cur)
  <1>1. PICK c, p, s, a : c = CurChar(lexer) /\ p = Pass(c) /\ s = Skip[p] /\ a = Scanned(s)
    OBVIOUS
  <1>2. t = Located(c.line, At(s), a)
    BY <1>1 DEF GetToken, Answer
  <1>3. Synced(c) /\ At(c) = At(lexer) /\ c.line >= lexer.line
    BY <1>1, CurCharIs
  <1>4. /\ c \in LexerState /\ At(c) \in Nat /\ c.cur = CharAt(At(c)) /\ lexer.line \in Nat
        /\ c.line \in Nat /\ c.line >= 1
    BY <1>3, SyncedIs, ReadyIs DEF Ready
  <1>5. Onward(c, p) /\ Synced(p)
    BY <1>1, <1>3, <1>4, PassLeads DEF Leads, Onward
  <1>6. c.cur = LBRACE => At(p) > At(c)
    BY <1>1, <1>3, <1>4, PassLeads
  <1>7. Onward(p, s) /\ Synced(s) /\ s.cur \notin Space
    BY <1>1, <1>5, SkipLeads DEF Onward
  <1>8. Moves(s, a)
    BY <1>1, <1>7, ScannedMoves
  <1>9. a.kind \in TokenKinds /\ Onward(s, a.s) /\ Synced(a.s)
    BY <1>8 DEF Moves, Reads, Onward
  <1>10. /\ At(p) \in Nat /\ At(s) \in Nat /\ At(a.s) \in Nat
         /\ p.line \in Nat /\ s.line \in Nat /\ a.s.line \in Nat
         /\ s.cur = CharAt(At(s)) /\ a.s.cur = CharAt(At(a.s))
    BY <1>5, <1>7, <1>9, SyncedIs
  <1>11. /\ At(a.s) >= At(s) /\ At(s) >= At(p) /\ At(p) >= At(c)
         /\ a.s.line >= s.line /\ s.line >= p.line /\ p.line >= c.line
    BY <1>5, <1>7, <1>9 DEF Onward
  <1>12. t.s = a.s /\ t.token.line = c.line
    BY <1>2 DEF Located
  <1>13. /\ t.token.kind \in TokenKinds \ {"LineNumber"}
         /\ a.kind \in {"EndOfFile", "Unknown"} => t.token.kind = a.kind
    <2>1. CASE a.kind = "LineNumber"
      <3>1. t.token.kind = "Integer"
        BY <1>2, <2>1 DEF Located
      <3>2. "Integer" \in TokenKinds
        BY DEF TokenKinds
      <3>3. QED  BY <2>1, <3>1, <3>2
    <2>2. CASE a.kind # "LineNumber"
      <3>1. t.token.kind = a.kind
        BY <1>2, <2>2 DEF Located
      <3>2. QED  BY <1>9, <2>2, <3>1
    <2>3. QED  BY <2>1, <2>2
  <1>14. t.token.line \in 1 .. t.s.line /\ t.s.line >= lexer.line
    BY <1>3, <1>4, <1>10, <1>11, <1>12
  <1>15. \/ At(t.s) > At(lexer)
         \/ t.token.kind = "EndOfFile"
         \/ t.token.kind = "Unknown" /\ Foreign(t.s.cur)
    <2>1. CASE At(a.s) > At(s) \/ At(s) > At(p) \/ At(p) > At(c)
      BY <1>3, <1>4, <1>10, <1>11, <1>12, <2>1
    <2>2. CASE a.kind = "EndOfFile"
      BY <1>13, <2>2
    <2>3. CASE /\ a.kind = "Unknown" /\ ~Begins(s.cur)
               /\ At(a.s) = At(s) /\ At(s) = At(p) /\ At(p) = At(c)
      <3>1. s.cur = c.cur /\ a.s.cur = s.cur
        BY <1>4, <1>10, <2>3
      <3>2. s.cur # LBRACE
        BY <1>4, <1>6, <2>3, <3>1
      <3>3. Foreign(s.cur)
        BY <1>7, <2>3, <3>2 DEF Foreign, Begins
      <3>4. QED  BY <1>12, <1>13, <2>3, <3>1, <3>3
    <2>4. \/ At(a.s) > At(s) \/ At(s) > At(p) \/ At(p) > At(c)
          \/ At(a.s) = At(s) /\ At(s) = At(p) /\ At(p) = At(c)
      BY <1>4, <1>10, <1>11
    <2>5. At(a.s) > At(s) \/ a.kind = "EndOfFile" \/ (a.kind = "Unknown" /\ ~Begins(s.cur))
      BY <1>8 DEF Moves
    <2>6. QED  BY <2>1, <2>2, <2>3, <2>4, <2>5
  <1>16. QED  BY <1>9, <1>12, <1>13, <1>14, <1>15

-----------------------------------------------------------------------------
(* The invariant: the lexer has read nothing or is in step with the text,  *)
(* and no token is of a line behind the lexer's.                           *)

IsRead(t) == t = NoToken \/ (t.kind \in TokenKinds \ {"LineNumber"} /\ t.line \in 1 .. lexer.line)
Inv ==
  /\ text \in Seq(STRING)
  /\ Ready(lexer)
  /\ IsRead(curToken)
  /\ IsRead(nextToken)
  /\ nextTokenValid \in BOOLEAN
  /\ errCnt \in 0 .. MaxErrors + 1
  /\ status \in {"running", "quit"}

LEMMA InvHasTypes == Inv => TypeOK
  <1> SUFFICES ASSUME Inv PROVE TypeOK
    OBVIOUS
  <1>1. /\ lexer \in LexerState /\ lexer.valid <= lexer.pos /\ lexer.pos <= Len(text) + 1
        /\ lexer.line \in 1 .. Len(text) + 1
    BY ReadyIs DEF Inv
  <1>2. ASSUME NEW t, IsRead(t) PROVE IsToken(t)
    BY <1>1, <1>2 DEF IsRead, IsToken
  <1>3. QED  BY <1>1, <1>2 DEF TypeOK, Inv

LEMMA InitInv == Init => Inv
  <1> SUFFICES ASSUME Init PROVE Inv
    OBVIOUS
  <1>1. text \in Seq(STRING)
    BY LexerAssumption DEF Init
  <1>2. Unread \in STRING
    BY LexerAssumption
  <1>3. Fresh(lexer)
    BY <1>2 DEF Init, Fresh, LexerState
  <1>4. IsRead(curToken) /\ IsRead(nextToken)
    BY DEF Init, IsRead
  <1>5. nextTokenValid \in BOOLEAN /\ status \in {"running", "quit"}
    BY DEF Init
  <1>6. errCnt \in 0 .. MaxErrors + 1
    <2>1. errCnt = 0 /\ MaxErrors \in Nat
      BY LexerAssumption DEF Init
    <2>2. QED  BY <2>1
  <1>7. QED  BY <1>1, <1>3, <1>4, <1>5, <1>6 DEF Inv, Ready

(* A token that was read remains one when the lexer goes on.               *)
LEMMA StillRead ==
  ASSUME text \in Seq(STRING), Ready(lexer), NEW s, Synced(s), s.line >= lexer.line,
         lexer' = s, NEW t, IsRead(t)
  PROVE  IsRead(t)'
  <1>1. lexer.line \in Nat /\ s.line \in Nat
    BY ReadyIs, SyncedIs
  <1>2. CASE t = NoToken
    BY <1>2 DEF IsRead
  <1>3. CASE t.kind \in TokenKinds \ {"LineNumber"} /\ t.line \in 1 .. lexer.line
    <2>1. t.line \in 1 .. s.line
      BY <1>1, <1>3
    <2>2. QED  BY <1>3, <2>1 DEF IsRead
  <1>4. QED  BY <1>2, <1>3 DEF IsRead

LEMMA StillSynced ==
  ASSUME NEW s, Synced(s), lexer' = s, UNCHANGED text
  PROVE  Ready(lexer)'
  BY DEF Ready, Synced, CharAt, Ends, At

LEMMA NextTokenInv == Inv /\ NextToken => Inv'
  <1> SUFFICES ASSUME Inv, NextToken PROVE Inv'
    OBVIOUS
  <1>1. CASE nextTokenValid
    <2>1. lexer' = lexer /\ curToken' = nextToken /\ UNCHANGED <<text, nextToken, errCnt, status>>
          /\ nextTokenValid' = FALSE
      BY <1>1 DEF NextToken
    <2>2. Ready(lexer)'
      BY <2>1 DEF Inv, Ready, Fresh, Synced, CharAt, Ends, At
    <2>3. IsRead(curToken)' /\ IsRead(nextToken)'
      BY <2>1 DEF Inv, IsRead
    <2>4. QED  BY <2>1, <2>2, <2>3 DEF Inv
  <1>2. CASE ~nextTokenValid
    <2>1. PICK t : t = GetToken /\ curToken' = t.token /\ lexer' = t.s
      BY <1>2 DEF NextToken
    <2>2. UNCHANGED <<text, nextToken, errCnt, status>> /\ nextTokenValid' = FALSE
      BY DEF NextToken
    <2>3. /\ Synced(t.s) /\ t.s.line >= lexer.line
          /\ t.token.kind \in TokenKinds \ {"LineNumber"} /\ t.token.line \in 1 .. t.s.line
      BY <2>1, GetTokenIs DEF Inv
    <2>4. Ready(lexer)'
      BY <2>1, <2>2, <2>3, StillSynced
    <2>5. IsRead(curToken)'
      BY <2>1, <2>3 DEF IsRead
    <2>6. IsRead(nextToken)'
      <3>1. PICK n : n = nextToken
        OBVIOUS
      <3>2. IsRead(n)'
        BY <2>1, <2>3, <3>1, StillRead DEF Inv
      <3>3. QED  BY <2>2, <3>1, <3>2 DEF IsRead
    <2>7. QED  BY <2>2, <2>4, <2>5, <2>6 DEF Inv
  <1>3. QED  BY <1>1, <1>2

LEMMA PeekTokenInv == Inv /\ PeekToken => Inv'
  <1> SUFFICES ASSUME Inv, PeekToken PROVE Inv'
    OBVIOUS
  <1>1. PICK t : t = GetToken /\ nextToken' = t.token /\ lexer' = t.s
    BY DEF PeekToken
  <1>2. UNCHANGED <<text, curToken, errCnt, status>> /\ nextTokenValid' = TRUE
    BY DEF PeekToken
  <1>3. /\ Synced(t.s) /\ t.s.line >= lexer.line
        /\ t.token.kind \in TokenKinds \ {"LineNumber"} /\ t.token.line \in 1 .. t.s.line
    BY <1>1, GetTokenIs DEF Inv
  <1>4. Ready(lexer)'
    BY <1>1, <1>2, <1>3, StillSynced
  <1>5. IsRead(nextToken)'
    BY <1>1, <1>3 DEF IsRead
  <1>6. IsRead(curToken)'
    <2>1. PICK n : n = curToken
      OBVIOUS
    <2>2. IsRead(n)'
      BY <1>1, <1>3, <2>1, StillRead DEF Inv
    <2>3. QED  BY <1>2, <2>1, <2>2 DEF IsRead
  <1>7. QED  BY <1>2, <1>4, <1>5, <1>6 DEF Inv

(* What is left of the text when an error message has cut it behind the    *)
(* character at p.                                                         *)

CutAt(p) ==
  /\ text' \in Seq(STRING) /\ Len(text') = p /\ p < Len(text)
  /\ \A k \in 1 .. p : text'[k] = text[k]

LEMMA CutEnds ==
  ASSUME text \in Seq(STRING), NEW p \in Nat, CutAt(p), NEW q \in Nat, q <= p
  PROVE  Ends(q)' = Ends(q)
  <1>1. /\ Len(text) \in Nat /\ p < Len(text) /\ Len(text') = p
        /\ \A k \in 1 .. p : text'[k] = text[k]
    BY DEF CutAt
  <1>2. {k \in 1 .. Len(text') : k <= q /\ text'[k] = NL}
        = {k \in 1 .. Len(text) : k <= q /\ text[k] = NL}
    BY <1>1
  <1>3. QED  BY <1>2 DEF Ends

LEMMA CutSynced ==
  ASSUME text \in Seq(STRING), NEW p \in Nat, CutAt(p), NEW s, Synced(s), s.pos <= p
  PROVE  Synced(s)'
  <1>1. /\ s \in LexerState /\ s.valid \in 1 .. 2 /\ s.valid <= s.pos
        /\ s.cur = CharAt(At(s)) /\ (s.valid = 2 => s.next = CharAt(At(s) + 1))
        /\ s.line = 1 + Cardinality(Ends(s.pos)) /\ s.pos \in Nat
        /\ At(s) = s.pos - s.valid + 1
    BY SyncedIs DEF Synced
  <1>2. /\ At(s) \in 1 .. s.pos
        /\ s.valid = 2 => At(s) + 1 \in 1 .. s.pos
    BY <1>1
  <1>3. Len(text) \in Nat /\ p < Len(text) /\ Len(text') = p
    BY DEF CutAt
  <1>4. ASSUME NEW i \in 1 .. s.pos PROVE CharAt(i)' = CharAt(i)
    <2>1. i <= Len(text) /\ i <= Len(text') /\ i \in 1 .. p
      BY <1>1, <1>3
    <2>2. text'[i] = text[i]
      BY <2>1 DEF CutAt
    <2>3. QED  BY <2>1, <2>2 DEF CharAt
  <1>5. Ends(s.pos)' = Ends(s.pos)
    <2>1. PICK q \in Nat : q = s.pos
      BY <1>1
    <2>2. Ends(q)' = Ends(q)
      BY <2>1, CutEnds
    <2>3. QED  BY <2>1, <2>2 DEF Ends
  <1>6. s.cur = CharAt(At(s))'
    <2>1. PICK i : i = At(s)
      OBVIOUS
    <2>2. CharAt(i)' = CharAt(i)
      BY <1>2, <1>4, <2>1
    <2>3. QED  BY <1>1, <2>1, <2>2 DEF CharAt, At
  <1>7. s.valid = 2 => s.next = CharAt(At(s) + 1)'
    <2>1. PICK i : i = At(s) + 1
      OBVIOUS
    <2>2. s.valid = 2 => CharAt(i)' = CharAt(i)
      BY <1>2, <1>4, <2>1
    <2>3. QED  BY <1>1, <2>1, <2>2 DEF CharAt, At
  <1>8. s.pos <= Len(text') + 1
    BY <1>1, <1>3
  <1>9. QED  BY <1>1, <1>5, <1>6, <1>7, <1>8 DEF Synced

(* What an error message does to the text: a part of it goes that the      *)
(* lexer has not got.                                                      *)
LEMMA CutIs ==
  ASSUME Inv, PrintError
  PROVE  \/ UNCHANGED text
         \/ /\ curToken.line # 0 /\ ~Terminated(curToken.line) /\ lexer.pos < Len(text)
            /\ lexer.pos \in Nat
            /\ text' \in Seq(STRING) /\ Len(text') = lexer.pos
            /\ \A k \in 1 .. lexer.pos : text'[k] = text[k]
  <1>1. PICK p : p = lexer.pos
    OBVIOUS
  <1>2. text \in Seq(STRING) /\ p \in Nat /\ Len(text) \in Nat
    BY <1>1, ReadyIs DEF Inv
  <1>3. \/ UNCHANGED text
        \/ /\ curToken.line # 0 /\ ~Terminated(curToken.line) /\ p <= Len(text)
           /\ text' = SubSeq(text, 1, p)
    BY <1>1 DEF PrintError, PrintSource
  <1>4. ASSUME p <= Len(text), text' = SubSeq(text, 1, p)
        PROVE  /\ text' \in Seq(STRING) /\ Len(text') = p
               /\ \A k \in 1 .. p : text'[k] = text[k]
               /\ p = Len(text) => text' = text
    <2>1. /\ SubSeq(text, 1, p) \in Seq(STRING) /\ Len(SubSeq(text, 1, p)) = p
          /\ \A k \in 1 .. p : SubSeq(text, 1, p)[k] = text[k]
      BY <1>2, <1>4, SubSeqProperties
    <2>2. p = Len(text) => SubSeq(text, 1, p) = text
      BY <1>2, <2>1, SeqEqual
    <2>3. QED  BY <1>4, <2>1, <2>2
  <1>5. CASE UNCHANGED text
    BY <1>5
  <1>6. CASE /\ curToken.line # 0 /\ ~Terminated(curToken.line) /\ p <= Len(text)
             /\ text' = SubSeq(text, 1, p)
    <2>1. p = Len(text) \/ p < Len(text)
      BY <1>2, <1>6
    <2>2. QED  BY <1>1, <1>2, <1>4, <1>6, <2>1
  <1>7. QED  BY <1>3, <1>5, <1>6

LEMMA PrintErrorInv == Inv /\ PrintError => Inv'
  <1> SUFFICES ASSUME Inv, PrintError PROVE Inv'
    OBVIOUS
  <1>1. /\ UNCHANGED <<lexer, curToken, nextToken, nextTokenValid>>
        /\ errCnt <= MaxErrors /\ errCnt' = errCnt + 1
        /\ status' = "quit" \/ status' = status
    BY DEF PrintError
  <1>2. errCnt' \in 0 .. MaxErrors + 1
    <2>1. MaxErrors \in Nat
      BY LexerAssumption
    <2>2. QED  BY <1>1, <2>1 DEF Inv
  <1>3. IsRead(curToken)' /\ IsRead(nextToken)'
    BY <1>1 DEF Inv, IsRead
  <1>4. text' \in Seq(STRING)
    BY CutIs DEF Inv
  <1>5. Ready(lexer)'
    <2>1. CASE Fresh(lexer)
      <3>1. Fresh(lexer)'
        BY <1>1, <2>1 DEF Fresh
      <3>2. QED  BY <3>1 DEF Ready
    <2>2. CASE Synced(lexer) /\ UNCHANGED text
      BY <1>1, <2>2, StillSynced
    <2>3. CASE Synced(lexer) /\ CutAt(lexer.pos) /\ lexer.pos \in Nat
      <3>1. PICK s, p : s = lexer /\ p = lexer.pos
        OBVIOUS
      <3>2. Synced(s)'
        <4>1. p \in Nat /\ p <= p /\ CutAt(p) /\ Synced(s) /\ s.pos = p
          BY <2>3, <3>1
        <4>2. QED  BY <4>1, CutSynced DEF Inv
      <3>3. lexer' = s
        BY <1>1, <3>1
      <3>4. QED  BY <3>2, <3>3 DEF Ready, Synced
    <2>4. QED  BY <2>1, <2>2, <2>3, CutIs DEF Inv, Ready, CutAt
  <1>6. nextTokenValid' \in BOOLEAN /\ status' \in {"running", "quit"}
    BY <1>1 DEF Inv
  <1>7. QED  BY <1>2, <1>3, <1>4, <1>5, <1>6 DEF Inv

LEMMA SpecInv == Spec => []Inv
  <1>1. Inv /\ UNCHANGED vars => Inv'
    BY DEF vars, Inv, IsRead, Ready, Fresh, Synced, CharAt, Ends, At
  <1>2. Inv /\ [Next]_vars => Inv'
    BY <1>1, NextTokenInv, PeekTokenInv, PrintErrorInv DEF Next
  <1>3. QED  BY InitInv, <1>2, PTL DEF Spec

-----------------------------------------------------------------------------
(* Every variable has its type: the lexer is no more than one character    *)
(* ahead, and has got no more than the text and its end; a token is of a   *)
(* line of the text.                                                       *)
THEOREM LexerKeepsItsTypes == Spec => []TypeOK
  <1>1. Spec => []Inv
    BY SpecInv
  <1>2. QED  BY <1>1, InvHasTypes, PTL

(* Whatever the parser asks of the lexer, a token uses up characters of    *)
(* the text, or it is the end of the file, or a character that begins      *)
(* nothing and is never passed: no other call leaves the parser where it   *)
(* was.                                                                    *)
THEOREM EveryTokenAdvances == Spec => TokensAdvance
  <1>1. ASSUME Inv, [Next]_vars
        PROVE  [LET scanned == IF nextTokenValid' THEN nextToken' ELSE curToken'
                IN  \/ At(lexer') > At(lexer)
                    \/ scanned.kind = "EndOfFile"
                    \/ scanned.kind = "Unknown" /\ Foreign(lexer'.cur)]_lexer
    <2>1. CASE NextToken /\ ~nextTokenValid
      <3>1. PICK t : t = GetToken /\ curToken' = t.token /\ lexer' = t.s
        BY <2>1 DEF NextToken
      <3>2. nextTokenValid' = FALSE
        BY <2>1 DEF NextToken
      <3>3. \/ At(t.s) > At(lexer)
            \/ t.token.kind = "EndOfFile"
            \/ t.token.kind = "Unknown" /\ Foreign(t.s.cur)
        BY <1>1, <3>1, GetTokenIs DEF Inv
      <3>4. QED  BY <3>1, <3>2, <3>3
    <2>2. CASE PeekToken
      <3>1. PICK t : t = GetToken /\ nextToken' = t.token /\ lexer' = t.s
        BY <2>2 DEF PeekToken
      <3>2. nextTokenValid' = TRUE
        BY <2>2 DEF PeekToken
      <3>3. \/ At(t.s) > At(lexer)
            \/ t.token.kind = "EndOfFile"
            \/ t.token.kind = "Unknown" /\ Foreign(t.s.cur)
        BY <1>1, <3>1, GetTokenIs DEF Inv
      <3>4. QED  BY <3>1, <3>2, <3>3
    <2>3. CASE UNCHANGED lexer
      BY <2>3
    <2>4. QED  BY <1>1, <2>1, <2>2, <2>3 DEF Next, NextToken, PrintError, vars
  <1>2. QED  BY <1>1, SpecInv, PTL DEF Spec, TokensAdvance

(* An error message loses nothing of a text whose last line is ended: it   *)
(* cuts the text only when it looks for an end that its line does not      *)
(* have, and no line behind it has one either.                             *)
THEOREM MessagesLoseNothing == Spec => ErrorsLoseNothing
  <1>1. ASSUME Inv, [Next]_vars
        PROVE  [text # <<>> => text[Len(text)] # NL]_text
    <2>1. CASE UNCHANGED text
      BY <2>1
    <2>2. CASE ~UNCHANGED text
      <3>1. PrintError
        BY <1>1, <2>2 DEF Next, NextToken, PeekToken, vars
      <3>2. PICK p \in Nat : /\ p = lexer.pos /\ curToken.line # 0
                             /\ ~Terminated(curToken.line) /\ p < Len(text)
        BY <1>1, <2>2, <3>1, CutIs
      <3>3. text \in Seq(STRING) /\ lexer.line = 1 + Cardinality(Ends(p)) /\ lexer.line \in Nat
        BY <1>1, <3>2, ReadyIs DEF Inv
      <3>4. curToken.line \in 1 .. lexer.line
        BY <1>1, <3>2 DEF Inv, IsRead, NoToken
      <3>5. PICK n \in Nat : n = Len(text)
        BY <3>3
      <3>6. IsFiniteSet(Ends(n)) /\ Cardinality(Ends(n)) \in Nat
        BY <3>3, <3>5, EndsAre
      <3>7. Ends(n) = {k \in 1 .. Len(text) : text[k] = NL}
        BY <3>5 DEF Ends
      <3>8. Cardinality(Ends(n)) < curToken.line
        <4>1. ~(Cardinality({k \in 1 .. Len(text) : text[k] = NL}) >= curToken.line)
          BY <3>2 DEF Terminated
        <4>2. ~(Cardinality(Ends(n)) >= curToken.line)
          BY <3>7, <4>1
        <4>3. QED  BY <3>3, <3>4, <3>6, <4>2
      <3>9. IsFiniteSet(Ends(p)) /\ Cardinality(Ends(p)) \in Nat
        BY <3>3, EndsAre
      <3>10. Cardinality(Ends(n)) <= Cardinality(Ends(p))
        BY <3>3, <3>4, <3>6, <3>8, <3>9
      <3>11. Ends(p) \subseteq Ends(n)
        BY <3>5 DEF Ends
      <3>12. Ends(p) = Ends(n)
        BY <3>6, <3>9, <3>10, <3>11, FS_Subset
      <3>13. n \in 1 .. Len(text) /\ n \notin Ends(p)
        BY <3>2, <3>5 DEF Ends
      <3>14. text[n] # NL
        BY <3>5, <3>7, <3>12, <3>13
      <3>15. QED  BY <3>5, <3>14
    <2>3. QED  BY <2>1, <2>2
  <1>2. QED  BY <1>1, SpecInv, PTL DEF Spec, ErrorsLoseNothing

=============================================================================
